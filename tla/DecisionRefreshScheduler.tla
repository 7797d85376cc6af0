---------------------- MODULE DecisionRefreshScheduler ----------------------
(***************************************************************************)
(* Refresh schedulers of the slow loop (src/orchestration/                  *)
(* decision_refresh_scheduler.py) sharing one decision store.  An owner is  *)
(* one scheduler process; it may stop at any point and be started again     *)
(* with an empty memory.  Between two store transactions of a tick, and     *)
(* while its runner is awaited, time passes and the other owners act.       *)
(***************************************************************************)
EXTENDS ActiveDecisionStore, MarketSession, TLAPS

CONSTANTS
    Owner,
    Slot, SlotAt,       \* slots and their offset in the day
    Grace, Lease,
    MaxTime,            \* bound on the clock
    MaxFaults           \* bound on stops, calendar errors and sink errors

VARIABLES
    clock,
    pc,         \* where the owner is in _tick and _run_slot
    now,        \* the instant the owner last read
    todo,       \* slots the current loop has still to handle
    work,       \* the slot it runs or is about to run
    token,      \* its reservation
    cand,       \* what its runner returned
    ending,     \* the state complete_slot is to record
    runs,       \* history: runner calls for a slot
    faults

ownerVars == <<pc, now, todo, work, token, cand, ending>>
vars == <<storeVars, ownerVars, clock, runs, faults>>

At(k) == k[1] * DayLength + SlotAt[k[2]]

KeysOf(date) == {k \in SlotKey : k[1] = date}

ASSUME SchedulerConstants ==
    /\ SlotKey = (0..DateOf(MaxTime)) \X Slot
    /\ SlotAt \in [Slot -> 0..(DayLength - 1)]
    /\ MaxTime \in Nat /\ Grace \in Nat /\ Lease \in Nat \ {0} /\ MaxFaults \in Nat

NoCand == NoVersion

Working == {"running", "publish", "complete"}

Pc == {"ended", "idle", "reconcile", "missed", "closed", "reserve", "dangling"} \cup Working

Init ==
    /\ StoreInit
    /\ clock = 0
    /\ pc = [o \in Owner |-> "ended"]
    /\ now = [o \in Owner |-> 0]
    /\ todo = [o \in Owner |-> {}]
    /\ work = [o \in Owner |-> NoSlot]
    /\ token = [o \in Owner |-> NoToken]
    /\ cand = [o \in Owner |-> NoCand]
    /\ ending = [o \in Owner |-> "FAILED"]
    /\ runs = [k \in SlotKey |-> 0]
    /\ faults = 0

-----------------------------------------------------------------------------
(* Control.  An owner that has left a tick, or ended, forgets its locals.    *)

Goto(o, where, t, ks, k, tok, c, end) ==
    /\ pc' = [pc EXCEPT ![o] = where]
    /\ now' = [now EXCEPT ![o] = t]
    /\ todo' = [todo EXCEPT ![o] = ks]
    /\ work' = [work EXCEPT ![o] = k]
    /\ token' = [token EXCEPT ![o] = tok]
    /\ cand' = [cand EXCEPT ![o] = c]
    /\ ending' = [ending EXCEPT ![o] = end]

Leave(o, where) == Goto(o, where, 0, {}, NoSlot, NoToken, NoCand, "FAILED")

Fault == faults < MaxFaults /\ faults' = faults + 1

(* The end of a tick that recorded evidence: the sink may raise, and the     *)
(* scheduler ends FAILED_CLOSED.                                            *)
LeaveRecorded(o) ==
    \/ Leave(o, "idle") /\ UNCHANGED faults
    \/ Leave(o, "ended") /\ Fault

(* The loops over slots: stay for the rest, then go on.                      *)
InLoop(o, rest, next) ==
    IF rest # {} THEN Goto(o, pc[o], now[o], rest, work[o], NoToken, NoCand, "FAILED")
    ELSE next

(* Evidence recorded inside a loop.                                         *)
LoopRecorded(o, recorded, rest, next) ==
    \/ InLoop(o, rest, next) /\ UNCHANGED faults
    \/ recorded /\ Leave(o, "ended") /\ Fault

-----------------------------------------------------------------------------
(* _tick: the clock and the calendar are read, and the dangling slots of    *)
(* the day are listed.  PRE_OPEN, UNKNOWN and a non-trading day do nothing. *)
TickActs(t) ==
    \/ SessionAt(t) = "OPEN"
    \/ SessionAt(t) \in {"POST_CLOSE", "CLOSED"} /\ IsTradingDay(DateOf(t))

BeginTick(o) ==
    /\ pc[o] = "idle"
    /\ TickActs(clock)
    /\ Goto(o, "reconcile", clock, ExpiredReservations(KeysOf(DateOf(clock)), clock),
            NoSlot, NoToken, NoCand, "FAILED")
    /\ UNCHANGED <<storeVars, clock, runs, faults>>

(* _reconcile_dangling *)
ReconcileDangling(o) ==
    /\ pc[o] = "reconcile"
    /\ \E k \in todo[o] :
          /\ ReconcileExpiredReservation(k, now[o])
          /\ \/ /\ Goto(o, "reconcile", now[o], todo[o] \ {k}, NoSlot, NoToken, NoCand, "FAILED")
                /\ UNCHANGED faults
             \/ MayReconcile(k, now[o]) /\ Leave(o, "ended") /\ Fault
    /\ UNCHANGED <<clock, runs>>

(* slot_states, then _due_slots: what is already in the journal is consumed. *)
Unconsumed(date) == {k \in KeysOf(date) : ~Consumed(k)}

IsLatest(k, ks) == k \in ks /\ \A j \in ks : At(j) <= At(k)

Earliest(ks) == CHOOSE k \in ks : \A j \in ks : At(k) <= At(j)

Stale(k, t) == t - At(k) > Grace

Start(o, where, ks, k) ==
    Goto(o, where, now[o], ks, k, NoToken, NoCand, "FAILED")

(* _tick_open: only the most recent due slot is run, within its grace; the  *)
(* others are missed.                                                       *)
TickOpen(o) ==
    LET due == {k \in Unconsumed(DateOf(now[o])) : At(k) <= now[o]} IN
    /\ pc[o] = "reconcile" /\ todo[o] = {}
    /\ SessionAt(now[o]) = "OPEN"
    /\ \/ due = {} /\ Leave(o, "idle")
       \/ \E last \in due :
             /\ IsLatest(last, due)
             /\ IF Stale(last, now[o]) THEN Start(o, "missed", due, NoSlot)
                ELSE IF due = {last} THEN Start(o, "reserve", {}, last)
                ELSE Start(o, "missed", due \ {last}, last)
    /\ UNCHANGED <<storeVars, clock, runs, faults>>

(* _mark_session_closed: every slot of the day that is left.                 *)
TickClosed(o) ==
    LET left == Unconsumed(DateOf(now[o])) IN
    /\ pc[o] = "reconcile" /\ todo[o] = {}
    /\ SessionAt(now[o]) # "OPEN"
    /\ IF left = {} THEN Leave(o, "idle") ELSE Start(o, "closed", left, NoSlot)
    /\ UNCHANGED <<storeVars, clock, runs, faults>>

(* One turn of the loop over the missed slots.                               *)
MarkMissed(o) ==
    LET k == Earliest(todo[o]) IN
    /\ pc[o] = "missed"
    /\ MarkUnreservedTerminal(k, "MISSED")
    /\ LoopRecorded(o, ~Consumed(k), todo[o] \ {k},
          IF work[o] = NoSlot THEN Leave(o, "idle") ELSE Start(o, "reserve", {}, work[o]))
    /\ UNCHANGED <<clock, runs>>

MarkSessionClosed(o) ==
    LET k == Earliest(todo[o]) IN
    /\ pc[o] = "closed"
    /\ MarkUnreservedTerminal(k, "MISSED_SESSION_CLOSED")
    /\ LoopRecorded(o, ~Consumed(k), todo[o] \ {k}, Leave(o, "idle"))
    /\ UNCHANGED <<clock, runs>>

-----------------------------------------------------------------------------
(* _run_slot, up to the await of the runner.                                 *)
Reserve(o) ==
    LET k == work[o] IN
    /\ pc[o] = "reserve"
    /\ CASE ReservationStatus(k, now[o]) = "RESERVED" ->
              /\ ReserveSlot(k, now[o], Lease)
              /\ runs' = [runs EXCEPT ![k] = @ + 1]
              /\ Goto(o, "running", now[o], {}, k, minted + 1, NoCand, "FAILED")
         [] ReservationStatus(k, now[o]) = "DANGLING_RESERVED" ->
              Start(o, "dangling", {}, k) /\ UNCHANGED <<storeVars, runs>>
         [] OTHER -> Leave(o, "idle") /\ UNCHANGED <<storeVars, runs>>
    /\ UNCHANGED <<clock, faults>>

(* _reconcile_one *)
ReconcileOne(o) ==
    /\ pc[o] = "dangling"
    /\ ReconcileExpiredReservation(work[o], now[o])
    /\ IF MayReconcile(work[o], now[o]) THEN LeaveRecorded(o)
       ELSE Leave(o, "idle") /\ UNCHANGED faults
    /\ UNCHANGED <<clock, runs>>

(* The runner raises: the slot is to be FAILED.                              *)
RunnerFails(o) ==
    /\ pc[o] = "running"
    /\ Goto(o, "complete", clock, {}, work[o], token[o], NoCand, "FAILED")
    /\ UNCHANGED <<storeVars, clock, runs, faults>>

(* The runner returns: clock and session are read again, and a candidate    *)
(* that comes after the close is not published.                             *)
RunnerReturns(o, c) ==
    /\ pc[o] = "running"
    /\ IF SessionAt(clock) = "OPEN"
       THEN Goto(o, "publish", clock, {}, work[o], token[o], c, "FAILED")
       ELSE Goto(o, "complete", clock, {}, work[o], token[o], NoCand, "MISSED_SESSION_CLOSED")
    /\ UNCHANGED <<storeVars, clock, runs, faults>>

(* The publication; an owner that lost its reservation ends FAILED_CLOSED,   *)
(* sink or no sink.                                                         *)
PublishSlot(o) ==
    /\ pc[o] = "publish"
    /\ PublishReservedSlot(cand[o], now[o], work[o], token[o])
    /\ IF ReservationHeld(work[o], token[o], now[o]) THEN LeaveRecorded(o)
       ELSE Leave(o, "ended") /\ UNCHANGED faults
    /\ UNCHANGED <<clock, runs>>

(* publish_reserved_slot raises and is rolled back.                          *)
PublishRaises(o) ==
    /\ pc[o] = "publish"
    /\ Goto(o, "complete", now[o], {}, work[o], token[o], NoCand, "FAILED")
    /\ UNCHANGED <<storeVars, clock, runs, faults>>

(* _complete_failure and _complete_outside_session *)
Complete(o) ==
    /\ pc[o] = "complete"
    /\ CompleteSlot(work[o], token[o], ending[o])
    /\ IF MayComplete(work[o], token[o]) THEN LeaveRecorded(o)
       ELSE Leave(o, "ended") /\ UNCHANGED faults
    /\ UNCHANGED <<clock, runs>>

-----------------------------------------------------------------------------
(* The calendar raises, at the start of a tick or after the runner: the      *)
(* scheduler ends FAILED_CLOSED and leaves its slot RESERVED.               *)
CalendarError(o) ==
    /\ pc[o] \in {"idle", "running"}
    /\ Leave(o, "ended")
    /\ Fault
    /\ UNCHANGED <<storeVars, clock, runs>>

(* The process is cancelled or dies, anywhere.                               *)
Stop(o) ==
    /\ pc[o] # "ended"
    /\ Leave(o, "ended")
    /\ Fault
    /\ UNCHANGED <<storeVars, clock, runs>>

Run(o) ==
    /\ pc[o] = "ended"
    /\ Leave(o, "idle")
    /\ UNCHANGED <<storeVars, clock, runs, faults>>

Advance ==
    /\ clock < MaxTime
    /\ clock' = clock + 1
    /\ UNCHANGED <<storeVars, ownerVars, runs, faults>>

(* A publication that belongs to no slot, by another process on the store.   *)
PublishDirect(c) ==
    /\ Publish(c, clock)
    /\ UNCHANGED <<ownerVars, clock, runs, faults>>

OwnerStep(o) ==
    \/ BeginTick(o) \/ ReconcileDangling(o) \/ TickOpen(o) \/ TickClosed(o)
    \/ MarkMissed(o) \/ MarkSessionClosed(o)
    \/ Reserve(o) \/ ReconcileOne(o)
    \/ RunnerFails(o) \/ (\E c \in Candidate : RunnerReturns(o, c))
    \/ PublishSlot(o) \/ PublishRaises(o) \/ Complete(o)

Next ==
    \/ \E o \in Owner : OwnerStep(o) \/ CalendarError(o) \/ Stop(o) \/ Run(o)
    \/ Advance
    \/ \E c \in Candidate : PublishDirect(c)

Spec == Init /\ [][Next]_vars

(* A started scheduler ticks, its runner returns, time passes, and a         *)
(* scheduler that ended is started again.                                   *)
FairSpec ==
    /\ Spec
    /\ \A o \in Owner : WF_vars(OwnerStep(o)) /\ WF_vars(Run(o))
    /\ WF_vars(Advance)

-----------------------------------------------------------------------------
(* Every variable is well typed; a working owner holds a token of a slot.    *)
TypeOK ==
    /\ pointer \in versions \cup {NoVersion}
    /\ \A v \in versions : v.cand \in Candidate /\ v.publishedAt \in 0..MaxTime
    /\ \A k \in SlotKey : Consumed(k) => slots[k].state \in TerminalSlot \cup {"RESERVED"}
    /\ clock \in 0..MaxTime /\ faults \in 0..MaxFaults
    /\ \A o \in Owner :
          /\ pc[o] \in Pc /\ now[o] \in 0..clock /\ todo[o] \subseteq SlotKey
          /\ pc[o] \in Working => work[o] \in SlotKey /\ token[o] \in 1..minted

(* A slot is run at most once, whoever restarts and however leases expire    *)
(* (decision_refresh_scheduler.py:13).                                       *)
RunOnce == \A k \in SlotKey : runs[k] <= 1

(* A slot's final state is final: no late runner, reconciliation or stale    *)
(* owner rewrites what the journal says of it.                              *)
TerminalSlotFinal ==
    \A k \in SlotKey : Consumed(k) /\ ~IsReserved(k) => slots'[k] = slots[k]

(* A working owner keeps its reservation as long as its lease is valid; only *)
(* a reconciliation after the lease, and nothing else, takes it away.        *)
LeaseProtects ==
    \A o \in Owner : pc[o] \in Working =>
        /\ slots[work[o]].token = token[o]
        /\ \/ IsReserved(work[o])
           \/ slots[work[o]].state = "UNCERTAIN" /\ slots[work[o]].lease <= clock

(* Publication and slot are one transaction: a version made for a slot       *)
(* leaves it PUBLISHED with that version, so an UNCERTAIN, FAILED or missed   *)
(* slot has moved no pointer; a PUBLISHED slot names a version.             *)
SlotTellsPublication ==
    /\ \A v \in versions : v.by # NoSlot =>
          slots[v.by].state = "PUBLISHED" /\ slots[v.by].publication = v
    /\ \A k \in SlotKey : Consumed(k) /\ slots[k].state = "PUBLISHED" =>
          slots[k].publication \in versions

(* A refresh is published in an open session, under a valid lease, with a    *)
(* decision that has not expired.                                           *)
PublishedInTime ==
    \A v \in versions : v.by # NoSlot =>
        /\ SessionAt(v.publishedAt) = "OPEN"
        /\ v.publishedAt < slots[v.by].lease
        /\ v.publishedAt < v.cand.expiresAt

(* Whatever stops and restarts, and however late a runner comes back: a slot *)
(* is run once; a valid lease protects its holder; publication and slot row  *)
(* are one transaction; a refresh is published in time                       *)
(* (DecisionRefreshScheduler._run_slot over the slot journal).               *)
RefreshKeepsItsSlots ==
    TypeOK /\ RunOnce /\ LeaseProtects /\ SlotTellsPublication /\ PublishedInTime

(* After every step the active decision is the newest one ever published,    *)
(* and no late runner, reconciliation or stale owner rewrites a slot that    *)
(* has its final state (publish_reserved_slot, complete_slot,                *)
(* reconcile_expired_reservation).                                           *)
JournalOnlyMovesForward == [][PointerIsNewest' /\ TerminalSlotFinal]_vars


(* What the policy says of slots left over (decision_refresh_scheduler.py:17): *)
(* they are recorded as missed once the session of a trading day has ended.   *)
MissedAfterSession ==
    \A k \in SlotKey : Consumed(k) /\ slots[k].state = "MISSED_SESSION_CLOSED" =>
        clock >= k[1] * DayLength + Schedule[k[1]].close

-----------------------------------------------------------------------------
(* The store under every operation.                                         *)

StoreTypeOK ==
    /\ versions \subseteq VersionRecord /\ pointer \in versions \cup {NoVersion}
    /\ slots \in [SlotKey -> SlotRecord \cup {NoRow}]
    /\ minted \in Nat

(* The row of the slot a version was made for names it, and gave it time.     *)
RowNames(v) ==
    v.by # NoSlot =>
        /\ Consumed(v.by) /\ slots[v.by].state = "PUBLISHED" /\ slots[v.by].publication = v
        /\ v.publishedAt < slots[v.by].lease /\ v.publishedAt < v.cand.expiresAt

VersionsAccounted ==
    /\ \A v \in versions : RowNames(v)
    /\ \A k \in SlotKey : Consumed(k) /\ slots[k].state = "PUBLISHED" => slots[k].publication \in versions
    /\ PointerIsNewest

(* What every operation does to the journal: a row once written keeps its     *)
(* token and lease, and changes only while it is RESERVED.                   *)
JournalMoves ==
    \A k \in SlotKey : Consumed(k) =>
        /\ Consumed(k)'
        /\ slots'[k].token = slots[k].token /\ slots'[k].lease = slots[k].lease
        /\ ~IsReserved(k) => slots'[k] = slots[k]

(* Outside K a reservation is kept, or lost to a lease that expired by T.     *)
ReservationsKept(K, T) ==
    \A k \in SlotKey \ K : IsReserved(k) =>
        \/ slots'[k].state = "RESERVED"
        \/ slots'[k].state = "UNCERTAIN" /\ slots'[k].lease <= T

StoreStep(K, T) ==
    /\ StoreTypeOK' /\ VersionsAccounted'
    /\ JournalMoves /\ ReservationsKept(K, T)
    /\ minted <= minted'

(* A step that leaves the store alone is a step of the store.                *)
LEMMA StoreUnchanged ==
    ASSUME StoreTypeOK, VersionsAccounted, NEW T, UNCHANGED storeVars
    PROVE  StoreStep({}, T)
BY DEF StoreStep, StoreTypeOK, VersionsAccounted, RowNames, PointerIsNewest, JournalMoves, ReservationsKept,
       storeVars, Consumed, IsReserved

(* One row is written that was free or RESERVED, without publishing.         *)
LEMMA RowWritten ==
    ASSUME StoreTypeOK, VersionsAccounted, NEW T,
           NEW k \in SlotKey, NEW row \in SlotRecord,
           slots' = [slots EXCEPT ![k] = row],
           row.state # "PUBLISHED",
           Consumed(k) => IsReserved(k) /\ row.token = slots[k].token /\ row.lease = slots[k].lease,
           UNCHANGED pointer, UNCHANGED versions, minted' \in Nat, minted <= minted'
    PROVE  /\ StoreStep({k}, T)
           /\ ~Consumed(k) \/ (row.state = "UNCERTAIN" /\ row.lease <= T) => StoreStep({}, T)
<1>1. /\ \A j \in SlotKey : slots'[j] = IF j = k THEN row ELSE slots[j]
      /\ row # NoRow
  BY RecordConstants DEF StoreTypeOK
<1>2. StoreTypeOK'
  BY DEF StoreTypeOK
<1>3. JournalMoves
  BY <1>1 DEF JournalMoves, Consumed
<1>4. VersionsAccounted'
  <2>1. \A v \in versions : v.by # NoSlot => v.by \in SlotKey /\ v.by # k
    BY DEF StoreTypeOK, VersionRecord, VersionsAccounted, RowNames, IsReserved
  <2>2. PointerIsNewest'
    BY DEF VersionsAccounted, PointerIsNewest
  <2>3. \A j \in SlotKey : (Consumed(j) /\ slots[j].state = "PUBLISHED")' => slots'[j].publication \in versions'
    BY <1>1 DEF VersionsAccounted, Consumed
  <2> QED BY <1>1, <2>1, <2>2, <2>3 DEF VersionsAccounted, RowNames, Consumed
<1>5. ReservationsKept({k}, T)
  BY <1>1 DEF ReservationsKept, IsReserved
<1>6. ~Consumed(k) \/ (row.state = "UNCERTAIN" /\ row.lease <= T) => ReservationsKept({}, T)
  BY <1>1 DEF ReservationsKept, IsReserved
<1> QED BY <1>2, <1>3, <1>4, <1>5, <1>6 DEF StoreStep

(* mark_unreserved_terminal consumes a free slot and touches no other row.   *)
LEMMA MarkIsStoreStep ==
    ASSUME StoreTypeOK, VersionsAccounted, NEW T,
           NEW k, NEW state \in TerminalSlot \ {"PUBLISHED"}, MarkUnreservedTerminal(k, state)
    PROVE  StoreStep({}, T)
<1>1. CASE slots' = slots
  BY <1>1, StoreUnchanged DEF MarkUnreservedTerminal, storeVars
<1>2. CASE ~Consumed(k) /\ k \in SlotKey
  <2>1. Missed(state) \in SlotRecord /\ Missed(state).state = state
    BY DEF Missed, SlotRecord
  <2>2. /\ slots' = [slots EXCEPT ![k] = Missed(state)] /\ state # "PUBLISHED"
        /\ UNCHANGED pointer /\ UNCHANGED versions /\ minted' \in Nat /\ minted <= minted'
    BY <1>2 DEF MarkUnreservedTerminal, StoreTypeOK
  <2> QED BY <1>2, <2>1, <2>2, RowWritten
<1> QED BY <1>1, <1>2 DEF MarkUnreservedTerminal, StoreTypeOK

(* reconcile_expired_reservation takes only expired reservations.            *)
LEMMA ReconcileIsStoreStep ==
    ASSUME StoreTypeOK, VersionsAccounted, NEW T,
           T \in Nat, NEW k \in SlotKey, NEW t \in Nat, t <= T, ReconcileExpiredReservation(k, t)
    PROVE  StoreStep({}, T)
<1>1. CASE ~MayReconcile(k, t)
  BY <1>1, StoreUnchanged DEF ReconcileExpiredReservation, storeVars
<1>2. CASE MayReconcile(k, t)
  <2> DEFINE row == [slots[k] EXCEPT !.state = "UNCERTAIN"]
  <2>1. slots[k] \in SlotRecord
    BY <1>2 DEF MayReconcile, IsReserved, Consumed, StoreTypeOK
  <2>2. /\ row \in SlotRecord /\ row.state = "UNCERTAIN"
        /\ row.token = slots[k].token /\ row.lease = slots[k].lease
    BY <2>1 DEF SlotRecord, TerminalSlot
  <2>3. row.lease <= T
    BY <1>2, <2>1, <2>2 DEF MayReconcile, LeaseExpired, SlotRecord
  <2>4. /\ slots' = [slots EXCEPT ![k] = row] /\ IsReserved(k)
        /\ UNCHANGED pointer /\ UNCHANGED versions /\ minted' \in Nat /\ minted <= minted'
    BY <1>2 DEF ReconcileExpiredReservation, MayReconcile, StoreTypeOK
  <2> HIDE DEF row
  <2> QED BY <2>2, <2>3, <2>4, RowWritten
<1> QED BY <1>1, <1>2

(* complete_slot touches only the row whose token it was given.              *)
LEMMA CompleteIsStoreStep ==
    ASSUME StoreTypeOK, VersionsAccounted, NEW T,
           NEW k \in SlotKey, NEW tok, NEW state \in TerminalSlot \ {"PUBLISHED"}, CompleteSlot(k, tok, state)
    PROVE  StoreStep({k}, T)
<1>1. CASE ~MayComplete(k, tok)
  BY <1>1, StoreUnchanged DEF CompleteSlot, storeVars, StoreStep, ReservationsKept
<1>2. CASE MayComplete(k, tok)
  <2> DEFINE row == Finished(slots[k], state, NoVersion)
  <2>1. slots[k] \in SlotRecord
    BY <1>2 DEF MayComplete, IsReserved, Consumed, StoreTypeOK
  <2>2. /\ row \in SlotRecord /\ row.state = state
        /\ row.token = slots[k].token /\ row.lease = slots[k].lease
    BY <2>1 DEF SlotRecord, Finished
  <2>3. /\ slots' = [slots EXCEPT ![k] = row] /\ IsReserved(k) /\ state # "PUBLISHED"
        /\ UNCHANGED pointer /\ UNCHANGED versions /\ minted' \in Nat /\ minted <= minted'
    BY <1>2 DEF CompleteSlot, MayComplete, StoreTypeOK
  <2> HIDE DEF row
  <2> QED BY <2>2, <2>3, RowWritten
<1> QED BY <1>1, <1>2

(* reserve_slot writes a free row under a token never issued before.         *)
LEMMA ReserveIsStoreStep ==
    ASSUME StoreTypeOK, VersionsAccounted, NEW T,
           NEW k \in SlotKey, NEW t \in Nat, NEW lease \in Nat, ~Consumed(k), ReserveSlot(k, t, lease)
    PROVE  /\ StoreStep({}, T)
           /\ minted' = minted + 1
           /\ slots' = [slots EXCEPT ![k] = Reserved(minted + 1, t + lease)]
<1> DEFINE row == Reserved(minted + 1, t + lease)
<1>1. row \in SlotRecord /\ row.state # "PUBLISHED"
  BY DEF Reserved, SlotRecord, StoreTypeOK
<1>2. /\ slots' = [slots EXCEPT ![k] = row]
      /\ UNCHANGED pointer /\ UNCHANGED versions /\ minted' = minted + 1
  BY DEF ReserveSlot
<1>3. minted' \in Nat /\ minted <= minted'
  BY <1>2 DEF StoreTypeOK
<1> HIDE DEF row
<1>4. StoreStep({}, T)
  BY <1>1, <1>2, <1>3, RowWritten
<1> QED BY <1>2, <1>4 DEF row

(* A publication moves the pointer only to a strictly newer decision.        *)
LEMMA PublicationIsNewest ==
    ASSUME StoreTypeOK, VersionsAccounted,
           NEW c \in Candidate, NEW t \in Nat, NEW k \in SlotKey \cup {NoSlot}, PublishDecision(c, t, k)
    PROVE  PointerIsNewest'
<1>1. CASE PublicationStatus(c, t) # "PUBLISHED"
  BY <1>1 DEF PublishDecision, VersionsAccounted, PointerIsNewest
<1>2. CASE PublicationStatus(c, t) = "PUBLISHED"
  <2> DEFINE v == Version(c, t, k)
  <2>1. v.cand = c /\ versions' = versions \cup {v} /\ pointer' = v
    BY <1>2 DEF PublishDecision, Version
  <2>2. pointer # NoVersion => pointer.cand.createdAt < c.createdAt
    <3>1. pointer # NoVersion => pointer.cand.createdAt \in Nat
      BY RecordConstants DEF StoreTypeOK, VersionRecord
    <3> QED BY <1>2, <3>1, RecordConstants DEF PublicationStatus
  <2>3. \A w \in versions : w.cand.createdAt \in Nat
    BY RecordConstants DEF StoreTypeOK, VersionRecord
  <2>4. \A w \in versions : w.cand.createdAt < c.createdAt
    <3> SUFFICES ASSUME NEW w \in versions PROVE w.cand.createdAt < c.createdAt
      OBVIOUS
    <3>1. pointer # NoVersion /\ (w = pointer \/ w.cand.createdAt < pointer.cand.createdAt)
      BY DEF VersionsAccounted, PointerIsNewest
    <3>2. pointer \in versions /\ c.createdAt \in Nat
      BY <3>1, RecordConstants DEF StoreTypeOK
    <3> QED BY <2>2, <2>3, <3>1, <3>2
  <2>5. v # NoVersion
    BY RecordConstants DEF Version, VersionRecord
  <2> HIDE DEF v
  <2> QED BY <2>1, <2>4, <2>5 DEF PointerIsNewest
<1> QED BY <1>1, <1>2

(* A publication without a slot leaves the journal as it is.                 *)
LEMMA PublishIsStoreStep ==
    ASSUME StoreTypeOK, VersionsAccounted, NEW T, NEW c \in Candidate, NEW t \in Nat, Publish(c, t)
    PROVE  StoreStep({}, T) /\ versions' \subseteq versions \cup {Version(c, t, NoSlot)}
<1> DEFINE v == Version(c, t, NoSlot)
<1>1. v \in VersionRecord /\ v.by = NoSlot /\ v.publishedAt = t
  BY DEF Version, VersionRecord
<1>2. PublishDecision(c, t, NoSlot) /\ UNCHANGED slots /\ UNCHANGED minted
  BY DEF Publish
<1>3. PointerIsNewest'
  BY <1>2, PublicationIsNewest
<1>4. \/ versions' = versions \cup {v} /\ pointer' = v
      \/ UNCHANGED versions /\ UNCHANGED pointer
  BY <1>2 DEF PublishDecision
<1> HIDE DEF v
<1>5. StoreTypeOK'
  BY <1>1, <1>2, <1>4 DEF StoreTypeOK
<1>6. VersionsAccounted'
  BY <1>1, <1>2, <1>3, <1>4 DEF VersionsAccounted, RowNames, Consumed
<1>7. JournalMoves /\ ReservationsKept({}, T) /\ minted <= minted'
  BY <1>2 DEF JournalMoves, ReservationsKept, Consumed, IsReserved, StoreTypeOK
<1> QED BY <1>4, <1>5, <1>6, <1>7 DEF StoreStep, v

(* What the verdict on a candidate, and the publication it names, imply.      *)
LEMMA StatusFacts ==
    ASSUME NEW c \in Candidate, NEW t \in Nat
    PROVE  /\ PublicationStatus(c, t) = "PUBLISHED" => t < c.expiresAt
           /\ PublicationStatus(c, t) = "IDEMPOTENT" => pointer # NoVersion
BY RecordConstants DEF PublicationStatus

LEMMA ResultFacts ==
    ASSUME NEW c, NEW t, NEW k
    PROVE  /\ ResultPublication(c, t, k) \in {Version(c, t, k), pointer, NoVersion}
           /\ PublicationStatus(c, t) = "PUBLISHED" => ResultPublication(c, t, k) = Version(c, t, k)
           /\ PublicationStatus(c, t) = "IDEMPOTENT" => ResultPublication(c, t, k) = pointer
BY DEF ResultPublication

(* A finished row is the row with its end recorded.                          *)
LEMMA FinishedRow ==
    ASSUME NEW row \in SlotRecord, NEW state \in TerminalSlot, NEW pub \in VersionRecord \cup {NoVersion}
    PROVE  /\ Finished(row, state, pub) \in SlotRecord
           /\ Finished(row, state, pub).state = state /\ Finished(row, state, pub).publication = pub
           /\ Finished(row, state, pub).token = row.token /\ Finished(row, state, pub).lease = row.lease
BY DEF Finished, SlotRecord

(* publish_reserved_slot finishes a held row and, when it publishes, inserts  *)
(* the very version the row names.                                           *)
LEMMA PublishReservedIsStoreStep ==
    ASSUME StoreTypeOK, VersionsAccounted, NEW T,
           NEW c \in Candidate, NEW t \in Nat,
           NEW k \in SlotKey, NEW tok, PublishReservedSlot(c, t, k, tok)
    PROVE  StoreStep({k}, T) /\ versions' \subseteq versions \cup {Version(c, t, k)}
<1>1. CASE ~ReservationHeld(k, tok, t)
  BY <1>1, StoreUnchanged DEF PublishReservedSlot, storeVars, StoreStep, ReservationsKept
<1>2. CASE ReservationHeld(k, tok, t)
  <2> DEFINE v == Version(c, t, k)
             new == PublicationStatus(c, t) = "PUBLISHED"
             state == IF PublicationStatus(c, t) \in {"PUBLISHED", "IDEMPOTENT"} THEN "PUBLISHED" ELSE "FAILED"
  <2>1. slots[k] \in SlotRecord /\ IsReserved(k) /\ t < slots[k].lease
    BY <1>2 DEF ReservationHeld, IsReserved, Consumed, StoreTypeOK, SlotRecord
  <2>2. /\ v \in VersionRecord /\ v.by = k /\ v.publishedAt = t /\ v.cand = c
        /\ pointer \in VersionRecord \cup {NoVersion}
    BY DEF Version, VersionRecord, StoreTypeOK
  <2>3. IF new THEN versions' = versions \cup {v} /\ pointer' = v
        ELSE UNCHANGED versions /\ UNCHANGED pointer
    BY <1>2 DEF PublishReservedSlot, PublishDecision
  <2>4. PICK pub \in {v, pointer, NoVersion} :
          /\ pub = ResultPublication(c, t, k)
          /\ new => pub = v
          /\ PublicationStatus(c, t) = "IDEMPOTENT" => pub = pointer
    BY ResultFacts
  <2>5. PICK row \in SlotRecord :
          /\ row = Finished(slots[k], state, pub)
          /\ row.state = state /\ row.publication = pub
          /\ row.token = slots[k].token /\ row.lease = slots[k].lease
    <3>1. state \in TerminalSlot /\ pub \in VersionRecord \cup {NoVersion}
      BY <2>2, <2>4 DEF TerminalSlot
    <3> HIDE DEF state
    <3> QED BY <2>1, <3>1, FinishedRow
  <2>6. slots' = [slots EXCEPT ![k] = row]
    BY <1>2, <2>4, <2>5 DEF PublishReservedSlot, StoreTypeOK
  <2>7. UNCHANGED minted /\ PointerIsNewest'
    BY <1>2, PublicationIsNewest DEF PublishReservedSlot
  <2>8. /\ new => t < c.expiresAt /\ row.state = "PUBLISHED"
        /\ PublicationStatus(c, t) = "IDEMPOTENT" => pointer # NoVersion
        /\ row.state = "PUBLISHED" => new \/ PublicationStatus(c, t) = "IDEMPOTENT"
    BY <2>5, StatusFacts
  <2>9. /\ \A j \in SlotKey : slots'[j] = IF j = k THEN row ELSE slots[j]
        /\ row # NoRow
    BY <2>6, RecordConstants DEF StoreTypeOK
  <2> HIDE DEF v, new, state
  <2>10. StoreTypeOK'
    BY <2>2, <2>3, <2>6, <2>7 DEF StoreTypeOK
  <2>11. VersionsAccounted'
    <3>1. \A w \in versions : w.by # NoSlot => w.by \in SlotKey /\ w.by # k
      BY <2>1 DEF StoreTypeOK, VersionRecord, VersionsAccounted, RowNames, IsReserved
    <3>2. \A w \in versions : RowNames(w)'
      BY <2>9, <3>1 DEF VersionsAccounted, RowNames, Consumed
    <3>3. ASSUME new PROVE RowNames(v)'
      <4>1. PICK w : w = v
        OBVIOUS
      <4>2. RowNames(w)'
        BY <2>1, <2>2, <2>4, <2>5, <2>8, <2>9, <3>3, <4>1 DEF RowNames, Consumed
      <4> QED BY <4>1, <4>2 DEF v, Version
    <3>4. \A j \in SlotKey : (Consumed(j) /\ slots[j].state = "PUBLISHED")' => slots'[j].publication \in versions'
      <4>1. row.state = "PUBLISHED" => row.publication \in versions'
        BY <2>3, <2>4, <2>5, <2>8 DEF StoreTypeOK
      <4> QED BY <2>3, <2>9, <4>1 DEF VersionsAccounted, Consumed
    <3> QED BY <2>3, <2>7, <3>2, <3>3, <3>4 DEF VersionsAccounted
  <2>12. JournalMoves /\ ReservationsKept({k}, T) /\ minted <= minted'
    BY <2>1, <2>5, <2>7, <2>9 DEF JournalMoves, ReservationsKept, Consumed, IsReserved, StoreTypeOK
  <2> QED BY <2>3, <2>10, <2>11, <2>12 DEF StoreStep, v
<1> QED BY <1>1, <1>2

-----------------------------------------------------------------------------
(* The inductive invariant: versions and slot rows agree, a version was made  *)
(* in an open session, and only a consumed row was run; an owner at work holds its row under a token of its  *)
(* own, and one about to publish read an open session.                       *)
VersionsTimely ==
    \A v \in versions : v.publishedAt <= clock /\ (v.by # NoSlot => SessionAt(v.publishedAt) = "OPEN")

RunsAccounted ==
    /\ runs \in [SlotKey -> Nat]
    /\ \A k \in SlotKey : runs[k] <= 1 /\ (~Consumed(k) => runs[k] = 0)

OwnerTypeOK ==
    /\ clock \in 0..MaxTime /\ faults \in 0..MaxFaults
    /\ pc \in [Owner -> Pc] /\ now \in [Owner -> Nat] /\ todo \in [Owner -> SUBSET SlotKey]
    /\ work \in [Owner -> SlotKey \cup {NoSlot}] /\ token \in [Owner -> Nat \cup {NoToken}]
    /\ cand \in [Owner -> Candidate \cup {NoCand}] /\ ending \in [Owner -> TerminalSlot \ {"PUBLISHED"}]

HoldsSlot(o) ==
    /\ now[o] <= clock
    /\ pc[o] \in {"reserve", "dangling"} => work[o] \in SlotKey
    /\ pc[o] \in Working =>
          /\ work[o] \in SlotKey /\ token[o] \in Nat \ {0} /\ token[o] <= minted
          /\ Consumed(work[o]) /\ slots[work[o]].token = token[o]
          /\ \/ slots[work[o]].state = "RESERVED"
             \/ slots[work[o]].state = "UNCERTAIN" /\ slots[work[o]].lease <= clock
    /\ pc[o] = "publish" => cand[o] \in Candidate /\ SessionAt(now[o]) = "OPEN"

DistinctTokens ==
    \A o, q \in Owner : pc[o] \in Working /\ pc[q] \in Working /\ token[o] = token[q] => o = q

SchedulerInv ==
    /\ StoreTypeOK /\ VersionsAccounted /\ VersionsTimely /\ RunsAccounted
    /\ OwnerTypeOK /\ (\A o \in Owner : HoldsSlot(o)) /\ DistinctTokens

(* A step of the store at this instant.                                      *)
TimelyStep(K) == StoreStep(K, clock) /\ VersionsTimely'

-----------------------------------------------------------------------------
(* The owners' moves.                                                        *)

(* An owner that stands still keeps its row, unless the step touches it.      *)
LEMMA HolderKept ==
    ASSUME SchedulerInv, NEW q \in Owner, clock' \in Nat, clock <= clock',
           NEW K, TimelyStep(K), pc[q] \in Working => work[q] \notin K,
           pc'[q] = pc[q], now'[q] = now[q], work'[q] = work[q], token'[q] = token[q], cand'[q] = cand[q]
    PROVE  HoldsSlot(q)'
<1>0. HoldsSlot(q) /\ clock \in Nat /\ now[q] \in Nat
  BY DEF SchedulerInv, OwnerTypeOK
<1>1. now'[q] <= clock' /\ (pc'[q] \in {"reserve", "dangling"} => work'[q] \in SlotKey)
  <2>1. now[q] <= clock /\ (pc[q] \in {"reserve", "dangling"} => work[q] \in SlotKey)
    BY <1>0, Zenon DEF HoldsSlot
  <2>2. now'[q] <= clock'
    BY <1>0, <2>1
  <2> QED BY <2>1, <2>2, Zenon
<1>2. pc'[q] = "publish" => cand'[q] \in Candidate /\ SessionAt(now'[q]) = "OPEN"
  BY <1>0, Zenon DEF HoldsSlot
<1>3. CASE pc[q] \in Working
  <2>0. PICK j \in SlotKey : j = work[q]
    BY <1>0, <1>3, Zenon DEF HoldsSlot
  <2>1. /\ j \notin K /\ token[q] \in Nat \ {0} /\ token[q] <= minted
        /\ Consumed(j) /\ slots[j].token = token[q]
        /\ slots[j].state = "RESERVED" \/ (slots[j].state = "UNCERTAIN" /\ slots[j].lease <= clock)
    BY <1>0, <1>3, <2>0, Zenon DEF HoldsSlot
  <2>2. /\ Consumed(j)' /\ slots'[j].token = token[q] /\ slots'[j].lease = slots[j].lease
        /\ slots[j].lease \in Nat
    <3>1. slots[j] \in SlotRecord
      BY <2>1, Zenon DEF SchedulerInv, StoreTypeOK, Consumed
    <3> QED BY <2>1, <3>1, Zenon DEF TimelyStep, StoreStep, JournalMoves, SlotRecord
  <2>3. slots'[j].state = "RESERVED" \/ (slots'[j].state = "UNCERTAIN" /\ slots'[j].lease <= clock')
    <3>1. CASE IsReserved(j)
      BY <1>0, <2>1, <2>2, <3>1 DEF TimelyStep, StoreStep, ReservationsKept
    <3>2. CASE ~IsReserved(j)
      <4>1. slots'[j] = slots[j]
        BY <2>1, <3>2, Zenon DEF TimelyStep, StoreStep, JournalMoves
      <4> QED BY <1>0, <2>1, <2>2, <3>2, <4>1 DEF IsReserved
    <3> QED BY <3>1, <3>2, Zenon
  <2>4. token[q] <= minted'
    BY <2>1 DEF TimelyStep, StoreStep, StoreTypeOK, SchedulerInv
  <2> QED BY <1>1, <1>2, <2>0, <2>1, <2>2, <2>3, <2>4, Zenon DEF HoldsSlot, Consumed
<1> QED BY <1>1, <1>2, <1>3, Zenon DEF HoldsSlot

(* An owner moves and the others stand still: they still hold their rows,     *)
(* when the step touches none of them, and no two owners get the same token.  *)
LEMMA MoveKeeps ==
    ASSUME SchedulerInv, NEW o \in Owner,
           UNCHANGED clock, faults' \in 0..MaxFaults, RunsAccounted',
           NEW K, TimelyStep(K), \A q \in Owner \ {o} : pc[q] \in Working => work[q] \notin K,
           NEW where \in Pc, NEW t \in Nat, NEW ks \in SUBSET SlotKey, NEW k \in SlotKey \cup {NoSlot},
           NEW tok \in Nat \cup {NoToken}, NEW c \in Candidate \cup {NoCand},
           NEW end \in TerminalSlot \ {"PUBLISHED"},
           Goto(o, where, t, ks, k, tok, c, end),
           HoldsSlot(o)',
           where \in Working => \A q \in Owner \ {o} : pc[q] \in Working => token[q] # tok
    PROVE  SchedulerInv'
<1>1. \A q \in Owner \ {o} : /\ pc'[q] = pc[q] /\ now'[q] = now[q] /\ work'[q] = work[q]
                             /\ token'[q] = token[q] /\ cand'[q] = cand[q]
  BY Zenon DEF Goto, SchedulerInv, OwnerTypeOK
<1>2. pc'[o] = where /\ token'[o] = tok
  BY Zenon DEF Goto, SchedulerInv, OwnerTypeOK
<1>3. OwnerTypeOK'
  BY Zenon DEF Goto, SchedulerInv, OwnerTypeOK
<1>4. clock' \in Nat /\ clock <= clock'
  BY DEF SchedulerInv, OwnerTypeOK
<1>5. \A q \in Owner : HoldsSlot(q)'
  BY <1>1, <1>4, HolderKept, Zenon
<1>6. DistinctTokens'
  BY <1>1, <1>2, Zenon DEF DistinctTokens, SchedulerInv
<1> QED BY <1>3, <1>5, <1>6, Zenon DEF SchedulerInv, TimelyStep, StoreStep

(* Versions stay timely as long as none is added.                            *)
LEMMA TimelyKept ==
    ASSUME SchedulerInv, NEW K, StoreStep(K, clock), versions' \subseteq versions, UNCHANGED clock
    PROVE  TimelyStep(K)
BY Zenon DEF TimelyStep, VersionsTimely, SchedulerInv

LEMMA TimelyUnchanged ==
    ASSUME SchedulerInv, UNCHANGED storeVars, UNCHANGED clock
    PROVE  TimelyStep({}) /\ JournalMoves
<1>1. StoreStep({}, clock) /\ versions' = versions
  BY StoreUnchanged, Zenon DEF SchedulerInv, storeVars
<1>2. JournalMoves
  BY <1>1, Zenon DEF StoreStep
<1> QED BY <1>1, <1>2, TimelyKept, Zenon

(* A step of the store that calls no runner keeps the account of runs.       *)
LEMMA RunsKept ==
    ASSUME RunsAccounted, JournalMoves, UNCHANGED runs
    PROVE  RunsAccounted'
BY Zenon DEF RunsAccounted, JournalMoves, Consumed

(* An owner that leaves its tick forgets its locals.                         *)
LEMMA LeaveKeeps ==
    ASSUME SchedulerInv, NEW o \in Owner, UNCHANGED clock, UNCHANGED runs, faults' \in 0..MaxFaults,
           NEW K, TimelyStep(K), \A q \in Owner \ {o} : pc[q] \in Working => work[q] \notin K,
           NEW where \in {"idle", "ended"}, Leave(o, where)
    PROVE  SchedulerInv'
<1>1. where \in Pc /\ where \notin Working
  BY Zenon DEF Pc, Working
<1>2. HoldsSlot(o)'
  <2>1. pc'[o] = where /\ now'[o] = 0
    BY Zenon DEF Leave, Goto, SchedulerInv, OwnerTypeOK
  <2> QED BY <1>1, <2>1 DEF HoldsSlot, SchedulerInv, OwnerTypeOK
<1>3. RunsAccounted'
  BY RunsKept, Zenon DEF SchedulerInv, TimelyStep, StoreStep
<1>4. NoCand \in Candidate \cup {NoCand} /\ "FAILED" \in TerminalSlot \ {"PUBLISHED"}
  BY Zenon DEF TerminalSlot
<1>5. Goto(o, where, 0, {}, NoSlot, NoToken, NoCand, "FAILED")
  BY Zenon DEF Leave
<1> QED BY <1>1, <1>2, <1>3, <1>4, <1>5, MoveKeeps, Zenon

(* A move within a tick, holding nothing.                                    *)
LEMMA QuietMoveKeeps ==
    ASSUME SchedulerInv, NEW o \in Owner, UNCHANGED clock, UNCHANGED runs, faults' \in 0..MaxFaults,
           TimelyStep({}), NEW where \in Pc \ Working, NEW t \in Nat, t <= clock,
           NEW ks \in SUBSET SlotKey, NEW k \in SlotKey \cup {NoSlot},
           where \in {"reserve", "dangling"} => k \in SlotKey,
           Goto(o, where, t, ks, k, NoToken, NoCand, "FAILED")
    PROVE  SchedulerInv'
<1>1. HoldsSlot(o)'
  <2>1. pc'[o] = where /\ now'[o] = t /\ work'[o] = k
    BY Zenon DEF Goto, SchedulerInv, OwnerTypeOK
  <2>2. where # "publish"
    BY Zenon DEF Working
  <2> QED BY <2>1, <2>2, Zenon DEF HoldsSlot
<1>2. RunsAccounted'
  BY RunsKept, Zenon DEF SchedulerInv, TimelyStep, StoreStep
<1>3. NoCand \in Candidate \cup {NoCand} /\ "FAILED" \in TerminalSlot \ {"PUBLISHED"}
  BY Zenon DEF TerminalSlot
<1> QED BY <1>1, <1>2, <1>3, MoveKeeps, Zenon

(* A move of an owner that keeps its reservation.                            *)
LEMMA WorkMoveKeeps ==
    ASSUME SchedulerInv, NEW o \in Owner, UNCHANGED <<storeVars, clock, runs, faults>>,
           pc[o] \in Working, NEW where \in Working, NEW t \in Nat, t <= clock,
           NEW c \in Candidate \cup {NoCand}, NEW end \in TerminalSlot \ {"PUBLISHED"},
           where = "publish" => c \in Candidate /\ SessionAt(t) = "OPEN",
           Goto(o, where, t, {}, work[o], token[o], c, end)
    PROVE  SchedulerInv'
<1>1. TimelyStep({}) /\ JournalMoves
  <2>1. UNCHANGED storeVars /\ UNCHANGED clock
    OBVIOUS
  <2> QED BY <2>1, TimelyUnchanged, Zenon
<1>2. HoldsSlot(o)'
  <2>1. pc'[o] = where /\ now'[o] = t /\ work'[o] = work[o] /\ token'[o] = token[o] /\ cand'[o] = c
    BY Zenon DEF Goto, SchedulerInv, OwnerTypeOK
  <2>2. HoldsSlot(o)
    BY Zenon DEF SchedulerInv
  <2>3. where \notin {"reserve", "dangling"}
    BY Zenon DEF Working
  <2> QED BY <2>1, <2>2, <2>3, Zenon DEF HoldsSlot, Consumed, storeVars
<1>3. RunsAccounted'
  BY <1>1, RunsKept, Zenon DEF SchedulerInv, TimelyStep, StoreStep
<1>4. /\ where \in Pc /\ faults' \in 0..MaxFaults
      /\ work[o] \in SlotKey \cup {NoSlot} /\ token[o] \in Nat \cup {NoToken}
  BY Zenon DEF Pc, SchedulerInv, OwnerTypeOK
<1>5. \A q \in Owner \ {o} : pc[q] \in Working => token[q] # token[o]
  BY Zenon DEF SchedulerInv, DistinctTokens
<1> QED BY <1>1, <1>2, <1>3, <1>4, <1>5, MoveKeeps, Zenon

(* Working owners hold different rows.                                       *)
LEMMA RowsApart ==
    ASSUME SchedulerInv, NEW o \in Owner, pc[o] \in Working
    PROVE  \A q \in Owner \ {o} : pc[q] \in Working => work[q] \notin {work[o]}
BY Zenon DEF SchedulerInv, HoldsSlot, DistinctTokens

-----------------------------------------------------------------------------
(* One lemma per action, or per group of actions alike.                      *)

(* The tick's steps that only read the store.                                *)
LEMMA ReadingKeeps ==
    ASSUME SchedulerInv, NEW o \in Owner, BeginTick(o) \/ TickOpen(o) \/ TickClosed(o)
    PROVE  SchedulerInv' /\ JournalMoves
<1>1. UNCHANGED storeVars /\ UNCHANGED clock /\ UNCHANGED runs /\ UNCHANGED faults
  BY Zenon DEF BeginTick, TickOpen, TickClosed
<1>2. TimelyStep({}) /\ JournalMoves
  BY <1>1, TimelyUnchanged, Zenon
<1>3. /\ faults' \in 0..MaxFaults /\ clock \in Nat
      /\ now[o] \in Nat /\ now[o] <= clock
      /\ {"reconcile", "missed", "closed", "reserve"} \subseteq Pc \ Working
  BY <1>1 DEF SchedulerInv, OwnerTypeOK, HoldsSlot, Pc, Working
<1>4. CASE BeginTick(o)
  <2>1. ExpiredReservations(KeysOf(DateOf(clock)), clock) \in SUBSET SlotKey
    BY Zenon DEF ExpiredReservations, KeysOf
  <2>2. Goto(o, "reconcile", clock, ExpiredReservations(KeysOf(DateOf(clock)), clock),
             NoSlot, NoToken, NoCand, "FAILED")
    BY <1>4, Zenon DEF BeginTick
  <2>3. clock <= clock
    BY <1>3
  <2> QED BY <1>1, <1>2, <1>3, <2>1, <2>2, <2>3, QuietMoveKeeps, Zenon
<1>5. CASE Leave(o, "idle")
  BY <1>1, <1>2, <1>3, <1>5, LeaveKeeps, Zenon
<1>6. CASE \E where \in {"missed", "closed", "reserve"}, ks \in SUBSET SlotKey, k \in SlotKey \cup {NoSlot} :
              Start(o, where, ks, k) /\ (where = "reserve" => k \in SlotKey)
  <2>1. PICK where \in {"missed", "closed", "reserve"}, ks \in SUBSET SlotKey, k \in SlotKey \cup {NoSlot} :
              Start(o, where, ks, k) /\ (where = "reserve" => k \in SlotKey)
    BY <1>6, Zenon
  <2>2. Goto(o, where, now[o], ks, k, NoToken, NoCand, "FAILED")
    BY <2>1, Zenon DEF Start
  <2>3. where \in Pc \ Working /\ where # "dangling"
    BY <1>3, Zenon
  <2> QED BY <1>1, <1>2, <1>3, <2>1, <2>2, <2>3, QuietMoveKeeps, Zenon
<1>7. CASE TickOpen(o)
  <2> DEFINE due == {k \in Unconsumed(DateOf(now[o])) : At(k) <= now[o]}
  <2>1. due \in SUBSET SlotKey
    BY Zenon DEF Unconsumed, KeysOf
  <2>2. \/ Leave(o, "idle")
        \/ \E last \in due : \/ Start(o, "missed", due, NoSlot) \/ Start(o, "reserve", {}, last)
                             \/ Start(o, "missed", due \ {last}, last)
    BY <1>7, Zenon DEF TickOpen
  <2> HIDE DEF due
  <2>3. ASSUME NEW last \in due
        PROVE  /\ last \in SlotKey /\ due \ {last} \in SUBSET SlotKey
               /\ {"missed", "reserve"} \subseteq {"missed", "closed", "reserve"}
    BY <2>1, Zenon
  <2>4. CASE \E last \in due : Start(o, "missed", due, NoSlot) \/ Start(o, "missed", due \ {last}, last)
    BY <1>6, <2>1, <2>3, <2>4, Zenon
  <2>5. CASE \E last \in due : Start(o, "reserve", {}, last)
    BY <1>6, <2>3, <2>5, Zenon
  <2> QED BY <1>5, <2>2, <2>4, <2>5, Zenon
<1>8. CASE TickClosed(o)
  <2>1. Unconsumed(DateOf(now[o])) \in SUBSET SlotKey
    BY Zenon DEF Unconsumed, KeysOf
  <2> QED BY <1>5, <1>6, <1>8, <2>1, Zenon DEF TickClosed
<1> QED BY <1>4, <1>7, <1>8, Zenon

(* The sink's failure is counted.                                            *)
LEMMA FaultTyped ==
    ASSUME SchedulerInv, UNCHANGED faults \/ Fault
    PROVE  faults' \in 0..MaxFaults
BY SchedulerConstants DEF Fault, SchedulerInv, OwnerTypeOK

(* Reconciling the rows of a tick, or the one found dangling.                *)
LEMMA ReconcilingKeeps ==
    ASSUME SchedulerInv, NEW o \in Owner, ReconcileDangling(o) \/ ReconcileOne(o)
    PROVE  SchedulerInv' /\ JournalMoves
<1>1. UNCHANGED clock /\ UNCHANGED runs
  BY Zenon DEF ReconcileDangling, ReconcileOne
<1>2. clock \in Nat /\ now[o] \in Nat /\ now[o] <= clock /\ todo[o] \in SUBSET SlotKey
  BY DEF SchedulerInv, OwnerTypeOK, HoldsSlot
<1>3. ASSUME NEW k \in SlotKey, ReconcileExpiredReservation(k, now[o]) PROVE TimelyStep({}) /\ JournalMoves
  <2>1. StoreStep({}, clock)
    BY <1>2, <1>3, ReconcileIsStoreStep, Zenon DEF SchedulerInv
  <2>2. UNCHANGED versions
    BY <1>3, Zenon DEF ReconcileExpiredReservation
  <2> QED BY <1>1, <2>1, <2>2, TimelyKept, Zenon DEF StoreStep
<1>4. CASE ReconcileDangling(o)
  <2>1. PICK k \in todo[o] :
          /\ ReconcileExpiredReservation(k, now[o])
          /\ \/ /\ Goto(o, "reconcile", now[o], todo[o] \ {k}, NoSlot, NoToken, NoCand, "FAILED")
                /\ UNCHANGED faults
             \/ Leave(o, "ended") /\ Fault
    BY <1>4, Zenon DEF ReconcileDangling
  <2>2. TimelyStep({}) /\ JournalMoves /\ faults' \in 0..MaxFaults
    BY <1>2, <1>3, <2>1, FaultTyped, Zenon
  <2>3. todo[o] \ {k} \in SUBSET SlotKey /\ "reconcile" \in Pc \ Working
    BY <1>2, Zenon DEF Pc, Working
  <2>4. CASE Leave(o, "ended")
    BY <1>1, <2>2, <2>4, LeaveKeeps, Zenon
  <2>5. CASE Goto(o, "reconcile", now[o], todo[o] \ {k}, NoSlot, NoToken, NoCand, "FAILED")
    BY <1>1, <1>2, <2>2, <2>3, <2>5, QuietMoveKeeps, Zenon
  <2> QED BY <2>1, <2>4, <2>5, Zenon
<1>5. CASE ReconcileOne(o)
  <2>1. work[o] \in SlotKey
    BY <1>5, Zenon DEF ReconcileOne, SchedulerInv, HoldsSlot
  <2>2. /\ ReconcileExpiredReservation(work[o], now[o])
        /\ Leave(o, "idle") \/ Leave(o, "ended")
        /\ UNCHANGED faults \/ Fault
    BY <1>5, Zenon DEF ReconcileOne, LeaveRecorded
  <2>3. TimelyStep({}) /\ JournalMoves /\ faults' \in 0..MaxFaults
    BY <1>3, <2>1, <2>2, FaultTyped, Zenon
  <2> QED BY <1>1, <2>2, <2>3, LeaveKeeps, Zenon
<1> QED BY <1>4, <1>5, Zenon

(* The loops that mark slots as missed.                                      *)
LEMMA MarkingKeeps ==
    ASSUME SchedulerInv, NEW o \in Owner, MarkMissed(o) \/ MarkSessionClosed(o)
    PROVE  SchedulerInv' /\ JournalMoves
<1>1. UNCHANGED clock /\ UNCHANGED runs
  BY Zenon DEF MarkMissed, MarkSessionClosed
<1>2. /\ clock \in Nat /\ now[o] \in Nat /\ now[o] <= clock /\ todo[o] \in SUBSET SlotKey
      /\ work[o] \in SlotKey \cup {NoSlot}
  BY DEF SchedulerInv, OwnerTypeOK, HoldsSlot
<1>3. TimelyStep({}) /\ JournalMoves
  <2>1. \E state \in {"MISSED", "MISSED_SESSION_CLOSED"} : MarkUnreservedTerminal(Earliest(todo[o]), state)
    BY Zenon DEF MarkMissed, MarkSessionClosed
  <2>2. {"MISSED", "MISSED_SESSION_CLOSED"} \subseteq TerminalSlot \ {"PUBLISHED"}
    BY Zenon DEF TerminalSlot
  <2>3. StoreStep({}, clock)
    BY <2>1, <2>2, MarkIsStoreStep, Zenon DEF SchedulerInv
  <2>4. UNCHANGED versions
    BY <2>1, Zenon DEF MarkUnreservedTerminal
  <2> QED BY <1>1, <2>3, <2>4, TimelyKept, Zenon DEF StoreStep
<1>4. /\ pc[o] \in {"missed", "closed"} /\ (UNCHANGED faults \/ Fault)
      /\ \/ Leave(o, "idle") \/ Leave(o, "ended")
         \/ work[o] # NoSlot /\ Start(o, "reserve", {}, work[o])
         \/ \E ks \in SUBSET SlotKey : Goto(o, pc[o], now[o], ks, work[o], NoToken, NoCand, "FAILED")
  <2>1. \A k : todo[o] \ {k} \in SUBSET SlotKey
    BY <1>2, Zenon
  <2>2. CASE MarkMissed(o)
    BY <2>1, <2>2, Zenon DEF MarkMissed, LoopRecorded, InLoop
  <2>3. CASE MarkSessionClosed(o)
    BY <2>1, <2>3, Zenon DEF MarkSessionClosed, LoopRecorded, InLoop
  <2> QED BY <2>2, <2>3, Zenon
<1>5. faults' \in 0..MaxFaults
  BY <1>4, FaultTyped, Zenon
<1>6. CASE Leave(o, "idle") \/ Leave(o, "ended")
  BY <1>1, <1>3, <1>5, <1>6, LeaveKeeps, Zenon
<1>7. {"missed", "closed", "reserve"} \subseteq Pc \ Working
  BY Zenon DEF Pc, Working
<1>8. CASE work[o] # NoSlot /\ Start(o, "reserve", {}, work[o])
  <2>1. Goto(o, "reserve", now[o], {}, work[o], NoToken, NoCand, "FAILED")
    BY <1>8, Zenon DEF Start
  <2> QED BY <1>1, <1>2, <1>3, <1>5, <1>7, <1>8, <2>1, QuietMoveKeeps, Zenon
<1>9. CASE \E ks \in SUBSET SlotKey : Goto(o, pc[o], now[o], ks, work[o], NoToken, NoCand, "FAILED")
  BY <1>1, <1>2, <1>3, <1>4, <1>5, <1>7, <1>9, QuietMoveKeeps, Zenon
<1> QED BY <1>4, <1>6, <1>8, <1>9, Zenon

(* A fresh token: no working owner has it.                                   *)
LEMMA FreshToken ==
    ASSUME SchedulerInv
    PROVE  minted + 1 \in Nat /\ \A q \in Owner : pc[q] \in Working => token[q] # minted + 1
BY DEF SchedulerInv, StoreTypeOK, HoldsSlot

(* _run_slot up to the runner: a free slot is reserved and run for the first  *)
(* time; any other is left.                                                  *)
LEMMA ReservingKeeps ==
    ASSUME SchedulerInv, NEW o \in Owner, Reserve(o)
    PROVE  SchedulerInv' /\ JournalMoves
<1>1. UNCHANGED clock /\ UNCHANGED faults /\ pc[o] = "reserve"
  BY Zenon DEF Reserve
<1>2. /\ clock \in Nat /\ now[o] \in Nat /\ now[o] <= clock /\ faults' \in 0..MaxFaults
      /\ pc[o] = "reserve" => work[o] \in SlotKey
  BY <1>1 DEF SchedulerInv, OwnerTypeOK, HoldsSlot
<1>3. PICK k \in SlotKey : k = work[o]
  BY <1>1, <1>2, Zenon
<1>4. CASE ReservationStatus(k, now[o]) = "RESERVED"
  <2>1. ~Consumed(k)
    BY <1>4, Zenon DEF ReservationStatus
  <2>2. /\ ReserveSlot(k, now[o], Lease) /\ runs' = [runs EXCEPT ![k] = @ + 1]
        /\ Goto(o, "running", now[o], {}, k, minted + 1, NoCand, "FAILED")
    BY <1>3, <1>4, Zenon DEF Reserve
  <2>3. /\ TimelyStep({}) /\ JournalMoves /\ minted' = minted + 1
        /\ slots' = [slots EXCEPT ![k] = Reserved(minted + 1, now[o] + Lease)]
    <3>1. /\ StoreStep({}, clock) /\ minted' = minted + 1
          /\ slots' = [slots EXCEPT ![k] = Reserved(minted + 1, now[o] + Lease)]
      <4>1. Lease \in Nat /\ StoreTypeOK /\ VersionsAccounted
        BY SchedulerConstants, Zenon DEF SchedulerInv
      <4> QED BY <1>2, <2>1, <2>2, <4>1, ReserveIsStoreStep, Zenon
    <3>2. UNCHANGED versions
      BY <2>2, Zenon DEF ReserveSlot
    <3> QED BY <1>1, <3>1, <3>2, TimelyKept, Zenon DEF StoreStep
  <2>4. slots'[k] = Reserved(minted + 1, now[o] + Lease) /\ Consumed(k)'
    <3>1. slots'[k] = Reserved(minted + 1, now[o] + Lease)
      BY <2>3, Zenon DEF SchedulerInv, StoreTypeOK
    <3>2. Reserved(minted + 1, now[o] + Lease) \in SlotRecord
      BY <1>2, SchedulerConstants DEF Reserved, SlotRecord, SchedulerInv, StoreTypeOK
    <3> QED BY <3>1, <3>2, RecordConstants, Zenon DEF Consumed
  <2>5. RunsAccounted'
    <3>1. \A j \in SlotKey : j # k => (~Consumed(j)' => ~Consumed(j))
      BY <2>3, Zenon DEF JournalMoves
    <3> QED BY <2>1, <2>2, <2>4, <3>1 DEF RunsAccounted, SchedulerInv
  <2>6. minted + 1 \in Nat /\ \A q \in Owner : pc[q] \in Working => token[q] # minted + 1
    BY FreshToken, Zenon
  <2>7. HoldsSlot(o)'
    <3>1. pc'[o] = "running" /\ now'[o] = now[o] /\ work'[o] = k /\ token'[o] = minted + 1
      BY <2>2, Zenon DEF Goto, SchedulerInv, OwnerTypeOK
    <3>2. slots'[k].token = minted + 1 /\ slots'[k].state = "RESERVED"
      BY <2>4 DEF Reserved
    <3>3. minted + 1 \in Nat \ {0} /\ minted + 1 <= minted'
      BY <2>3 DEF SchedulerInv, StoreTypeOK
    <3> QED BY <1>1, <1>2, <2>4, <3>1, <3>2, <3>3, Zenon DEF HoldsSlot, Consumed
  <2>8. /\ "running" \in Pc /\ NoCand \in Candidate \cup {NoCand}
        /\ "FAILED" \in TerminalSlot \ {"PUBLISHED"}
    BY Zenon DEF Pc, Working, TerminalSlot
  <2> QED BY <1>1, <1>2, <2>2, <2>3, <2>5, <2>6, <2>7, <2>8, MoveKeeps, Zenon
<1>5. CASE ReservationStatus(k, now[o]) # "RESERVED"
  <2>1. /\ UNCHANGED storeVars /\ UNCHANGED runs
        /\ Leave(o, "idle") \/ Start(o, "dangling", {}, k)
    BY <1>1, <1>3, <1>5, Zenon DEF Reserve
  <2>2. TimelyStep({}) /\ JournalMoves
    BY <1>1, <2>1, TimelyUnchanged, Zenon
  <2>3. CASE Leave(o, "idle")
    BY <1>1, <1>2, <2>1, <2>2, <2>3, LeaveKeeps, Zenon
  <2>4. CASE Start(o, "dangling", {}, k)
    <3>1. /\ Goto(o, "dangling", now[o], {}, k, NoToken, NoCand, "FAILED")
          /\ "dangling" \in Pc \ Working
      BY <2>4, Zenon DEF Start, Pc, Working
    <3> QED BY <1>1, <1>2, <2>1, <2>2, <3>1, QuietMoveKeeps, Zenon
  <2> QED BY <2>1, <2>3, <2>4, Zenon
<1> QED BY <1>4, <1>5, Zenon

(* The runner ends, or the publication is rolled back: the row stays held.    *)
LEMMA RunningKeeps ==
    ASSUME SchedulerInv, NEW o \in Owner,
           RunnerFails(o) \/ (\E c \in Candidate : RunnerReturns(o, c)) \/ PublishRaises(o)
    PROVE  SchedulerInv' /\ JournalMoves
<1>1. UNCHANGED <<storeVars, clock, runs, faults>> /\ pc[o] \in Working
  BY Zenon DEF RunnerFails, RunnerReturns, PublishRaises, Working
<1>2. JournalMoves
  <2>1. UNCHANGED storeVars /\ UNCHANGED clock
    BY <1>1, Zenon
  <2> QED BY <2>1, TimelyUnchanged, Zenon
<1>3. /\ clock \in Nat /\ clock <= clock /\ now[o] \in Nat /\ now[o] <= clock
      /\ {"publish", "complete"} \subseteq Working
      /\ {"FAILED", "MISSED_SESSION_CLOSED"} \subseteq TerminalSlot \ {"PUBLISHED"}
  <2>1. clock \in Nat /\ now[o] \in Nat /\ HoldsSlot(o)
    BY DEF SchedulerInv, OwnerTypeOK
  <2>2. clock <= clock /\ now[o] <= clock
    BY <2>1 DEF HoldsSlot
  <2>3. {"publish", "complete"} \subseteq Working
    BY Zenon DEF Working
  <2>4. {"FAILED", "MISSED_SESSION_CLOSED"} \subseteq TerminalSlot \ {"PUBLISHED"}
    BY Zenon DEF TerminalSlot
  <2> QED BY <2>1, <2>2, <2>3, <2>4, Zenon
<1>4. PICK where \in {"publish", "complete"}, t \in {clock, now[o]}, c \in Candidate \cup {NoCand},
           end \in {"FAILED", "MISSED_SESSION_CLOSED"} :
         /\ Goto(o, where, t, {}, work[o], token[o], c, end)
         /\ where = "publish" => c \in Candidate /\ SessionAt(t) = "OPEN"
  BY Zenon DEF RunnerFails, RunnerReturns, PublishRaises
<1>5. /\ where \in Working /\ t \in Nat /\ t <= clock /\ end \in TerminalSlot \ {"PUBLISHED"}
  BY <1>3, Zenon
<1> QED BY <1>1, <1>2, <1>4, <1>5, WorkMoveKeeps, Zenon

(* A working owner publishes or completes its row, and leaves.               *)
LEMMA FinishingKeeps ==
    ASSUME SchedulerInv, NEW o \in Owner, PublishSlot(o) \/ Complete(o)
    PROVE  SchedulerInv' /\ JournalMoves
<1>1. /\ UNCHANGED clock /\ UNCHANGED runs /\ pc[o] \in Working
      /\ Leave(o, "idle") \/ Leave(o, "ended")
      /\ UNCHANGED faults \/ Fault
  BY Zenon DEF PublishSlot, Complete, LeaveRecorded, Working
<1>2. /\ work[o] \in SlotKey /\ clock \in Nat /\ now[o] \in Nat /\ now[o] <= clock
      /\ ending[o] \in TerminalSlot \ {"PUBLISHED"}
  <2>1. HoldsSlot(o) /\ OwnerTypeOK
    BY Zenon DEF SchedulerInv
  <2>2. work[o] \in SlotKey /\ now[o] <= clock
    BY <1>1, <2>1, Zenon DEF HoldsSlot
  <2> QED BY <2>1, <2>2 DEF OwnerTypeOK
<1>3. TimelyStep({work[o]})
  <2>1. CASE PublishSlot(o)
    <3>1. /\ PublishReservedSlot(cand[o], now[o], work[o], token[o])
          /\ cand[o] \in Candidate /\ SessionAt(now[o]) = "OPEN"
      BY <2>1, Zenon DEF PublishSlot, SchedulerInv, HoldsSlot
    <3>2. /\ StoreStep({work[o]}, clock)
          /\ versions' \subseteq versions \cup {Version(cand[o], now[o], work[o])}
      BY <1>2, <3>1, PublishReservedIsStoreStep, Zenon DEF SchedulerInv
    <3>3. VersionsTimely'
      <4>1. /\ clock' = clock
            /\ \A v \in versions : v.publishedAt <= clock /\ (v.by # NoSlot => SessionAt(v.publishedAt) = "OPEN")
        BY <1>1, Zenon DEF SchedulerInv, VersionsTimely
      <4>2. Version(cand[o], now[o], work[o]).publishedAt = now[o]
        BY DEF Version
      <4> QED BY <1>2, <3>1, <3>2, <4>1, <4>2, Zenon DEF VersionsTimely
    <3> QED BY <3>2, <3>3, Zenon DEF TimelyStep
  <2>2. CASE Complete(o)
    <3>1. CompleteSlot(work[o], token[o], ending[o])
      BY <2>2, Zenon DEF Complete
    <3>2. StoreStep({work[o]}, clock)
      BY <1>2, <3>1, CompleteIsStoreStep, Zenon DEF SchedulerInv
    <3>3. UNCHANGED versions
      BY <3>1, Zenon DEF CompleteSlot
    <3> QED BY <1>1, <3>2, <3>3, TimelyKept, Zenon
  <2> QED BY <2>1, <2>2, Zenon
<1>4. faults' \in 0..MaxFaults
  BY <1>1, FaultTyped, Zenon
<1>5. \A q \in Owner \ {o} : pc[q] \in Working => work[q] \notin {work[o]}
  BY <1>1, RowsApart, Zenon
<1>6. JournalMoves
  BY <1>3, Zenon DEF TimelyStep, StoreStep
<1> QED BY <1>1, <1>3, <1>4, <1>5, <1>6, LeaveKeeps, Zenon

(* The owner is lost, fails closed or is started: it holds nothing.          *)
LEMMA LeavingKeeps ==
    ASSUME SchedulerInv, NEW o \in Owner, CalendarError(o) \/ Stop(o) \/ Run(o)
    PROVE  SchedulerInv' /\ JournalMoves
<1>1. /\ UNCHANGED storeVars /\ UNCHANGED clock /\ UNCHANGED runs
      /\ Leave(o, "idle") \/ Leave(o, "ended")
      /\ UNCHANGED faults \/ Fault
  BY Zenon DEF CalendarError, Stop, Run
<1>2. TimelyStep({}) /\ JournalMoves /\ faults' \in 0..MaxFaults
  BY <1>1, TimelyUnchanged, FaultTyped, Zenon
<1> QED BY <1>1, <1>2, LeaveKeeps, Zenon

(* Nobody moves: time passes, a decision comes from elsewhere, or nothing     *)
(* happens at all.                                                           *)
LEMMA StandingKeeps ==
    ASSUME SchedulerInv,
           Advance \/ (\E c \in Candidate : PublishDirect(c)) \/ UNCHANGED vars
    PROVE  SchedulerInv' /\ JournalMoves
<1>1. UNCHANGED ownerVars /\ UNCHANGED runs /\ UNCHANGED faults
  BY Zenon DEF Advance, PublishDirect, vars
<1>2. clock \in Nat /\ clock' \in 0..MaxTime /\ clock <= clock'
  BY SchedulerConstants DEF SchedulerInv, OwnerTypeOK, Advance, PublishDirect, vars
<1>3. TimelyStep({})
  <2>1. CASE Advance
    <3>1. StoreStep({}, clock)
      BY <2>1, StoreUnchanged, Zenon DEF Advance, SchedulerInv
    <3>2. \A v \in versions : v.publishedAt \in Nat
      BY Zenon DEF SchedulerInv, StoreTypeOK, VersionRecord
    <3>3. VersionsTimely'
      BY <1>2, <2>1, <3>2 DEF Advance, storeVars, VersionsTimely, SchedulerInv
    <3> QED BY <3>1, <3>3, Zenon DEF TimelyStep
  <2>2. CASE \E c \in Candidate : PublishDirect(c)
    <3>1. PICK c \in Candidate : Publish(c, clock) /\ UNCHANGED clock
      BY <2>2, Zenon DEF PublishDirect
    <3>2. StoreStep({}, clock) /\ versions' \subseteq versions \cup {Version(c, clock, NoSlot)}
      BY <1>2, <3>1, PublishIsStoreStep, Zenon DEF SchedulerInv
    <3>3. VersionsTimely'
      BY <1>2, <3>1, <3>2 DEF VersionsTimely, Version, SchedulerInv
    <3> QED BY <3>2, <3>3, Zenon DEF TimelyStep
  <2>3. CASE UNCHANGED vars
    <3>1. UNCHANGED storeVars /\ UNCHANGED clock
      BY <2>3, Zenon DEF vars
    <3> QED BY <3>1, TimelyUnchanged, Zenon
  <2> QED BY <2>1, <2>2, <2>3, Zenon
<1>4. RunsAccounted' /\ JournalMoves
  BY <1>1, <1>3, RunsKept, Zenon DEF TimelyStep, StoreStep, SchedulerInv
<1>5. OwnerTypeOK' /\ DistinctTokens'
  BY <1>1, <1>2, Zenon DEF ownerVars, SchedulerInv, OwnerTypeOK, DistinctTokens
<1>6. \A q \in Owner : HoldsSlot(q)'
  <2> TAKE q \in Owner
  <2>1. /\ pc'[q] = pc[q] /\ now'[q] = now[q] /\ work'[q] = work[q]
        /\ token'[q] = token[q] /\ cand'[q] = cand[q]
    BY <1>1, Zenon DEF ownerVars
  <2>2. clock' \in Nat /\ (pc[q] \in Working => work[q] \notin {})
    BY <1>2
  <2> QED BY <1>2, <1>3, <2>1, <2>2, HolderKept, Zenon
<1> QED BY <1>3, <1>4, <1>5, <1>6, Zenon DEF SchedulerInv, TimelyStep, StoreStep

LEMMA InitSchedulerInv == Init => SchedulerInv
<1> SUFFICES ASSUME Init PROVE SchedulerInv
  OBVIOUS
<1>1. StoreTypeOK /\ VersionsAccounted /\ VersionsTimely
  BY Zenon DEF Init, StoreInit, StoreTypeOK, VersionsAccounted, VersionsTimely, PointerIsNewest, Consumed
<1>2. RunsAccounted
  BY DEF Init, StoreInit, RunsAccounted
<1>3. OwnerTypeOK
  BY SchedulerConstants DEF Init, OwnerTypeOK, Pc, NoCand, TerminalSlot
<1>4. \A o \in Owner : pc[o] = "ended" /\ now[o] = 0 /\ pc[o] \notin Working
  BY Zenon DEF Init, Working
<1>5. (\A o \in Owner : HoldsSlot(o)) /\ DistinctTokens
  BY <1>4 DEF Init, HoldsSlot, DistinctTokens
<1> QED BY <1>1, <1>2, <1>3, <1>5, Zenon DEF SchedulerInv

(* One step of anybody keeps the invariant and moves the journal forward.    *)
LEMMA NextSchedulerInv == SchedulerInv /\ [Next]_vars => SchedulerInv' /\ JournalMoves
<1> SUFFICES ASSUME SchedulerInv, [Next]_vars PROVE SchedulerInv' /\ JournalMoves
  OBVIOUS
<1>1. ASSUME NEW o \in Owner, OwnerStep(o) PROVE SchedulerInv' /\ JournalMoves
  BY <1>1, ReadingKeeps, ReconcilingKeeps, MarkingKeeps, ReservingKeeps, RunningKeeps, FinishingKeeps, Zenon
     DEF OwnerStep
<1> QED BY <1>1, LeavingKeeps, StandingKeeps, Zenon DEF Next

(* The invariant says what is promised of the slots.                         *)
LEMMA SchedulerInvKeepsSlots == SchedulerInv => RefreshKeepsItsSlots /\ PointerIsNewest
<1> SUFFICES ASSUME SchedulerInv PROVE RefreshKeepsItsSlots /\ PointerIsNewest
  OBVIOUS
<1>1. \A v \in versions : v \in VersionRecord /\ v.publishedAt \in 0..MaxTime /\ v.cand \in Candidate
  <2>1. clock \in Nat /\ clock <= MaxTime /\ MaxTime \in Nat
    BY SchedulerConstants DEF SchedulerInv, OwnerTypeOK
  <2>2. \A v \in versions : v \in VersionRecord /\ v.publishedAt <= clock
    BY Zenon DEF SchedulerInv, StoreTypeOK, VersionsTimely
  <2> QED BY <2>1, <2>2 DEF VersionRecord
<1>2. \A k \in SlotKey : Consumed(k) => slots[k].state \in TerminalSlot \cup {"RESERVED"}
  BY Zenon DEF SchedulerInv, StoreTypeOK, Consumed, SlotRecord
<1>3. \A o \in Owner :
          /\ pc[o] \in Pc /\ now[o] \in 0..clock /\ todo[o] \subseteq SlotKey
          /\ pc[o] \in Working => work[o] \in SlotKey /\ token[o] \in 1..minted
  <2> SUFFICES ASSUME NEW o \in Owner
               PROVE  /\ pc[o] \in Pc /\ now[o] \in 0..clock /\ todo[o] \subseteq SlotKey
                      /\ pc[o] \in Working => work[o] \in SlotKey /\ token[o] \in 1..minted
    OBVIOUS
  <2>1. pc[o] \in Pc /\ todo[o] \subseteq SlotKey /\ now[o] \in Nat /\ clock \in Nat /\ minted \in Nat
    BY DEF SchedulerInv, OwnerTypeOK, StoreTypeOK
  <2>2. HoldsSlot(o)
    BY Zenon DEF SchedulerInv
  <2> QED BY <2>1, <2>2 DEF HoldsSlot
<1>4. TypeOK
  BY <1>1, <1>2, <1>3, Zenon DEF TypeOK, SchedulerInv, StoreTypeOK, OwnerTypeOK
<1>5. LeaseProtects
  BY Zenon DEF LeaseProtects, SchedulerInv, HoldsSlot, IsReserved
<1>6. RunOnce /\ SlotTellsPublication /\ PublishedInTime /\ PointerIsNewest
  BY Zenon DEF RunOnce, SlotTellsPublication, PublishedInTime, SchedulerInv, RunsAccounted,
         VersionsAccounted, VersionsTimely, RowNames
<1> QED BY <1>4, <1>5, <1>6, Zenon DEF RefreshKeepsItsSlots

(* For any number of owners, slots, days, leases and faults: a slot is run at *)
(* most once, a valid lease protects its holder, publication and slot row are *)
(* one transaction, and a refresh is published in time                        *)
(* (DecisionRefreshScheduler._tick and _run_slot).                            *)
THEOREM SlotsAreKept == Spec => []RefreshKeepsItsSlots
<1>1. SchedulerInv /\ [Next]_vars => SchedulerInv'
  BY NextSchedulerInv, Zenon
<1> QED BY <1>1, InitSchedulerInv, SchedulerInvKeepsSlots, PTL DEF Spec

(* The active decision is the newest ever published and a final slot stays    *)
(* final, whoever publishes, reconciles, completes or comes back late.        *)
THEOREM JournalMovesForward == Spec => JournalOnlyMovesForward
<1>1. SchedulerInv /\ [Next]_vars => SchedulerInv'
  BY NextSchedulerInv, Zenon
<1>2. SchedulerInv /\ [Next]_vars => [PointerIsNewest' /\ TerminalSlotFinal]_vars
  BY NextSchedulerInv, Zenon DEF JournalMoves, TerminalSlotFinal, SchedulerInv, VersionsAccounted
<1> QED BY <1>1, <1>2, InitSchedulerInv, SchedulerInvKeepsSlots, PTL DEF Spec, JournalOnlyMovesForward
=============================================================================
