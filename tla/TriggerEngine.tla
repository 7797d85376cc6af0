---------------------------- MODULE TriggerEngine ----------------------------
(***************************************************************************)
(* The in-memory trigger engine (src/market_data/trigger_engine.py) as      *)
(* functions of its state.  replace_bundle and evaluate run under one lock, *)
(* so each is one step; a result is the new engine with the returned status.*)
(*                                                                          *)
(* A bundle is a decision with its plan (NoPlan for HOLD).  A plan keeps    *)
(* the fields that steer the state machine; `id` stands for plan_id,        *)
(* rule_set_id, market, symbol and action, which only enter the             *)
(* idempotency key.  One market tick is reduced to what the engine asks of  *)
(* it: whether every snapshot, permission, freshness and indicator gate of  *)
(* plan.rules is open, whether plan.rules hold, whether the gates of        *)
(* plan.reset_rules are open, and whether plan.reset_rules hold.            *)
(***************************************************************************)
EXTENDS Naturals, TLAPS

CONSTANTS
    Decision,                 \* decision ids
    PlanId,                   \* what a key takes from a plan
    NoBundle, NoPlan, NoTime

Plan == [id: PlanId, validFrom: Nat, expiresAt: Nat,
         debounceEvents: Nat \ {0}, debounceSeconds: Nat,
         resetRules: BOOLEAN, resetEvents: Nat \ {0},
         cooldownSeconds: Nat, maxFires: Nat \ {0}]

Bundle == [decision: Decision, createdAt: Nat, plan: Plan \cup {NoPlan}]

Tick == [gate: BOOLEAN, cond: BOOLEAN, resetGate: BOOLEAN, reset: BOOLEAN]

TriggerState == {"DISARMED", "ARMED", "DEBOUNCING", "COOLDOWN", "LOCKED"}

Engine == [active: Bundle \cup {NoBundle}, state: TriggerState,
           epoch: Nat, debounceCount: Nat, firstTrueAt: Nat \cup {NoTime},
           resetCount: Nat, cooldownUntil: Nat \cup {NoTime}, fires: Nat]

NewEngine == [active |-> NoBundle, state |-> "DISARMED",
              epoch |-> 0, debounceCount |-> 0, firstTrueAt |-> NoTime,
              resetCount |-> 0, cooldownUntil |-> NoTime, fires |-> 0]

-----------------------------------------------------------------------------
(* replace_bundle: the fingerprint covers the whole bundle, so equal        *)
(* fingerprints are equal bundles.                                          *)
ReplaceStatus(e, b) ==
    IF e.active = NoBundle THEN "REPLACED"
    ELSE IF b = e.active THEN "UNCHANGED"
    ELSE IF b.createdAt = e.active.createdAt THEN "REJECTED_CONFLICT"
    ELSE IF b.createdAt < e.active.createdAt THEN "REJECTED_OLDER"
    ELSE "REPLACED"

Install(e, b) ==
    [NewEngine EXCEPT
        !.active = b,
        !.state = IF b.plan = NoPlan THEN "DISARMED" ELSE "ARMED",
        !.epoch = e.epoch + 1]

ReplaceBundle(e, b) == IF ReplaceStatus(e, b) = "REPLACED" THEN Install(e, b) ELSE e

-----------------------------------------------------------------------------
(* _idempotency_key: created_at is not part of it.                          *)
IdempotencyKey(e) == <<e.active.decision, e.active.plan.id, e.epoch>>

(* _suppress_break: the stream was interrupted.                             *)
SuppressBreak(e) ==
    CASE e.state = "DEBOUNCING" ->
            [e EXCEPT !.state = "ARMED", !.debounceCount = 0, !.firstTrueAt = NoTime]
      [] e.state = "COOLDOWN" -> [e EXCEPT !.resetCount = 0]
      [] OTHER -> e

(* Mutant: a cooldown that is never timed.                                  *)
FireUntimed(e, now) ==
    LET f == [e EXCEPT !.fires = @ + 1] IN
    IF f.fires >= e.active.plan.maxFires THEN [f EXCEPT !.state = "LOCKED"]
    ELSE [f EXCEPT !.state = "COOLDOWN", !.cooldownUntil = now,
                   !.resetCount = 0, !.debounceCount = 0, !.firstTrueAt = NoTime]

(* _fire: the signal carries the key of the engine before the fire.         *)
Fire(e, now) ==
    LET f == [e EXCEPT !.fires = @ + 1] IN
    IF f.fires >= e.active.plan.maxFires THEN [f EXCEPT !.state = "LOCKED"]
    ELSE [f EXCEPT !.state = "COOLDOWN",
                   !.cooldownUntil = now + e.active.plan.cooldownSeconds,
                   !.resetCount = 0, !.debounceCount = 0, !.firstTrueAt = NoTime]

(* Back to ARMED under a new activation epoch.                              *)
Rearm(e) ==
    [e EXCEPT !.state = "ARMED", !.epoch = @ + 1, !.debounceCount = 0,
              !.firstTrueAt = NoTime, !.resetCount = 0, !.cooldownUntil = NoTime]

(* One reset observation in COOLDOWN; without reset_rules the reset is the  *)
(* entry condition turning false.                                           *)
ResetTrue(e, tick) == IF e.active.plan.resetRules THEN tick.reset ELSE ~tick.cond

CountReset(e, tick) ==
    [e EXCEPT !.resetCount = IF ResetTrue(e, tick) THEN @ + 1 ELSE 0]

MayRearm(e, now) ==
    /\ e.cooldownUntil = NoTime \/ now >= e.cooldownUntil
    /\ e.resetCount >= e.active.plan.resetEvents
    /\ e.fires < e.active.plan.maxFires

(* The condition is true in ARMED or DEBOUNCING.                            *)
CountTrue(e, now) ==
    IF e.state = "ARMED"
    THEN [e EXCEPT !.state = "DEBOUNCING", !.debounceCount = 1, !.firstTrueAt = now]
    ELSE [e EXCEPT !.debounceCount = @ + 1]

CountFalse(e) ==
    IF e.state = "DEBOUNCING"
    THEN [e EXCEPT !.state = "ARMED", !.debounceCount = 0, !.firstTrueAt = NoTime]
    ELSE e

Debounced(e, now) ==
    /\ e.debounceCount >= e.active.plan.debounceEvents
    /\ e.firstTrueAt # NoTime /\ now >= e.firstTrueAt + e.active.plan.debounceSeconds

Result(e, status, signal) == [engine |-> e, status |-> status, signal |-> signal]

(* ARMED or DEBOUNCING: debounce, then fire.                                *)
Armed(e, now, tick) ==
    IF ~tick.cond THEN Result(CountFalse(e), "CONDITION_NOT_MET", <<>>)
    ELSE LET c == CountTrue(e, now) IN
         IF Debounced(c, now) THEN Result(Fire(c, now), "TRIGGERED", IdempotencyKey(c))
         ELSE Result(c, "DEBOUNCING", <<>>)

(* COOLDOWN: a satisfied reset re-arms and the same tick may fire again.    *)
Cooldown(e, now, tick) ==
    LET r == CountReset(e, tick) IN
    IF e.active.plan.resetRules /\ ~tick.resetGate
    THEN Result(SuppressBreak(e), "SUPPRESSED", <<>>)
    ELSE IF MayRearm(r, now) THEN Armed(Rearm(r), now, tick)
    ELSE Result(r, "COOLDOWN", <<>>)

InValidity(b, now) == b.plan.validFrom <= now /\ now <= b.plan.expiresAt

(* evaluate                                                                 *)
Evaluate(e, now, tick) ==
    IF e.active = NoBundle THEN Result(e, "SUPPRESSED", <<>>)
    ELSE IF e.active.plan = NoPlan THEN Result(e, "SUPPRESSED", <<>>)
    ELSE IF e.state = "LOCKED" THEN Result(e, "ALREADY_FIRED", <<>>)
    ELSE IF ~InValidity(e.active, now) \/ ~tick.gate
         THEN Result(SuppressBreak(e), "SUPPRESSED", <<>>)
    ELSE IF e.state = "COOLDOWN" THEN Cooldown(e, now, tick)
    ELSE Armed(e, now, tick)

-----------------------------------------------------------------------------
(* What the fields of an engine between two calls say about each other.     *)
Consistent(e) ==
    /\ e \in Engine
    /\ e.state = "DISARMED" <=> e.active = NoBundle \/ e.active.plan = NoPlan
    /\ e.active = NoBundle <=> e.epoch = 0
    /\ e.state \in {"DISARMED", "ARMED"} =>
          e.debounceCount = 0 /\ e.firstTrueAt = NoTime /\ e.resetCount = 0
    /\ e.state = "DEBOUNCING" =>
          e.debounceCount > 0 /\ e.firstTrueAt # NoTime /\ e.resetCount = 0
    /\ e.state = "COOLDOWN" => e.debounceCount = 0 /\ e.firstTrueAt = NoTime
    /\ e.cooldownUntil # NoTime <=> e.state = "COOLDOWN"
    /\ e.state = "DISARMED" => e.fires = 0
    /\ e.state = "COOLDOWN" => e.fires > 0
    /\ e.state \in {"ARMED", "DEBOUNCING", "COOLDOWN"} => e.fires < e.active.plan.maxFires
    /\ e.state = "LOCKED" => e.fires = e.active.plan.maxFires

-----------------------------------------------------------------------------
(* No bundle, plan or time is mistaken for its absence.                     *)
EngineConstants ==
    /\ NoBundle \notin Bundle
    /\ NoPlan \notin Plan
    /\ NoTime \notin Nat

(* replace_bundle leaves a consistent engine; an installed bundle is armed   *)
(* in a new epoch with no fire spent, unless it is a HOLD.                   *)
LEMMA ReplaceKeepsConsistent ==
    ASSUME EngineConstants, NEW e, Consistent(e), NEW b \in Bundle
    PROVE  LET f == ReplaceBundle(e, b) IN
           /\ Consistent(f)
           /\ ReplaceStatus(e, b) # "REPLACED" => f = e
           /\ ReplaceStatus(e, b) = "REPLACED" =>
                 /\ f.active = b /\ f.epoch = e.epoch + 1 /\ f.fires = 0
                 /\ f.state \in {"DISARMED", "ARMED"}
  <1> DEFINE st == IF b.plan = NoPlan THEN "DISARMED" ELSE "ARMED"
             f == Install(e, b)
  <1>1. e.epoch \in Nat /\ e.epoch + 1 \in Nat /\ st \in TriggerState /\ "DISARMED" \in TriggerState
    BY DEF Consistent, Engine, TriggerState
  <1>2. NewEngine \in Engine
    BY <1>1 DEF NewEngine, Engine
  <1>3. f = [NewEngine EXCEPT !.active = b, !.state = st, !.epoch = e.epoch + 1]
    BY DEF Install
  <1>4. f \in Engine
    BY <1>1, <1>2, <1>3 DEF Engine
  <1>5. /\ NewEngine.debounceCount = 0 /\ NewEngine.firstTrueAt = NoTime
        /\ NewEngine.resetCount = 0 /\ NewEngine.cooldownUntil = NoTime /\ NewEngine.fires = 0
    BY DEF NewEngine
  <1> HIDE DEF st
  <1>6. /\ f.active = b /\ f.state = st /\ f.epoch = e.epoch + 1
        /\ f.debounceCount = 0 /\ f.firstTrueAt = NoTime
        /\ f.resetCount = 0 /\ f.cooldownUntil = NoTime /\ f.fires = 0
    BY <1>2, <1>3, <1>5 DEF Engine
  <1>7. b # NoBundle /\ (b.plan # NoPlan => b.plan.maxFires > 0)
    BY DEF EngineConstants, Bundle, Plan
  <1> HIDE DEF f
  <1>8. Consistent(f)
    <2>1. CASE b.plan = NoPlan
      BY <2>1, <1>1, <1>4, <1>6, <1>7 DEF Consistent, st
    <2>2. CASE b.plan # NoPlan
      BY <2>2, <1>1, <1>4, <1>6, <1>7 DEF Consistent, st
    <2> QED
      BY <2>1, <2>2
  <1> QED
    BY <1>6, <1>8 DEF ReplaceBundle, f, st

(* An engine that is not DISARMED has a plan to follow.                     *)
LEMMA ArmedHasPlan ==
    ASSUME EngineConstants, NEW e, Consistent(e), e.state # "DISARMED"
    PROVE  /\ e \in Engine /\ e.active \in Bundle /\ e.active.plan \in Plan
           /\ e.epoch \in Nat /\ e.epoch > 0 /\ e.fires \in Nat
           /\ e.active.plan.maxFires \in Nat
  <1>1. e \in Engine /\ e.active # NoBundle /\ e.active.plan # NoPlan /\ e.epoch # 0
    BY DEF Consistent
  <1>2. e.active \in Bundle /\ e.epoch \in Nat /\ e.fires \in Nat
    BY <1>1 DEF Engine
  <1>3. e.active.plan \in Plan
    BY <1>1, <1>2 DEF Bundle
  <1>4. e.active.plan.maxFires \in Nat
    BY <1>3 DEF Plan
  <1> QED
    BY <1>1, <1>2, <1>3, <1>4

(* An interrupted stream ends a debounce and a run of resets, nothing else. *)
LEMMA SuppressBreakKeepsConsistent ==
    ASSUME NEW e, Consistent(e), e.active # NoBundle, e.active.plan # NoPlan
    PROVE  /\ Consistent(SuppressBreak(e))
           /\ SuppressBreak(e).active = e.active /\ SuppressBreak(e).epoch = e.epoch
           /\ SuppressBreak(e).fires = e.fires
           /\ SuppressBreak(e).cooldownUntil = e.cooldownUntil
           /\ SuppressBreak(e).state = IF e.state = "DEBOUNCING" THEN "ARMED" ELSE e.state
           /\ e.state = "COOLDOWN" => SuppressBreak(e).resetCount = 0
  <1>1. e \in Engine /\ e.state # "DISARMED"
    BY DEF Consistent
  <1>2. CASE e.state = "DEBOUNCING"
    <2> DEFINE f == [e EXCEPT !.state = "ARMED", !.debounceCount = 0, !.firstTrueAt = NoTime]
    <2>1. SuppressBreak(e) = f /\ "ARMED" \in TriggerState
      BY <1>2 DEF SuppressBreak, TriggerState
    <2>2. f \in Engine
      BY <1>1, <2>1 DEF Engine
    <2>3. /\ f.state = "ARMED" /\ f.debounceCount = 0 /\ f.firstTrueAt = NoTime
          /\ f.active = e.active /\ f.epoch = e.epoch /\ f.resetCount = e.resetCount
          /\ f.cooldownUntil = e.cooldownUntil /\ f.fires = e.fires
      BY <1>1 DEF Engine
    <2> HIDE DEF f
    <2> QED
      BY <1>1, <1>2, <2>1, <2>2, <2>3 DEF Consistent
  <1>3. CASE e.state = "COOLDOWN"
    <2>1. SuppressBreak(e) = [e EXCEPT !.resetCount = 0]
      BY <1>3 DEF SuppressBreak
    <2>2. SuppressBreak(e) \in Engine
      BY <1>1, <2>1 DEF Engine
    <2> QED
      BY <1>1, <1>3, <2>1, <2>2 DEF Consistent, Engine
  <1>4. CASE e.state \notin {"DEBOUNCING", "COOLDOWN"}
    BY <1>4 DEF SuppressBreak
  <1> QED
    BY <1>2, <1>3, <1>4

(* A tick that finds the condition true starts or continues the debounce;   *)
(* one that finds it false ends it.                                         *)
LEMMA CountTrueKeepsConsistent ==
    ASSUME EngineConstants, NEW e, Consistent(e), e.state \in {"ARMED", "DEBOUNCING"},
           NEW now \in Nat
    PROVE  LET c == CountTrue(e, now) IN
           /\ Consistent(c) /\ c.state = "DEBOUNCING"
           /\ c.active = e.active /\ c.epoch = e.epoch /\ c.fires = e.fires
           /\ c.debounceCount = e.debounceCount + 1
           /\ c.firstTrueAt = IF e.state = "ARMED" THEN now ELSE e.firstTrueAt
  <1>1. e \in Engine /\ e.debounceCount \in Nat
    BY DEF Consistent, Engine
  <1>2. CASE e.state = "ARMED"
    <2> DEFINE f == [e EXCEPT !.state = "DEBOUNCING", !.debounceCount = 1, !.firstTrueAt = now]
    <2>1. CountTrue(e, now) = f /\ "DEBOUNCING" \in TriggerState /\ now # NoTime
      BY <1>2 DEF CountTrue, TriggerState, EngineConstants
    <2>2. f \in Engine
      BY <1>1, <2>1 DEF Engine
    <2>3. /\ f.state = "DEBOUNCING" /\ f.debounceCount = 1 /\ f.firstTrueAt = now
          /\ f.active = e.active /\ f.epoch = e.epoch /\ f.resetCount = e.resetCount
          /\ f.cooldownUntil = e.cooldownUntil /\ f.fires = e.fires
      BY <1>1 DEF Engine
    <2> HIDE DEF f
    <2> QED
      BY <1>1, <1>2, <2>1, <2>2, <2>3 DEF Consistent
  <1>3. CASE e.state = "DEBOUNCING"
    <2> DEFINE f == [e EXCEPT !.debounceCount = e.debounceCount + 1]
    <2>1. CountTrue(e, now) = f
      BY <1>1, <1>3 DEF CountTrue, Engine
    <2>2. f \in Engine
      BY <1>1 DEF Engine
    <2>3. /\ f.state = "DEBOUNCING" /\ f.debounceCount = e.debounceCount + 1
          /\ f.firstTrueAt = e.firstTrueAt
          /\ f.active = e.active /\ f.epoch = e.epoch /\ f.resetCount = e.resetCount
          /\ f.cooldownUntil = e.cooldownUntil /\ f.fires = e.fires
      BY <1>1, <1>3 DEF Engine
    <2> HIDE DEF f
    <2> QED
      BY <1>1, <1>3, <2>1, <2>2, <2>3 DEF Consistent
  <1> QED
    BY <1>2, <1>3

LEMMA CountFalseKeepsConsistent ==
    ASSUME NEW e, Consistent(e), e.state \in {"ARMED", "DEBOUNCING"}
    PROVE  LET c == CountFalse(e) IN
           /\ Consistent(c) /\ c.state = "ARMED"
           /\ c.active = e.active /\ c.epoch = e.epoch /\ c.fires = e.fires
  <1>1. e.active # NoBundle /\ e.active.plan # NoPlan
    BY DEF Consistent
  <1>2. CountFalse(e) = SuppressBreak(e)
    BY DEF CountFalse, SuppressBreak
  <1>3. SuppressBreak(e).state = "ARMED"
    BY DEF SuppressBreak, Consistent, Engine
  <1> QED
    BY <1>1, <1>2, <1>3, SuppressBreakKeepsConsistent

(* A debounced engine that fires is cooling down or, with its last fire,    *)
(* locked.                                                                  *)
LEMMA FireKeepsConsistent ==
    ASSUME EngineConstants, NEW e, Consistent(e), e.state = "DEBOUNCING", NEW now \in Nat
    PROVE  LET f == Fire(e, now) IN
           /\ Consistent(f) /\ f.active = e.active /\ f.epoch = e.epoch
           /\ f.fires = e.fires + 1
           /\ \/ f.state = "LOCKED"
              \/ /\ f.state = "COOLDOWN" /\ f.resetCount = 0
                 /\ f.cooldownUntil = now + e.active.plan.cooldownSeconds
  <1> DEFINE until == now + e.active.plan.cooldownSeconds
             l == [e EXCEPT !.fires = e.fires + 1, !.state = "LOCKED"]
             c == [e EXCEPT !.fires = e.fires + 1, !.state = "COOLDOWN", !.cooldownUntil = until,
                            !.resetCount = 0, !.debounceCount = 0, !.firstTrueAt = NoTime]
  <1>1. /\ e \in Engine /\ e.fires \in Nat /\ e.active.plan \in Plan
        /\ e.active.plan.maxFires \in Nat /\ e.fires < e.active.plan.maxFires
    BY ArmedHasPlan DEF Consistent
  <1>2. until \in Nat /\ until # NoTime
    BY <1>1 DEF Plan, EngineConstants
  <1>3. Fire(e, now) = IF e.fires + 1 >= e.active.plan.maxFires THEN l ELSE c
    BY <1>1 DEF Fire, Engine
  <1>4. "LOCKED" \in TriggerState /\ "COOLDOWN" \in TriggerState
    BY DEF TriggerState
  <1> HIDE DEF until
  <1> DEFINE n == e.fires + 1
  <1>a. n \in Nat
    BY <1>1
  <1> HIDE DEF n
  <1>b. l = [e EXCEPT !.fires = n, !.state = "LOCKED"]
    BY DEF n
  <1>c. c = [e EXCEPT !.fires = n, !.state = "COOLDOWN", !.cooldownUntil = until,
                            !.resetCount = 0, !.debounceCount = 0, !.firstTrueAt = NoTime]
    BY DEF n
  <1>5. l \in Engine /\ c \in Engine
    <2>1. l \in Engine
      BY <1>1, <1>a, <1>b, <1>4 DEF Engine
    <2>2. c \in Engine
      BY <1>1, <1>2, <1>4, <1>a, <1>c DEF Engine
    <2> QED
      BY <2>1, <2>2
  <1>6. /\ l.state = "LOCKED" /\ l.fires = e.fires + 1
        /\ l.active = e.active /\ l.epoch = e.epoch /\ l.cooldownUntil = e.cooldownUntil
    BY <1>1 DEF Engine
  <1>7. /\ c.state = "COOLDOWN" /\ c.fires = e.fires + 1
        /\ c.active = e.active /\ c.epoch = e.epoch /\ c.cooldownUntil = until
        /\ c.resetCount = 0 /\ c.debounceCount = 0 /\ c.firstTrueAt = NoTime
    BY <1>1 DEF Engine
  <1> HIDE DEF l, c
  <1>8. e.fires + 1 >= e.active.plan.maxFires => Consistent(l)
    BY <1>1, <1>5, <1>6 DEF Consistent
  <1>9. ~(e.fires + 1 >= e.active.plan.maxFires) => Consistent(c)
    BY <1>1, <1>2, <1>5, <1>7 DEF Consistent
  <1> QED
    BY <1>3, <1>6, <1>7, <1>8, <1>9 DEF until

(* A reset observation counts or starts over.                               *)
LEMMA CountResetKeepsConsistent ==
    ASSUME NEW e, Consistent(e), e.state = "COOLDOWN", NEW tick
    PROVE  LET r == CountReset(e, tick) IN
           /\ Consistent(r) /\ r.state = "COOLDOWN"
           /\ r.active = e.active /\ r.epoch = e.epoch /\ r.fires = e.fires
           /\ r.cooldownUntil = e.cooldownUntil
           /\ r.resetCount = IF ResetTrue(e, tick) THEN e.resetCount + 1 ELSE 0
  <1> DEFINE n == IF ResetTrue(e, tick) THEN e.resetCount + 1 ELSE 0
             r == [e EXCEPT !.resetCount = n]
  <1>1. e \in Engine /\ e.resetCount \in Nat /\ n \in Nat
    BY DEF Consistent, Engine
  <1>2. CountReset(e, tick) = r
    BY DEF CountReset
  <1> HIDE DEF n
  <1>3. r \in Engine
    BY <1>1 DEF Engine
  <1>4. /\ r.state = e.state /\ r.debounceCount = e.debounceCount
        /\ r.firstTrueAt = e.firstTrueAt /\ r.resetCount = n
        /\ r.active = e.active /\ r.epoch = e.epoch
        /\ r.cooldownUntil = e.cooldownUntil /\ r.fires = e.fires
    BY <1>1 DEF Engine
  <1> HIDE DEF r
  <1>5. Consistent(r)
    BY <1>3, <1>4 DEF Consistent
  <1> QED
    BY <1>2, <1>4, <1>5 DEF n

(* Re-arming opens a new epoch.                                             *)
LEMMA RearmKeepsConsistent ==
    ASSUME EngineConstants, NEW e, Consistent(e), e.state = "COOLDOWN"
    PROVE  LET r == Rearm(e) IN
           /\ Consistent(r) /\ r.state = "ARMED"
           /\ r.active = e.active /\ r.epoch = e.epoch + 1 /\ r.fires = e.fires
  <1> DEFINE n == e.epoch + 1
             r == [e EXCEPT !.state = "ARMED", !.epoch = n, !.debounceCount = 0,
                            !.firstTrueAt = NoTime, !.resetCount = 0, !.cooldownUntil = NoTime]
  <1>1. e \in Engine /\ e.epoch \in Nat /\ n \in Nat /\ n # 0 /\ "ARMED" \in TriggerState
    BY DEF Consistent, Engine, TriggerState
  <1>2. Rearm(e) = r
    BY <1>1 DEF Rearm, Engine
  <1> HIDE DEF n
  <1>3. r \in Engine
    BY <1>1 DEF Engine
  <1>4. /\ r.state = "ARMED" /\ r.debounceCount = 0 /\ r.firstTrueAt = NoTime
        /\ r.resetCount = 0 /\ r.cooldownUntil = NoTime
        /\ r.active = e.active /\ r.epoch = n /\ r.fires = e.fires
    BY <1>1 DEF Engine
  <1> HIDE DEF r
  <1>5. Consistent(r)
    BY <1>1, <1>3, <1>4 DEF Consistent
  <1> QED
    BY <1>2, <1>4, <1>5 DEF n

(* What a fire leaves behind: the same decision and epoch, one fire more,   *)
(* and an engine that is locked or timed to cool down.                      *)
Fired(e, f, now) ==
    /\ f.active = e.active /\ f.epoch = e.epoch /\ f.fires = e.fires + 1
    /\ \/ f.state = "LOCKED"
       \/ /\ f.state = "COOLDOWN" /\ f.resetCount = 0
          /\ f.cooldownUntil = now + e.active.plan.cooldownSeconds

(* The three ways out of ARMED or DEBOUNCING, f being the engine after.     *)
ArmedTo(e, r, now, tick) ==
    LET since == IF e.state = "ARMED" THEN now ELSE e.firstTrueAt
        f == r.engine
    IN
    \/ /\ r.status = "CONDITION_NOT_MET" /\ ~tick.cond
       /\ f.state = "ARMED" /\ f.active = e.active /\ f.epoch = e.epoch /\ f.fires = e.fires
    \/ /\ r.status = "DEBOUNCING" /\ tick.cond
       /\ f.state = "DEBOUNCING" /\ f.active = e.active /\ f.epoch = e.epoch /\ f.fires = e.fires
       /\ f.debounceCount = e.debounceCount + 1 /\ f.firstTrueAt = since
    \/ /\ r.status = "TRIGGERED" /\ tick.cond
       /\ r.signal = IdempotencyKey(e)
       /\ Fired(e, f, now)
       /\ e.debounceCount + 1 >= e.active.plan.debounceEvents
       /\ now >= since + e.active.plan.debounceSeconds

LEMMA ArmedResult ==
    ASSUME EngineConstants, NEW e, Consistent(e), e.state \in {"ARMED", "DEBOUNCING"},
           NEW now \in Nat, NEW tick
    PROVE  /\ Consistent(Armed(e, now, tick).engine)
           /\ ArmedTo(e, Armed(e, now, tick), now, tick)
  <1> DEFINE c == CountTrue(e, now)
             r == Armed(e, now, tick)
  <1>1. CASE ~tick.cond
    <2>1. r.engine = CountFalse(e) /\ r.status = "CONDITION_NOT_MET"
      BY <1>1 DEF Armed, Result
    <2> HIDE DEF r
    <2> QED
      BY <1>1, <2>1, CountFalseKeepsConsistent DEF ArmedTo, r
  <1>2. CASE tick.cond
    <2>1. /\ Consistent(c) /\ c.state = "DEBOUNCING"
          /\ c.active = e.active /\ c.epoch = e.epoch /\ c.fires = e.fires
          /\ c.debounceCount = e.debounceCount + 1
          /\ c.firstTrueAt = IF e.state = "ARMED" THEN now ELSE e.firstTrueAt
      BY CountTrueKeepsConsistent
    <2>2. CASE ~Debounced(c, now)
      <3>1. r.engine = c /\ r.status = "DEBOUNCING"
        BY <1>2, <2>2 DEF Armed, Result
      <3> HIDE DEF r, c
      <3> QED
        BY <1>2, <2>1, <3>1 DEF ArmedTo, r
    <2>3. CASE Debounced(c, now)
      <3>1. r.engine = Fire(c, now) /\ r.status = "TRIGGERED" /\ r.signal = IdempotencyKey(c)
        BY <1>2, <2>3 DEF Armed, Result
      <3>2. IdempotencyKey(c) = IdempotencyKey(e)
        BY <2>1 DEF IdempotencyKey
      <3>3. /\ c.debounceCount >= c.active.plan.debounceEvents
            /\ now >= c.firstTrueAt + c.active.plan.debounceSeconds
        BY <2>3 DEF Debounced
      <3> HIDE DEF r, c
      <3>4. Consistent(Fire(c, now)) /\ Fired(c, Fire(c, now), now)
        BY <2>1, FireKeepsConsistent DEF Fired
      <3>5. Fired(e, Fire(c, now), now)
        BY <2>1, <3>4 DEF Fired
      <3> QED
        BY <1>2, <2>1, <3>1, <3>2, <3>3, <3>4, <3>5 DEF ArmedTo, r
    <2> QED
      BY <2>2, <2>3
  <1> QED
    BY <1>1, <1>2

(* The ways out of COOLDOWN: interrupted, still cooling, or re-armed by a   *)
(* satisfied reset, after which the tick may fire at once.                  *)
Interrupted(e, tick) == e.active.plan.resetRules /\ ~tick.resetGate

ResetsAfter(e, tick) == IF ResetTrue(e, tick) THEN e.resetCount + 1 ELSE 0

StillCooling(e, f, n) ==
    /\ f.state = "COOLDOWN" /\ f.active = e.active /\ f.epoch = e.epoch /\ f.fires = e.fires
    /\ f.cooldownUntil = e.cooldownUntil /\ f.resetCount = n

LEMMA CooldownResult ==
    ASSUME EngineConstants, NEW e, Consistent(e), e.state = "COOLDOWN", NEW now \in Nat, NEW tick
    PROVE  LET r == Cooldown(e, now, tick) IN
           /\ Consistent(r.engine)
           /\ \/ /\ Interrupted(e, tick) /\ r.status = "SUPPRESSED"
                 /\ StillCooling(e, r.engine, 0)
              \/ /\ ~Interrupted(e, tick) /\ r.status = "COOLDOWN"
                 /\ StillCooling(e, r.engine, ResetsAfter(e, tick))
              \/ /\ ~Interrupted(e, tick)
                 /\ now >= e.cooldownUntil
                 /\ ResetsAfter(e, tick) >= e.active.plan.resetEvents
                 /\ \E a : /\ Consistent(a) /\ a.state = "ARMED" /\ a.active = e.active
                           /\ a.epoch = e.epoch + 1 /\ a.fires = e.fires
                           /\ r = Armed(a, now, tick) /\ ArmedTo(a, r, now, tick)
  <1> DEFINE r == Cooldown(e, now, tick)
             n == CountReset(e, tick)
  <1>0. e \in Engine /\ e.active # NoBundle /\ e.active.plan # NoPlan
    BY DEF Consistent
  <1>1. CASE Interrupted(e, tick)
    <2>1. r.engine = SuppressBreak(e) /\ r.status = "SUPPRESSED"
      BY <1>1 DEF Cooldown, Interrupted, Result
    <2>2. Consistent(SuppressBreak(e))
      BY <1>0, SuppressBreakKeepsConsistent
    <2>3. SuppressBreak(e) = [e EXCEPT !.resetCount = 0]
      BY DEF SuppressBreak
    <2>4. StillCooling(e, SuppressBreak(e), 0)
      BY <1>0, <2>3 DEF StillCooling, Engine
    <2> HIDE DEF r
    <2> QED
      BY <1>1, <2>1, <2>2, <2>4 DEF r
  <1>2. CASE ~Interrupted(e, tick)
    <2>1. /\ Consistent(n) /\ n.state = "COOLDOWN"
          /\ n.active = e.active /\ n.epoch = e.epoch /\ n.fires = e.fires
          /\ n.cooldownUntil = e.cooldownUntil
          /\ n.resetCount = ResetsAfter(e, tick)
      BY CountResetKeepsConsistent DEF ResetsAfter
    <2>2. CASE ~MayRearm(n, now)
      <3>1. r.engine = n /\ r.status = "COOLDOWN"
        BY <1>2, <2>2 DEF Cooldown, Interrupted, Result
      <3> HIDE DEF r, n
      <3>2. StillCooling(e, n, ResetsAfter(e, tick))
        BY <2>1 DEF StillCooling
      <3> QED
        BY <1>2, <2>1, <3>1, <3>2 DEF r
    <2>3. CASE MayRearm(n, now)
      <3> DEFINE a == Rearm(n)
      <3>1. r = Armed(a, now, tick)
        BY <1>2, <2>3 DEF Cooldown, Interrupted
      <3>2. n.cooldownUntil # NoTime
        BY <2>1 DEF Consistent
      <3> HIDE DEF r, n
      <3>3. now >= e.cooldownUntil /\ ResetsAfter(e, tick) >= e.active.plan.resetEvents
        BY <2>1, <2>3, <3>2 DEF MayRearm
      <3>4. /\ Consistent(a) /\ a.state = "ARMED" /\ a.active = e.active
            /\ a.epoch = e.epoch + 1 /\ a.fires = e.fires
        BY <2>1, RearmKeepsConsistent
      <3> HIDE DEF a
      <3>5. Consistent(Armed(a, now, tick).engine) /\ ArmedTo(a, Armed(a, now, tick), now, tick)
        BY <3>4, ArmedResult
      <3> QED
        BY <1>2, <3>1, <3>3, <3>4, <3>5 DEF r
    <2> QED
      BY <2>2, <2>3
  <1> QED
    BY <1>1, <1>2

(* The ways through evaluate: nothing to evaluate, an interrupted stream,   *)
(* or a live tick in one of the states.                                     *)
HasPlan(e) == e.active # NoBundle /\ e.active.plan # NoPlan

LiveTick(e, now, tick) == InValidity(e.active, now) /\ tick.gate

LEMMA EvaluateCases ==
    ASSUME NEW e, Consistent(e), NEW now, NEW tick
    PROVE  LET r == Evaluate(e, now, tick) IN
           \/ /\ ~HasPlan(e) \/ e.state = "LOCKED"
              /\ r.engine = e /\ r.status \in {"SUPPRESSED", "ALREADY_FIRED"}
           \/ /\ HasPlan(e) /\ e.state # "LOCKED" /\ ~LiveTick(e, now, tick)
              /\ r.engine = SuppressBreak(e) /\ r.status = "SUPPRESSED"
           \/ /\ HasPlan(e) /\ LiveTick(e, now, tick) /\ e.state = "COOLDOWN"
              /\ r = Cooldown(e, now, tick)
           \/ /\ HasPlan(e) /\ LiveTick(e, now, tick) /\ e.state \in {"ARMED", "DEBOUNCING"}
              /\ r = Armed(e, now, tick)
  <1> DEFINE r == Evaluate(e, now, tick)
  <1>1. CASE ~HasPlan(e)
    BY <1>1 DEF Evaluate, HasPlan, Result
  <1>2. CASE HasPlan(e) /\ e.state = "LOCKED"
    BY <1>2 DEF Evaluate, HasPlan, Result
  <1>3. CASE HasPlan(e) /\ e.state # "LOCKED" /\ ~LiveTick(e, now, tick)
    BY <1>3 DEF Evaluate, HasPlan, LiveTick, Result
  <1>4. CASE HasPlan(e) /\ LiveTick(e, now, tick) /\ e.state = "COOLDOWN"
    BY <1>4 DEF Evaluate, HasPlan, LiveTick
  <1>5. CASE HasPlan(e) /\ LiveTick(e, now, tick) /\ e.state \notin {"COOLDOWN", "LOCKED"}
    <2>1. r = Armed(e, now, tick)
      BY <1>5 DEF Evaluate, HasPlan, LiveTick
    <2>2. e.state \in TriggerState /\ e.state # "DISARMED"
      BY <1>5 DEF Consistent, Engine, HasPlan
    <2> QED
      BY <1>5, <2>1, <2>2 DEF TriggerState
  <1> QED
    BY <1>1, <1>2, <1>3, <1>4, <1>5

(* evaluate keeps the engine consistent and its decision; a fire carries    *)
(* the key of the decision in the epoch the engine is left in.              *)
LEMMA EvaluateKeepsConsistent ==
    ASSUME EngineConstants, NEW e, Consistent(e), NEW now \in Nat, NEW tick
    PROVE  LET r == Evaluate(e, now, tick) IN
           /\ Consistent(r.engine) /\ r.engine.active = e.active
           /\ r.engine.epoch \in {e.epoch, e.epoch + 1}
           /\ r.status = "TRIGGERED" =>
                 /\ HasPlan(e)
                 /\ r.signal = <<e.active.decision, e.active.plan.id, r.engine.epoch>>
  <1> DEFINE r == Evaluate(e, now, tick)
  <1>1. CASE r.engine = e /\ r.status \in {"SUPPRESSED", "ALREADY_FIRED"}
    BY <1>1
  <1>2. CASE HasPlan(e) /\ r.engine = SuppressBreak(e) /\ r.status = "SUPPRESSED"
    BY <1>2, SuppressBreakKeepsConsistent DEF HasPlan
  <1>3. CASE HasPlan(e) /\ e.state = "COOLDOWN" /\ r = Cooldown(e, now, tick)
    <2> HIDE DEF r
    <2>1. CASE \E n : StillCooling(e, r.engine, n) /\ r.status \in {"SUPPRESSED", "COOLDOWN"}
      BY <1>3, <2>1, CooldownResult DEF StillCooling, r
    <2>2. CASE \E a : /\ Consistent(a) /\ a.state = "ARMED" /\ a.active = e.active
                      /\ a.epoch = e.epoch + 1
                      /\ ArmedTo(a, r, now, tick)
      <3>1. PICK a : /\ Consistent(a) /\ a.state = "ARMED" /\ a.active = e.active
                     /\ a.epoch = e.epoch + 1
                     /\ ArmedTo(a, r, now, tick)
        BY <2>2
      <3>2. /\ r.engine.active = e.active /\ r.engine.epoch = e.epoch + 1
            /\ r.status = "TRIGGERED" =>
                  r.signal = <<e.active.decision, e.active.plan.id, r.engine.epoch>>
        BY <3>1 DEF ArmedTo, Fired, IdempotencyKey
      <3> QED
        BY <1>3, <3>2, CooldownResult DEF r
    <2> QED
      BY <1>3, <2>1, <2>2, CooldownResult
  <1>4. CASE HasPlan(e) /\ e.state \in {"ARMED", "DEBOUNCING"} /\ r = Armed(e, now, tick)
    <2> HIDE DEF r
    <2>1. Consistent(r.engine) /\ ArmedTo(e, r, now, tick)
      BY <1>4, ArmedResult
    <2> QED
      BY <1>4, <2>1 DEF ArmedTo, Fired, IdempotencyKey, r
  <1> QED
    BY <1>1, <1>2, <1>3, <1>4, EvaluateCases
=============================================================================
