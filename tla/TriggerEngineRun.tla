--------------------------- MODULE TriggerEngineRun ---------------------------
(* One life of a TriggerEngine: any sequence of replace_bundle and evaluate  *)
(* calls under a clock that does not run backwards.  The history variables   *)
(* are computed from the ticks alone, not from the engine's counters.        *)
EXTENDS TriggerEngine

CONSTANTS
    Bundles,     \* bundles the caller may offer
    MaxTime,     \* bound on the clock
    MaxEpoch,    \* bound on activation epochs
    MaxRun       \* bound on counted ticks, above every threshold used

VARIABLES
    engine,     \* the engine
    clock,      \* `now` of the last call
    last,       \* status and signal the last call returned
    trueRun,    \* history: live ticks in a row whose condition held
    runStart,   \* history: time of the first of them
    resetRun,   \* history: live ticks in a row whose reset held, since the last fire
    cooled,     \* history: since the last fire, a full reset run was seen after the cooldown
    firedAt,    \* history: time of the last fire of the active bundle
    keys,       \* history: keys fired by this engine
    budget      \* history: fires since the active bundle was installed

vars == <<engine, clock, last, trueRun, runStart, resetRun, cooled, firedAt, keys, budget>>

(* The engine is consistent between two calls and the history is well typed. *)
TypeOK ==
    /\ Consistent(engine)
    /\ clock \in 0..MaxTime
    /\ trueRun \in Nat /\ runStart \in 0..MaxTime
    /\ resetRun \in Nat /\ cooled \in BOOLEAN /\ firedAt \in 0..MaxTime
    /\ keys \subseteq Decision \X PlanId \X (1..MaxEpoch)
    /\ budget \in Nat

Init ==
    /\ engine = NewEngine
    /\ clock = 0
    /\ last = [status |-> "NONE", signal |-> <<>>]
    /\ trueRun = 0 /\ runStart = 0 /\ resetRun = 0
    /\ cooled = FALSE /\ firedAt = 0
    /\ keys = {} /\ budget = 0

ForgetRuns ==
    /\ trueRun' = 0 /\ runStart' = 0 /\ resetRun' = 0
    /\ cooled' = FALSE /\ firedAt' = 0 /\ budget' = 0

(* What was counted up to and with a fire does not count for the next one.  *)
JustFired == last.status = "TRIGGERED"

SinceFire(n) == IF JustFired THEN 0 ELSE n

Replace(b, now) ==
    /\ engine' = ReplaceBundle(engine, b)
    /\ engine'.epoch <= MaxEpoch
    /\ clock' = now
    /\ last' = [status |-> ReplaceStatus(engine, b), signal |-> <<>>]
    /\ IF ReplaceStatus(engine, b) = "REPLACED" THEN ForgetRuns
       ELSE /\ trueRun' = SinceFire(trueRun) /\ resetRun' = SinceFire(resetRun)
            /\ cooled' = (cooled /\ ~JustFired)
            /\ UNCHANGED <<runStart, firedAt, budget>>
    /\ UNCHANGED keys

(* The tick reaches plan.rules, and they hold.                              *)
Live(now, tick) ==
    /\ engine.active # NoBundle
    /\ engine.active.plan # NoPlan
    /\ InValidity(engine.active, now)
    /\ tick.gate

Resets(now, tick) ==
    /\ Live(now, tick)
    /\ IF engine.active.plan.resetRules THEN tick.resetGate /\ tick.reset ELSE ~tick.cond

Capped(n) == IF n > MaxRun THEN MaxRun ELSE n

Observe(now, tick) ==
    /\ trueRun' = IF Live(now, tick) /\ tick.cond THEN Capped(SinceFire(trueRun) + 1) ELSE 0
    /\ runStart' = CASE trueRun' = 0 -> 0 [] SinceFire(trueRun) = 0 -> now [] OTHER -> runStart
    /\ resetRun' = IF Resets(now, tick) THEN Capped(SinceFire(resetRun) + 1) ELSE 0
    /\ cooled' = \/ cooled /\ ~JustFired
                 \/ /\ Live(now, tick)
                    /\ resetRun' >= engine.active.plan.resetEvents
                    /\ now >= firedAt + engine.active.plan.cooldownSeconds

EvaluateTick(now, tick) ==
    LET r == Evaluate(engine, now, tick) IN
    /\ r.engine.epoch <= MaxEpoch
    /\ r.engine.debounceCount <= MaxRun /\ r.engine.resetCount <= MaxRun
    /\ engine' = r.engine
    /\ clock' = now
    /\ last' = [status |-> r.status, signal |-> r.signal]
    /\ Observe(now, tick)
    /\ IF r.status = "TRIGGERED"
       THEN /\ keys' = keys \cup {r.signal}
            /\ budget' = budget + 1
            /\ firedAt' = now
       ELSE UNCHANGED <<keys, budget, firedAt>>

Next ==
    \E now \in clock..MaxTime :
        \/ \E b \in Bundles : Replace(b, now)
        \/ \E tick \in Tick : EvaluateTick(now, tick)

Spec == Init /\ [][Next]_vars

-----------------------------------------------------------------------------
(* evaluate fires only after the condition held on debounce_events live      *)
(* ticks in a row, spanning debounce_seconds; an interruption starts over.   *)
FireIsDebounced ==
    budget' > budget =>
        /\ trueRun' >= engine.active.plan.debounceEvents
        /\ clock' >= runStart' + engine.active.plan.debounceSeconds

(* A bundle fires at most max_fires_per_decision times, and a HOLD never.    *)
FireBudget ==
    budget > 0 => /\ engine.active.plan # NoPlan
                  /\ budget <= engine.active.plan.maxFires

(* A second fire of the same bundle comes only after the cooldown elapsed    *)
(* and the reset held on reset_events live ticks in a row since the first.   *)
RefireAfterReset == budget' > budget /\ budget > 0 => cooled'

(* No idempotency key is issued twice in the life of an engine: the journal  *)
(* tells apart the fires of one decision by their key.                       *)
KeyFiresOnce == budget' > budget => last'.signal \notin keys

(* A decision is replaced only by a strictly newer one: re-reading an old or *)
(* a concurrently created publication never rewinds the engine.              *)
OnlyNewerReplaces ==
    engine'.active # engine.active =>
        engine.active = NoBundle \/ engine'.active.createdAt > engine.active.createdAt

-----------------------------------------------------------------------------
(* The bundles are well formed and no threshold lies above the counters.    *)
RunConstants ==
    /\ EngineConstants
    /\ Bundles \subseteq Bundle
    /\ MaxTime \in Nat /\ MaxEpoch \in Nat /\ MaxRun \in Nat
    /\ \A b \in Bundles : b.plan # NoPlan =>
          b.plan.debounceEvents <= MaxRun /\ b.plan.resetEvents <= MaxRun

(* The inductive invariant: the engine's counters never run ahead of the    *)
(* ticks, a key of the current epoch is spent only when the engine is no    *)
(* longer armed, and an engine armed again was cooled down and reset.       *)
CountsAreBacked ==
    /\ budget = engine.fires
    /\ runStart <= clock /\ firedAt <= clock
    /\ engine.state = "DEBOUNCING" =>
          engine.debounceCount <= trueRun /\ runStart <= engine.firstTrueAt
    /\ engine.state = "COOLDOWN" =>
          /\ engine.cooldownUntil = firedAt + engine.active.plan.cooldownSeconds
          /\ engine.resetCount <= SinceFire(resetRun)
    /\ engine.state \in {"ARMED", "DEBOUNCING"} => ~JustFired /\ (budget > 0 => cooled)

KeysAreSpent ==
    \A k \in keys : /\ k[3] <= engine.epoch
                    /\ k[3] = engine.epoch => engine.state \in {"COOLDOWN", "LOCKED"}

RunInv ==
    /\ TypeOK
    /\ engine.active \in Bundles \cup {NoBundle}
    /\ CountsAreBacked
    /\ KeysAreSpent

(* What one step of the engine may never do.                                *)
EngineStep == FireIsDebounced /\ RefireAfterReset /\ KeyFiresOnce /\ OnlyNewerReplaces

LEMMA InitRunInv ==
    ASSUME RunConstants, Init
    PROVE  RunInv
  <1>1. NewEngine \in Engine
    BY Zenon DEF NewEngine, Engine, TriggerState
  <1>2. Consistent(engine)
    BY <1>1, Zenon DEF Init, NewEngine, Consistent
  <1>3. engine.state = "DISARMED" /\ engine.fires = 0 /\ engine.active = NoBundle
    BY Zenon DEF Init, NewEngine
  <1>4. cooled \in BOOLEAN
    BY Zenon DEF Init
  <1>5. TypeOK
    BY <1>2, <1>4 DEF Init, TypeOK, RunConstants
  <1> QED
    BY <1>3, <1>5 DEF Init, RunInv, CountsAreBacked, KeysAreSpent

LEMMA ReplaceKeepsRun ==
    ASSUME RunConstants, RunInv, NEW b \in Bundles, NEW now \in clock..MaxTime, Replace(b, now)
    PROVE  RunInv' /\ EngineStep
  <1>1. /\ EngineConstants /\ Consistent(engine) /\ b \in Bundle
        /\ clock \in Nat /\ now \in Nat /\ clock <= now /\ now \in 0..MaxTime
        /\ engine.epoch \in Nat /\ budget \in Nat /\ engine.active \in Bundle \cup {NoBundle}
    BY DEF RunConstants, RunInv, TypeOK, Consistent, Engine
  <1>2. CASE ReplaceStatus(engine, b) = "REPLACED"
    <2>1. /\ Consistent(engine') /\ engine'.active = b /\ engine'.epoch = engine.epoch + 1
          /\ engine'.fires = 0 /\ engine'.state \in {"DISARMED", "ARMED"}
      BY <1>1, <1>2, ReplaceKeepsConsistent, Zenon DEF Replace
    <2>2. /\ trueRun' = 0 /\ runStart' = 0 /\ resetRun' = 0 /\ cooled' = FALSE
          /\ firedAt' = 0 /\ budget' = 0 /\ keys' = keys /\ clock' = now
          /\ last'.status = "REPLACED"
      BY <1>2, Zenon DEF Replace, ForgetRuns
    <2>3. TypeOK'
      <3>1. keys' \subseteq Decision \X PlanId \X (1..MaxEpoch)
        BY <2>2, Zenon DEF RunInv, TypeOK
      <3>2. cooled' \in BOOLEAN
        BY <2>2, Zenon
      <3>3. 0 \in 0..MaxTime
        BY DEF RunConstants
      <3> QED
        BY <1>1, <2>1, <2>2, <3>1, <3>2, <3>3, Zenon DEF TypeOK
    <2>4. CountsAreBacked'
      BY <1>1, <2>1, <2>2 DEF CountsAreBacked, JustFired, SinceFire
    <2>5. KeysAreSpent'
      <3> SUFFICES ASSUME NEW k \in keys
                   PROVE  k[3] <= engine.epoch + 1 /\ k[3] # engine.epoch + 1
        BY <2>1, <2>2, Zenon DEF KeysAreSpent
      <3>1. k[3] \in Nat /\ k[3] <= engine.epoch
        BY DEF RunInv, TypeOK, KeysAreSpent, RunConstants
      <3> QED
        BY <1>1, <3>1
    <2>6. OnlyNewerReplaces
      <3>1. engine.active # NoBundle => engine.active \in Bundle
        BY <1>1, Zenon
      <3>2. engine.active # NoBundle => engine.active.createdAt \in Nat /\ b.createdAt \in Nat
        BY <1>1, <3>1, Zenon DEF Bundle
      <3> QED
        BY <1>1, <1>2, <2>1, <3>2 DEF OnlyNewerReplaces, ReplaceStatus
    <2> QED
      BY <1>1, <2>1, <2>2, <2>3, <2>4, <2>5, <2>6
      DEF RunInv, EngineStep, FireIsDebounced, RefireAfterReset, KeyFiresOnce
  <1>3. CASE ReplaceStatus(engine, b) # "REPLACED"
    <2>1. engine' = engine
      BY <1>3, Zenon DEF Replace, ReplaceBundle
    <2>2. /\ trueRun' = SinceFire(trueRun) /\ runStart' = runStart
          /\ resetRun' = SinceFire(resetRun) /\ cooled' = (cooled /\ ~JustFired)
          /\ firedAt' = firedAt /\ budget' = budget /\ keys' = keys /\ clock' = now
          /\ last'.status = ReplaceStatus(engine, b)
      BY <1>3, Zenon DEF Replace
    <2>3. ~JustFired'
      BY <2>2, Zenon DEF JustFired, ReplaceStatus
    <2>4. TypeOK'
      BY <1>1, <2>1, <2>2, Zenon DEF RunInv, TypeOK, RunConstants, SinceFire
    <2>5. CountsAreBacked'
      <3>1. SinceFire(resetRun)' = SinceFire(resetRun)
        BY <2>2, <2>3, Zenon DEF SinceFire
      <3> QED
        BY <1>1, <2>1, <2>2, <2>3, <3>1 DEF RunInv, TypeOK, CountsAreBacked, SinceFire
    <2>6. KeysAreSpent'
      BY <2>1, <2>2, Zenon DEF RunInv, KeysAreSpent
    <2> QED
      BY <1>1, <2>1, <2>2, <2>4, <2>5, <2>6
      DEF RunInv, EngineStep, FireIsDebounced, RefireAfterReset, KeyFiresOnce, OnlyNewerReplaces
  <1> QED
    BY <1>2, <1>3, Zenon

(* The history stays well typed whatever the tick.                          *)
LEMMA ObserveTyped ==
    ASSUME RunConstants, RunInv, NEW now \in clock..MaxTime, NEW tick, Observe(now, tick)
    PROVE  /\ clock \in Nat /\ now \in Nat /\ clock <= now /\ now \in 0..MaxTime
           /\ trueRun' \in Nat /\ resetRun' \in Nat /\ cooled' \in BOOLEAN
           /\ runStart' \in 0..MaxTime /\ runStart' <= now
  <1>1. /\ clock \in 0..MaxTime /\ trueRun \in Nat /\ runStart \in 0..MaxTime
        /\ resetRun \in Nat /\ runStart <= clock /\ MaxRun \in Nat /\ MaxTime \in Nat
    BY Zenon DEF RunInv, TypeOK, CountsAreBacked, RunConstants
  <1>2. now \in 0..MaxTime /\ clock <= now /\ clock \in Nat /\ now \in Nat
    BY <1>1
  <1>3. SinceFire(trueRun) \in Nat /\ SinceFire(resetRun) \in Nat
    BY <1>1, Zenon DEF SinceFire
  <1>4. trueRun' \in Nat /\ resetRun' \in Nat
    BY <1>1, <1>3 DEF Observe, Capped
  <1>5. runStart' \in {0, now, runStart}
    BY Zenon DEF Observe
  <1>6. cooled' \in BOOLEAN
    BY Zenon DEF Observe
  <1> QED
    BY <1>1, <1>2, <1>4, <1>5, <1>6

(* A live tick met in ARMED or DEBOUNCING, possibly after a re-arm: a is    *)
(* the engine that counts it.                                               *)
LEMMA ArmedKeepsRun ==
    ASSUME RunConstants, RunInv, NEW now \in clock..MaxTime, NEW tick, EvaluateTick(now, tick),
           HasPlan(engine), LiveTick(engine, now, tick),
           NEW a, Consistent(a), a.state \in {"ARMED", "DEBOUNCING"},
           a.active = engine.active, a.fires = engine.fires,
           \A k \in keys : k[3] < a.epoch,
           a.state = "DEBOUNCING" =>
              a.debounceCount <= SinceFire(trueRun) /\ runStart <= a.firstTrueAt,
           budget > 0 => cooled',
           Evaluate(engine, now, tick) = Armed(a, now, tick)
    PROVE  RunInv' /\ EngineStep
  <1> DEFINE r == Evaluate(engine, now, tick)
             pl == engine.active.plan
  <1>1. /\ EngineConstants /\ MaxRun \in Nat /\ engine.active \in Bundles
        /\ budget \in Nat /\ budget = engine.fires
        /\ SinceFire(trueRun) \in Nat /\ firedAt \in 0..MaxTime /\ firedAt <= clock
    BY Zenon DEF RunConstants, RunInv, TypeOK, HasPlan, CountsAreBacked, SinceFire
  <1>2. /\ pl.debounceEvents \in Nat /\ pl.debounceEvents > 0 /\ pl.debounceSeconds \in Nat
        /\ pl.debounceEvents <= MaxRun
    BY <1>1 DEF RunConstants, Bundle, Plan, HasPlan
  <1>3. /\ Observe(now, tick) /\ engine' = r.engine /\ clock' = now
        /\ last'.status = r.status /\ last'.signal = r.signal
        /\ r.engine.epoch <= MaxEpoch /\ r.engine.debounceCount <= MaxRun
    BY Zenon DEF EvaluateTick
  <1>4. /\ clock \in Nat /\ now \in Nat /\ clock <= now /\ now \in 0..MaxTime
        /\ trueRun' \in Nat /\ resetRun' \in Nat /\ cooled' \in BOOLEAN
        /\ runStart' \in 0..MaxTime /\ runStart' <= now
    BY <1>3, ObserveTyped, Zenon
  <1>5. Consistent(engine') /\ ArmedTo(a, r, now, tick)
    BY <1>1, <1>3, <1>4, ArmedResult, Zenon
  <1>6. a.epoch \in Nat /\ a.epoch > 0 /\ a.debounceCount \in Nat
        /\ (a.state = "DEBOUNCING" => a.firstTrueAt \in Nat)
        /\ (a.state = "ARMED" => a.debounceCount = 0)
    BY <1>1, ArmedHasPlan, Zenon DEF Consistent, Engine
  <1>7. tick.cond => /\ trueRun' >= 1
                     /\ trueRun' = Capped(SinceFire(trueRun) + 1)
                     /\ a.state = "DEBOUNCING" => runStart' <= a.firstTrueAt
    <2>1. tick.cond => trueRun' = Capped(SinceFire(trueRun) + 1)
      BY <1>3, Zenon DEF Observe, Live, HasPlan, LiveTick
    <2>2. tick.cond => trueRun' >= 1
      BY <1>1, <1>2, <2>1 DEF Capped
    <2>3. ASSUME tick.cond, a.state = "DEBOUNCING" PROVE runStart' <= a.firstTrueAt
      <3>1. a.debounceCount > 0
        BY <2>3, Zenon DEF Consistent
      <3>2. SinceFire(trueRun) # 0 /\ trueRun' # 0
        BY <1>1, <1>6, <2>2, <2>3, <3>1
      <3>3. runStart' = runStart
        BY <1>3, <3>2, Zenon DEF Observe
      <3> QED
        BY <2>3, <3>3, Zenon
    <2> QED
      BY <2>1, <2>2, <2>3, Zenon
  <1> HIDE DEF r, pl
  <1>8. engine'.active = engine.active /\ engine'.epoch = a.epoch
    BY <1>3, <1>5, Zenon DEF ArmedTo, Fired
  <1>9. CASE r.status # "TRIGGERED"
    <2>1. keys' = keys /\ budget' = budget /\ firedAt' = firedAt
      BY <1>9, Zenon DEF EvaluateTick, r
    <2>2. engine'.state \in {"ARMED", "DEBOUNCING"} /\ engine'.fires = engine.fires /\ ~JustFired'
      BY <1>3, <1>5, <1>9, Zenon DEF ArmedTo, JustFired
    <2>3. engine'.state = "DEBOUNCING" =>
             engine'.debounceCount <= trueRun' /\ runStart' <= engine'.firstTrueAt
      BY <1>1, <1>2, <1>3, <1>4, <1>5, <1>6, <1>7, <1>9 DEF ArmedTo, Capped
    <2>4. CountsAreBacked'
      BY <1>1, <1>3, <1>4, <2>1, <2>2, <2>3 DEF CountsAreBacked
    <2>5. KeysAreSpent'
      <3>1. \A k \in keys : k[3] \in Nat
        BY DEF RunInv, TypeOK, RunConstants
      <3> QED
        BY <1>6, <1>8, <2>1, <3>1 DEF KeysAreSpent
    <2>6. TypeOK'
      <3>1. keys' \subseteq Decision \X PlanId \X (1..MaxEpoch)
        BY <2>1, Zenon DEF RunInv, TypeOK
      <3> QED
        BY <1>1, <1>3, <1>4, <1>5, <2>1, <3>1, Zenon DEF TypeOK
    <2> QED
      BY <1>1, <1>8, <2>1, <2>4, <2>5, <2>6
      DEF RunInv, EngineStep, FireIsDebounced, RefireAfterReset, KeyFiresOnce, OnlyNewerReplaces
  <1>10. CASE r.status = "TRIGGERED"
    <2>1. keys' = keys \cup {r.signal} /\ budget' = budget + 1 /\ firedAt' = now
      BY <1>10, Zenon DEF EvaluateTick, r
    <2>2. /\ tick.cond /\ r.signal = IdempotencyKey(a) /\ Fired(a, r.engine, now)
          /\ a.debounceCount + 1 >= pl.debounceEvents
          /\ now >= (IF a.state = "ARMED" THEN now ELSE a.firstTrueAt) + pl.debounceSeconds
      BY <1>5, <1>10, Zenon DEF ArmedTo, pl
    <2>3. FireIsDebounced
      <3>1. trueRun' >= pl.debounceEvents
        BY <1>1, <1>2, <1>4, <1>6, <1>7, <2>2 DEF Capped
      <3>2. clock' >= runStart' + pl.debounceSeconds
        BY <1>2, <1>3, <1>4, <1>6, <1>7, <2>2
      <3> QED
        BY <3>1, <3>2, Zenon DEF FireIsDebounced, pl
    <2>4. /\ r.signal = <<a.active.decision, a.active.plan.id, a.epoch>>
          /\ r.signal[3] = a.epoch /\ r.signal \notin keys
      <3>1. \A k \in keys : k[3] \in Nat
        BY DEF RunInv, TypeOK, RunConstants
      <3> QED
        BY <1>6, <2>2, <3>1 DEF IdempotencyKey
    <2>5. r.signal \in Decision \X PlanId \X (1..MaxEpoch)
      <3>1. engine.active.decision \in Decision /\ engine.active.plan.id \in PlanId
        BY <1>1, Zenon DEF RunConstants, Bundle, Plan, HasPlan
      <3>2. a.epoch \in 1..MaxEpoch
        BY <1>3, <1>6, <1>8 DEF RunConstants
      <3> QED
        BY <2>4, <3>1, <3>2
    <2>6. /\ engine'.fires = engine.fires + 1
          /\ engine'.state \in {"COOLDOWN", "LOCKED"}
          /\ engine'.state = "COOLDOWN" =>
                engine'.resetCount = 0 /\ engine'.cooldownUntil = now + pl.cooldownSeconds
      BY <1>3, <2>2, Zenon DEF Fired, pl
    <2>7. CountsAreBacked'
      <3>1. SinceFire(resetRun)' = 0
        BY <1>3, <1>10, Zenon DEF SinceFire, JustFired
      <3> QED
        BY <1>1, <1>3, <1>4, <1>8, <2>1, <2>6, <3>1 DEF CountsAreBacked, pl
    <2>8. KeysAreSpent'
      <3>1. \A k \in keys : k[3] \in Nat
        BY DEF RunInv, TypeOK, RunConstants
      <3> QED
        BY <1>6, <1>8, <2>1, <2>4, <2>6, <3>1 DEF KeysAreSpent
    <2>9. TypeOK'
      <3>1. keys' \subseteq Decision \X PlanId \X (1..MaxEpoch)
        BY <2>1, <2>5, Zenon DEF RunInv, TypeOK
      <3> QED
        BY <1>1, <1>3, <1>4, <1>5, <2>1, <3>1 DEF TypeOK
    <2> QED
      BY <1>1, <1>3, <1>8, <2>3, <2>4, <2>7, <2>8, <2>9, Zenon
      DEF RunInv, EngineStep, RefireAfterReset, KeyFiresOnce, OnlyNewerReplaces
  <1> QED
    BY <1>9, <1>10, Zenon

(* A tick that neither fires nor arms: counters may only have fallen.       *)
LEMMA QuietTickKeepsRun ==
    ASSUME RunConstants, RunInv, NEW now \in clock..MaxTime, NEW tick, EvaluateTick(now, tick),
           Evaluate(engine, now, tick).status # "TRIGGERED",
           Consistent(engine'), engine'.active = engine.active,
           engine'.epoch = engine.epoch, engine'.fires = engine.fires,
           engine'.state = "DEBOUNCING" => FALSE,
           engine'.state \in {"ARMED"} => engine.state \in {"ARMED", "DEBOUNCING"},
           engine.state \in {"COOLDOWN", "LOCKED"} => engine'.state \in {"COOLDOWN", "LOCKED"},
           engine'.state = "COOLDOWN" =>
              /\ engine.state = "COOLDOWN"
              /\ engine'.cooldownUntil = engine.cooldownUntil
              /\ engine'.resetCount <= resetRun'
    PROVE  RunInv' /\ EngineStep
  <1>1. /\ Observe(now, tick) /\ clock' = now /\ ~JustFired'
        /\ keys' = keys /\ budget' = budget /\ firedAt' = firedAt
    BY Zenon DEF EvaluateTick, JustFired
  <1>2. /\ clock \in Nat /\ now \in Nat /\ clock <= now /\ now \in 0..MaxTime
        /\ trueRun' \in Nat /\ resetRun' \in Nat /\ cooled' \in BOOLEAN
        /\ runStart' \in 0..MaxTime /\ runStart' <= now
    BY <1>1, ObserveTyped, Zenon
  <1>3. TypeOK'
    <2>1. keys' \subseteq Decision \X PlanId \X (1..MaxEpoch)
      BY <1>1, Zenon DEF RunInv, TypeOK
    <2> QED
      BY <1>1, <1>2, <2>1, Zenon DEF RunInv, TypeOK
  <1>4. engine'.state = "ARMED" /\ budget' > 0 => cooled'
    BY <1>1, Zenon DEF RunInv, CountsAreBacked, Observe
  <1>5. CountsAreBacked'
    <2>1. SinceFire(resetRun)' = resetRun'
      BY <1>1, Zenon DEF SinceFire
    <2>2. firedAt \in 0..MaxTime /\ firedAt <= clock /\ budget = engine.fires
      BY Zenon DEF RunInv, TypeOK, CountsAreBacked
    <2>3. firedAt' <= clock'
      BY <1>1, <1>2, <2>2
    <2>4. engine'.state = "COOLDOWN" =>
             engine'.cooldownUntil = firedAt' + engine'.active.plan.cooldownSeconds
      BY <1>1, Zenon DEF RunInv, CountsAreBacked
    <2> QED
      BY <1>1, <1>2, <1>4, <2>1, <2>2, <2>3, <2>4, Zenon DEF CountsAreBacked
  <1>6. KeysAreSpent'
    BY <1>1, Zenon DEF RunInv, KeysAreSpent
  <1>7. budget \in Nat
    BY Zenon DEF RunInv, TypeOK
  <1> QED
    BY <1>1, <1>3, <1>5, <1>6, <1>7
    DEF RunInv, EngineStep, FireIsDebounced, RefireAfterReset, KeyFiresOnce, OnlyNewerReplaces

LEMMA EvaluateKeepsRun ==
    ASSUME RunConstants, RunInv, NEW now \in clock..MaxTime, NEW tick \in Tick,
           EvaluateTick(now, tick)
    PROVE  RunInv' /\ EngineStep
  <1> DEFINE r == Evaluate(engine, now, tick)
  <1>1. /\ EngineConstants /\ Consistent(engine) /\ Observe(now, tick) /\ engine' = r.engine
        /\ engine.state \in TriggerState
    BY Zenon DEF RunConstants, RunInv, TypeOK, EvaluateTick, Consistent, Engine
  <1>2. now \in Nat
    BY <1>1, ObserveTyped, Zenon
  <1>3. CASE /\ ~HasPlan(engine) \/ engine.state = "LOCKED"
             /\ r.engine = engine /\ r.status \in {"SUPPRESSED", "ALREADY_FIRED"}
    <2>1. engine.state \in {"DISARMED", "LOCKED"}
      BY <1>1, <1>3, Zenon DEF HasPlan, Consistent
    <2> QED
      BY <1>1, <1>3, <2>1, QuietTickKeepsRun, Zenon
  <1>4. CASE /\ HasPlan(engine) /\ engine.state # "LOCKED" /\ ~LiveTick(engine, now, tick)
             /\ r.engine = SuppressBreak(engine) /\ r.status = "SUPPRESSED"
    <2>1. resetRun' \in Nat
      BY <1>1, ObserveTyped, Zenon
    <2>2. engine.state # "DISARMED"
      BY <1>1, <1>4, Zenon DEF HasPlan, Consistent
    <2> HIDE DEF r
    <2> QED
      BY <1>1, <1>4, <2>1, <2>2, QuietTickKeepsRun, SuppressBreakKeepsConsistent
      DEF HasPlan, TriggerState, r
  <1>5. CASE /\ HasPlan(engine) /\ LiveTick(engine, now, tick) /\ engine.state = "COOLDOWN"
             /\ r = Cooldown(engine, now, tick)
    <2>1. engine.resetCount \in Nat /\ engine.resetCount <= SinceFire(resetRun)
          /\ SinceFire(resetRun) \in Nat /\ MaxRun \in Nat /\ resetRun' \in Nat
      BY <1>1, <1>5, ObserveTyped, Zenon
      DEF Consistent, Engine, RunInv, TypeOK, CountsAreBacked, RunConstants, SinceFire
    <2>2. /\ Interrupted(engine, tick) => resetRun' = 0
          /\ ~Interrupted(engine, tick) =>
                resetRun' = IF ResetTrue(engine, tick) THEN Capped(SinceFire(resetRun) + 1) ELSE 0
      BY <1>1, <1>5, Zenon DEF Observe, Resets, Live, HasPlan, LiveTick, Interrupted, ResetTrue
    <2>3. r.engine.resetCount <= MaxRun
      BY Zenon DEF EvaluateTick
    <2> HIDE DEF r
    <2>4. CASE /\ Interrupted(engine, tick) /\ r.status = "SUPPRESSED"
               /\ StillCooling(engine, r.engine, 0)
      <3>1. r.engine.resetCount <= resetRun'
        BY <2>2, <2>4 DEF StillCooling
      <3> QED
        BY <1>1, <1>2, <1>5, <2>4, <3>1, QuietTickKeepsRun, CooldownResult, Zenon
        DEF StillCooling, r
    <2>5. CASE /\ ~Interrupted(engine, tick) /\ r.status = "COOLDOWN"
               /\ StillCooling(engine, r.engine, ResetsAfter(engine, tick))
      <3>1. r.engine.resetCount <= resetRun'
        BY <2>1, <2>2, <2>3, <2>5 DEF StillCooling, ResetsAfter, Capped
      <3> QED
        BY <1>1, <1>2, <1>5, <2>5, <3>1, QuietTickKeepsRun, CooldownResult, Zenon
        DEF StillCooling, r
    <2>6. CASE /\ ~Interrupted(engine, tick)
               /\ now >= engine.cooldownUntil
               /\ ResetsAfter(engine, tick) >= engine.active.plan.resetEvents
               /\ \E a : /\ Consistent(a) /\ a.state = "ARMED" /\ a.active = engine.active
                         /\ a.epoch = engine.epoch + 1 /\ a.fires = engine.fires
                         /\ r = Armed(a, now, tick)
      <3>1. PICK a : /\ Consistent(a) /\ a.state = "ARMED" /\ a.active = engine.active
                     /\ a.epoch = engine.epoch + 1 /\ a.fires = engine.fires
                     /\ r = Armed(a, now, tick)
        BY <2>6, Zenon
      <3>2. /\ engine.active.plan.resetEvents \in Nat /\ engine.active.plan.resetEvents > 0
            /\ engine.active.plan.resetEvents <= MaxRun
        BY <1>5 DEF RunInv, HasPlan, RunConstants, Bundle, Plan
      <3>3. resetRun' >= engine.active.plan.resetEvents
        BY <2>1, <2>2, <2>6, <3>2 DEF ResetsAfter, Capped
      <3>4. engine.cooldownUntil = firedAt + engine.active.plan.cooldownSeconds
        BY <1>5, Zenon DEF RunInv, CountsAreBacked
      <3>5. cooled'
        BY <1>1, <1>5, <2>6, <3>3, <3>4, Zenon DEF Observe, Live, HasPlan, LiveTick
      <3>6. \A k \in keys : k[3] < a.epoch
        <4>1. \A k \in keys : k[3] \in Nat
          BY DEF RunInv, TypeOK, RunConstants
        <4>2. engine.epoch \in Nat
          BY <1>1, Zenon DEF Consistent, Engine
        <4> QED
          BY <3>1, <4>1, <4>2 DEF RunInv, KeysAreSpent
      <3> QED
        BY <1>5, <3>1, <3>5, <3>6, ArmedKeepsRun, Zenon DEF r
    <2> QED
      BY <1>1, <1>2, <1>5, <2>4, <2>5, <2>6, CooldownResult
  <1>6. CASE /\ HasPlan(engine) /\ LiveTick(engine, now, tick)
             /\ engine.state \in {"ARMED", "DEBOUNCING"} /\ r = Armed(engine, now, tick)
    <2>1. \A k \in keys : k[3] < engine.epoch
      <3>1. \A k \in keys : k[3] \in Nat
        BY DEF RunInv, TypeOK, RunConstants
      <3>2. engine.epoch \in Nat
        BY <1>1, Zenon DEF Consistent, Engine
      <3> QED
        BY <1>6, <3>1, <3>2 DEF RunInv, KeysAreSpent
    <2>2. /\ ~JustFired /\ (budget > 0 => cooled)
          /\ engine.state = "DEBOUNCING" =>
                engine.debounceCount <= SinceFire(trueRun) /\ runStart <= engine.firstTrueAt
      BY <1>6, Zenon DEF RunInv, CountsAreBacked, SinceFire
    <2>3. budget > 0 => cooled'
      BY <1>1, <2>2, Zenon DEF Observe
    <2> QED
      BY <1>1, <1>6, <2>1, <2>2, <2>3, ArmedKeepsRun, Zenon
  <1> QED
    BY <1>1, <1>3, <1>4, <1>5, <1>6, EvaluateCases, Zenon

LEMMA NextRunInv ==
    ASSUME RunConstants, RunInv, [Next]_vars
    PROVE  RunInv' /\ [EngineStep]_vars
  <1>1. CASE UNCHANGED vars
    BY <1>1, Zenon DEF vars, RunInv, TypeOK, CountsAreBacked, KeysAreSpent, SinceFire, JustFired
  <1>2. CASE Next
    BY <1>2, ReplaceKeepsRun, EvaluateKeepsRun, Zenon DEF Next
  <1> QED
    BY <1>1, <1>2, Zenon

(* A bundle never fires more than max_fires_per_decision times, a HOLD never *)
(* (TriggerEngine.evaluate, _fire).                                          *)
THEOREM FiresWithinBudget ==
    ASSUME RunConstants
    PROVE  Spec => []FireBudget
  <1>1. RunInv => FireBudget
    <2> SUFFICES ASSUME RunInv, budget > 0
                 PROVE  engine.active.plan # NoPlan /\ budget <= engine.active.plan.maxFires
      BY Zenon DEF FireBudget
    <2>1. Consistent(engine) /\ EngineConstants /\ budget = engine.fires
      BY Zenon DEF RunInv, TypeOK, CountsAreBacked, RunConstants
    <2>2. engine.state # "DISARMED"
      BY <2>1 DEF Consistent
    <2>3. /\ engine.active.plan \in Plan /\ engine.fires \in Nat
          /\ engine.active.plan.maxFires \in Nat /\ engine.state \in TriggerState
      BY <2>1, <2>2, ArmedHasPlan DEF Engine
    <2> QED
      BY <2>1, <2>2, <2>3 DEF Consistent, TriggerState, EngineConstants
  <1> QED
    BY <1>1, InitRunInv, NextRunInv, PTL DEF Spec

(* For every debounce, cooldown and reset setting: a fire is debounced, a    *)
(* refire comes after the cooldown and a full reset, no key fires twice, and *)
(* only a strictly newer decision replaces the active one (evaluate,         *)
(* replace_bundle).                                                          *)
THEOREM EngineFiresByTheRules ==
    ASSUME RunConstants
    PROVE  Spec => [][FireIsDebounced /\ RefireAfterReset /\ KeyFiresOnce
                         /\ OnlyNewerReplaces]_vars
  BY InitRunInv, NextRunInv, PTL DEF Spec, EngineStep
=============================================================================
