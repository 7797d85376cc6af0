----------------------------- MODULE PaperBroker -----------------------------
(***************************************************************************)
(* The paper broker over its SQLite ledger (src/broker/paper_broker.py,     *)
(* src/ledger/sqlite_ledger.py), for one account and one currency.  Several *)
(* processes may have the ledger file open.  submit_order reads (duplicate, *)
(* cash, position) outside any transaction and writes in one, so what it    *)
(* decided on may be stale when it writes.                                  *)
(***************************************************************************)
EXTENDS Integers, Sequences, FiniteSetsExt, Functions, FiniteSetTheorems, TLAPS

CONSTANTS
    Proc, Order, Symbol,
    IntentOf,       \* order_id -> [symbol, side, type, limit, qty, sized, matching]
    Price,          \* market prices
    Fee,            \* commission and tax of a fill
    InitialCash,
    Seeders,        \* processes that may construct the broker over a fresh ledger
    NoFill, NoAmount

VARIABLES
    cash,       \* current_cash
    entries,    \* paper_cash_ledger: order, delta, balance after
    position,   \* current_positions: quantity held, 0 when there is no row
    results,    \* order_results (an order_intents row is written with each)
    fills,      \* fills
    pc, order, price, verdict       \* a submit in progress

ledgerVars == <<cash, entries, position, results, fills>>
procVars == <<pc, order, price, verdict>>
vars == <<ledgerVars, procVars>>

Intent == [symbol : Symbol, side : {"BUY", "SELL"}, type : {"MARKET", "LIMIT"},
           limit : Nat, qty : Nat \ {0},
           sized : BOOLEAN,       \* a quantity, not a target weight
           matching : BOOLEAN]    \* symbol, market and currency fit the price

ASSUME PaperBrokerConstants ==
    /\ Order # {}
    /\ IntentOf \in [Order -> Intent]
    /\ Price \subseteq Nat \ {0}
    /\ Fee \in Nat /\ InitialCash \in Nat
    /\ Seeders \subseteq Proc
    /\ NoAmount \notin Int
    /\ NoFill \notin [qty : Nat, price : Nat]
    /\ "INITIAL_CASH" \notin Order

Balance == IF cash = NoAmount THEN 0 ELSE cash

Init ==
    /\ cash = NoAmount
    /\ entries = <<>>
    /\ position = [s \in Symbol |-> 0]
    /\ results = [o \in Order |-> "NONE"]
    /\ fills = [o \in Order |-> NoFill]
    /\ pc = [p \in Proc |-> IF p \in Seeders THEN "start" ELSE "idle"]
    /\ order = [p \in Proc |-> CHOOSE o \in Order : TRUE]
    /\ price = [p \in Proc |-> 0]
    /\ verdict = [p \in Proc |-> "NONE"]

-----------------------------------------------------------------------------
(* apply_cash_change: projection and append-only ledger together.           *)
ApplyCashChange(o, delta, amount) ==
    /\ cash' = amount
    /\ entries' = Append(entries, [order |-> o, delta |-> delta, after |-> amount])

(* _seed_initial_cash: the reads (does a balance exist, and the one           *)
(* apply_cash_change checks its delta against) are made before the first     *)
(* write takes the file's lock.                                              *)
SeedRead(p) ==
    /\ pc[p] = "start"
    /\ pc' = [pc EXCEPT ![p] = IF cash = NoAmount THEN "seed" ELSE "idle"]
    /\ UNCHANGED <<ledgerVars, order, price, verdict>>

(* A balance that appeared between the two reads: the constructor raises,    *)
(* and is called again.                                                      *)
SeedRaises(p) ==
    /\ pc[p] = "seed" /\ cash # NoAmount
    /\ pc' = [pc EXCEPT ![p] = "start"]
    /\ UNCHANGED <<ledgerVars, order, price, verdict>>

SeedWrite(p) ==
    /\ pc[p] = "seed"
    /\ ApplyCashChange("INITIAL_CASH", InitialCash, InitialCash)
    /\ pc' = [pc EXCEPT ![p] = "idle"]
    /\ UNCHANGED <<position, results, fills, order, price, verdict>>

-----------------------------------------------------------------------------
Cost(i, x) == i.qty * x + Fee

Proceeds(i, x) == i.qty * x - Fee

(* A limit order waits while the price is beyond its limit.                 *)
Waits(i, x) ==
    /\ i.type = "LIMIT"
    /\ IF i.side = "BUY" THEN x > i.limit ELSE x < i.limit

(* submit_order up to its transaction: what the broker decides to record.   *)
EvaluateOrder(i, x) ==
    IF ~i.matching \/ ~i.sized THEN "REJECTED"
    ELSE IF Waits(i, x) THEN "PENDING"
    ELSE IF i.side = "SELL" /\ position[i.symbol] < i.qty THEN "REJECTED"
    ELSE IF i.side = "BUY" /\ Balance < Cost(i, x) THEN "REJECTED"
    ELSE "FILLED"

(* A processed order_id is answered REJECTED and nothing is recorded.        *)
Evaluate(p, o, x) ==
    /\ pc[p] = "idle"
    /\ results[o] = "NONE"
    /\ pc' = [pc EXCEPT ![p] = "record"]
    /\ order' = [order EXCEPT ![p] = o]
    /\ price' = [price EXCEPT ![p] = x]
    /\ verdict' = [verdict EXCEPT ![p] = EvaluateOrder(IntentOf[o], x)]
    /\ UNCHANGED ledgerVars

Return(p) ==
    /\ pc' = [pc EXCEPT ![p] = "idle"]
    /\ verdict' = [verdict EXCEPT ![p] = "NONE"]
    /\ price' = [price EXCEPT ![p] = 0]
    /\ UNCHANGED order

(* Mutant: a second row of an order replaces the first.                     *)
InsertableAlways(o) == TRUE

(* The primary keys of order_intents and order_results refuse a second row. *)
Insertable(o) == results[o] = "NONE"

(* _record_rejected_order and _record_pending_order *)
RecordUnfilled(p) ==
    LET o == order[p] IN
    /\ pc[p] = "record"
    /\ verdict[p] \in {"REJECTED", "PENDING"}
    /\ Insertable(o)
    /\ results' = [results EXCEPT ![o] = verdict[p]]
    /\ Return(p)
    /\ UNCHANGED <<cash, entries, position, fills>>

Delta(i, x) == IF i.side = "BUY" THEN -Cost(i, x) ELSE Proceeds(i, x)

Held(i) == IF i.side = "BUY" THEN position[i.symbol] + i.qty ELSE position[i.symbol] - i.qty

(* Mutant: the fill trusts the evaluation.                                  *)
AppliesUnchecked(i, x) == TRUE

(* _update_cash and _decrease_position raise on a balance or quantity below  *)
(* zero.                                                                    *)
Applies(i, x) == Held(i) >= 0 /\ Balance + Delta(i, x) >= 0

(* _record_filled_order: intent, result, fill, position and cash in one      *)
(* transaction, on the cash and the position as they are now.               *)
RecordFilled(p) ==
    LET o == order[p]  i == IntentOf[o]  x == price[p] IN
    /\ pc[p] = "record" /\ verdict[p] = "FILLED"
    /\ Insertable(o) /\ Applies(i, x)
    /\ results' = [results EXCEPT ![o] = "FILLED"]
    /\ fills' = [fills EXCEPT ![o] = [qty |-> i.qty, price |-> x]]
    /\ position' = [position EXCEPT ![i.symbol] = Held(i)]
    /\ ApplyCashChange(o, Delta(i, x), Balance + Delta(i, x))
    /\ Return(p)

(* The transaction raises (a stale evaluation, a duplicate row, a locked    *)
(* file) or the process dies in it: it is rolled back.                      *)
Rollback(p) ==
    /\ pc[p] = "record"
    /\ Return(p)
    /\ UNCHANGED ledgerVars

Next ==
    \E p \in Proc :
        \/ SeedRead(p) \/ SeedRaises(p) \/ SeedWrite(p)
        \/ \E o \in Order, x \in Price : Evaluate(p, o, x)
        \/ RecordUnfilled(p) \/ RecordFilled(p) \/ Rollback(p)

Spec == Init /\ [][Next]_vars

-----------------------------------------------------------------------------
(* Every variable is well typed; in particular neither the cash nor a         *)
(* position goes below zero, although the checks that admit an order are made *)
(* before the write.                                                          *)
NoOverdraft ==
    /\ cash \in Nat \cup {NoAmount}
    /\ position \in [Symbol -> Nat]
    /\ results \in [Order -> {"NONE", "REJECTED", "PENDING", "FILLED"}]
    /\ pc \in [Proc -> {"start", "seed", "idle", "record"}]
    /\ order \in [Proc -> Order]
    /\ price \in [Proc -> Price \cup {0}]
    /\ verdict \in [Proc -> {"NONE", "REJECTED", "PENDING", "FILLED"}]

(* The append-only cash ledger explains the balance: each row's balance is   *)
(* the one before it plus its delta, and the last is current_cash            *)
(* (sqlite_ledger.py:377).                                                   *)
LedgerExplainsCash ==
    /\ \A n \in DOMAIN entries :
          entries[n].after = entries[n].delta + (IF n = 1 THEN 0 ELSE entries[n - 1].after)
    /\ entries # <<>> => cash = entries[Len(entries)].after

Filled == {o \in Order : results[o] = "FILLED"}

Sum(f(_), S) == MapThenSumSet(f, S)

(* A FILLED order has one fill and one cash row, any other order neither:    *)
(* the five tables of a fill are written together or not at all.             *)
FilledOnce ==
    \A o \in Order :
        /\ results[o] = "FILLED" <=> fills[o] # NoFill
        /\ Cardinality({n \in DOMAIN entries : entries[n].order = o})
              = IF results[o] = "FILLED" THEN 1 ELSE 0

(* Fills, results, cash rows and positions agree: a FILLED order has one     *)
(* fill and one cash row, any other order has neither, and what is held is   *)
(* what was bought less what was sold.                                       *)
FillsExplainHoldings ==
    /\ FilledOnce
    /\ \A s \in Symbol :
          position[s] = Sum(LAMBDA o : IF IntentOf[o].side = "BUY" THEN fills[o].qty ELSE -fills[o].qty,
                            {o \in Filled : IntentOf[o].symbol = s})

(* An order's result is written once.                                        *)
ResultFinal ==
    \A o \in Order : results[o] # "NONE" => results'[o] = results[o] /\ fills'[o] = fills[o]

(* No interleaving of submits, rollbacks and seedings rewrites the result or *)
(* the fill of an order that has one (the primary keys of order_results).    *)
ResultsAreFinal == [][ResultFinal]_vars

(* What the counts of FilledOnce rest on: the fills and the cash rows, order *)
(* by order.                                                                 *)
CashRows(o) == {n \in DOMAIN entries : entries[n].order = o}

TablesInv ==
    /\ entries \in Seq([order : Order \cup {"INITIAL_CASH"}, delta : Int, after : Int])
    /\ fills \in [Order -> [qty : Nat, price : Nat] \cup {NoFill}]
    /\ \A o \in Order :
          /\ results[o] = "FILLED" <=> fills[o] # NoFill
          /\ IF results[o] = "FILLED" THEN \E n \in Nat : CashRows(o) = {n} ELSE CashRows(o) = {}

(* One process at most constructs the broker over the fresh ledger.          *)
OneSeeder == \A p, q \in Seeders : p = q

(* Before the seeding: no cash, no rows, nothing held.                       *)
SeedInv ==
    /\ cash = NoAmount => entries = <<>> /\ \A s \in Symbol : position[s] = 0
    /\ cash # NoAmount => entries # <<>>
    /\ \A p \in Proc :
          /\ pc[p] \in {"start", "seed"} => p \in Seeders
          /\ pc[p] = "seed" => cash = NoAmount
          /\ pc[p] = "record" => price[p] \in Price

-----------------------------------------------------------------------------
(* The paper broker overdraws neither cash nor positions, for every set of   *)
(* orders, prices and processes.                                             *)

(* A fill's effect on cash is an integer, and on holdings too.               *)
LEMMA FillArithmetic ==
    ASSUME NoOverdraft, NEW o \in Order, NEW x \in Price \cup {0}
    PROVE  /\ IntentOf[o].symbol \in Symbol
           /\ Held(IntentOf[o]) \in Int
           /\ Delta(IntentOf[o], x) \in Int
           /\ Balance + Delta(IntentOf[o], x) \in Int
<1> DEFINE i == IntentOf[o]
<1>1. i \in Intent
  BY PaperBrokerConstants
<1>2. /\ i.symbol \in Symbol /\ i.qty \in Int /\ x \in Int /\ Fee \in Int
  BY <1>1, PaperBrokerConstants DEF Intent
<1>3. position[i.symbol] \in Int
  BY <1>2 DEF NoOverdraft
<1>4. Held(i) \in Int
  BY <1>2, <1>3 DEF Held
<1>5. Balance \in Int
  BY DEF Balance, NoOverdraft
<1>6. Cost(i, x) \in Int /\ Proceeds(i, x) \in Int
  <2> DEFINE q == i.qty
  <2>1. q * x \in Int
    BY <1>2
  <2> QED
    BY <1>2, <2>1 DEF Cost, Proceeds
<1>7. Delta(i, x) \in Int
  <2> HIDE DEF i
  <2> QED
    BY <1>6 DEF Delta
<1> QED
  BY <1>2, <1>4, <1>5, <1>7

(* The checks made inside the transaction, not the evaluation before it,      *)
(* keep a fill from overdrawing.                                             *)
LEMMA FilledKeepsNoOverdraft ==
    ASSUME NoOverdraft, NEW p \in Proc, RecordFilled(p)
    PROVE  NoOverdraft'
<1> DEFINE o == order[p]  i == IntentOf[o]  x == price[p]
<1>1. o \in Order /\ x \in Price \cup {0}
  BY DEF NoOverdraft
<1>2. i.symbol \in Symbol /\ Held(i) \in Int /\ Balance + Delta(i, x) \in Int
  BY <1>1, FillArithmetic
<1>3. Held(i) \in Nat /\ Balance + Delta(i, x) \in Nat
  BY <1>2 DEF RecordFilled, Applies
<1>4. cash' \in Nat
  BY <1>3 DEF RecordFilled, ApplyCashChange
<1>5. position' \in [Symbol -> Nat]
  BY <1>2, <1>3 DEF RecordFilled, NoOverdraft
<1>6. results' \in [Order -> {"NONE", "REJECTED", "PENDING", "FILLED"}]
  BY DEF RecordFilled, NoOverdraft
<1>7. /\ pc' \in [Proc -> {"start", "seed", "idle", "record"}]
      /\ order' \in [Proc -> Order]
      /\ price' \in [Proc -> Price \cup {0}]
      /\ verdict' \in [Proc -> {"NONE", "REJECTED", "PENDING", "FILLED"}]
  BY DEF RecordFilled, Return, NoOverdraft
<1> QED
  BY <1>4, <1>5, <1>6, <1>7 DEF NoOverdraft

(* Cash and positions never go below zero (paper_broker.py:358, 410).        *)
THEOREM BrokerNeverOverdraws == Spec => []NoOverdraft
<1>1. Init => NoOverdraft
  <2> SUFFICES ASSUME Init PROVE NoOverdraft
    OBVIOUS
  <2>1. (CHOOSE o \in Order : TRUE) \in Order
    BY PaperBrokerConstants
  <2> QED
    BY <2>1 DEF Init, NoOverdraft
<1>2. NoOverdraft /\ [Next]_vars => NoOverdraft'
  <2> SUFFICES ASSUME NoOverdraft, [Next]_vars PROVE NoOverdraft'
    OBVIOUS
  <2>1. ASSUME NEW p \in Proc, SeedRead(p) \/ SeedRaises(p) PROVE NoOverdraft'
    BY <2>1 DEF SeedRead, SeedRaises, NoOverdraft, ledgerVars
  <2>2. ASSUME NEW p \in Proc, SeedWrite(p) PROVE NoOverdraft'
    BY <2>2, PaperBrokerConstants DEF SeedWrite, ApplyCashChange, NoOverdraft
  <2>3. ASSUME NEW p \in Proc, NEW o \in Order, NEW x \in Price, Evaluate(p, o, x)
        PROVE  NoOverdraft'
    <3>1. EvaluateOrder(IntentOf[o], x) \in {"REJECTED", "PENDING", "FILLED"}
      BY DEF EvaluateOrder
    <3> QED
      BY <2>3, <3>1 DEF Evaluate, NoOverdraft, ledgerVars
  <2>4. ASSUME NEW p \in Proc, RecordUnfilled(p) PROVE NoOverdraft'
    BY <2>4 DEF RecordUnfilled, Return, NoOverdraft
  <2>5. ASSUME NEW p \in Proc, RecordFilled(p) PROVE NoOverdraft'
    BY <2>5, FilledKeepsNoOverdraft
  <2>6. ASSUME NEW p \in Proc, Rollback(p) PROVE NoOverdraft'
    BY <2>6 DEF Rollback, Return, NoOverdraft, ledgerVars
  <2>7. ASSUME UNCHANGED vars PROVE NoOverdraft'
    BY <2>7 DEF vars, ledgerVars, procVars, NoOverdraft
  <2> QED
    BY <2>1, <2>2, <2>3, <2>4, <2>5, <2>6, <2>7 DEF Next
<1> QED
  BY <1>1, <1>2, PTL DEF Spec

-----------------------------------------------------------------------------
(* One order, one result, one fill, one cash row.  TablesInv says of the     *)
(* fills and of the cash ledger what FilledOnce counts; it is inductive with *)
(* NoOverdraft.                                                              *)

LEMMA TablesInit == Init => TablesInv
BY PaperBrokerConstants DEF Init, TablesInv, CashRows

LEMMA TablesKept ==
    ASSUME TablesInv, UNCHANGED <<entries, results, fills>>
    PROVE  TablesInv'
BY DEF TablesInv, CashRows

(* A row of another order, or of the initial cash, is not a row of o.        *)
LEMMA AppendedRow ==
    ASSUME NEW es \in Seq([order : Order \cup {"INITIAL_CASH"}, delta : Int, after : Int]),
           NEW e \in [order : Order \cup {"INITIAL_CASH"}, delta : Int, after : Int], NEW o
    PROVE  {n \in DOMAIN Append(es, e) : Append(es, e)[n].order = o}
              = {n \in DOMAIN es : es[n].order = o} \cup (IF e.order = o THEN {Len(es) + 1} ELSE {})
<1>1. /\ DOMAIN Append(es, e) = DOMAIN es \cup {Len(es) + 1}
      /\ Len(es) + 1 \notin DOMAIN es
      /\ Append(es, e)[Len(es) + 1] = e
      /\ \A n \in DOMAIN es : Append(es, e)[n] = es[n]
  OBVIOUS
<1> QED
  BY <1>1

LEMMA SeedWriteKeepsTables ==
    ASSUME NoOverdraft, TablesInv, NEW p \in Proc, SeedWrite(p)
    PROVE  TablesInv'
<1> DEFINE e == [order |-> "INITIAL_CASH", delta |-> InitialCash, after |-> InitialCash]
<1>1. e \in [order : Order \cup {"INITIAL_CASH"}, delta : Int, after : Int] /\ entries' = Append(entries, e)
  BY PaperBrokerConstants DEF SeedWrite, ApplyCashChange
<1>2. entries' \in Seq([order : Order \cup {"INITIAL_CASH"}, delta : Int, after : Int])
  BY <1>1 DEF TablesInv
<1>3. ASSUME NEW o \in Order PROVE CashRows(o)' = CashRows(o)
  <2>1. e.order # o
    BY PaperBrokerConstants
  <2> HIDE DEF e
  <2> QED
    BY <1>1, <2>1, AppendedRow DEF CashRows, TablesInv
<1> QED
  BY <1>2, <1>3 DEF TablesInv, SeedWrite

LEMMA FilledKeepsTables ==
    ASSUME NoOverdraft, TablesInv, NEW p \in Proc, RecordFilled(p)
    PROVE  TablesInv'
<1> DEFINE o == order[p]  i == IntentOf[o]  x == price[p]
           e == [order |-> o, delta |-> Delta(i, x), after |-> Balance + Delta(i, x)]
<1>1. o \in Order /\ x \in Price \cup {0} /\ results[o] = "NONE"
  BY DEF NoOverdraft, RecordFilled, Insertable
<1>2. i.qty \in Nat /\ x \in Nat
  <2>1. i \in Intent
    BY <1>1, PaperBrokerConstants
  <2> HIDE DEF i, x
  <2>2. x \in Nat
    BY <1>1, PaperBrokerConstants
  <2> QED
    BY <2>1, <2>2 DEF Intent
<1>3. Delta(i, x) \in Int /\ Balance + Delta(i, x) \in Int
  BY <1>1, FillArithmetic
<1>4. e \in [order : Order \cup {"INITIAL_CASH"}, delta : Int, after : Int] /\ entries' = Append(entries, e)
  BY <1>1, <1>3 DEF RecordFilled, ApplyCashChange
<1>5. entries' \in Seq([order : Order \cup {"INITIAL_CASH"}, delta : Int, after : Int])
  BY <1>4 DEF TablesInv
<1>6. fills' = [fills EXCEPT ![o] = [qty |-> i.qty, price |-> x]] /\ results' = [results EXCEPT ![o] = "FILLED"]
  BY DEF RecordFilled
<1>7. [qty |-> i.qty, price |-> x] \in [qty : Nat, price : Nat] /\ [qty |-> i.qty, price |-> x] # NoFill
  BY <1>2, PaperBrokerConstants
<1>8. e.order = o
  OBVIOUS
<1>9. ASSUME NEW q \in Order
      PROVE  CashRows(q)' = CashRows(q) \cup (IF o = q THEN {Len(entries) + 1} ELSE {})
  <2> HIDE DEF e
  <2> QED
    BY <1>4, <1>8, AppendedRow DEF CashRows, TablesInv
<1>10. Len(entries) + 1 \in Nat
  BY DEF TablesInv
<1> HIDE DEF o, i, x, e
<1>11. fills' \in [Order -> [qty : Nat, price : Nat] \cup {NoFill}]
  BY <1>1, <1>6, <1>7 DEF TablesInv
<1>12. ASSUME NEW q \in Order
       PROVE  /\ results'[q] = "FILLED" <=> fills'[q] # NoFill
              /\ IF results'[q] = "FILLED" THEN \E n \in Nat : CashRows(q)' = {n} ELSE CashRows(q)' = {}
  <2>1. CASE q = o
    <3>1. CashRows(q) = {}
      BY <1>1, <2>1 DEF TablesInv
    <3>2. CashRows(q)' = {Len(entries) + 1}
      BY <1>9, <2>1, <3>1
    <3>3. results'[q] = "FILLED" /\ fills'[q] # NoFill
      BY <1>1, <1>6, <1>7, <2>1 DEF TablesInv, NoOverdraft
    <3> QED
      BY <1>10, <3>2, <3>3
  <2>2. CASE q # o
    <3>1. CashRows(q)' = CashRows(q) /\ results'[q] = results[q] /\ fills'[q] = fills[q]
      BY <1>1, <1>6, <1>9, <2>2 DEF TablesInv, NoOverdraft
    <3> QED
      BY <3>1 DEF TablesInv
  <2> QED
    BY <2>1, <2>2
<1> QED
  BY <1>5, <1>11, <1>12 DEF TablesInv

LEMMA NextTables == NoOverdraft /\ TablesInv /\ [Next]_vars => TablesInv'
<1> SUFFICES ASSUME NoOverdraft, TablesInv, [Next]_vars PROVE TablesInv'
  OBVIOUS
<1>1. ASSUME NEW p \in Proc, SeedRead(p) \/ SeedRaises(p) \/ Rollback(p) PROVE TablesInv'
  BY <1>1, TablesKept DEF SeedRead, SeedRaises, Rollback, ledgerVars
<1>2. ASSUME NEW p \in Proc, NEW o \in Order, NEW x \in Price, Evaluate(p, o, x) PROVE TablesInv'
  BY <1>2, TablesKept DEF Evaluate, ledgerVars
<1>3. ASSUME NEW p \in Proc, RecordUnfilled(p) PROVE TablesInv'
  <2>1. /\ order[p] \in Order /\ results[order[p]] = "NONE"
        /\ verdict[p] \in {"REJECTED", "PENDING"} /\ UNCHANGED <<entries, fills>>
        /\ results' = [results EXCEPT ![order[p]] = verdict[p]]
    BY <1>3 DEF RecordUnfilled, Insertable, NoOverdraft
  <2>2. \A o \in Order : results'[o] = "FILLED" <=> results[o] = "FILLED"
    BY <2>1 DEF NoOverdraft
  <2>3. \A o \in Order : CashRows(o)' = CashRows(o)
    BY <2>1 DEF CashRows
  <2> QED
    BY <2>1, <2>2, <2>3 DEF TablesInv
<1>4. CASE UNCHANGED vars
  BY <1>4, TablesKept DEF vars, ledgerVars
<1> QED
  BY <1>1, <1>2, <1>3, <1>4, SeedWriteKeepsTables, FilledKeepsTables DEF Next

(* A FILLED order has exactly one fill and one cash row and any other order   *)
(* has neither, whatever rolls back (_record_filled_order).                   *)
THEOREM TablesAgree == Spec => []FilledOnce
<1>1. TablesInv => FilledOnce
  <2> SUFFICES ASSUME TablesInv, NEW o \in Order
               PROVE  /\ results[o] = "FILLED" <=> fills[o] # NoFill
                      /\ Cardinality(CashRows(o)) = IF results[o] = "FILLED" THEN 1 ELSE 0
    BY DEF FilledOnce, CashRows
  <2>1. CASE results[o] = "FILLED"
    <3>1. PICK n \in Nat : CashRows(o) = {n}
      BY <2>1 DEF TablesInv
    <3> QED
      BY <2>1, <3>1, FS_Singleton DEF TablesInv
  <2>2. CASE results[o] # "FILLED"
    <3>1. CashRows(o) = {}
      BY <2>2 DEF TablesInv
    <3> QED
      BY <2>2, <3>1, FS_EmptySet DEF TablesInv
  <2> QED
    BY <2>1, <2>2
<1> QED
  BY <1>1, TablesInit, NextTables, BrokerNeverOverdraws, PTL DEF Spec

(* Nothing rewrites an order's result or fill (paper_broker.py: the primary   *)
(* keys of order_intents, order_results and fills).                           *)
THEOREM ResultsWrittenOnce == Spec => ResultsAreFinal
<1>1. NoOverdraft /\ TablesInv /\ [Next]_vars => ResultFinal
  <2> SUFFICES ASSUME NoOverdraft, TablesInv, [Next]_vars PROVE ResultFinal
    OBVIOUS
  <2>1. ASSUME UNCHANGED <<results, fills>> PROVE ResultFinal
    BY <2>1 DEF ResultFinal
  <2>2. ASSUME NEW p \in Proc, RecordUnfilled(p) PROVE ResultFinal
    BY <2>2 DEF RecordUnfilled, Insertable, ResultFinal, NoOverdraft
  <2>3. ASSUME NEW p \in Proc, RecordFilled(p) PROVE ResultFinal
    BY <2>3 DEF RecordFilled, Insertable, ResultFinal, NoOverdraft, TablesInv
  <2> QED
    BY <2>1, <2>2, <2>3 DEF Next, SeedRead, SeedRaises, SeedWrite, Evaluate, Rollback, vars, ledgerVars
<1> QED
  BY <1>1, TablesInit, NextTables, BrokerNeverOverdraws, PTL DEF Spec, ResultsAreFinal

-----------------------------------------------------------------------------
(* The cash ledger explains the balance as long as one process at most seeds *)
(* it.  SeedInv: before the seeding there is no cash, so nothing was bought, *)
(* nothing can be sold, and no fill is recorded.                             *)

LEMMA NoFillBeforeSeeding ==
    ASSUME NoOverdraft, SeedInv, NEW p \in Proc, RecordFilled(p)
    PROVE  cash # NoAmount
<1> SUFFICES ASSUME cash = NoAmount PROVE FALSE
  OBVIOUS
<1> DEFINE o == order[p]  i == IntentOf[o]  x == price[p]
<1>1. o \in Order /\ x \in Price
  BY DEF NoOverdraft, SeedInv, RecordFilled
<1>2. i \in Intent /\ x \in Nat \ {0} /\ Fee \in Nat
  BY <1>1, PaperBrokerConstants
<1>3. Held(i) >= 0 /\ Balance + Delta(i, x) >= 0 /\ Balance = 0
  BY DEF RecordFilled, Applies, Balance
<1> HIDE DEF o, i, x
<1>4. i.symbol \in Symbol /\ i.qty \in Nat \ {0} /\ i.side \in {"BUY", "SELL"}
  BY <1>2 DEF Intent
<1>5. position[i.symbol] = 0
  BY <1>4 DEF SeedInv
<1>6. CASE i.side = "SELL"
  BY <1>3, <1>4, <1>5, <1>6 DEF Held
<1>7. CASE i.side = "BUY"
  <2> DEFINE q == i.qty
  <2>1. q * x \in Nat \ {0}
    BY <1>2, <1>4
  <2>2. Cost(i, x) \in Nat \ {0}
    BY <1>2, <2>1 DEF Cost
  <2> HIDE DEF q
  <2> QED
    BY <1>3, <1>7, <2>2 DEF Delta
<1> QED
  BY <1>4, <1>6, <1>7

LEMMA FilledKeepsCash ==
    ASSUME NoOverdraft, TablesInv, NEW p \in Proc, RecordFilled(p)
    PROVE  cash' # NoAmount /\ entries' # <<>>
<1>1. order[p] \in Order /\ price[p] \in Price \cup {0}
  BY DEF NoOverdraft
<1>2. cash' \in Int
  BY <1>1, FillArithmetic DEF RecordFilled, ApplyCashChange
<1> QED
  BY <1>2, PaperBrokerConstants DEF RecordFilled, ApplyCashChange, TablesInv

LEMMA NextSeed ==
    ASSUME OneSeeder
    PROVE  NoOverdraft /\ TablesInv /\ SeedInv /\ [Next]_vars => SeedInv'
<1> SUFFICES ASSUME NoOverdraft, TablesInv, SeedInv, [Next]_vars PROVE SeedInv'
  OBVIOUS
<1>1. ASSUME NEW p \in Proc, SeedRead(p) \/ SeedRaises(p) PROVE SeedInv'
  BY <1>1 DEF SeedRead, SeedRaises, SeedInv, NoOverdraft, ledgerVars
<1>2. ASSUME NEW p \in Proc, SeedWrite(p) PROVE SeedInv'
  <2>1. \A q \in Proc \ {p} : pc'[q] = pc[q] /\ pc[q] \notin {"start", "seed"}
    BY <1>2 DEF SeedWrite, SeedInv, NoOverdraft, OneSeeder
  <2>2. pc'[p] = "idle" /\ cash' # NoAmount
    BY <1>2, PaperBrokerConstants DEF SeedWrite, ApplyCashChange, NoOverdraft
  <2>3. entries' # <<>>
    <3> DEFINE e == [order |-> "INITIAL_CASH", delta |-> InitialCash, after |-> InitialCash]
    <3>1. e \in [order : Order \cup {"INITIAL_CASH"}, delta : Int, after : Int]
      BY PaperBrokerConstants
    <3>2. entries' = Append(entries, e)
      BY <1>2 DEF SeedWrite, ApplyCashChange
    <3> HIDE DEF e
    <3> QED
      BY <3>1, <3>2 DEF TablesInv
  <2> QED
    BY <1>2, <2>1, <2>2, <2>3 DEF SeedInv, SeedWrite
<1>3. ASSUME NEW p \in Proc, NEW o \in Order, NEW x \in Price, Evaluate(p, o, x) PROVE SeedInv'
  BY <1>3 DEF Evaluate, SeedInv, NoOverdraft, ledgerVars
<1>4. ASSUME NEW p \in Proc, RecordUnfilled(p) \/ Rollback(p) PROVE SeedInv'
  BY <1>4 DEF RecordUnfilled, Rollback, Return, SeedInv, NoOverdraft, ledgerVars
<1>5. ASSUME NEW p \in Proc, RecordFilled(p) PROVE SeedInv'
  <2>1. cash # NoAmount
    BY <1>5, NoFillBeforeSeeding
  <2>2. cash' # NoAmount /\ entries' # <<>>
    BY <1>5, FilledKeepsCash
  <2>3. pc'[p] = "idle" /\ \A q \in Proc \ {p} : pc'[q] = pc[q] /\ price'[q] = price[q]
    BY <1>5 DEF RecordFilled, Return, NoOverdraft
  <2> QED
    BY <2>1, <2>2, <2>3 DEF SeedInv
<1>6. CASE UNCHANGED vars
  BY <1>6 DEF vars, ledgerVars, procVars, SeedInv
<1> QED
  BY <1>1, <1>2, <1>3, <1>4, <1>5, <1>6 DEF Next

(* Appending a row whose balance is the last one plus its delta.             *)
LEMMA ChainAppended ==
    ASSUME TablesInv, LedgerExplainsCash,
           NEW e \in [order : Order \cup {"INITIAL_CASH"}, delta : Int, after : Int],
           entries' = Append(entries, e), cash' = e.after,
           e.after = e.delta + (IF entries = <<>> THEN 0 ELSE entries[Len(entries)].after)
    PROVE  LedgerExplainsCash'
<1> DEFINE es == entries'
<1>1. /\ DOMAIN es = 1 .. Len(entries) + 1 /\ Len(es) = Len(entries) + 1 /\ Len(entries) \in Nat
      /\ es[Len(entries) + 1] = e /\ \A n \in DOMAIN entries : es[n] = entries[n]
      /\ DOMAIN entries = 1 .. Len(entries) /\ (entries = <<>> <=> Len(entries) = 0)
  BY DEF TablesInv
<1>2. ASSUME NEW n \in DOMAIN es
      PROVE  es[n].after = es[n].delta + (IF n = 1 THEN 0 ELSE es[n - 1].after)
  <2>1. CASE n = Len(entries) + 1
    <3>1. n = 1 <=> entries = <<>>
      BY <1>1, <2>1
    <3>2. n - 1 = Len(entries) /\ (n # 1 => Len(entries) \in DOMAIN entries)
      BY <1>1, <2>1
    <3> HIDE DEF es
    <3> QED
      BY <1>1, <2>1, <3>1, <3>2
  <2>2. CASE n \in DOMAIN entries
    <3>1. n = 1 \/ n - 1 \in DOMAIN entries
      BY <1>1, <2>2
    <3>2. entries[n].after = entries[n].delta + (IF n = 1 THEN 0 ELSE entries[n - 1].after)
      BY <2>2 DEF LedgerExplainsCash
    <3> HIDE DEF es
    <3> QED
      BY <1>1, <2>2, <3>1, <3>2
  <2> QED
    BY <1>1, <2>1, <2>2
<1>3. cash' = es[Len(es)].after
  BY <1>1
<1> QED
  BY <1>2, <1>3 DEF LedgerExplainsCash

LEMMA NextExplains ==
    NoOverdraft /\ TablesInv /\ SeedInv /\ LedgerExplainsCash /\ [Next]_vars => LedgerExplainsCash'
<1> SUFFICES ASSUME NoOverdraft, TablesInv, SeedInv, LedgerExplainsCash, [Next]_vars
             PROVE  LedgerExplainsCash'
  OBVIOUS
<1>1. ASSUME UNCHANGED <<cash, entries>> PROVE LedgerExplainsCash'
  BY <1>1 DEF LedgerExplainsCash
<1>2. ASSUME NEW p \in Proc, SeedWrite(p) PROVE LedgerExplainsCash'
  <2> DEFINE e == [order |-> "INITIAL_CASH", delta |-> InitialCash, after |-> InitialCash]
  <2>1. cash = NoAmount /\ entries = <<>>
    BY <1>2 DEF SeedWrite, SeedInv
  <2>2. e \in [order : Order \cup {"INITIAL_CASH"}, delta : Int, after : Int]
    BY PaperBrokerConstants
  <2>3. entries' = Append(entries, e) /\ cash' = e.after /\ e.after = e.delta + 0
    BY <1>2, PaperBrokerConstants DEF SeedWrite, ApplyCashChange
  <2> HIDE DEF e
  <2> QED
    BY <2>1, <2>2, <2>3, ChainAppended
<1>3. ASSUME NEW p \in Proc, RecordFilled(p) PROVE LedgerExplainsCash'
  <2> DEFINE o == order[p]  d == Delta(IntentOf[o], price[p])
             e == [order |-> o, delta |-> d, after |-> Balance + d]
  <2>1. o \in Order /\ price[p] \in Price \cup {0}
    BY DEF NoOverdraft
  <2>2. d \in Int /\ Balance + d \in Int
    BY <2>1, FillArithmetic
  <2>3. entries' = Append(entries, e) /\ cash' = Balance + d
    BY <1>3 DEF RecordFilled, ApplyCashChange
  <2>4. cash # NoAmount
    BY <1>3, NoFillBeforeSeeding
  <2>5. entries # <<>> /\ Balance = entries[Len(entries)].after /\ Balance \in Int
    BY <2>4 DEF SeedInv, LedgerExplainsCash, Balance, NoOverdraft
  <2> HIDE DEF o, d
  <2>6. e \in [order : Order \cup {"INITIAL_CASH"}, delta : Int, after : Int]
    BY <2>1, <2>2
  <2>7. e.after = e.delta + entries[Len(entries)].after /\ cash' = e.after
    BY <2>2, <2>3, <2>5
  <2> HIDE DEF e
  <2> QED
    BY <2>3, <2>5, <2>6, <2>7, ChainAppended
<1> QED
  BY <1>1, <1>2, <1>3 DEF Next, SeedRead, SeedRaises, Evaluate, RecordUnfilled, Rollback, vars, ledgerVars

(* With one process at most that seeds the ledger, every row's balance is     *)
(* the one before plus its delta and the last is the cash, for every number   *)
(* of trading processes (apply_cash_change, sqlite_ledger.py:377): the        *)
(* seeding is the only place where the chain can break.                       *)
THEOREM LedgerExplainsCashUnderOneSeeder ==
    ASSUME OneSeeder
    PROVE  Spec => []LedgerExplainsCash
<1>1. Init => SeedInv /\ LedgerExplainsCash
  BY DEF Init, SeedInv, LedgerExplainsCash
<1> QED
  BY <1>1, NextSeed, NextExplains, TablesInit, NextTables, BrokerNeverOverdraws, PTL DEF Spec
=============================================================================
