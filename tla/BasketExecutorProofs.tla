------------------------- MODULE BasketExecutorProofs -------------------------
(* Theorems about BasketExecutor, for every set of predictions, baskets, days *)
(* and fault bounds: one basket a day and reports of foreign names, but for   *)
(* the leg of a cycle that dies between a submit and its UPDATE; no entry on  *)
(* a halted day; and each fill logged once.                                   *)
EXTENDS BasketExecutor, TLAPS

LEMMA ConstantFacts ==
  /\ Predictions \subseteq Nat \ {0}
  /\ Basket \in [Predictions -> Seq(Symbols)]
  /\ DayOf \in [Predictions -> Days]
  /\ LegQty \in Nat \ {0} /\ MaxDay \in Nat \ {0}
  /\ MaxEquity \in Nat /\ MaxDailyLoss \in Nat /\ MaxAborts \in Nat /\ MaxRefusals \in Nat
BY ExecutorConstants DEF ExecutorConstants, Days

LEMMA NameIsSymbol ==
  ASSUME TypeOK, pc \in {"intent", "submit", "confirm"}
  PROVE  plan \in Predictions /\ Name \in Symbols
BY ConstantFacts DEF TypeOK, Name

LEMMA OrderTypes ==
  /\ NoOrder \in Order /\ NoRow \in Row /\ [st |-> "working", filled |-> 0] \in Order
  /\ \A o \in Order, st \in Terminal : Ends(o, st) \in Order
  /\ \A n \in 0..LegQty : /\ [st |-> "working", filled |-> n] \in Order
                          /\ [st |-> "filled", filled |-> n] \in Order
  /\ \A o \in Order : o.filled \in 0..LegQty /\ o.st \in {"none", "working"} \cup Terminal
BY ConstantFacts DEF NoOrder, NoRow, Order, Row, Ends, Terminal

LEMMA RowTypes ==
  /\ [status |-> "intended", filled |-> 0, acked |-> FALSE] \in Row
  /\ \A n \in 0..LegQty : [status |-> "submitted", filled |-> n, acked |-> TRUE] \in Row
  /\ \A r \in Row : r.filled \in 0..LegQty
BY ConstantFacts DEF Row

\* Assigning one cell of a table by prediction and symbol.
LEMMA CellUpdate ==
  ASSUME NEW T, NEW f \in [Predictions -> [Symbols -> T]],
         NEW p \in Predictions, NEW s \in Symbols, NEW v \in T
  PROVE  /\ [f EXCEPT ![p][s] = v] \in [Predictions -> [Symbols -> T]]
         /\ \A q \in Predictions, r \in Symbols :
              [f EXCEPT ![p][s] = v][q][r] = IF q = p /\ r = s THEN v ELSE f[q][r]
OBVIOUS

-----------------------------------------------------------------------------
(* Type correctness.                                                       *)

LEMMA InitTypeOK == Init => TypeOK
BY ConstantFacts, OrderTypes DEF Init, TypeOK, NoEquity, Days

LEMMA ReadTypeOK ==
  ASSUME TypeOK, BeginCycle \/ ReadPositions \/ ReadOrders \/ Decide \/ Flatten
  PROVE  TypeOK'
<1> USE ConstantFacts DEF TypeOK, world, state, logs, broker, faults, local
<1>1. CASE BeginCycle
  <2>1. start' \in [Days -> (0..MaxEquity) \cup {NoEquity}]
    BY <1>1 DEF BeginCycle
  <2>2. view' \in [phase : {"pre", "open", "eod", "post"}, breach : BOOLEAN, halted : BOOLEAN]
    BY <1>1 DEF BeginCycle
  <2>3. pc' = "positions"
    BY <1>1 DEF BeginCycle
  <2>4. UNCHANGED <<world, halted, logs, broker, faults, posView, ordView, plan, leg>>
    BY <1>1 DEF BeginCycle
  <2>5. QED
    BY <2>1, <2>2, <2>3, <2>4
<1>2. CASE ReadPositions
  BY <1>2 DEF ReadPositions
<1>3. CASE ReadOrders
  <2>1. ordView' \in [Predictions -> [Symbols -> Order]]
    BY <1>3, OrderTypes DEF ReadOrders
  <2>2. pc' = "decide" /\ UNCHANGED <<world, state, logs, broker, faults, view, posView, plan, leg>>
    BY <1>3 DEF ReadOrders
  <2>3. QED
    BY <2>1, <2>2
<1>4. CASE Decide
  <2>1. pc' \in {"sync", "flatten", "gate"}
    BY <1>4 DEF Decide
  <2>2. halted' \in [Days -> BOOLEAN]
    BY <1>4 DEF Decide
  <2>3. UNCHANGED <<world, start, logs, broker, faults, local>>
    BY <1>4 DEF Decide
  <2>4. QED
    BY ONLY TypeOK, <2>1, <2>2, <2>3
    DEF TypeOK, world, state, logs, broker, faults, local
<1>5. CASE Flatten
  <2>1. orders' \in [Predictions -> [Symbols -> Order]]
    BY <1>5, OrderTypes DEF Flatten, Terminal
  <2>2. closing' = held /\ pc' = "sync" /\ UNCHANGED <<world, state, logs, held, faults, local>>
    BY <1>5 DEF Flatten
  <2>3. QED
    BY <2>1, <2>2
<1>6. QED
  BY <1>1, <1>2, <1>3, <1>4, <1>5

LEMMA NextLegTypes ==
  ASSUME TypeOK, pc \in {"intent", "submit", "confirm"}, NextLeg
  PROVE  /\ plan' \in Predictions \cup {0} /\ leg' \in Nat
         /\ pc' \in {"intent", "sync"}
         /\ pc' = "intent" => plan' = plan /\ plan' \in Predictions /\ leg' \in 1..Len(Basket[plan'])
<1>1. plan \in Predictions /\ leg \in Nat \ {0} /\ Len(Basket[plan]) \in Nat
  BY ConstantFacts DEF TypeOK
<1>2. CASE leg < Len(Basket[plan])
  <2>1. pc' = "intent" /\ leg' = leg + 1 /\ plan' = plan
    BY <1>2 DEF NextLeg
  <2>2. leg + 1 \in 1..Len(Basket[plan])
    BY <1>1, <1>2
  <2>3. QED
    BY <1>1, <2>1, <2>2
<1>3. CASE ~(leg < Len(Basket[plan]))
  BY <1>3 DEF NextLeg
<1>4. QED
  BY <1>2, <1>3

LEMMA BasketTypeOK ==
  ASSUME TypeOK,
         \/ GateRefuses \/ GatePasses \/ RecordIntent \/ SubmitLeg
         \/ SkipSubmittedLeg \/ ConfirmLeg \/ SubmitRefused
  PROVE  TypeOK'
<1> USE ConstantFacts DEF TypeOK, world, state, logs, broker, faults, local
<1>1. CASE GateRefuses
  BY <1>1 DEF GateRefuses
<1>2. CASE GatePasses
  <2>1. latest \in Predictions /\ 1 \in 1..Len(Basket[latest])
    <3>1. latest \in Predictions /\ Basket[latest] \in Seq(Symbols) /\ Basket[latest] # <<>>
      BY <1>2 DEF GatePasses
    <3>2. QED
      BY <3>1
  <2>2. plan' = latest /\ leg' = 1 /\ pc' = "intent"
    BY <1>2 DEF GatePasses
  <2>3. UNCHANGED <<world, state, logs, broker, faults, view, posView, ordView>>
    BY <1>2 DEF GatePasses
  <2>4. QED
    BY <2>1, <2>2, <2>3
<1>3. CASE RecordIntent
  <2>1. rows' \in [Predictions -> [Symbols -> Row]]
    <3>1. CASE rows[plan][Name].status = "none"
      <4>1. rows' = [rows EXCEPT ![plan][Name] =
                       [status |-> "intended", filled |-> 0, acked |-> FALSE]]
        BY <1>3, <3>1 DEF RecordIntent
      <4>2. plan \in Predictions /\ Name \in Symbols
        BY <1>3, NameIsSymbol DEF RecordIntent
      <4>3. rows \in [Predictions -> [Symbols -> Row]]
        OBVIOUS
      <4>4. QED
        BY ONLY <4>1, <4>2, <4>3, CellUpdate, RowTypes
    <3>2. CASE rows[plan][Name].status # "none"
      BY <1>3, <3>2 DEF RecordIntent
    <3>3. QED
      BY <3>1, <3>2
  <2>2. pc = "intent" /\ pc' = "submit"
    BY <1>3 DEF RecordIntent
  <2>3. UNCHANGED <<world, state, fillsLog, report, broker, faults, local>>
    BY <1>3 DEF RecordIntent
  <2>4. QED
    BY ONLY TypeOK, <2>1, <2>2, <2>3
    DEF TypeOK, world, state, logs, broker, faults, local
<1>4. CASE SubmitLeg
  <2>1. orders' \in [Predictions -> [Symbols -> Order]]
    <3>1. plan \in Predictions /\ Name \in Symbols
      BY <1>4, NameIsSymbol DEF SubmitLeg
    <3>2. orders' = [orders EXCEPT ![plan][Name] = [st |-> "working", filled |-> 0]]
      BY <1>4 DEF SubmitLeg
    <3>3. orders \in [Predictions -> [Symbols -> Order]] /\ [st |-> "working", filled |-> 0] \in Order
      BY OrderTypes
    <3>4. QED
      BY ONLY <3>1, <3>2, <3>3, CellUpdate
  <2>2. pc = "submit" /\ pc' = "confirm"
    BY <1>4 DEF SubmitLeg
  <2>3. UNCHANGED <<world, state, logs, held, closing, faults, local>>
    BY <1>4 DEF SubmitLeg
  <2>4. QED
    BY ONLY TypeOK, <2>1, <2>2, <2>3
    DEF TypeOK, world, state, logs, broker, faults, local
<1>5. CASE SkipSubmittedLeg
  <2>1. pc = "submit" /\ NextLeg
    BY <1>5 DEF SkipSubmittedLeg
  <2>2. UNCHANGED <<world, state, logs, broker, faults, view, posView, ordView>>
    BY <1>5 DEF SkipSubmittedLeg
  <2>3. QED
    BY ONLY TypeOK, <2>1, <2>2, NextLegTypes
    DEF TypeOK, world, state, logs, broker, faults, local
<1>6. CASE ConfirmLeg
  <2>1. pc = "confirm" /\ NextLeg
    BY <1>6 DEF ConfirmLeg
  <2>2. rows' \in [Predictions -> [Symbols -> Row]]
    <3>1. plan \in Predictions /\ Name \in Symbols
      BY <1>6, NameIsSymbol DEF ConfirmLeg
    <3>2. rows' = [rows EXCEPT ![plan][Name] =
                     [status |-> "submitted", filled |-> rows[plan][Name].filled, acked |-> TRUE]]
      BY <1>6, <3>1 DEF ConfirmLeg
    <3>3. rows \in [Predictions -> [Symbols -> Row]]
      OBVIOUS
    <3>4. QED
      BY ONLY <3>1, <3>2, <3>3, CellUpdate, RowTypes
  <2>3. UNCHANGED <<world, state, fillsLog, report, broker, faults, view, posView, ordView>>
    BY <1>6 DEF ConfirmLeg
  <2>4. QED
    BY ONLY TypeOK, <2>1, <2>2, <2>3, NextLegTypes
    DEF TypeOK, world, state, logs, broker, faults, local
<1>7. CASE SubmitRefused
  <2>1. plan' = 0 /\ leg' = 0 /\ pc' = "idle" /\ refusals' \in 0..MaxRefusals
    BY <1>7 DEF SubmitRefused
  <2>2. UNCHANGED <<world, state, logs, broker, aborts, lost, view, posView, ordView>>
    BY <1>7 DEF SubmitRefused
  <2>3. QED
    BY <2>1, <2>2
<1>8. QED
  BY <1>1, <1>2, <1>3, <1>4, <1>5, <1>6, <1>7

LEMMA SyncTypes ==
  ASSUME TypeOK, NEW S \in SUBSET Seen, SyncOver(S)
  PROVE  /\ rows' \in [Predictions -> [Symbols -> Row]]
         /\ fillsLog' \in [Predictions -> [Symbols -> [Timestamps -> 0..LegQty]]]
<1>1. ASSUME NEW p \in Predictions, NEW s \in Symbols, <<p, s>> \in S
      PROVE  [status |-> ordView[p][s].st, filled |-> ordView[p][s].filled, acked |-> TRUE] \in Row
  <2>1. ordView[p][s].st # "none"
    BY <1>1 DEF Seen
  <2>2. ordView[p][s] \in Order
    BY DEF TypeOK
  <2>3. QED
    BY <2>1, <2>2, OrderTypes DEF Row
<1>2. rows' \in [Predictions -> [Symbols -> Row]]
  BY <1>1 DEF SyncOver, TypeOK
<1>3. \A p \in Predictions, s \in Symbols : ordView[p][s].filled \in 0..LegQty
  BY OrderTypes DEF TypeOK
<1>4. fillsLog' \in [Predictions -> [Symbols -> [Timestamps -> 0..LegQty]]]
  BY <1>3 DEF SyncOver, TypeOK
<1>5. QED
  BY <1>2, <1>4

LEMMA BooksTypeOK ==
  ASSUME TypeOK, Sync \/ SyncFails \/ Reconcile \/ CycleAborts
  PROVE  TypeOK'
<1> USE ConstantFacts DEF TypeOK, world, state, logs, broker, faults, local
<1>1. CASE Sync
  <2>1. SyncOver(Seen)
    BY <1>1 DEF Sync
  <2>2. pc' = "reconcile" /\ UNCHANGED <<world, state, report, broker, faults, local>>
    BY <1>1 DEF Sync
  <2>3. QED
    BY ONLY TypeOK, <2>1, <2>2, SyncTypes
    DEF TypeOK, world, state, logs, broker, faults, local
<1>2. CASE SyncFails
  <2>1. PICK S \in SUBSET Seen : SyncOver(S)
    BY <1>2 DEF SyncFails
  <2>2. aborts' \in 0..MaxAborts /\ pc' = "idle"
    BY <1>2 DEF SyncFails
  <2>3. UNCHANGED <<world, state, report, broker, refusals, lost, local>>
    BY <1>2 DEF SyncFails
  <2>4. QED
    BY ONLY TypeOK, <2>1, <2>2, <2>3, SyncTypes
    DEF TypeOK, world, state, logs, broker, faults, local
<1>3. CASE Reconcile
  BY <1>3 DEF Reconcile
<1>4. CASE CycleAborts
  <2>1. plan' = 0 /\ leg' = 0 /\ pc' = "idle" /\ aborts' \in 0..MaxAborts
    BY <1>4 DEF CycleAborts
  <2>2. UNCHANGED <<world, state, logs, broker, refusals, view, posView, ordView>>
    BY <1>4 DEF CycleAborts
  <2>3. lost' \subseteq Predictions \X Symbols
    <3>1. lost' = lost \/ (pc = "confirm" /\ lost' = lost \cup {<<plan, Name>>})
      BY <1>4 DEF CycleAborts
    <3>2. pc = "confirm" => <<plan, Name>> \in Predictions \X Symbols
      BY NameIsSymbol
    <3>3. lost \subseteq Predictions \X Symbols
      OBVIOUS
    <3>4. QED
      BY ONLY <3>1, <3>2, <3>3
  <2>4. QED
    BY ONLY TypeOK, <2>1, <2>2, <2>3, ConstantFacts
    DEF TypeOK, world, state, logs, broker, local
<1>5. QED
  BY <1>1, <1>2, <1>3, <1>4

LEMMA WorldTypeOK == ASSUME TypeOK, World PROVE TypeOK'
<1> USE ConstantFacts DEF TypeOK, world, state, logs, broker, faults, local
<1>1. ASSUME NEW p \in Predictions, NEW s \in Symbols, FillLeg(p, s) PROVE TypeOK'
  <2>1. PICK n \in (orders[p][s].filled + 1)..LegQty :
          /\ orders' = [orders EXCEPT ![p][s] =
                          [st |-> IF n = LegQty THEN "filled" ELSE "working", filled |-> n]]
          /\ held' = [held EXCEPT ![s] = @ + (n - orders[p][s].filled)]
    BY <1>1 DEF FillLeg
  <2>2. orders[p][s].filled \in 0..LegQty /\ n \in 0..LegQty
    BY OrderTypes
  <2>3. [st |-> IF n = LegQty THEN "filled" ELSE "working", filled |-> n] \in Order
    BY <2>2, OrderTypes
  <2>4. orders' \in [Predictions -> [Symbols -> Order]]
    BY <2>1, <2>3, CellUpdate
  <2>5. n - orders[p][s].filled \in Nat
    BY <2>2
  <2>6. held' \in [Symbols -> Nat] /\ \A r \in Symbols : held[r] <= held'[r]
    BY <2>1, <2>5
  <2>7. UNCHANGED <<world, state, logs, closing, faults, pc, local>>
    BY <1>1 DEF FillLeg
  <2>8. \A r \in Symbols : closing'[r] <= held'[r]
    BY <2>6, <2>7
  <2>9. QED
    BY ONLY TypeOK, <2>4, <2>6, <2>7, <2>8
    DEF TypeOK, world, state, logs, broker, faults, local
<1>2. ASSUME NEW p \in Predictions, NEW s \in Symbols, RejectLeg(p, s) PROVE TypeOK'
  <2>1. orders' = [orders EXCEPT ![p][s] = Ends(orders[p][s], "rejected")]
    BY <1>2 DEF RejectLeg
  <2>2. Ends(orders[p][s], "rejected") \in Order
    BY OrderTypes DEF Terminal
  <2>3. orders' \in [Predictions -> [Symbols -> Order]]
    BY <2>1, <2>2, CellUpdate
  <2>4. refusals' \in 0..MaxRefusals /\ UNCHANGED <<world, state, logs, held, closing, aborts, lost, pc, local>>
    BY <1>2 DEF RejectLeg
  <2>5. QED
    BY ONLY TypeOK, <2>3, <2>4
    DEF TypeOK, world, state, logs, broker, faults, local
<1>3. ASSUME NEW p \in Predictions, NEW s \in Symbols, LegDone(p, s) PROVE TypeOK'
  <2>1. orders' = [orders EXCEPT ![p][s] = Ends(orders[p][s], "done_for_day")]
    BY <1>3 DEF LegDone
  <2>2. Ends(orders[p][s], "done_for_day") \in Order
    BY OrderTypes DEF Terminal
  <2>3. orders' \in [Predictions -> [Symbols -> Order]]
    BY <2>1, <2>2, CellUpdate
  <2>4. UNCHANGED <<world, state, logs, held, closing, faults, pc, local>>
    BY <1>3 DEF LegDone
  <2>5. QED
    BY <2>3, <2>4
<1>4. CASE MarketOpens
  BY <1>4 DEF MarketOpens
<1>5. CASE LastMinutes
  BY <1>5 DEF LastMinutes
<1>6. CASE MarketCloses
  <2>1. orders' \in [Predictions -> [Symbols -> Order]]
    BY <1>6, OrderTypes DEF MarketCloses, Terminal
  <2>2. closing' = [s \in Symbols |-> 0] /\ phase' = "post"
    BY <1>6 DEF MarketCloses
  <2>3. UNCHANGED <<day, equity, latest, state, logs, held, faults, pc, local>>
    BY <1>6 DEF MarketCloses
  <2>4. QED
    BY <2>1, <2>2, <2>3
<1>7. CASE NewPrediction
  BY <1>7 DEF NewPrediction
<1>8. CASE EquityMoves
  BY <1>8 DEF EquityMoves
<1>9. ASSUME NEW s \in Symbols, FillClose(s) PROVE TypeOK'
  <2>1. PICK n \in 1..closing[s] : /\ held' = [held EXCEPT ![s] = @ - n]
                                   /\ closing' = [closing EXCEPT ![s] = @ - n]
    BY <1>9 DEF FillClose
  <2>2. closing[s] \in Nat /\ held[s] \in Nat /\ closing[s] <= held[s]
    OBVIOUS
  <2>3. closing[s] - n \in Nat /\ held[s] - n \in Nat /\ closing[s] - n <= held[s] - n
    BY ONLY <2>2, n \in 1..closing[s]
  <2>4. held' \in [Symbols -> Nat] /\ closing' \in [Symbols -> Nat]
    BY <2>1, <2>3
  <2>5. \A r \in Symbols : closing'[r] <= held'[r]
    BY <2>1, <2>3
  <2>6. UNCHANGED <<world, state, logs, orders, faults, pc, local>>
    BY <1>9 DEF FillClose
  <2>7. QED
    BY <2>4, <2>5, <2>6
<1>10. CASE Midnight
  BY <1>10 DEF Midnight, Days
<1>11. QED
  BY <1>1, <1>2, <1>3, <1>4, <1>5, <1>6, <1>7, <1>8, <1>9, <1>10 DEF World

LEMMA StepCases ==
  ASSUME [Next]_vars
  PROVE  \/ BeginCycle \/ ReadPositions \/ ReadOrders \/ Decide \/ Flatten
         \/ GateRefuses \/ GatePasses \/ RecordIntent \/ SubmitLeg
         \/ SkipSubmittedLeg \/ ConfirmLeg \/ SubmitRefused
         \/ Sync \/ SyncFails \/ Reconcile \/ CycleAborts
         \/ World \/ UNCHANGED vars
BY DEF Next, Cycle, Failure

LEMMA StepTypeOK == ASSUME TypeOK, [Next]_vars PROVE TypeOK'
<1>1. CASE UNCHANGED vars
  BY <1>1 DEF TypeOK, vars
<1>2. QED
  BY <1>1, StepCases, ReadTypeOK, BasketTypeOK, BooksTypeOK, WorldTypeOK

\* Every variable of the executor, its tables and the broker keeps its type,
\* and a close never exceeds the position it closes.
THEOREM TypeCorrect == Spec => []TypeOK
<1>1. Init => TypeOK
  BY InitTypeOK
<1>2. TypeOK /\ [Next]_vars => TypeOK'
  BY StepTypeOK
<1>3. QED
  BY <1>1, <1>2, PTL DEF Spec

-----------------------------------------------------------------------------
(* The kill switch.                                                        *)

\* Only SubmitLeg makes an order land.
LEMMA LandsOnlyBySubmit ==
  ASSUME TypeOK, [Next]_vars, NEW p \in Predictions, NEW s \in Symbols,
         orders'[p][s].st # "none"
  PROVE  \/ orders[p][s].st # "none"
         \/ SubmitLeg /\ p = plan /\ s = Name
<1> USE DEF broker
<1>1. CASE SubmitLeg
  <2>1. plan \in Predictions /\ Name \in Symbols
    BY <1>1, NameIsSymbol DEF SubmitLeg
  <2>2. orders' = [orders EXCEPT ![plan][Name] = [st |-> "working", filled |-> 0]]
    BY <1>1 DEF SubmitLeg
  <2>3. orders \in [Predictions -> [Symbols -> Order]] /\ [st |-> "working", filled |-> 0] \in Order
    BY OrderTypes DEF TypeOK
  <2>4. CASE p = plan /\ s = Name
    BY <1>1, <2>4
  <2>5. CASE ~(p = plan /\ s = Name)
    BY <2>1, <2>2, <2>3, <2>5, CellUpdate
  <2>6. QED
    BY <2>4, <2>5
<1>2. CASE Flatten
  BY <1>2 DEF Flatten, TypeOK
<1>3. CASE World
  <2>1. ASSUME NEW q \in Predictions, NEW r \in Symbols, NEW o \in Order,
               orders[q][r].st = "working", orders' = [orders EXCEPT ![q][r] = o]
        PROVE  orders[p][s].st # "none"
    <3>1. orders \in [Predictions -> [Symbols -> Order]]
      BY DEF TypeOK
    <3>2. orders'[p][s] = IF p = q /\ s = r THEN o ELSE orders[p][s]
      BY ONLY <2>1, <3>1, CellUpdate
    <3>3. QED
      BY <2>1, <3>2
  <2>2. orders \in [Predictions -> [Symbols -> Order]]
    BY DEF TypeOK
  <2>3. ASSUME NEW q \in Predictions, NEW r \in Symbols, FillLeg(q, r)
        PROVE  orders[p][s].st # "none"
    <3>1. PICK n \in (orders[q][r].filled + 1)..LegQty :
            orders' = [orders EXCEPT ![q][r] =
                        [st |-> IF n = LegQty THEN "filled" ELSE "working", filled |-> n]]
      BY <2>3 DEF FillLeg
    <3>2. n \in 0..LegQty
      BY <2>2, OrderTypes
    <3>3. [st |-> IF n = LegQty THEN "filled" ELSE "working", filled |-> n] \in Order
      BY <3>2, OrderTypes
    <3>4. QED
      BY <2>1, <2>3, <3>1, <3>3 DEF FillLeg
  <2>4. ASSUME NEW q \in Predictions, NEW r \in Symbols, RejectLeg(q, r)
        PROVE  orders[p][s].st # "none"
    <3>1. Ends(orders[q][r], "rejected") \in Order
      BY <2>2, OrderTypes DEF Terminal
    <3>2. orders' = [orders EXCEPT ![q][r] = Ends(orders[q][r], "rejected")] /\ orders[q][r].st = "working"
      BY <2>4 DEF RejectLeg
    <3>3. QED
      BY <2>1, <3>1, <3>2
  <2>5. ASSUME NEW q \in Predictions, NEW r \in Symbols, LegDone(q, r)
        PROVE  orders[p][s].st # "none"
    <3>1. Ends(orders[q][r], "done_for_day") \in Order
      BY <2>2, OrderTypes DEF Terminal
    <3>2. orders' = [orders EXCEPT ![q][r] = Ends(orders[q][r], "done_for_day")] /\ orders[q][r].st = "working"
      BY <2>5 DEF LegDone
    <3>3. QED
      BY <2>1, <3>1, <3>2
  <2>6. CASE MarketCloses
    BY <2>6 DEF MarketCloses, TypeOK
  <2>7. CASE UNCHANGED orders
    BY <2>7
  <2>8. QED
    BY <1>3, <2>3, <2>4, <2>5, <2>6, <2>7
    DEF World, FillClose, MarketOpens, LastMinutes, Midnight, NewPrediction, EquityMoves
<1>4. CASE UNCHANGED orders
  BY <1>4
<1>5. QED
  BY <1>1, <1>2, <1>3, <1>4, StepCases
  DEF BeginCycle, ReadPositions, ReadOrders, Decide, GateRefuses, GatePasses, RecordIntent,
      SkipSubmittedLeg, ConfirmLeg, SubmitRefused, Sync, SyncFails, Reconcile, CycleAborts, vars

LEMMA StepHaltIsSeen == ASSUME TypeOK, HaltIsSeen, [Next]_vars PROVE HaltIsSeen'
<1> USE DEF HaltIsSeen, TypeOK, world, state, local
<1>1. CASE BeginCycle
  BY <1>1 DEF BeginCycle
<1>2. CASE ReadPositions \/ ReadOrders
  BY <1>2 DEF ReadPositions, ReadOrders
<1>3. CASE Decide
  <2>1. pc' \in {"sync", "flatten", "gate"} /\ UNCHANGED day
    BY <1>3 DEF Decide
  <2>2. ASSUME pc' = "gate" PROVE ~view.halted /\ ~view.breach
    BY <1>3, <2>2 DEF Decide
  <2>3. halted' = [halted EXCEPT ![day] = @ \/ view.breach]
    BY <1>3 DEF Decide
  <2>4. pc = "decide"
    BY <1>3 DEF Decide
  <2>5. ASSUME pc' = "gate" PROVE ~halted'[day]
    BY <2>2, <2>3, <2>4, <2>5
  <2>6. QED
    BY <2>1, <2>5
<1>4. CASE GatePasses \/ RecordIntent \/ SubmitLeg
  BY <1>4 DEF GatePasses, RecordIntent, SubmitLeg
<1>5. CASE SkipSubmittedLeg \/ ConfirmLeg
  <2>1. pc' \in {"intent", "sync"} /\ pc \in {"submit", "confirm"} /\ UNCHANGED <<day, halted>>
    BY <1>5 DEF SkipSubmittedLeg, ConfirmLeg, NextLeg
  <2>2. QED
    BY <2>1
<1>6. CASE Flatten \/ GateRefuses \/ SubmitRefused \/ Sync \/ SyncFails \/ Reconcile \/ CycleAborts
  BY <1>6 DEF Flatten, GateRefuses, SubmitRefused, Sync, SyncFails, Reconcile, CycleAborts
<1>7. CASE World
  <2>1. UNCHANGED <<pc, view, halted>> /\ (pc = "idle" \/ UNCHANGED day)
    BY <1>7 DEF World, FillLeg, RejectLeg, LegDone, FillClose, MarketOpens, LastMinutes,
       MarketCloses, Midnight, NewPrediction, EquityMoves
  <2>2. QED
    BY <2>1
<1>8. CASE UNCHANGED vars
  BY <1>8 DEF vars
<1>9. QED
  BY <1>1, <1>2, <1>3, <1>4, <1>5, <1>6, <1>7, <1>8, StepCases

\* Once the kill switch is stored for a day, no entry order of that day is
\* submitted any more: whichever calls fail or cycles die, and even if the
\* equity recovers.
THEOREM HaltStopsEntries == Spec => NoEntryOnceHalted
<1>1. Init => TypeOK /\ HaltIsSeen
  BY InitTypeOK DEF Init, HaltIsSeen
<1>2. TypeOK /\ HaltIsSeen /\ [Next]_vars => TypeOK' /\ HaltIsSeen'
  BY StepTypeOK, StepHaltIsSeen
<1>3. ASSUME TypeOK, HaltIsSeen, [Next]_vars
      PROVE  [\A p \in Predictions, s \in Symbols :
                orders[p][s].st = "none" /\ orders'[p][s].st # "none" => ~halted[day]]_vars
  <2>1. ASSUME NEW p \in Predictions, NEW s \in Symbols,
               orders[p][s].st = "none", orders'[p][s].st # "none"
        PROVE  ~halted[day]
    <3>1. SubmitLeg
      BY <1>3, <2>1, LandsOnlyBySubmit
    <3>2. QED
      BY <1>3, <3>1 DEF SubmitLeg, HaltIsSeen
  <2>2. QED
    BY <2>1
<1>4. QED
  BY <1>1, <1>2, <1>3, PTL DEF Spec, NoEntryOnceHalted

-----------------------------------------------------------------------------
(* One basket a day.                                                       *)

\* An acknowledged row stays acknowledged and counts as traded; ConfirmLeg
\* acknowledges the leg it stands at.
LEMMA RowsStep ==
  ASSUME TypeOK, LandedIsTraded, [Next]_vars, NEW p \in Predictions, NEW s \in Symbols
  PROVE  /\ rows[p][s].acked => rows'[p][s].acked
         /\ rows'[p][s].acked => rows'[p][s].status \notin {"none", "intended"}
         /\ ConfirmLeg /\ p = plan /\ s = Name => rows'[p][s].acked
<1>1. rows \in [Predictions -> [Symbols -> Row]]
  BY DEF TypeOK
<1>2. rows[p][s].acked => rows[p][s].status \notin {"none", "intended"}
  BY DEF LandedIsTraded
<1>3. CASE RecordIntent
  <2>1. plan \in Predictions /\ Name \in Symbols /\ pc = "intent"
    BY <1>3, NameIsSymbol DEF RecordIntent
  <2>2. CASE rows[plan][Name].status = "none"
    <3>1. rows' = [rows EXCEPT ![plan][Name] =
                     [status |-> "intended", filled |-> 0, acked |-> FALSE]]
      BY <1>3, <2>2 DEF RecordIntent
    <3>2. ~rows[plan][Name].acked
      BY <2>1, <2>2 DEF LandedIsTraded
    <3>3. rows'[p][s] = IF p = plan /\ s = Name
                        THEN [status |-> "intended", filled |-> 0, acked |-> FALSE]
                        ELSE rows[p][s]
      BY ONLY <1>1, <2>1, <3>1, CellUpdate, RowTypes
    <3>4. ~ConfirmLeg
      BY <2>1 DEF ConfirmLeg
    <3>5. QED
      BY <1>2, <3>2, <3>3, <3>4
  <2>3. CASE rows[plan][Name].status # "none"
    BY <1>2, <1>3, <2>1, <2>3 DEF RecordIntent, ConfirmLeg
  <2>4. QED
    BY <2>2, <2>3
<1>4. CASE ConfirmLeg
  <2>1. plan \in Predictions /\ Name \in Symbols
    BY <1>4, NameIsSymbol DEF ConfirmLeg
  <2>2. rows' = [rows EXCEPT ![plan][Name] =
                   [status |-> "submitted", filled |-> rows[plan][Name].filled, acked |-> TRUE]]
    BY <1>1, <1>4, <2>1 DEF ConfirmLeg
  <2>3. rows'[p][s] = IF p = plan /\ s = Name
                      THEN [status |-> "submitted", filled |-> rows[plan][Name].filled, acked |-> TRUE]
                      ELSE rows[p][s]
    BY ONLY <1>1, <2>1, <2>2, CellUpdate, RowTypes
  <2>4. QED
    BY <1>2, <2>3
<1>5. ASSUME NEW S \in SUBSET Seen, SyncOver(S), pc = "sync"
      PROVE  /\ rows[p][s].acked => rows'[p][s].acked
             /\ rows'[p][s].acked => rows'[p][s].status \notin {"none", "intended"}
             /\ ~ConfirmLeg
  <2>1. rows'[p][s] = IF <<p, s>> \in S /\ rows[p][s].acked
                      THEN [status |-> ordView[p][s].st, filled |-> ordView[p][s].filled, acked |-> TRUE]
                      ELSE rows[p][s]
    BY <1>5 DEF SyncOver
  <2>2. <<p, s>> \in S => ordView[p][s].st # "none"
    BY <1>5 DEF Seen
  <2>3. ordView[p][s].st # "intended"
    <3>1. ordView[p][s] \in Order
      BY DEF TypeOK
    <3>2. QED
      BY <3>1, OrderTypes DEF Terminal
  <2>4. QED
    BY <1>2, <1>5, <2>1, <2>2, <2>3 DEF ConfirmLeg
<1>6. CASE Sync \/ SyncFails
  BY <1>5, <1>6 DEF Sync, SyncFails
<1>7. CASE UNCHANGED rows /\ ~ConfirmLeg
  BY <1>2, <1>7
<1>8. ASSUME ~ConfirmLeg, ~RecordIntent, ~Sync, ~SyncFails PROVE UNCHANGED rows
  BY <1>8, StepCases
  DEF BeginCycle, ReadPositions, ReadOrders, Decide, Flatten, GateRefuses, GatePasses, SubmitLeg,
      SkipSubmittedLeg, SubmitRefused, Reconcile, CycleAborts, World, FillLeg, RejectLeg, LegDone,
      FillClose, MarketOpens, LastMinutes, MarketCloses, Midnight, NewPrediction, EquityMoves,
      logs, vars
<1>9. QED
  BY <1>3, <1>4, <1>6, <1>7, <1>8

\* A step that leaves "confirm" behind confirms or loses the leg.
LEMMA ConfirmStep ==
  ASSUME [Next]_vars, pc = "confirm"
  PROVE  ConfirmLeg \/ UNCHANGED <<pc, plan, leg>> \/ <<plan, Name>> \in lost'
BY StepCases
DEF BeginCycle, ReadPositions, ReadOrders, Decide, Flatten, GateRefuses, GatePasses, RecordIntent,
    SubmitLeg, SkipSubmittedLeg, SubmitRefused, Sync, SyncFails, Reconcile, CycleAborts, World,
    FillLeg, RejectLeg, LegDone, FillClose, MarketOpens, LastMinutes, MarketCloses, Midnight,
    NewPrediction, EquityMoves, local, vars

\* What was lost is lost.
LEMMA LostStays == ASSUME [Next]_vars PROVE lost \subseteq lost'
BY StepCases
DEF BeginCycle, ReadPositions, ReadOrders, Decide, Flatten, GateRefuses, GatePasses, RecordIntent,
    SubmitLeg, SkipSubmittedLeg, ConfirmLeg, SubmitRefused, Sync, SyncFails, Reconcile, CycleAborts,
    World, FillLeg, RejectLeg, LegDone, FillClose, MarketOpens, LastMinutes, MarketCloses, Midnight,
    NewPrediction, EquityMoves, faults, vars

LEMMA StepLandedIsTraded ==
  ASSUME TypeOK, LandedIsTraded, [Next]_vars PROVE LandedIsTraded'
<1> SUFFICES ASSUME NEW p \in Predictions, NEW s \in Symbols, orders'[p][s].st # "none"
             PROVE  rows'[p][s].acked \/ (pc' = "confirm" /\ plan' = p /\ Name' = s) \/ <<p, s>> \in lost'
  BY RowsStep DEF LandedIsTraded
<1>1. CASE SubmitLeg /\ p = plan /\ s = Name
  BY <1>1 DEF SubmitLeg, Name, local
<1>2. CASE orders[p][s].st # "none"
  <2>1. CASE rows[p][s].acked
    BY <2>1, RowsStep
  <2>2. CASE pc = "confirm" /\ plan = p /\ Name = s
    BY <2>2, ConfirmStep, RowsStep DEF Name
  <2>3. CASE <<p, s>> \in lost
    BY <2>3, LostStays
  <2>4. QED
    BY <1>2, <2>1, <2>2, <2>3 DEF LandedIsTraded
<1>3. QED
  BY <1>1, <1>2, LandsOnlyBySubmit

\* Only the prediction being submitted gets new orders.
LEMMA LandedStep ==
  ASSUME TypeOK, [Next]_vars, NEW q \in Predictions, Kept(q)'
  PROVE  Kept(q) \/ (SubmitLeg /\ q = plan)
BY LandsOnlyBySubmit, LostStays DEF Kept

LEMMA StepSubmittingOne ==
  ASSUME TypeOK, OneBasketInv, [Next]_vars PROVE SubmittingOne'
<1> USE DEF SubmittingOne, world, local
<1>1. CASE GatePasses
  <2>1. pc' = "intent" /\ plan' = latest /\ DayOf[latest] = day /\ UNCHANGED <<day, orders, lost>>
        /\ ~TradedToday /\ pc = "gate"
    BY <1>1 DEF GatePasses, broker, faults
  <2>2. ASSUME NEW q \in Predictions, Kept(q), DayOf[q] = day PROVE FALSE
    <3>1. PICK s \in Symbols : orders[q][s].st # "none" /\ <<q, s>> \notin lost
      BY <2>2 DEF Kept
    <3>2. rows[q][s].acked
      BY <2>1, <3>1 DEF OneBasketInv, LandedIsTraded
    <3>3. rows[q][s].status \notin {"none", "intended"}
      BY <3>2 DEF OneBasketInv, LandedIsTraded
    <3>4. QED
      BY <2>1, <2>2, <3>3 DEF TradedToday
  <2>3. \A q \in Predictions : Kept(q)' => Kept(q)
    BY <2>1 DEF Kept
  <2>4. QED
    BY <2>1, <2>2, <2>3
<1>2. CASE RecordIntent \/ SubmitLeg \/ SkipSubmittedLeg \/ ConfirmLeg
  <2>1. pc \in {"intent", "submit", "confirm"} /\ UNCHANGED day
    BY <1>2 DEF RecordIntent, SubmitLeg, SkipSubmittedLeg, ConfirmLeg
  <2>2. pc' \in {"intent", "submit", "confirm"} => plan' = plan
    BY <1>2 DEF RecordIntent, SubmitLeg, SkipSubmittedLeg, ConfirmLeg, NextLeg
  <2>3. QED
    BY <2>1, <2>2, LandedStep DEF OneBasketInv
<1>3. CASE World
  <2>1. UNCHANGED <<pc, plan, leg>> /\ (pc = "idle" \/ UNCHANGED day)
    BY <1>3 DEF World, FillLeg, RejectLeg, LegDone, FillClose, MarketOpens, LastMinutes,
       MarketCloses, Midnight, NewPrediction, EquityMoves
  <2>2. ~SubmitLeg \/ pc = "submit"
    BY DEF SubmitLeg
  <2>3. QED
    BY <2>1, <2>2, LandedStep DEF OneBasketInv
<1>4. CASE UNCHANGED vars
  BY <1>4, LandedStep DEF vars, OneBasketInv, Kept
<1>5. ASSUME \/ BeginCycle \/ ReadPositions \/ ReadOrders \/ Decide \/ Flatten
             \/ GateRefuses \/ SubmitRefused \/ Sync \/ SyncFails \/ Reconcile \/ CycleAborts
      PROVE  pc' \notin {"intent", "submit", "confirm"}
  BY <1>5 DEF BeginCycle, ReadPositions, ReadOrders, Decide, Flatten, GateRefuses, SubmitRefused,
     Sync, SyncFails, Reconcile, CycleAborts
<1>6. QED
  BY <1>1, <1>2, <1>3, <1>4, <1>5, StepCases

LEMMA StepOneBasket ==
  ASSUME TypeOK, OneBasketInv, [Next]_vars PROVE OneBasketADay'
<1> SUFFICES ASSUME NEW p \in Predictions, NEW q \in Predictions,
                    Kept(p)', Kept(q)', DayOf[p] = DayOf[q]
             PROVE  p = q
  BY DEF OneBasketADay
<1>1. CASE Kept(p) /\ Kept(q)
  BY <1>1 DEF OneBasketInv, OneBasketADay
<1>2. CASE SubmitLeg
  <2>1. DayOf[plan] = day /\ \A r \in Predictions : Kept(r) /\ DayOf[r] = day => r = plan
    BY <1>2 DEF OneBasketInv, SubmittingOne, SubmitLeg
  <2>2. QED
    BY <1>1, <2>1, LandedStep
<1>3. QED
  BY <1>1, <1>2, LandedStep

\* One basket a day: all entry orders of a day come from one prediction, but
\* for the leg of each cycle that dies between a submit and the UPDATE that
\* records it; for every number of predictions, days, legs, refused legs and
\* abandoned cycles.
THEOREM OneBasket == Spec => []OneBasketADay
<1>1. Init => TypeOK /\ OneBasketInv
  BY InitTypeOK DEF Init, OneBasketInv, SubmittingOne, LandedIsTraded, OneBasketADay, Kept,
     NoOrder, NoRow
<1>2. TypeOK /\ OneBasketInv /\ [Next]_vars => TypeOK' /\ OneBasketInv'
  BY StepTypeOK, StepSubmittingOne, StepLandedIsTraded, StepOneBasket DEF OneBasketInv
<1>3. OneBasketInv => OneBasketADay
  BY DEF OneBasketInv
<1>4. QED
  BY <1>1, <1>2, <1>3, PTL DEF Spec

-----------------------------------------------------------------------------
(* The reconciliation report.                                              *)

\* Whatever touches an order leaves it landed.
LEMMA TouchedIsLanded ==
  ASSUME TypeOK, [Next]_vars, NEW p \in Predictions, NEW s \in Symbols
  PROVE  orders'[p][s] = orders[p][s] \/ orders'[p][s].st # "none"
<1> DEFINE Landing(o) == o \in Order /\ o.st # "none"
<1>0. orders \in [Predictions -> [Symbols -> Order]]
  BY DEF TypeOK
<1>1. ASSUME NEW q \in Predictions, NEW r \in Symbols, NEW o, Landing(o),
             orders' = [orders EXCEPT ![q][r] = o]
      PROVE  orders'[p][s] = orders[p][s] \/ orders'[p][s].st # "none"
  <2>1. orders'[p][s] = IF p = q /\ s = r THEN o ELSE orders[p][s]
    BY ONLY <1>0, <1>1, CellUpdate
  <2>2. QED
    BY <1>1, <2>1
<1>2. CASE SubmitLeg
  <2>1. plan \in Predictions /\ Name \in Symbols
    BY <1>2, NameIsSymbol DEF SubmitLeg
  <2>2. orders' = [orders EXCEPT ![plan][Name] = [st |-> "working", filled |-> 0]]
    BY <1>2 DEF SubmitLeg
  <2>3. PICK q \in Predictions, r \in Symbols : q = plan /\ r = Name
    BY <2>1
  <2>4. Landing([st |-> "working", filled |-> 0])
    BY OrderTypes
  <2>5. QED
    BY <1>1, <2>2, <2>3, <2>4
<1>3. ASSUME NEW q \in Predictions, NEW r \in Symbols, NEW st \in Terminal
      PROVE  Landing(Ends(orders[q][r], st))
  <2>1. orders[q][r] \in Order
    BY <1>0
  <2>2. Ends(orders[q][r], st) \in Order
    BY <2>1, OrderTypes
  <2>3. Ends(orders[q][r], st).st = st /\ st # "none"
    BY DEF Ends, Terminal
  <2>4. QED
    BY <2>2, <2>3
<1>4. CASE Flatten
  <2>1. orders'[p][s] = IF orders[p][s].st = "working" THEN Ends(orders[p][s], "canceled") ELSE orders[p][s]
    BY <1>4 DEF Flatten
  <2>2. QED
    BY <1>3, <2>1 DEF Terminal
<1>5. CASE MarketCloses
  <2>1. orders'[p][s] = IF orders[p][s].st \in {"working", "done_for_day"}
                        THEN Ends(orders[p][s], "expired") ELSE orders[p][s]
    BY <1>5 DEF MarketCloses
  <2>2. QED
    BY <1>3, <2>1 DEF Terminal
<1>6. ASSUME NEW q \in Predictions, NEW r \in Symbols, FillLeg(q, r)
      PROVE  orders'[p][s] = orders[p][s] \/ orders'[p][s].st # "none"
  <2>1. PICK n \in (orders[q][r].filled + 1)..LegQty :
          orders' = [orders EXCEPT ![q][r] =
                      [st |-> IF n = LegQty THEN "filled" ELSE "working", filled |-> n]]
    BY <1>6 DEF FillLeg
  <2>2. n \in 0..LegQty
    BY <1>0, OrderTypes
  <2>3. Landing([st |-> IF n = LegQty THEN "filled" ELSE "working", filled |-> n])
    BY <2>2, OrderTypes
  <2>4. QED
    BY <1>1, <2>1, <2>3
<1>7. ASSUME NEW q \in Predictions, NEW r \in Symbols, RejectLeg(q, r) \/ LegDone(q, r)
      PROVE  orders'[p][s] = orders[p][s] \/ orders'[p][s].st # "none"
  <2>1. \/ orders' = [orders EXCEPT ![q][r] = Ends(orders[q][r], "rejected")]
        \/ orders' = [orders EXCEPT ![q][r] = Ends(orders[q][r], "done_for_day")]
    BY <1>7 DEF RejectLeg, LegDone
  <2>2. QED
    BY <1>1, <1>3, <2>1 DEF Terminal
<1>8. ASSUME ~SubmitLeg, ~Flatten, ~MarketCloses
      PROVE  orders'[p][s] = orders[p][s] \/ orders'[p][s].st # "none"
  <2>1. CASE World
    BY <1>6, <1>7, <1>8, <2>1
    DEF World, FillClose, MarketOpens, LastMinutes, Midnight, NewPrediction, EquityMoves, broker
  <2>2. CASE ~World
    BY <1>8, <2>2, StepCases
    DEF BeginCycle, ReadPositions, ReadOrders, Decide, GateRefuses, GatePasses, RecordIntent,
        SkipSubmittedLeg, ConfirmLeg, SubmitRefused, Sync, SyncFails, Reconcile, CycleAborts,
        broker, vars
  <2>3. QED
    BY <2>1, <2>2
<1>9. QED
  BY <1>2, <1>4, <1>5, <1>8

\* A report is written by reconcile only.
LEMMA OnlyReconcileReports ==
  ASSUME [Next]_vars, Reports PROVE Reconcile
<1>1. CASE World \/ UNCHANGED vars
  BY <1>1 DEF Reports, World, FillLeg, RejectLeg, LegDone, FillClose, MarketOpens, LastMinutes,
     MarketCloses, Midnight, NewPrediction, EquityMoves, vars
<1>2. CASE CycleAborts
  <2>1. aborts' = aborts + 1 /\ aborts < MaxAborts /\ aborts' = aborts
    BY <1>2 DEF Reports, CycleAborts
  <2>2. QED
    BY <1>2 DEF Reports, CycleAborts
<1>3. QED
  BY <1>1, <1>2, StepCases
  DEF Reports, BeginCycle, ReadPositions, ReadOrders, Decide, Flatten, GateRefuses, GatePasses,
      RecordIntent, SubmitLeg, SkipSubmittedLeg, ConfirmLeg, SubmitRefused, Sync, SyncFails

LEMMA ReportStep ==
  ASSUME TypeOK, LandedIsTraded, UnlandedIsEmpty, Reconcile
  PROVE  \A s \in report'.unexpected, p \in Predictions :
           DayOf[p] = day => orders[p][s].filled = 0 \/ <<p, s>> \in lost
<1> SUFFICES ASSUME NEW s \in report'.unexpected, NEW p \in Predictions, DayOf[p] = day,
                    <<p, s>> \notin lost
             PROVE  orders[p][s].filled = 0
  OBVIOUS
<1>1. s \in posView /\ ~rows[p][s].acked
  <2> DEFINE submitted == {o \in Predictions \X Symbols :
                             DayOf[o[1]] = day /\ rows[o[1]][o[2]].acked}
  <2>1. s \in posView /\ \A o \in submitted : o[2] # s
    BY DEF Reconcile
  <2>2. s \in Symbols
    BY <2>1 DEF TypeOK
  <2>3. rows[p][s].acked => <<p, s>> \in submitted
    BY <2>2
  <2>4. QED
    BY <2>1, <2>3
<1>2. s \in Symbols /\ pc = "reconcile"
  BY <1>1 DEF TypeOK, Reconcile
<1>3. orders[p][s].st = "none"
  BY <1>1, <1>2 DEF LandedIsTraded
<1>4. QED
  BY <1>2, <1>3 DEF UnlandedIsEmpty

\* No report of any day calls unexpected ("a name we didn't submit today") a name
\* whose order of that day has filled, however stale the positions and orders the
\* cycle read, unless a cycle died between that order's submit and its UPDATE.
THEOREM ReportsAreForeign == Spec => UnexpectedIsForeign
<1>1. Init => TypeOK /\ LandedIsTraded /\ UnlandedIsEmpty
  BY InitTypeOK DEF Init, LandedIsTraded, UnlandedIsEmpty, NoOrder, NoRow
<1>2. ASSUME TypeOK, UnlandedIsEmpty, [Next]_vars PROVE UnlandedIsEmpty'
  BY <1>2, TouchedIsLanded DEF UnlandedIsEmpty
<1>3. TypeOK /\ LandedIsTraded /\ UnlandedIsEmpty /\ [Next]_vars
        => (TypeOK /\ LandedIsTraded /\ UnlandedIsEmpty)'
  BY <1>2, StepTypeOK, StepLandedIsTraded
<1>4. TypeOK /\ LandedIsTraded /\ UnlandedIsEmpty /\ [Next]_vars
        => [Reports => \A s \in report'.unexpected, p \in Predictions :
                         DayOf[p] = day => orders[p][s].filled = 0 \/ <<p, s>> \in lost]_vars
  BY OnlyReconcileReports, ReportStep
<1>5. QED
  BY <1>1, <1>3, <1>4, PTL DEF Spec, UnexpectedIsForeign

-----------------------------------------------------------------------------
(* The fills log.                                                          *)

\* What is final about an order stays: its filled quantity and the timestamp
\* that keys its row.
LEMMA FinalStays ==
  ASSUME TypeOK, [Next]_vars, NEW p \in Predictions, NEW s \in Symbols,
         orders[p][s].st \in Terminal
  PROVE  /\ orders'[p][s].st \in Terminal
         /\ orders'[p][s].filled = orders[p][s].filled
         /\ KeyOf(orders'[p][s]) = KeyOf(orders[p][s])
<1> DEFINE Same == UNCHANGED orders[p][s]
<1>0. orders \in [Predictions -> [Symbols -> Order]] /\ orders[p][s].st \notin {"none", "working"}
  BY DEF TypeOK, Terminal
<1>1. CASE SubmitLeg
  <2>1. plan \in Predictions /\ Name \in Symbols
    BY <1>1, NameIsSymbol DEF SubmitLeg
  <2>2. orders' = [orders EXCEPT ![plan][Name] = [st |-> "working", filled |-> 0]]
        /\ orders[plan][Name].st = "none"
    BY <1>1 DEF SubmitLeg
  <2>3. orders'[p][s] = IF p = plan /\ s = Name THEN [st |-> "working", filled |-> 0] ELSE orders[p][s]
    BY ONLY <1>0, <2>1, <2>2, CellUpdate, OrderTypes
  <2>4. QED
    BY <1>0, <2>2, <2>3
<1>2. CASE Flatten
  <2>1. Same
    BY <1>0, <1>2 DEF Flatten
  <2>2. QED
    BY <2>1
<1>3. CASE MarketCloses
  <2>1. orders'[p][s] = IF orders[p][s].st \in {"working", "done_for_day"}
                        THEN Ends(orders[p][s], "expired") ELSE orders[p][s]
    BY <1>3 DEF MarketCloses
  <2>2. CASE orders[p][s].st = "done_for_day"
    <3>1. orders'[p][s] = Ends(orders[p][s], "expired")
      BY <2>1, <2>2
    <3>2. QED
      BY <2>2, <3>1 DEF Ends, Terminal, KeyOf
  <2>3. CASE orders[p][s].st # "done_for_day"
    BY <1>0, <2>1, <2>3
  <2>4. QED
    BY <2>2, <2>3
<1>4. ASSUME NEW q \in Predictions, NEW r \in Symbols, NEW o \in Order,
             orders[q][r].st = "working", orders' = [orders EXCEPT ![q][r] = o]
      PROVE  Same
  <2>1. orders'[p][s] = IF p = q /\ s = r THEN o ELSE orders[p][s]
    BY ONLY <1>0, <1>4, CellUpdate
  <2>2. QED
    BY <1>0, <1>4, <2>1
<1>5. ASSUME NEW q \in Predictions, NEW r \in Symbols, FillLeg(q, r) PROVE Same
  <2>1. PICK n \in (orders[q][r].filled + 1)..LegQty :
          orders' = [orders EXCEPT ![q][r] =
                      [st |-> IF n = LegQty THEN "filled" ELSE "working", filled |-> n]]
    BY <1>5 DEF FillLeg
  <2>2. n \in 0..LegQty
    BY <1>0, OrderTypes
  <2>3. [st |-> IF n = LegQty THEN "filled" ELSE "working", filled |-> n] \in Order
    BY <2>2, OrderTypes
  <2>4. QED
    BY <1>4, <1>5, <2>1, <2>3 DEF FillLeg
<1>6. ASSUME NEW q \in Predictions, NEW r \in Symbols, RejectLeg(q, r) \/ LegDone(q, r) PROVE Same
  <2>1. Ends(orders[q][r], "rejected") \in Order /\ Ends(orders[q][r], "done_for_day") \in Order
    BY <1>0, OrderTypes DEF Terminal
  <2>2. orders[q][r].st = "working"
        /\ (\/ orders' = [orders EXCEPT ![q][r] = Ends(orders[q][r], "rejected")]
            \/ orders' = [orders EXCEPT ![q][r] = Ends(orders[q][r], "done_for_day")])
    BY <1>6 DEF RejectLeg, LegDone
  <2>3. QED
    BY <1>4, <2>1, <2>2
<1>7. ASSUME ~SubmitLeg, ~Flatten, ~MarketCloses PROVE Same
  <2>1. CASE World
    BY <1>5, <1>6, <1>7, <2>1
    DEF World, FillClose, MarketOpens, LastMinutes, Midnight, NewPrediction, EquityMoves, broker
  <2>2. CASE ~World
    BY <1>7, <2>2, StepCases
    DEF BeginCycle, ReadPositions, ReadOrders, Decide, GateRefuses, GatePasses, RecordIntent,
        SkipSubmittedLeg, ConfirmLeg, SubmitRefused, Sync, SyncFails, Reconcile, CycleAborts,
        broker, vars
  <2>3. QED
    BY <2>1, <2>2
<1>8. QED
  BY <1>1, <1>2, <1>3, <1>7

LEMMA StepFillsMatch == ASSUME TypeOK, FillsMatch, [Next]_vars PROVE FillsMatch'
<1> SUFFICES ASSUME NEW p \in Predictions, NEW s \in Symbols
             PROVE  /\ ordView'[p][s].st \in Terminal => Finished(ordView'[p][s], orders'[p][s])
                    /\ \A k \in Timestamps :
                         fillsLog'[p][s][k] > 0 => Recorded(fillsLog'[p][s][k], k, orders'[p][s])
  BY DEF FillsMatch
<1>1. /\ ordView[p][s].st \in Terminal => Finished(ordView[p][s], orders[p][s])
      /\ \A k \in Timestamps :
           fillsLog[p][s][k] > 0 => Recorded(fillsLog[p][s][k], k, orders[p][s])
  BY DEF FillsMatch
<1>2. orders[p][s].st \in Terminal =>
        /\ orders'[p][s].st \in Terminal
        /\ orders'[p][s].filled = orders[p][s].filled
        /\ KeyOf(orders'[p][s]) = KeyOf(orders[p][s])
  BY FinalStays
<1>3. CASE ReadOrders
  <2>1. ordView'[p][s] \in {orders[p][s], NoOrder} /\ UNCHANGED <<orders, fillsLog>>
    BY <1>3 DEF ReadOrders, logs, broker
  <2>2. QED
    BY <1>1, <2>1 DEF Finished, NoOrder, Terminal
<1>4. CASE Sync \/ SyncFails
  <2>1. PICK S \in SUBSET Seen : SyncOver(S)
    BY <1>4 DEF Sync, SyncFails
  <2>2. \A k \in Timestamps : fillsLog'[p][s][k] =
          IF <<p, s>> \in S /\ Logs(ordView[p][s]) /\ k = KeyOf(ordView[p][s])
          THEN ordView[p][s].filled ELSE fillsLog[p][s][k]
    BY <2>1 DEF SyncOver
  <2>3. UNCHANGED <<ordView, orders>>
    BY <1>4 DEF Sync, SyncFails, broker, local
  <2>4. ASSUME NEW k \in Timestamps, fillsLog'[p][s][k] > 0
        PROVE  Recorded(fillsLog'[p][s][k], k, orders[p][s])
    <3>1. CASE Logs(ordView[p][s]) /\ k = KeyOf(ordView[p][s]) /\ fillsLog'[p][s][k] = ordView[p][s].filled
      BY <1>1, <3>1 DEF Logs, Finished, Recorded
    <3>2. CASE fillsLog'[p][s][k] = fillsLog[p][s][k]
      BY <1>1, <2>4, <3>2
    <3>3. QED
      BY <2>2, <3>1, <3>2
  <2>5. QED
    BY <1>1, <2>3, <2>4
<1>5. CASE UNCHANGED <<ordView, fillsLog>>
  BY <1>1, <1>2, <1>5 DEF Finished, Recorded
<1>6. ASSUME ~ReadOrders, ~Sync, ~SyncFails PROVE UNCHANGED <<ordView, fillsLog>>
  BY <1>6, StepCases
  DEF BeginCycle, ReadPositions, Decide, Flatten, GateRefuses, GatePasses, RecordIntent, SubmitLeg,
      SkipSubmittedLeg, ConfirmLeg, SubmitRefused, Reconcile, CycleAborts, World, FillLeg,
      RejectLeg, LegDone, FillClose, MarketOpens, LastMinutes, MarketCloses, Midnight,
      NewPrediction, EquityMoves, logs, local, vars
<1>7. QED
  BY <1>3, <1>4, <1>5, <1>6

\* fills_log has at most one row of an order and never more than it filled,
\* through partial fills, cancels, expiries and any number of repeated or
\* half-done syncs of any snapshot.
THEOREM FillsOnce == Spec => []FillsCountedOnce
<1>1. Init => TypeOK /\ FillsMatch
  BY InitTypeOK DEF Init, FillsMatch, NoOrder, Terminal
<1>2. TypeOK /\ FillsMatch /\ [Next]_vars => TypeOK' /\ FillsMatch'
  BY StepTypeOK, StepFillsMatch
<1>3. TypeOK /\ FillsMatch => FillsCountedOnce
  <2> SUFFICES ASSUME TypeOK, FillsMatch, NEW p \in Predictions, NEW s \in Symbols
               PROVE  /\ \A k \in Timestamps : fillsLog[p][s][k] <= orders[p][s].filled
                      /\ \A k, l \in Timestamps :
                           fillsLog[p][s][k] > 0 /\ fillsLog[p][s][l] > 0 => k = l
    BY DEF FillsCountedOnce
  <2>1. \A k \in Timestamps : fillsLog[p][s][k] \in Nat
    BY ConstantFacts DEF TypeOK
  <2>2. orders[p][s].filled \in Nat
    BY ConstantFacts, OrderTypes DEF TypeOK
  <2>3. \A k \in Timestamps : fillsLog[p][s][k] > 0 =>
          fillsLog[p][s][k] = orders[p][s].filled /\ k = KeyOf(orders[p][s])
    BY DEF FillsMatch, Recorded
  <2>4. QED
    BY <2>1, <2>2, <2>3
<1>4. QED
  BY <1>1, <1>2, <1>3, PTL DEF Spec
=============================================================================
