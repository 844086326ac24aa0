---------------------------- MODULE BasketExecutor ----------------------------
(***************************************************************************)
(* The executor service: every LOOP_SECONDS one cycle that reads the clock, *)
(* the account and the broker's positions and orders, trips the kill        *)
(* switch, and then either terminates (flattens) or submits the one basket  *)
(* of the day, leg by leg, between the orders_log table and the broker.     *)
(*                                                                          *)
(* services/executor/main.py, with DRY_RUN false.  No memory outlives a     *)
(* cycle, so a crash and restart of the service is the same as a cycle      *)
(* abandoned by an exception.  One step per database or broker call that    *)
(* others can observe.                                                      *)
(***************************************************************************)
EXTENDS Integers, Sequences, FiniteSets

CONSTANTS
  Predictions,     \* prediction minutes, numbered in order of ts
  DayOf,           \* the trading day of each: on any other day it is stale
  Symbols,         \* names a basket may hold
  Basket,          \* the legs build_basket picks for each prediction
  LegQty,          \* shares of a leg
  MaxDay,          \* bound on trading days
  MaxEquity,       \* bound on the account's equity
  MaxDailyLoss,    \* MAX_DAILY_LOSS
  MaxAborts,       \* bound on cycles abandoned
  MaxRefusals      \* bound on legs the broker refuses or rejects

ASSUME ExecutorConstants ==
  /\ Predictions \subseteq Nat \ {0} /\ IsFiniteSet(Predictions)
  /\ IsFiniteSet(Symbols)
  /\ Basket \in [Predictions -> Seq(Symbols)]
  /\ DayOf \in [Predictions -> 1..MaxDay]
  /\ {LegQty, MaxDay} \subseteq Nat \ {0}
  /\ {MaxEquity, MaxDailyLoss, MaxAborts, MaxRefusals} \subseteq Nat

VARIABLES
  day,       \* the New York date
  phase,     \* "pre", "open", "eod" (the last EOD_FLATTEN_MIN minutes), "post"
  equity,    \* the account's equity
  latest,    \* max(ts) of predictions, 0 before the first
  start,     \* executor_state.start_equity by day, NoEquity before the INSERT
  halted,    \* executor_state.halted by day
  rows,      \* orders_log, by prediction and symbol
  fillsLog,  \* fills_log: quantity by order and by which timestamp keys the row
  report,    \* the last reconciliation_log row
  orders,    \* the broker's entry orders, by prediction and symbol
  held,      \* the account's position in each symbol
  closing,   \* shares in a working close order of each symbol
  aborts,    \* cycles abandoned so far
  refusals,  \* legs refused or rejected so far
  lost,      \* history: legs whose cycle died between the submit and its UPDATE
  pc,        \* the next call of the cycle, "idle" between cycles
  view,      \* what the cycle read: phase, breach, halted
  posView,   \* symbols the cycle saw a position in
  ordView,   \* orders the cycle saw
  plan,      \* prediction being submitted, 0 for none
  leg        \* index of the leg being submitted

world == <<day, phase, equity, latest>>
state == <<start, halted>>
logs == <<rows, fillsLog, report>>
broker == <<orders, held, closing>>
faults == <<aborts, refusals, lost>>
local == <<view, posView, ordView, plan, leg>>
vars == <<day, phase, equity, latest, start, halted, rows, fillsLog, report, orders,
          held, closing, aborts, refusals, lost, pc, view, posView, ordView, plan, leg>>

Days == 1..MaxDay
NoEquity == -1
Terminal == {"filled", "canceled", "expired", "rejected", "done_for_day"}
Order == [st : {"none", "working"} \cup Terminal, filled : 0..LegQty]
NoOrder == [st |-> "none", filled |-> 0]
Ends(order, st) == [st |-> st, filled |-> order.filled]
Row == [status : {"none", "intended", "submitted", "working"} \cup Terminal,
        filled : 0..LegQty, acked : BOOLEAN]
NoRow == [status |-> "none", filled |-> 0, acked |-> FALSE]
Timestamps == {"filled_at", "canceled_at", "submitted_at", "updated_at"}

Flat == \A s \in Symbols : held[s] = 0
MarketOpen == phase \in {"open", "eod"}

Init ==
  /\ day = 1 /\ phase = "pre" /\ equity = MaxEquity /\ latest = 0
  /\ start = [d \in Days |-> NoEquity]
  /\ halted = [d \in Days |-> FALSE]
  /\ rows = [p \in Predictions |-> [s \in Symbols |-> NoRow]]
  /\ fillsLog = [p \in Predictions |-> [s \in Symbols |-> [k \in Timestamps |-> 0]]]
  /\ report = [ok |-> TRUE, unexpected |-> {}]
  /\ orders = [p \in Predictions |-> [s \in Symbols |-> NoOrder]]
  /\ held = [s \in Symbols |-> 0]
  /\ closing = [s \in Symbols |-> 0]
  /\ aborts = 0 /\ refusals = 0 /\ lost = {} /\ pc = "idle"
  /\ view = [phase |-> "pre", breach |-> FALSE, halted |-> FALSE]
  /\ posView = {}
  /\ ordView = [p \in Predictions |-> [s \in Symbols |-> NoOrder]]
  /\ plan = 0 /\ leg = 0

-----------------------------------------------------------------------------
(* One cycle: what it reads.                                               *)

\* get_clock and ensure_session_state: the day's row is inserted once, so the
\* baseline and the halted flag outlive restarts.
BeginCycle ==
  /\ pc = "idle"
  /\ start' = [start EXCEPT ![day] = IF @ = NoEquity THEN equity ELSE @]
  /\ view' = [phase |-> phase, breach |-> equity < start'[day] - MaxDailyLoss,
              halted |-> halted[day]]
  /\ pc' = "positions"
  /\ UNCHANGED <<world, halted, logs, broker, faults, posView, ordView, plan, leg>>

\* get_all_positions.
ReadPositions ==
  /\ pc = "positions"
  /\ posView' = {s \in Symbols : held[s] # 0}
  /\ pc' = "orders"
  /\ UNCHANGED <<world, state, logs, broker, faults, view, ordView, plan, leg>>

\* get_orders of today: a snapshot that sync and reconcile use later on.
ReadOrders ==
  /\ pc = "orders"
  /\ ordView' = [p \in Predictions |-> [s \in Symbols |->
                   IF DayOf[p] = day THEN orders[p][s] ELSE NoOrder]]
  /\ pc' = "decide"
  /\ UNCHANGED <<world, state, logs, broker, faults, view, posView, plan, leg>>

\* Mutants: a new cycle trusts only the breach it sees; a halted day skips its
\* flatten; the halt is persisted only when there is something to close.
DecideForgetsHalt ==
  /\ pc = "decide"
  /\ halted' = [halted EXCEPT ![day] = @ \/ view.breach]
  /\ LET terminate == \/ view.breach \/ view.phase = "eod"
                      \/ view.phase \in {"pre", "post"} /\ posView # {}
     IN pc' = IF terminate THEN (IF posView = {} THEN "sync" ELSE "flatten")
              ELSE IF view.phase = "open" THEN "gate" ELSE "sync"
  /\ UNCHANGED <<world, start, logs, broker, faults, local>>

DecideHaltSkipsFlatten ==
  /\ pc = "decide"
  /\ halted' = [halted EXCEPT ![day] = @ \/ view.breach]
  /\ LET terminate == \/ view.phase = "eod"
                      \/ view.phase \in {"pre", "post"} /\ posView # {}
     IN pc' = IF view.halted \/ view.breach THEN "sync"
              ELSE IF terminate THEN (IF posView = {} THEN "sync" ELSE "flatten")
              ELSE IF view.phase = "open" THEN "gate" ELSE "sync"
  /\ UNCHANGED <<world, start, logs, broker, faults, local>>

DecideHaltsHolding ==
  /\ pc = "decide"
  /\ halted' = [halted EXCEPT ![day] = @ \/ (view.breach /\ posView # {})]
  /\ pc' = IF posView # {} THEN "flatten" ELSE "sync"
  /\ UNCHANGED <<world, start, logs, broker, faults, local>>

\* The kill switch is persisted first; then termination takes priority.
Decide ==
  /\ pc = "decide"
  /\ halted' = [halted EXCEPT ![day] = @ \/ view.breach]
  /\ LET terminate == \/ view.halted \/ view.breach \/ view.phase = "eod"
                      \/ view.phase \in {"pre", "post"} /\ posView # {}
     IN pc' = IF terminate THEN (IF posView = {} THEN "sync" ELSE "flatten")
              ELSE IF view.phase = "open" THEN "gate" ELSE "sync"
  /\ UNCHANGED <<world, start, logs, broker, faults, local>>

\* flatten_all: close_all_positions(cancel_orders=True) cancels every working
\* order, entries and earlier closes, and closes what is held.
Flatten ==
  /\ pc = "flatten"
  /\ orders' = [p \in Predictions |-> [s \in Symbols |->
                  IF orders[p][s].st = "working" THEN Ends(orders[p][s], "canceled")
                  ELSE orders[p][s]]]
  /\ closing' = held
  /\ pc' = "sync"
  /\ UNCHANGED <<world, state, logs, held, faults, local>>

-----------------------------------------------------------------------------
(* One cycle: the basket.                                                  *)

\* Mutant: only a filled leg counts as traded.
TradedTodayIfFilled ==
  \E p \in Predictions, s \in Symbols : DayOf[p] = day /\ rows[p][s].status = "filled"

TradedToday ==
  \E p \in Predictions, s \in Symbols :
    DayOf[p] = day /\ rows[p][s].status \notin {"none", "intended"}

\* Already traded, or the prediction is stale or missing, the pool too small,
\* the scores degenerate or the gross above the cap: no basket this cycle.
GateRefuses ==
  /\ pc = "gate"
  /\ pc' = "sync"
  /\ UNCHANGED <<world, state, logs, broker, faults, local>>

GatePasses ==
  /\ pc = "gate" /\ ~TradedToday
  /\ latest > 0 /\ DayOf[latest] = day /\ Basket[latest] # <<>>
  /\ plan' = latest /\ leg' = 1 /\ pc' = "intent"
  /\ UNCHANGED <<world, state, logs, broker, faults, view, posView, ordView>>

Name == Basket[plan][leg]
NextLeg ==
  IF leg < Len(Basket[plan]) THEN pc' = "intent" /\ leg' = leg + 1 /\ UNCHANGED plan
  ELSE pc' = "sync" /\ leg' = 0 /\ plan' = 0

\* INTENT_SQL ... ON CONFLICT (client_order_id) DO NOTHING.
RecordIntent ==
  /\ pc = "intent"
  /\ rows' = IF rows[plan][Name].status = "none"
             THEN [rows EXCEPT ![plan][Name] = [status |-> "intended",
                                                filled |-> 0, acked |-> FALSE]]
             ELSE rows
  /\ pc' = "submit"
  /\ UNCHANGED <<world, state, fillsLog, report, broker, faults, local>>

\* submit_order lands the leg.
SubmitLeg ==
  /\ pc = "submit" /\ orders[plan][Name].st = "none"
  /\ orders' = [orders EXCEPT ![plan][Name] = [st |-> "working", filled |-> 0]]
  /\ pc' = "confirm"
  /\ UNCHANGED <<world, state, logs, held, closing, faults, local>>

\* The client order id is taken: the leg is skipped, its row left as it is.
SkipSubmittedLeg ==
  /\ pc = "submit" /\ orders[plan][Name].st # "none"
  /\ NextLeg
  /\ UNCHANGED <<world, state, logs, broker, faults, view, posView, ordView>>

\* UPDATE orders_log SET status='submitted', alpaca_order_id=...
ConfirmLeg ==
  /\ pc = "confirm"
  /\ rows' = [rows EXCEPT ![plan][Name] =
                [status |-> "submitted", filled |-> @.filled, acked |-> TRUE]]
  /\ NextLeg
  /\ UNCHANGED <<world, state, fillsLog, report, broker, faults, view, posView, ordView>>

\* The broker refuses the leg (any APIError but a taken id): the exception ends
\* the cycle and the legs after it.
SubmitRefused ==
  /\ pc = "submit" /\ orders[plan][Name].st = "none" /\ refusals < MaxRefusals
  /\ refusals' = refusals + 1
  /\ pc' = "idle" /\ plan' = 0 /\ leg' = 0
  /\ UNCHANGED <<world, state, logs, broker, aborts, lost, view, posView, ordView>>

-----------------------------------------------------------------------------
(* One cycle: the books.                                                   *)

\* Mutant: the fallback timestamp moves when the broker touches the order.
KeyOfLastTouch(order) ==
  CASE order.st = "filled" -> "filled_at"
    [] order.st = "canceled" -> "canceled_at"
    [] order.st = "expired" -> "updated_at"
    [] OTHER -> "submitted_at"

\* filled_at or canceled_at or submitted_at: the timestamps the order has.
KeyOf(order) ==
  CASE order.st = "filled" -> "filled_at"
    [] order.st = "canceled" -> "canceled_at"
    [] OTHER -> "submitted_at"

Logs(order) == order.st \in Terminal /\ order.filled > 0

\* sync_orders_and_fills over the orders of S: the broker's status to our rows
\* (by alpaca_order_id), realized fills upserted by (order, timestamp).
SyncOver(S) ==
  /\ rows' = [p \in Predictions |-> [s \in Symbols |->
                IF <<p, s>> \in S /\ rows[p][s].acked
                THEN [status |-> ordView[p][s].st, filled |-> ordView[p][s].filled,
                      acked |-> TRUE]
                ELSE rows[p][s]]]
  /\ fillsLog' = [p \in Predictions |-> [s \in Symbols |-> [k \in Timestamps |->
                    IF <<p, s>> \in S /\ Logs(ordView[p][s]) /\ k = KeyOf(ordView[p][s])
                    THEN ordView[p][s].filled ELSE fillsLog[p][s][k]]]]

Seen == {o \in Predictions \X Symbols : ordView[o[1]][o[2]].st # "none"}

Sync ==
  /\ pc = "sync"
  /\ SyncOver(Seen)
  /\ pc' = "reconcile"
  /\ UNCHANGED <<world, state, report, broker, faults, local>>

\* A statement fails half-way through the orders.
SyncFails ==
  /\ pc = "sync" /\ aborts < MaxAborts
  /\ \E S \in SUBSET Seen : SyncOver(S)
  /\ aborts' = aborts + 1 /\ pc' = "idle"
  /\ UNCHANGED <<world, state, report, broker, refusals, lost, local>>

\* Mutant: what we expect is what our rows show as filled.
ReconcileByFills ==
  /\ pc = "reconcile"
  /\ LET submitted == {o \in Predictions \X Symbols :
                         DayOf[o[1]] = day /\ rows[o[1]][o[2]].status = "filled"}
         unexpected == {s \in posView : \A o \in submitted : o[2] # s}
     IN report' = [ok |-> unexpected = {}, unexpected |-> unexpected]
  /\ pc' = "idle"
  /\ UNCHANGED <<world, state, rows, fillsLog, broker, faults, local>>

\* reconcile: today's acknowledged rows against the positions the cycle saw.
Reconcile ==
  /\ pc = "reconcile"
  /\ LET submitted == {o \in Predictions \X Symbols :
                         DayOf[o[1]] = day /\ rows[o[1]][o[2]].acked}
         unexpected == {s \in posView : \A o \in submitted : o[2] # s}
         rejected == {o \in submitted : rows[o[1]][o[2]].status = "rejected"}
     IN report' = [ok |-> unexpected = {} /\ rejected = {}, unexpected |-> unexpected]
  /\ pc' = "idle"
  /\ UNCHANGED <<world, state, rows, fillsLog, broker, faults, local>>

\* A call raises before it has an effect, or the service is restarted.  Between
\* the submit and its UPDATE the leg has landed and its row stays intended.
CycleAborts ==
  /\ pc # "idle" /\ aborts < MaxAborts
  /\ aborts' = aborts + 1
  /\ lost' = IF pc = "confirm" THEN lost \cup {<<plan, Name>>} ELSE lost
  /\ pc' = "idle" /\ plan' = 0 /\ leg' = 0
  /\ UNCHANGED <<world, state, logs, broker, refusals, view, posView, ordView>>

-----------------------------------------------------------------------------
(* The broker, the market's clock and the predictor.                       *)

FillLeg(p, s) ==
  /\ MarketOpen /\ orders[p][s].st = "working"
  /\ \E n \in (orders[p][s].filled + 1)..LegQty :
       /\ orders' = [orders EXCEPT ![p][s] =
                       [st |-> IF n = LegQty THEN "filled" ELSE "working", filled |-> n]]
       /\ held' = [held EXCEPT ![s] = @ + (n - orders[p][s].filled)]
  /\ UNCHANGED <<world, state, logs, closing, faults, pc, local>>

RejectLeg(p, s) ==
  /\ orders[p][s] = [st |-> "working", filled |-> 0] /\ refusals < MaxRefusals
  /\ refusals' = refusals + 1
  /\ orders' = [orders EXCEPT ![p][s] = Ends(@, "rejected")]
  /\ UNCHANGED <<world, state, logs, held, closing, aborts, lost, pc, local>>

\* The broker stops working a leg for the day; it expires at the close.
LegDone(p, s) ==
  /\ phase = "eod" /\ orders[p][s].st = "working"
  /\ orders' = [orders EXCEPT ![p][s] = Ends(@, "done_for_day")]
  /\ UNCHANGED <<world, state, logs, held, closing, faults, pc, local>>

FillClose(s) ==
  /\ MarketOpen /\ closing[s] > 0
  /\ \E n \in 1..closing[s] : /\ held' = [held EXCEPT ![s] = @ - n]
                             /\ closing' = [closing EXCEPT ![s] = @ - n]
  /\ UNCHANGED <<world, state, logs, orders, faults, pc, local>>

\* The session; at the close the working DAY orders expire.  A cycle is far
\* shorter than an evening, and the last day of the model does not end.
MarketOpens ==
  /\ phase = "pre" /\ phase' = "open"
  /\ UNCHANGED <<day, equity, latest, state, logs, broker, faults, pc, local>>

LastMinutes ==
  /\ phase = "open" /\ phase' = "eod"
  /\ UNCHANGED <<day, equity, latest, state, logs, broker, faults, pc, local>>

MarketCloses ==
  /\ phase = "eod" /\ day < MaxDay /\ phase' = "post"
  /\ orders' = [p \in Predictions |-> [s \in Symbols |->
                  IF orders[p][s].st \in {"working", "done_for_day"}
                  THEN Ends(orders[p][s], "expired") ELSE orders[p][s]]]
  /\ closing' = [s \in Symbols |-> 0]
  /\ UNCHANGED <<day, equity, latest, state, logs, held, faults, pc, local>>

Midnight ==
  /\ phase = "post" /\ pc = "idle" /\ day < MaxDay
  /\ day' = day + 1 /\ phase' = "pre"
  /\ UNCHANGED <<equity, latest, state, logs, broker, faults, pc, local>>

NewPrediction ==
  /\ latest' \in {p \in Predictions : p > latest /\ DayOf[p] = day}
  /\ UNCHANGED <<day, phase, equity, state, logs, broker, faults, pc, local>>

EquityMoves ==
  /\ equity' \in {equity - 1, equity + 1} \cap (0..MaxEquity)
  /\ UNCHANGED <<day, phase, latest, state, logs, broker, faults, pc, local>>

-----------------------------------------------------------------------------
Cycle ==
  \/ BeginCycle \/ ReadPositions \/ ReadOrders \/ Decide \/ Flatten
  \/ GateRefuses \/ GatePasses \/ RecordIntent \/ SubmitLeg \/ SkipSubmittedLeg
  \/ ConfirmLeg \/ Sync \/ Reconcile

Failure == SubmitRefused \/ SyncFails \/ CycleAborts

World ==
  \/ \E p \in Predictions, s \in Symbols : FillLeg(p, s) \/ RejectLeg(p, s) \/ LegDone(p, s)
  \/ \E s \in Symbols : FillClose(s)
  \/ MarketOpens \/ LastMinutes \/ MarketCloses \/ Midnight
  \/ NewPrediction \/ EquityMoves

Next == Cycle \/ Failure \/ World

Spec == Init /\ [][Next]_vars

\* The loop never stops (while True, restarted when it dies), the market's clock
\* goes on and market orders fill while it is open.
Fairness ==
  /\ WF_vars(Cycle)
  /\ WF_vars(MarketOpens) /\ WF_vars(LastMinutes) /\ WF_vars(MarketCloses) /\ SF_vars(Midnight)
  /\ \A s \in Symbols : WF_vars(FillClose(s))

FairSpec == Spec /\ Fairness

-----------------------------------------------------------------------------
(* What the executor promises.                                             *)

\* Every variable keeps its type; a close never exceeds the position it closes.
TypeOK ==
  /\ day \in Days /\ phase \in {"pre", "open", "eod", "post"}
  /\ equity \in 0..MaxEquity /\ latest \in Predictions \cup {0}
  /\ start \in [Days -> (0..MaxEquity) \cup {NoEquity}]
  /\ halted \in [Days -> BOOLEAN]
  /\ rows \in [Predictions -> [Symbols -> Row]]
  /\ fillsLog \in [Predictions -> [Symbols -> [Timestamps -> 0..LegQty]]]
  /\ report \in [ok : BOOLEAN, unexpected : SUBSET Symbols]
  /\ orders \in [Predictions -> [Symbols -> Order]]
  /\ held \in [Symbols -> Nat] /\ closing \in [Symbols -> Nat]
  /\ \A s \in Symbols : closing[s] <= held[s]
  /\ aborts \in 0..MaxAborts /\ refusals \in 0..MaxRefusals
  /\ lost \subseteq Predictions \X Symbols
  /\ pc \in {"idle", "positions", "orders", "decide", "flatten", "gate", "intent",
             "submit", "confirm", "sync", "reconcile"}
  /\ view \in [phase : {"pre", "open", "eod", "post"}, breach : BOOLEAN, halted : BOOLEAN]
  /\ posView \subseteq Symbols
  /\ ordView \in [Predictions -> [Symbols -> Order]]
  /\ plan \in Predictions \cup {0} /\ leg \in Nat
  /\ pc \in {"intent", "submit", "confirm"} =>
       plan \in Predictions /\ leg \in 1..Len(Basket[plan])

Landed(p) == \E s \in Symbols : orders[p][s].st # "none"

\* "one basket/day": the entry orders of a day all come from one prediction,
\* whatever cycles are abandoned and whichever predictions arrive meanwhile, but
\* for the one leg each cycle loses that dies between a submit and its UPDATE.
Kept(p) == \E s \in Symbols : orders[p][s].st # "none" /\ <<p, s>> \notin lost
OneBasketADay ==
  \A p, q \in Predictions : Kept(p) /\ Kept(q) /\ DayOf[p] = DayOf[q] => p = q

\* Once the kill switch is in executor_state no entry order is submitted that
\* day, restarts included, even if the equity recovers.
NoEntryOnceHalted ==
  [][\A p \in Predictions, s \in Symbols :
       orders[p][s].st = "none" /\ orders'[p][s].st # "none" => ~halted[day]]_vars

\* A report is written.
Reports == pc = "reconcile" /\ pc' = "idle" /\ UNCHANGED aborts

\* reconcile never reports as unexpected ("a name we didn't submit today") a
\* name whose order of today has filled, unless that order's UPDATE was lost.
UnexpectedIsForeign ==
  [][Reports =>
       \A s \in report'.unexpected, p \in Predictions :
         DayOf[p] = day => orders[p][s].filled = 0 \/ <<p, s>> \in lost]_vars

\* fills_log has at most one row of an order and never more than it filled, over
\* partial fills, cancels, expiries and repeated or half-done syncs.
FillsCountedOnce ==
  \A p \in Predictions, s \in Symbols :
    /\ \A k \in Timestamps : fillsLog[p][s][k] <= orders[p][s].filled
    /\ \A k, l \in Timestamps : fillsLog[p][s][k] > 0 /\ fillsLog[p][s][l] > 0 => k = l

\* "a leg the broker refused (lopsided basket by failure -> ok=false)": no
\* report is ok when some legs of a basket landed and others got no order.
Lopsided(p) ==
  DayOf[p] = day /\ Landed(p)
    /\ \E s \in Symbols : rows[p][s].status = "intended" /\ orders[p][s].st = "none"
LopsidedIsReported ==
  [][Reports => \A p \in Predictions : Lopsided(p) => ~report'.ok]_vars

\* A lasting breach of the daily loss halts the day.
Breached == start[day] # NoEquity /\ equity < start[day] - MaxDailyLoss
KillSwitchTrips == Breached ~> (halted[day] \/ ~Breached)

\* Whatever is bought is eventually closed: the flatten of the last minutes, of
\* the kill switch or of a stranded position re-runs until flat.
EndsFlat == ~Flat ~> Flat

-----------------------------------------------------------------------------
(* The inductive invariants behind these properties.                       *)

\* While a basket is being submitted it is the day's only one.
SubmittingOne ==
  pc \in {"intent", "submit", "confirm"} =>
    /\ DayOf[plan] = day
    /\ \A q \in Predictions : Kept(q) /\ DayOf[q] = day => q = plan

\* Every acknowledged row counts as traded, and every order that landed is
\* acknowledged but the one whose UPDATE is next and those that lost theirs.
LandedIsTraded ==
  \A p \in Predictions, s \in Symbols :
    /\ rows[p][s].acked => rows[p][s].status \notin {"none", "intended"}
    /\ orders[p][s].st # "none"
         => rows[p][s].acked \/ (pc = "confirm" /\ plan = p /\ Name = s) \/ <<p, s>> \in lost

\* The cycle knows of the halt, and does not trade on a halted day.
HaltIsSeen ==
  /\ pc \in {"positions", "orders", "decide"} => view.halted = halted[day]
  /\ pc \in {"gate", "intent", "submit", "confirm"} => ~halted[day]

\* An order that never landed has filled nothing.
UnlandedIsEmpty ==
  \A p \in Predictions, s \in Symbols :
    orders[p][s].st = "none" => orders[p][s].filled = 0

OneBasketInv == SubmittingOne /\ LandedIsTraded /\ OneBasketADay

\* A snapshot that shows an order finished, or a row of fills_log, agrees with
\* the order as it is now.
Finished(seen, order) ==
  /\ order.st \in Terminal
  /\ seen.filled = order.filled /\ KeyOf(seen) = KeyOf(order)
Recorded(quantity, key, order) ==
  /\ order.st \in Terminal
  /\ quantity = order.filled /\ key = KeyOf(order)
FillsMatch ==
  \A p \in Predictions, s \in Symbols :
    /\ ordView[p][s].st \in Terminal => Finished(ordView[p][s], orders[p][s])
    /\ \A k \in Timestamps :
         fillsLog[p][s][k] > 0 => Recorded(fillsLog[p][s][k], k, orders[p][s])
=============================================================================
