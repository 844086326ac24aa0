------------------------------- MODULE SmokeBets -------------------------------
(***************************************************************************)
(* The smoke strategy container: one process that records a bet in its     *)
(* Postgres table, buys at the Alpaca paper broker, waits for the fill and *)
(* the hold, sells, and books both fills into a durable ledger.  The       *)
(* process may crash or have a call fail between any two of its database   *)
(* and broker calls; the table, the ledger and the broker survive.         *)
(*                                                                         *)
(* strategies/smoke/{strategy,bet_store}.py, strategies/lib/stale_entry.py *)
(* and the submit/cancel of quantlib/strategy_core/paper_alpaca_executor.  *)
(*                                                                         *)
(* One step per database or broker call: what lies between two calls is    *)
(* local to the process and part of the step that follows or precedes it.  *)
(* Shares are counted in units, one unit costing one unit of notional.     *)
(***************************************************************************)
EXTENDS Integers, FiniteSets, FiniteSetsExt

CONSTANTS
  NumBets,           \* bets followed; bet b is the b-th the strategy places
  Qty,               \* units an entry order asks for (SMOKE_NOTIONAL_USD)
  MaxConcurrent,     \* SMOKE_MAX_CONCURRENT
  MaxTotalNotional,  \* SMOKE_MAX_TOTAL_NOTIONAL_USD, in units
  MinChecks,         \* not-founds after which an entry is declared dead
  PendChecks,        \* pending observations after which an exit is stale
  MaxFaults,         \* bound on crashes and failed calls
  MaxReplaced,       \* bound on how often a working exit is replaced
  EntryLag,          \* not-founds a landed entry order may still show
  ExitMayLag,        \* a landed exit order may still show not-found
  StaleMayFill,      \* an exit declared stale may fill first, or its cancel fail
  PartialFills,      \* orders may fill in several parts
  OrdersMayDie       \* the broker may expire or reject a landed order

ASSUME SmokeConstants ==
  /\ {NumBets, Qty, MaxConcurrent, PendChecks} \subseteq Nat \ {0}
  /\ {MaxTotalNotional, MaxFaults, MaxReplaced, EntryLag} \subseteq Nat
  /\ MinChecks \in Nat \ {0, 1}
  /\ PendChecks > 1
  /\ {ExitMayLag, StaleMayFill, PartialFills, OrdersMayDie} \subseteq BOOLEAN

VARIABLES
  status,    \* bets.status, "absent" before the INSERT
  qty,       \* bets.qty, 0 for NULL (entry_price is NULL iff qty is)
  exitId,    \* retry generation of bets.exit_order_id, NoExit for NULL
  ledger,    \* durable fills table: units booked per bet and side
  entry,     \* the broker's view of each entry order
  exits,     \* the broker's view of each exit order, by retry generation
  held,      \* the account's position: units a bet's orders bought less those sold
  due,       \* bets whose hold_until has passed
  faults,    \* faults so far
  mode,      \* "down", "startup" (reconcile_on_startup) or "run" (the loop)
  pc,        \* the next database or broker call of the process
  cur,       \* the bet it works on, 0 for none
  todo,      \* bets of this pass's list_open snapshot not yet visited
  obs,       \* filled quantity of the last entry order read
  retry,     \* "no", or why the exit is being re-submitted
  mem,       \* the in-memory StrategyState fills, shaped like ledger
  streak,    \* StaleEntryTracker: consecutive not-founds per entry
  pend       \* StalePendingExitTracker: pending observations, current exit

store == <<status, qty, exitId>>
broker == <<entry, exits, held>>
trackers == <<streak, pend>>
local == <<mode, pc, cur, todo, obs, retry>>
vars == <<status, qty, exitId, ledger, entry, exits, held, due, faults,
          mode, pc, cur, todo, obs, retry, mem, streak, pend>>

Bets == 1..NumBets
NoExit == -1
MaxGen == MaxReplaced + MaxFaults
Gens == 0..MaxGen
OpenStatuses == {"open", "filled", "closing"}
Order == [st : {"none", "hidden", "live", "dead"}, filled : 0..Qty]
NoOrder == [st |-> "none", filled |-> 0]
Becomes(order, state) == [st |-> state, filled |-> order.filled]
FilledTo(order, n) == [st |-> order.st, filled |-> n]
Unbooked == [buy |-> 0, sell |-> 0]

PCs == {"idle", "pick", "fetch", "abandon", "mark", "mark_late", "book",
        "hold", "ensure", "mark_closing", "submit", "lookup", "cancel",
        "bump", "refetch", "close", "book_sell", "gate", "submit_entry"}

OpenBets == {b \in Bets : status[b] \in OpenStatuses}

\* bet_store.open_notional: cost of the filled quantity, else the notional.
OpenNotional ==
  MapThenSumSet(LAMBDA b : IF qty[b] > 0 THEN qty[b] ELSE Qty, OpenBets)

Exit(b) == exits[b][exitId[b]]

Init ==
  /\ status = [b \in Bets |-> "absent"]
  /\ qty = [b \in Bets |-> 0]
  /\ exitId = [b \in Bets |-> NoExit]
  /\ ledger = [b \in Bets |-> Unbooked]
  /\ entry = [b \in Bets |-> NoOrder]
  /\ exits = [b \in Bets |-> [g \in Gens |-> NoOrder]]
  /\ held = [b \in Bets |-> 0]
  /\ due = {}
  /\ faults = 0
  /\ mode = "down" /\ pc = "idle" /\ cur = 0 /\ todo = {}
  /\ obs = 0 /\ retry = "no"
  /\ mem = [b \in Bets |-> Unbooked]
  /\ streak = [b \in Bets |-> 0]
  /\ pend = [b \in Bets |-> 0]

-----------------------------------------------------------------------------
(* Control flow of the process.                                            *)

\* The process works on cur and its next call is p.
At(p) == mode # "down" /\ pc = p /\ cur \in Bets

Goto(p) == pc' = p /\ UNCHANGED <<mode, cur, todo, obs, retry>>

\* Done with this bet: back to the head of the for loop over the snapshot.
NextBet ==
  pc' = "pick" /\ cur' = 0 /\ obs' = 0 /\ retry' = "no" /\ UNCHANGED <<mode, todo>>

Fault == faults < MaxFaults /\ faults' = faults + 1

\* Container start: state_store.load replays the ledger, the trackers are new,
\* reconcile_on_startup lists the open bets.
Start ==
  /\ mode = "down"
  /\ mode' = "startup" /\ pc' = "pick" /\ cur' = 0 /\ todo' = OpenBets
  /\ obs' = 0 /\ retry' = "no"
  /\ mem' = ledger
  /\ streak' = [b \in Bets |-> 0]
  /\ pend' = [b \in Bets |-> 0]
  /\ UNCHANGED <<store, ledger, broker, due, faults>>

\* cycle(): manage_open_bets lists the open bets afresh.
BeginCycle ==
  /\ mode = "run" /\ pc = "idle"
  /\ pc' = "pick" /\ todo' = OpenBets
  /\ UNCHANGED <<mode, cur, obs, retry, store, ledger, broker, due, faults, mem, trackers>>

\* for bet in list_open(): ORDER BY entry_ts, the bets' own order.
PickBet ==
  /\ mode # "down" /\ pc = "pick"
  /\ \E b \in todo :
       /\ \A a \in todo : b <= a
       /\ cur' = b /\ todo' = todo \ {b}
       /\ pc' = IF qty[b] = 0 \/ mode = "startup" THEN "fetch" ELSE "hold"
  /\ UNCHANGED <<mode, obs, retry, store, ledger, broker, due, faults, mem, trackers>>

\* The snapshot is exhausted: the loop goes on to maybe_place_bet.
EndPass ==
  /\ mode # "down" /\ pc = "pick" /\ todo = {}
  /\ mode' = "run"
  /\ pc' = IF mode = "startup" THEN "idle" ELSE "gate"
  /\ UNCHANGED <<cur, todo, obs, retry, store, ledger, broker, due, faults, mem, trackers>>

-----------------------------------------------------------------------------
(* Capturing the entry fill.                                               *)

\* Mutant: the entry is given up one observation early.
EntryNotFoundTooSoon ==
  /\ At("fetch")
  /\ \/ entry[cur].st = "none"
     \/ entry[cur].st = "hidden" /\ (mode = "startup" \/ streak[cur] < EntryLag)
  /\ IF mode = "startup" THEN
       Goto("hold") /\ UNCHANGED streak
     ELSE
       /\ streak' = [streak EXCEPT ![cur] = IF @ < MinChecks THEN @ + 1 ELSE @]
       /\ IF streak'[cur] >= MinChecks - 1 THEN Goto("abandon") ELSE NextBet
  /\ UNCHANGED <<store, ledger, broker, due, faults, mem, pend>>

\* The lookup at the head of the loop raises order-not-found.  At startup
\* _fetch_order_by_coid makes it a None like any other error; in a cycle it
\* feeds the StaleEntryTracker, which may declare the entry dead.
EntryNotFound ==
  /\ At("fetch")
  /\ \/ entry[cur].st = "none"
     \/ entry[cur].st = "hidden" /\ (mode = "startup" \/ streak[cur] < EntryLag)
  /\ IF mode = "startup" THEN
       Goto("hold") /\ UNCHANGED streak
     ELSE
       /\ streak' = [streak EXCEPT ![cur] = IF @ < MinChecks THEN @ + 1 ELSE @]
       /\ IF streak'[cur] = MinChecks THEN Goto("abandon") ELSE NextBet
  /\ UNCHANGED <<store, ledger, broker, due, faults, mem, pend>>

\* The lookup fails transiently: (None, False) clears the streak.
EntryLookupFails ==
  /\ At("fetch") /\ Fault
  /\ streak' = IF mode = "startup" THEN streak ELSE [streak EXCEPT ![cur] = 0]
  /\ Goto("hold")
  /\ UNCHANGED <<store, ledger, broker, due, mem, pend>>

\* The lookup finds the order; a fill not yet in the table is captured next.
EntryFound ==
  /\ At("fetch") /\ entry[cur].st \in {"live", "dead"}
  /\ streak' = IF mode = "startup" THEN streak ELSE [streak EXCEPT ![cur] = 0]
  /\ obs' = entry[cur].filled
  /\ pc' = IF qty[cur] = 0 /\ entry[cur].filled > 0 THEN "mark" ELSE "hold"
  /\ UNCHANGED <<mode, cur, todo, retry, store, ledger, broker, due, faults, mem, pend>>

\* mark_abandoned, then forget the streak.
MarkAbandoned ==
  /\ At("abandon")
  /\ status' = [status EXCEPT ![cur] = IF @ \in OpenStatuses THEN "closed" ELSE @]
  /\ streak' = [streak EXCEPT ![cur] = 0]
  /\ NextBet
  /\ UNCHANGED <<qty, exitId, ledger, broker, due, faults, mem, pend>>

\* Mutant: the quantity asked for is stored, not the one filled.
MarkFilledWithTarget ==
  /\ (At("mark") \/ At("mark_late"))
  /\ IF status[cur] = "open"
     THEN /\ status' = [status EXCEPT ![cur] = "filled"]
          /\ qty' = [qty EXCEPT ![cur] = Qty]
     ELSE UNCHANGED <<status, qty>>
  /\ Goto(IF pc = "mark" /\ mode = "startup" THEN "hold" ELSE "book")
  /\ UNCHANGED <<exitId, ledger, broker, due, faults, mem, trackers>>

\* mark_filled: UPDATE ... WHERE status = 'open'.  The capture of
\* reconcile_on_startup is not followed by _book_fill; the other two are.
MarkFilled ==
  /\ (At("mark") \/ At("mark_late"))
  /\ IF status[cur] = "open"
     THEN /\ status' = [status EXCEPT ![cur] = "filled"]
          /\ qty' = [qty EXCEPT ![cur] = obs]
     ELSE UNCHANGED <<status, qty>>
  /\ Goto(IF pc = "mark" /\ mode = "startup" THEN "hold" ELSE "book")
  /\ UNCHANGED <<exitId, ledger, broker, due, faults, mem, trackers>>

\* _book_fill of the buy: nothing when the coid is already in memory, else
\* apply_fill in memory and append_fill to the durable ledger.
BookBuy ==
  /\ At("book")
  /\ IF mem[cur].buy > 0 THEN UNCHANGED <<mem, ledger>>
     ELSE /\ mem' = [mem EXCEPT ![cur] = [buy |-> obs, sell |-> @.sell]]
          /\ ledger' = [ledger EXCEPT ![cur] = [buy |-> obs, sell |-> @.sell]]
  /\ Goto("hold")
  /\ UNCHANGED <<store, broker, due, faults, trackers>>

\* if now >= hold_until: _close_bet; else the next bet.  _close_bet starts in
\* _ensure_entry_filled, which reads the broker only when qty is NULL.
CheckHold ==
  /\ At("hold")
  /\ \/ cur \notin due /\ NextBet
     \/ /\ cur \in due /\ qty[cur] = 0 /\ Goto("ensure")
     \/ /\ cur \in due /\ qty[cur] > 0
        /\ Goto(IF exitId[cur] = NoExit THEN "mark_closing" ELSE "lookup")
  /\ UNCHANGED <<store, ledger, broker, due, faults, mem, trackers>>

\* _ensure_entry_filled finds no fill or no order, or its look-up fails on an
\* order that has filled: CLOSE deferred.
EnsureFindsNoFill ==
  /\ At("ensure")
  /\ \/ (entry[cur].filled = 0 \/ entry[cur].st = "hidden") /\ UNCHANGED faults
     \/ Fault
  /\ NextBet
  /\ UNCHANGED <<store, ledger, broker, due, mem, trackers>>

EnsureFindsFill ==
  /\ At("ensure") /\ entry[cur].filled > 0 /\ entry[cur].st # "hidden"
  /\ obs' = entry[cur].filled /\ pc' = "mark_late"
  /\ UNCHANGED <<mode, cur, todo, retry, store, ledger, broker, due, faults, mem, trackers>>

-----------------------------------------------------------------------------
(* Closing the bet.                                                        *)

\* mark_closing: the exit coid is stored before the SELL is submitted.
MarkClosing ==
  /\ At("mark_closing")
  /\ IF status[cur] \in {"open", "filled"}
     THEN /\ status' = [status EXCEPT ![cur] = "closing"]
          /\ exitId' = [exitId EXCEPT ![cur] = 0]
     ELSE UNCHANGED <<status, exitId>>
  /\ Goto("submit")
  /\ UNCHANGED <<qty, ledger, broker, due, faults, mem, trackers>>

\* _submit_exit lands a SELL under the stored coid (a coid the broker already
\* has is swallowed).  A SELL that is refused is CallFails at "submit".
SubmitExit ==
  /\ At("submit")
  /\ IF Exit(cur).st # "none" THEN UNCHANGED exits
     ELSE \E st \in {"live"} \cup (IF ExitMayLag THEN {"hidden"} ELSE {}) :
            exits' = [exits EXCEPT ![cur][exitId[cur]] = Becomes(@, st)]
  /\ Goto(IF retry = "no" THEN "lookup" ELSE "refetch")
  /\ UNCHANGED <<store, ledger, entry, held, due, faults, mem, trackers>>

Visible(order) == order.st \in {"live", "dead"}

\* Bound: an order still at work is replaced only in the first MaxReplaced
\* generations; one that is dead or never landed (a fault each) always is.
Replaceable(b) == Exit(b).st \in {"live", "hidden"} => exitId[b] < MaxReplaced

\* record_pending would return True.
NowStale(b) == pend[b] + 1 >= PendChecks /\ Replaceable(b)

\* Mutant: an order found is taken for an order filled.
ExitFilledUnchecked ==
  /\ (At("lookup") \/ At("refetch")) /\ Visible(Exit(cur))
  /\ pend' = [pend EXCEPT ![cur] = 0]
  /\ Goto("close")
  /\ UNCHANGED <<store, ledger, broker, due, faults, mem, streak>>

\* The exit order is found filled (any fill: filled_avg_price is set), and
\* _finalize_close starts by forgetting the pending streak.
ExitFilled ==
  /\ (At("lookup") \/ At("refetch")) /\ Visible(Exit(cur)) /\ Exit(cur).filled > 0
  /\ pend' = [pend EXCEPT ![cur] = 0]
  /\ Goto("close")
  /\ UNCHANGED <<store, ledger, broker, due, faults, mem, streak>>

\* The exit order is found unfilled: one more pending observation, and once
\* stale it is cancelled and replaced.  After a stale replacement the fresh
\* order is not observed again in this pass.
ExitPending ==
  /\ (At("lookup") \/ At("refetch")) /\ Visible(Exit(cur)) /\ Exit(cur).filled = 0
  /\ \/ /\ retry # "stale"
        /\ pend' = [pend EXCEPT ![cur] = IF @ < PendChecks THEN @ + 1 ELSE @]
        /\ IF NowStale(cur)
           THEN pc' = "cancel" /\ retry' = "stale" /\ UNCHANGED <<mode, cur, todo, obs>>
           ELSE NextBet
     \/ retry = "stale" /\ NextBet /\ UNCHANGED pend
  /\ UNCHANGED <<store, ledger, broker, due, faults, mem, streak>>

\* Mutant: a missing exit is waited for, never re-submitted.
ExitNotFoundWaits ==
  /\ (At("lookup") \/ At("refetch")) /\ ~Visible(Exit(cur))
  /\ NextBet
  /\ UNCHANGED <<store, ledger, broker, due, faults, mem, trackers>>

\* _lookup_exit_order raises order-not-found: one observation is enough to
\* re-submit.  _fetch_order_by_coid after a re-submission only gives up.
ExitNotFound ==
  /\ (At("lookup") \/ At("refetch")) /\ ~Visible(Exit(cur))
  /\ \/ /\ pc = "lookup" /\ Replaceable(cur)
        /\ pc' = "bump" /\ retry' = "lost" /\ UNCHANGED <<mode, cur, todo, obs>>
     \/ pc = "refetch" /\ NextBet
  /\ UNCHANGED <<store, ledger, broker, due, faults, mem, trackers>>

\* Mutant: a failed lookup counts as a missing exit.
ExitLookupFailsAsMissing ==
  /\ At("lookup") /\ Fault /\ Replaceable(cur)
  /\ pc' = "bump" /\ retry' = "lost" /\ UNCHANGED <<mode, cur, todo, obs>>
  /\ UNCHANGED <<store, ledger, broker, due, mem, trackers>>

\* A transient lookup failure: look again in a later cycle.
ExitLookupFails ==
  /\ (At("lookup") \/ At("refetch")) /\ Fault
  /\ NextBet
  /\ UNCHANGED <<store, ledger, broker, due, mem, trackers>>

\* Mutant: the stale exit is replaced without being cancelled.
CancelExitForgotten ==
  /\ At("cancel")
  /\ pend' = [pend EXCEPT ![cur] = 0]
  /\ Goto("bump")
  /\ UNCHANGED <<store, ledger, broker, due, faults, mem, streak>>

\* _cancel_exit_at_broker: a working order is cancelled; a refused cancel is
\* swallowed.  forget drops the pending streak.
CancelExit ==
  /\ At("cancel")
  /\ \/ /\ Exit(cur).st = "live" /\ Exit(cur).filled < qty[cur]
        /\ exits' = [exits EXCEPT ![cur][exitId[cur]] = Becomes(@, "dead")]
     \/ /\ StaleMayFill \/ Exit(cur).st # "live" \/ Exit(cur).filled = qty[cur]
        /\ UNCHANGED exits
  /\ pend' = [pend EXCEPT ![cur] = 0]
  /\ Goto("bump")
  /\ UNCHANGED <<store, ledger, entry, held, due, faults, mem, streak>>

\* update_exit_coid stores the next generation's coid; then the re-submission.
BumpExit ==
  /\ At("bump") /\ exitId[cur] < MaxGen
  /\ exitId' = [exitId EXCEPT ![cur] = IF status[cur] = "closing" THEN @ + 1 ELSE @]
  /\ pend' = [pend EXCEPT ![cur] = 0]
  /\ Goto("submit")
  /\ UNCHANGED <<status, qty, ledger, broker, due, faults, mem, streak>>

\* _finalize_close: record_close ...
RecordClose ==
  /\ At("close")
  /\ status' = [status EXCEPT ![cur] = "closed"]
  /\ Goto("book_sell")
  /\ UNCHANGED <<qty, exitId, ledger, broker, due, faults, mem, trackers>>

\* ... then _book_fill of the SELL, for the bet's qty.
BookSell ==
  /\ At("book_sell")
  /\ IF mem[cur].sell > 0 THEN UNCHANGED <<mem, ledger>>
     ELSE /\ mem' = [mem EXCEPT ![cur] = [buy |-> @.buy, sell |-> qty[cur]]]
          /\ ledger' = [ledger EXCEPT ![cur] = [buy |-> @.buy, sell |-> qty[cur]]]
  /\ NextBet
  /\ UNCHANGED <<store, broker, due, faults, trackers>>

-----------------------------------------------------------------------------
(* Placing a bet.                                                          *)

\* evaluate_bet_gate refuses.  The kill switch, the clock, the cadence, the
\* last symbol and the model may always refuse; the caps must when exceeded.
GateRefuses ==
  /\ mode = "run" /\ pc = "gate"
  /\ Goto("idle")
  /\ UNCHANGED <<store, ledger, broker, due, faults, mem, trackers>>

\* The gate allows and record_open inserts the row, before any order exists.
RecordOpen ==
  /\ mode = "run" /\ pc = "gate"
  /\ Cardinality(OpenBets) < MaxConcurrent
  /\ OpenNotional + Qty <= MaxTotalNotional
  /\ \E b \in Bets :
       /\ status[b] = "absent" /\ \A a \in 1..(b-1) : status[a] # "absent"
       /\ status' = [status EXCEPT ![b] = "open"]
       /\ cur' = b
  /\ pc' = "submit_entry"
  /\ UNCHANGED <<mode, todo, obs, retry, qty, exitId, ledger, broker, due, faults, mem, trackers>>

\* executor.submit: the entry lands (perhaps not yet visible to lookups) or
\* is rejected; either way no exception reaches the loop.
SubmitEntry ==
  /\ At("submit_entry")
  /\ \/ \E st \in {"live"} \cup (IF EntryLag > 0 THEN {"hidden"} ELSE {}) :
          entry' = [entry EXCEPT ![cur] = Becomes(@, st)]
     \/ UNCHANGED entry
  /\ pc' = "idle" /\ cur' = 0 /\ UNCHANGED <<mode, todo, obs, retry>>
  /\ UNCHANGED <<store, ledger, exits, held, due, faults, mem, trackers>>

-----------------------------------------------------------------------------
(* Failures.                                                               *)

Abort ==
  /\ mode' = IF mode = "startup" THEN "down" ELSE "run"
  /\ pc' = "idle" /\ cur' = 0 /\ todo' = {} /\ obs' = 0 /\ retry' = "no"

\* A database or broker call raises an error of run()'s except clauses: the
\* cycle is abandoned, memory is kept.  The call had no effect; one that had
\* its effect before raising is this action at the following call.  During
\* reconcile_on_startup nothing catches it and the process dies.
CallFails ==
  /\ Fault
  /\ \E p \in {"abandon", "mark", "mark_late", "book", "mark_closing", "submit", "lookup",
               "bump", "refetch", "close", "book_sell", "submit_entry"} : At(p)
  /\ Abort
  /\ UNCHANGED <<store, ledger, broker, due, mem, trackers>>

\* append_fill raises after apply_fill: memory has the fill, the ledger not.
AppendFails ==
  /\ Fault
  /\ \/ At("book") /\ mem[cur].buy = 0 /\ mem' = [mem EXCEPT ![cur] = [buy |-> obs, sell |-> @.sell]]
     \/ At("book_sell") /\ mem[cur].sell = 0 /\ mem' = [mem EXCEPT ![cur] = [buy |-> @.buy, sell |-> qty[cur]]]
  /\ Abort
  /\ UNCHANGED <<store, ledger, broker, due, trackers>>

Crash ==
  /\ mode # "down" /\ Fault
  /\ mode' = "down" /\ pc' = "idle" /\ cur' = 0 /\ todo' = {} /\ obs' = 0 /\ retry' = "no"
  /\ UNCHANGED <<store, ledger, broker, due, mem, trackers>>

-----------------------------------------------------------------------------
(* The broker and the clock.                                               *)

HoldElapses(b) ==
  /\ b \in OpenBets \ due
  /\ due' = due \cup {b}
  /\ UNCHANGED <<store, ledger, broker, faults, local, mem, trackers>>

\* An order fills, at once or in parts.
Fills(order, target) ==
  {n \in (order.filled + 1)..target : PartialFills \/ n = target}

FillEntry(b) ==
  /\ entry[b].st = "live"
  /\ \E n \in Fills(entry[b], Qty) :
       /\ entry' = [entry EXCEPT ![b] = FilledTo(@, n)]
       /\ held' = [held EXCEPT ![b] = @ + n - entry[b].filled]
  /\ UNCHANGED <<store, ledger, exits, due, faults, local, mem, trackers>>

\* Unless StaleMayFill, an exit being cancelled as stale has stopped working.
FillExit(b, g) ==
  /\ exits[b][g].st = "live"
  /\ ~StaleMayFill => ~(pc = "cancel" /\ cur = b /\ g = exitId[b])
  /\ \E n \in Fills(exits[b][g], qty[b]) :
       /\ exits' = [exits EXCEPT ![b][g] = FilledTo(@, n)]
       /\ held' = [held EXCEPT ![b] = @ - (n - exits[b][g].filled)]
  /\ UNCHANGED <<store, ledger, entry, due, faults, local, mem, trackers>>

RevealEntry(b) ==
  /\ entry[b].st = "hidden"
  /\ entry' = [entry EXCEPT ![b] = Becomes(@, "live")]
  /\ UNCHANGED <<store, ledger, exits, held, due, faults, local, mem, trackers>>

RevealExit(b, g) ==
  /\ exits[b][g].st = "hidden"
  /\ exits' = [exits EXCEPT ![b][g] = Becomes(@, "live")]
  /\ UNCHANGED <<store, ledger, entry, held, due, faults, local, mem, trackers>>

\* The broker ends a working order: a DAY order expires, a risk check rejects.
EntryDies(b) ==
  /\ OrdersMayDie /\ entry[b].st = "live" /\ entry[b].filled < Qty
  /\ entry' = [entry EXCEPT ![b] = Becomes(@, "dead")]
  /\ UNCHANGED <<store, ledger, exits, held, due, faults, local, mem, trackers>>

ExitDies(b, g) ==
  /\ Fault
  /\ exits[b][g].st = "live" /\ exits[b][g].filled < qty[b]
  /\ exits' = [exits EXCEPT ![b][g] = Becomes(@, "dead")]
  /\ UNCHANGED <<store, ledger, entry, held, due, local, mem, trackers>>

-----------------------------------------------------------------------------
ManageStep ==
  \/ PickBet \/ EndPass
  \/ EntryNotFound \/ EntryFound \/ MarkAbandoned \/ MarkFilled \/ BookBuy
  \/ CheckHold \/ EnsureFindsNoFill \/ EnsureFindsFill
  \/ MarkClosing \/ SubmitExit \/ ExitFilled \/ ExitPending \/ ExitNotFound
  \/ CancelExit \/ BumpExit \/ RecordClose \/ BookSell

Strategy ==
  \/ Start \/ BeginCycle \/ ManageStep
  \/ GateRefuses \/ RecordOpen \/ SubmitEntry

Failure ==
  EntryLookupFails \/ ExitLookupFails \/ CallFails \/ AppendFails \/ Crash

Broker ==
  \E b \in Bets :
    \/ HoldElapses(b) \/ FillEntry(b) \/ RevealEntry(b) \/ EntryDies(b)
    \/ \E g \in Gens : FillExit(b, g) \/ RevealExit(b, g) \/ ExitDies(b, g)

Next == Strategy \/ Failure \/ Broker

Spec == Init /\ [][Next]_vars

\* The loop never stops on its own (while True; the container restarts), the
\* clock advances and the broker works the orders it holds.
Fairness ==
  /\ WF_vars(Strategy)
  /\ \A b \in Bets :
       /\ WF_vars(HoldElapses(b)) /\ WF_vars(FillEntry(b)) /\ WF_vars(RevealEntry(b))
       /\ \A g \in Gens : WF_vars(FillExit(b, g)) /\ WF_vars(RevealExit(b, g))

FairSpec == Spec /\ Fairness

-----------------------------------------------------------------------------
(* What the container promises.                                            *)

\* Every variable keeps its type; exit generations stay below their bound.
TypeOK ==
  /\ status \in [Bets -> OpenStatuses \cup {"absent", "closed"}]
  /\ qty \in [Bets -> 0..Qty]
  /\ exitId \in [Bets -> Gens \cup {NoExit}]
  /\ ledger \in [Bets -> [buy : 0..Qty, sell : 0..Qty]]
  /\ entry \in [Bets -> Order]
  /\ exits \in [Bets -> [Gens -> Order]]
  /\ held \in [Bets -> Int]
  /\ due \subseteq Bets
  /\ faults \in 0..MaxFaults
  /\ mode \in {"down", "startup", "run"}
  /\ pc \in PCs
  /\ cur \in Bets \cup {0}
  /\ todo \subseteq Bets
  /\ obs \in 0..Qty
  /\ retry \in {"no", "lost", "stale"}
  /\ mem \in [Bets -> [buy : 0..Qty, sell : 0..Qty]]
  /\ streak \in [Bets -> 0..MinChecks]
  /\ pend \in [Bets -> 0..PendChecks]

\* An order that has executed or still may.
Effective(order) == order.st \in {"hidden", "live"} \/ order.filled > 0

\* Across crashes, lost submits and replaced exits, a bet never has two exit
\* orders that executed or may, and the one it has never sells more than the
\* entry bought (_close_bet, _resubmit_lost_exit, _replace_stale_exit).
NeverOversold ==
  \A b \in Bets :
    /\ \A g, h \in Gens : Effective(exits[b][g]) /\ Effective(exits[b][h]) => g = h
    /\ \A g \in Gens : exits[b][g].filled <= entry[b].filled

\* A bet given up as never landed (mark_abandoned, qty still NULL) really never
\* landed, although a landed order may show not-found for EntryLag lookups and
\* a restart forgets the streak.
AbandonedNeverLanded ==
  \A b \in Bets : status[b] = "closed" /\ qty[b] = 0 => entry[b].st = "none"

\* A bet is closed in the table only when it holds nothing at the broker: its
\* entry never landed (so mark_abandoned never gives up a live order) or one
\* exit sold all that the entry bought.
ClosedMeansFlat ==
  \A b \in Bets : status[b] = "closed" =>
    \/ entry[b].st = "none"
    \/ entry[b].filled > 0 /\ \E g \in Gens : exits[b][g].filled = entry[b].filled

\* The durable ledger never shows a fill the broker did not make: _book_fill
\* after any crash, for orders found filled.
LedgerIsReal ==
  \A b \in Bets :
    /\ ledger[b].buy <= entry[b].filled
    /\ ledger[b].sell > 0 => \E g \in Gens : exits[b][g].filled >= ledger[b].sell

\* Units a bet may yet have at the broker: held, or still to be bought.
AtRisk(b) ==
  held[b] + (IF entry[b].st \in {"hidden", "live"} THEN Qty - entry[b].filled ELSE 0)

\* The caps bound what the account really holds or has on order, however the
\* table lags behind the broker (evaluate_bet_gate, open_notional).
ExposureCapped ==
  /\ Cardinality({b \in Bets : AtRisk(b) > 0}) <= MaxConcurrent
  /\ MapThenSumSet(AtRisk, Bets) <= MaxTotalNotional

\* The container keeps the promise of RoundTrip to the account: a bet has bought
\* once its entry filled, and is settled once the table closes it.
RT == INSTANCE RoundTrip WITH
        Trades <- Bets,
        Lots <- {Qty},
        bought <- {b \in Bets : entry[b].filled > 0},
        settled <- {b \in Bets : status[b] = "closed"}
KeepsRoundTrip == RT!RTSpec

\* The durable ledger only follows the table: it books the captured quantity of
\* an entry or nothing, and a sale only of a closed bet, of that same quantity.
LedgerFollowsTable ==
  \A b \in Bets :
    /\ ledger[b].buy \in {0, qty[b]}
    /\ ledger[b].sell > 0 => status[b] = "closed" /\ ledger[b].sell = qty[b]

\* Every recorded bet is eventually closed: abandoned, or sold after its hold.
BetsResolve == \A b \in Bets : status[b] # "absent" ~> status[b] = "closed"

\* Once the process is idle, every fill captured in the table is in the durable
\* ledger: a bought quantity, and the sale of a closed bet.
CapturedIsBooked ==
  pc = "idle" /\ mode = "run" =>
    \A b \in Bets :
      /\ qty[b] > 0 => ledger[b].buy = qty[b]
      /\ qty[b] > 0 /\ status[b] = "closed" => ledger[b].sell = qty[b]

-----------------------------------------------------------------------------
(* Why it holds: the inductive invariant.  The first three parts hold in    *)
(* every environment; the others under the assumption each one states.      *)

\* The status column says which of qty and exit_order_id are NULL.
RowsConsistent ==
  \A b \in Bets :
    /\ status[b] \in {"absent", "open"} => qty[b] = 0 /\ exitId[b] = NoExit
    /\ status[b] = "filled" => qty[b] > 0 /\ exitId[b] = NoExit
    /\ status[b] = "closing" => qty[b] > 0 /\ exitId[b] # NoExit
    /\ status[b] = "closed" => (qty[b] = 0 <=> exitId[b] = NoExit)

\* Where the process is says what the row it works on looks like; the rows it
\* has yet to visit are open.
ControlConsistent ==
  /\ mode # "down" => todo \subseteq OpenBets /\ cur \notin todo
  /\ pc \in {"idle", "pick", "gate"} => cur = 0
  /\ cur \in Bets =>
       /\ pc \in {"fetch", "hold"} => status[cur] \in OpenStatuses
       /\ pc = "fetch" /\ mode = "run" => qty[cur] = 0
       /\ pc \in {"abandon", "mark", "mark_late", "ensure", "submit_entry"} =>
            status[cur] = "open"
       /\ pc \in {"book", "mark_closing"} => status[cur] = "filled"
       /\ pc = "book" => obs = qty[cur]
       /\ pc \in {"submit", "lookup", "refetch", "cancel", "bump", "close"} =>
            status[cur] = "closing"
       /\ pc = "book_sell" => status[cur] = "closed" /\ qty[cur] > 0

\* No more is recorded than the broker filled.
FillsRecorded ==
  /\ \A b \in Bets :
       /\ qty[b] <= entry[b].filled
       /\ entry[b].st = "none" => entry[b].filled = 0
  /\ cur \in Bets /\ pc \in {"mark", "mark_late"} =>
       0 < obs /\ obs <= entry[cur].filled

\* An entry about to be given up never landed, when EntryLag < MinChecks.
GivenUpIsDead ==
  cur \in Bets /\ pc = "abandon" => entry[cur].st = "none"

\* Exit orders before the stored coid are dead, those after it do not exist,
\* and the one about to be replaced has not executed and cannot, when
\* ~ExitMayLag and ~StaleMayFill.
ExitsInOrder ==
  /\ \A b \in Bets, g \in Gens :
       /\ exits[b][g].st # "hidden"
       /\ exits[b][g].st = "none" => exits[b][g].filled = 0
       /\ exits[b][g].filled <= qty[b]
       /\ g > exitId[b] => exits[b][g].st = "none"
       /\ g < exitId[b] => ~Effective(exits[b][g])
  /\ cur \in Bets /\ pc = "bump" => ~Effective(Exit(cur))
  /\ cur \in Bets /\ pc = "cancel" => Exit(cur).filled = 0

\* An order has filled not at all or for all it asked, and no exit after the
\* stored coid exists, when ~PartialFills.
FillsWhole ==
  /\ \A b \in Bets :
       /\ entry[b].filled \in {0, Qty} /\ qty[b] \in {0, Qty}
       /\ \A g \in Gens :
            /\ exits[b][g].filled \in {0, qty[b]}
            /\ g > exitId[b] => exits[b][g] = NoOrder
  /\ obs \in {0, Qty}

\* A bet about to be closed, and one closed with a fill, sold it under the
\* stored coid, when ~PartialFills.
SoldBeforeClosed ==
  /\ cur \in Bets /\ pc = "close" => Exit(cur).filled = qty[cur]
  /\ \A b \in Bets : status[b] = "closed" /\ qty[b] > 0 => Exit(b).filled = qty[b]

\* The account holds what the entry bought less what the stored exit sold, when
\* ~ExitMayLag and ~StaleMayFill.
HeldIsNet ==
  \A b \in Bets :
    held[b] = entry[b].filled - (IF exitId[b] = NoExit THEN 0 ELSE Exit(b).filled)
=============================================================================
