----------------------------- MODULE OvernightBeta -----------------------------
(***************************************************************************)
(* The overnight-beta container: near the close it enters a basket of legs  *)
(* by market-on-close orders, at the next open it flattens each leg by a    *)
(* market-on-open order, and it logs the slippage of both auctions.         *)
(*                                                                          *)
(* strategies/overnight_beta/{strategy,position_store}.py,                  *)
(* strategies/lib/stale_entry.py, and submit of                             *)
(* quantlib/strategy_core/paper_alpaca_executor.py.  One step per call of   *)
(* the database or the broker; any of them may fail, and the process may    *)
(* die between two.  A leg goes by its basket and name, its orders by leg:  *)
(* a client id holds the time of its decision.                              *)
(***************************************************************************)
EXTENDS Integers, FiniteSets

CONSTANTS
  Legs,       \* <<n, name>>: the names the panel may pick for the n-th basket
  MaxLegs,    \* legs max_gross_notional_usd has room for
  Lot,        \* an entry's most shares
  MinChecks,  \* not-founds that make an entry dead
  EntryLag,   \* not-founds a landed entry may show
  MaxFaults   \* bound on failed calls and crashes

ASSUME OvernightBetaConstants ==
  /\ {MaxLegs, MinChecks, EntryLag, MaxFaults} \subseteq Nat
  /\ \A l \in Legs : l[1] \in Nat \ {0}
  /\ Lot \in Nat \ {0} /\ MinChecks > 1

VARIABLES
  \* the positions table
  status,  \* "absent", "entered" or "flattened"
  qty,     \* enter_qty, 0 with enter_fill_price NULL
  exitId,  \* which of the leg's exits exit_order_id names, NoExit for NULL
  \* the other tables
  closeRows, openRows,  \* rows of each leg's two auctions in slippage_log
  ledger,               \* client ids in the fills table
  \* the broker
  entry, exits,
  \* the process
  pc, cur, todo,
  isOpen,   \* the clock manage_and_flatten read
  basket,   \* the last basket decided
  streak,   \* of the StaleEntryTracker
  mem,      \* client ids in _state.fills
  faults    \* failures still to come

table == <<status, qty, exitId>>
logged == <<closeRows, openRows>>
orders == <<entry, exits>>
memory == <<basket, streak, mem>>
vars == <<table, logged, ledger, orders, pc, cur, todo, isOpen, memory, faults>>

Basket(l) == l[1]
NoExit == 0
Exits == 1..2  \* the second is never used
An(st, n) == [st |-> st, filled |-> n]
NoOrder == An("none", 0)
NoLeg == <<0, "none">>

Entered == {l \in Legs : status[l] = "entered"}
Fault == faults > 0 /\ faults' = faults - 1

Init ==
  /\ status = [l \in Legs |-> "absent"] /\ qty = [l \in Legs |-> 0]
  /\ exitId = [l \in Legs |-> NoExit]
  /\ closeRows = [l \in Legs |-> 0] /\ openRows = [l \in Legs |-> 0] /\ ledger = {}
  /\ entry = [l \in Legs |-> NoOrder] /\ exits = [l \in Legs |-> [e \in Exits |-> NoOrder]]
  /\ pc = "down" /\ cur = NoLeg /\ todo = {} /\ isOpen = FALSE
  /\ basket = 0 /\ streak = [l \in Legs |-> 0] /\ mem = {}
  /\ faults = MaxFaults

-----------------------------------------------------------------------------
(* The broker's auctions. *)

Only(order) == UNCHANGED <<table, logged, ledger, order, pc, cur, todo, isOpen, memory, faults>>

Reveal(l) ==
  /\ entry[l].st = "hidden" /\ entry' = [entry EXCEPT ![l] = An("live", 0)]
  /\ Only(exits)

(* An auction prints once: an order is filled, perhaps in part, or expires. *)
Auctioned(n) == An(IF n > 0 THEN "done" ELSE "dead", n)

CloseAuction(l) ==
  /\ entry[l].st \in {"hidden", "live"}
  /\ \E n \in 0..Lot : entry' = [entry EXCEPT ![l] = Auctioned(n)]
  /\ Only(exits)

OpenAuction(l, e) ==
  /\ exits[l][e].st = "live"
  /\ \E n \in 0..qty[l] : exits' = [exits EXCEPT ![l][e] = Auctioned(n)]
  /\ Only(entry)

-----------------------------------------------------------------------------
(* The loop. *)

Goto(step, l) == pc' = step /\ cur' = l
NextLeg == Goto("manage", NoLeg)
Mem == UNCHANGED memory
Store == UNCHANGED <<table, logged, ledger>>

Start ==
  /\ pc = "down" /\ Goto("idle", NoLeg)
  /\ mem' = ledger
  /\ Store /\ UNCHANGED <<orders, todo, isOpen, basket, streak, faults>>

BeginCycle(open) ==
  /\ pc = "idle" /\ NextLeg
  /\ isOpen' = open /\ todo' = Entered
  /\ Mem /\ Store /\ UNCHANGED <<orders, faults>>

Look(l) == pc = "manage" /\ l \in todo /\ todo' = todo \ {l}
Looked == Store /\ UNCHANGED <<orders, isOpen, basket, mem>>

\* Mutant: the streak begins again at every not-found.
EntryNotFoundAnew(l) ==
  /\ Look(l) /\ entry[l].st \in {"none", "hidden"}
  /\ entry[l].st = "hidden" => streak[l] < EntryLag
  /\ IF qty[l] > 0
       THEN NextLeg /\ UNCHANGED streak
       ELSE /\ streak' = [streak EXCEPT ![l] = 1]
            /\ IF streak'[l] >= MinChecks THEN Goto("abandon", l) ELSE NextLeg
  /\ Looked /\ UNCHANGED faults

(* Only a genuine not-found counts, and only of an entry without a fill. *)
EntryNotFound(l) ==
  /\ Look(l) /\ entry[l].st \in {"none", "hidden"}
  /\ entry[l].st = "hidden" => streak[l] < EntryLag
  /\ IF qty[l] > 0
       THEN NextLeg /\ UNCHANGED streak
       ELSE /\ streak' = [streak EXCEPT ![l] = @ + 1]
            /\ IF streak'[l] >= MinChecks THEN Goto("abandon", l) ELSE NextLeg
  /\ Looked /\ UNCHANGED faults

LookupFails(l) ==
  /\ Look(l) /\ NextLeg /\ Fault
  /\ Looked /\ UNCHANGED streak

\* Mutant: the exit's look-up, or its absence, is not waited for.
EntryFoundUnasked(l) ==
  /\ Look(l) /\ entry[l].st \in {"live", "done", "dead"}
  /\ streak' = [streak EXCEPT ![l] = 0]
  /\ CASE entry[l].filled > 0 /\ qty[l] = 0 -> Goto("fill", l)
       [] qty[l] > 0 /\ isOpen -> Goto("exit", l)
       [] qty[l] > 0 /\ exitId[l] # NoExit -> Goto("capture", l)
       [] OTHER -> NextLeg
  /\ Looked /\ UNCHANGED faults

(* The row is as the cycle listed it: a leg is flattened a cycle after its  *)
(* fill is captured. *)
EntryFound(l) ==
  /\ Look(l) /\ entry[l].st \in {"live", "done", "dead"}
  /\ streak' = [streak EXCEPT ![l] = 0]
  /\ CASE entry[l].filled > 0 /\ qty[l] = 0 -> Goto("fill", l)
       [] qty[l] > 0 /\ isOpen /\ exitId[l] = NoExit -> Goto("exit", l)
       [] exitId[l] # NoExit -> Goto("capture", l)
       [] OTHER -> NextLeg
  /\ Looked /\ UNCHANGED faults

(* One write for the leg at hand, and the next step of it. *)
At(step) == pc = step /\ UNCHANGED <<orders, todo, isOpen, faults>>
Flatten == status' = [status EXCEPT ![cur] = "flattened"]

MarkAbandoned ==
  /\ At("abandon") /\ NextLeg
  /\ Flatten /\ streak' = [streak EXCEPT ![cur] = 0]
  /\ UNCHANGED <<qty, exitId, logged, ledger, basket, mem>>

MarkEnteredFill ==
  /\ At("fill") /\ Goto("logClose", cur)
  /\ qty' = [qty EXCEPT ![cur] = entry[cur].filled]
  /\ Mem /\ UNCHANGED <<status, exitId, logged, ledger>>

LogClose ==
  /\ At("logClose") /\ Goto("bookEntry", cur)
  /\ closeRows' = [closeRows EXCEPT ![cur] = @ + 1]
  /\ Mem /\ UNCHANGED <<table, openRows, ledger>>

(* A client id is booked once: in memory, then in the ledger. *)
BookFill(side) ==
  /\ mem' = mem \cup {<<cur, side>>}
  /\ IF <<cur, side>> \in mem THEN UNCHANGED ledger ELSE ledger' = ledger \cup {<<cur, side>>}
  /\ UNCHANGED <<table, logged, basket, streak>>

BookEntry == At("bookEntry") /\ NextLeg /\ BookFill("enter")

\* The exit's client id: the first the broker does not know.
NewExit == IF exits[cur][1].st = "none" THEN 1 ELSE 2

MarkExitSubmitted ==
  /\ At("exit") /\ Goto("flatten", cur)
  /\ exitId' = [exitId EXCEPT ![cur] = NewExit]
  /\ Mem /\ UNCHANGED <<status, qty, logged, ledger>>

(* The broker takes the order, or refuses it, which is only logged. *)
SubmitExit ==
  /\ pc = "flatten" /\ NextLeg
  /\ \/ exits' = [exits EXCEPT ![cur][exitId[cur]] = An("live", 0)]
     \/ UNCHANGED exits
  /\ Mem /\ Store /\ UNCHANGED <<entry, todo, isOpen, faults>>

\* Mutant: the row is closed before its slippage is logged.
FetchExitRecorded ==
  /\ At("capture")
  /\ IF exits[cur][exitId[cur]].filled > 0
       THEN Goto("logOpen", cur) /\ Flatten
       ELSE NextLeg /\ UNCHANGED status
  /\ Mem /\ UNCHANGED <<qty, exitId, logged, ledger>>

\* Mutant: an exit that is found is taken for filled.
FetchExitUnfilled ==
  /\ At("capture") /\ Goto("logOpen", cur)
  /\ Mem /\ Store

(* Any fill of the exit will do: how much it sold is not looked at.         *)
FetchExit ==
  /\ At("capture")
  /\ IF exits[cur][exitId[cur]].filled > 0 THEN Goto("logOpen", cur) ELSE NextLeg
  /\ Mem /\ Store

FetchFails ==
  /\ pc = "capture" /\ NextLeg /\ Fault
  /\ Mem /\ Store /\ UNCHANGED <<orders, todo, isOpen>>

LogOpen ==
  /\ At("logOpen") /\ Goto("record", cur)
  /\ openRows' = [openRows EXCEPT ![cur] = @ + 1]
  /\ Mem /\ UNCHANGED <<table, closeRows, ledger>>

RecordFlatten ==
  /\ At("record") /\ Goto("bookExit", cur)
  /\ Flatten
  /\ Mem /\ UNCHANGED <<qty, exitId, logged, ledger>>

BookExit == At("bookExit") /\ NextLeg /\ BookFill("exit")

-----------------------------------------------------------------------------
(* maybe_enter_overnight, once the legs are managed.  A restart forgets     *)
(* _last_rebalance: any day may be a rebalance day.                         *)

AfterManage == pc = "manage" /\ todo = {}

\* Mutant: the legs still entered are not counted.
DecideUncounted(S) ==
  /\ AfterManage
  /\ S # {} /\ Cardinality(S) <= MaxLegs /\ \A l \in S : Basket(l) = basket + 1
  /\ basket' = basket + 1 /\ todo' = S /\ Goto("enter", NoLeg)
  /\ isOpen' = FALSE /\ Store /\ UNCHANGED <<orders, streak, mem, faults>>

Decide(S) ==
  /\ AfterManage /\ Entered = {}
  /\ S # {} /\ Cardinality(S) <= MaxLegs /\ \A l \in S : Basket(l) = basket + 1
  /\ basket' = basket + 1 /\ todo' = S /\ Goto("enter", NoLeg)
  /\ isOpen' = FALSE /\ Store /\ UNCHANGED <<orders, streak, mem, faults>>

(* The kill switch, the clock or the panel says no, or nothing is left. *)
Refrain ==
  /\ AfterManage /\ Goto("idle", NoLeg)
  /\ isOpen' = FALSE /\ Mem /\ Store /\ UNCHANGED <<orders, todo, faults>>

RecordEnter(l) ==
  /\ pc = "enter" /\ l \in todo /\ todo' = todo \ {l}
  /\ Goto("submit", l)
  /\ status' = [status EXCEPT ![l] = "entered"]
  /\ Mem /\ UNCHANGED <<qty, exitId, logged, ledger, orders, isOpen, faults>>

SubmitCloseAuction ==
  /\ pc = "submit" /\ Goto("enter", NoLeg)
  /\ \/ entry' = [entry EXCEPT ![cur] = An("hidden", 0)]
     \/ UNCHANGED entry
  /\ Mem /\ Store /\ UNCHANGED <<exits, todo, isOpen, faults>>

Rebalanced ==
  /\ pc = "enter" /\ todo = {} /\ Goto("idle", NoLeg)
  /\ Mem /\ Store /\ UNCHANGED <<orders, todo, isOpen, faults>>

-----------------------------------------------------------------------------
(* A database error ends the cycle; run sleeps and begins the next.  The    *)
(* executor keeps the broker's errors to itself.                            *)
CycleFails ==
  /\ pc \notin {"down", "idle", "flatten", "submit"} /\ Fault
  /\ Goto("idle", NoLeg) /\ todo' = {}
  /\ mem' \in IF pc \in {"bookEntry", "bookExit"}
               THEN {mem, mem \cup {<<cur, IF pc = "bookEntry" THEN "enter" ELSE "exit">>}} ELSE {mem}
  /\ isOpen' = FALSE /\ Store /\ UNCHANGED <<orders, basket, streak>>

Crash ==
  /\ pc # "down" /\ Fault
  /\ Goto("down", NoLeg) /\ todo' = {} /\ isOpen' = FALSE
  /\ streak' = [l \in Legs |-> 0] /\ mem' = {}
  /\ Store /\ UNCHANGED <<orders, basket>>

-----------------------------------------------------------------------------
Manage ==
  \/ MarkAbandoned \/ MarkEnteredFill \/ LogClose \/ BookEntry \/ MarkExitSubmitted \/ SubmitExit
  \/ FetchExit \/ LogOpen \/ RecordFlatten \/ BookExit
  \/ \E l \in Legs : EntryNotFound(l) \/ EntryFound(l)

Enter ==
  \/ Refrain \/ SubmitCloseAuction \/ Rebalanced
  \/ \E S \in SUBSET Legs : Decide(S)
  \/ \E l \in Legs : RecordEnter(l)

Strategy == Start \/ Manage \/ Enter \/ \E open \in BOOLEAN : BeginCycle(open)

Auction(l) == CloseAuction(l) \/ \E e \in Exits : OpenAuction(l, e)

Next ==
  \/ Strategy \/ FetchFails \/ CycleFails \/ Crash
  \/ \E l \in Legs : LookupFails(l) \/ Reveal(l) \/ Auction(l)

Spec == Init /\ [][Next]_vars

(* The loop goes on and the container is restarted, the market opens again  *)
(* and again, and auctions are held.                                        *)
FairSpec ==
  /\ Spec
  /\ WF_vars(Strategy) /\ SF_vars(BeginCycle(TRUE))
  /\ \A l \in Legs : WF_vars(Auction(l))

-----------------------------------------------------------------------------
(* Properties. *)

Orders == [st : {"none", "hidden", "live", "done", "dead"}, filled : 0..Lot]

(* Every variable keeps its domain; a step of a leg has a leg at hand. *)
TypeOK ==
  /\ status \in [Legs -> {"absent", "entered", "flattened"}]
  /\ qty \in [Legs -> 0..Lot] /\ exitId \in [Legs -> {NoExit} \cup Exits]
  /\ closeRows \in [Legs -> Nat] /\ openRows \in [Legs -> Nat]
  /\ ledger \subseteq Legs \X {"enter", "exit"} /\ mem \subseteq Legs \X {"enter", "exit"}
  /\ entry \in [Legs -> Orders] /\ exits \in [Legs -> [Exits -> Orders]]
  /\ IF pc \in {"down", "idle", "manage", "enter"}
       THEN cur = NoLeg
       ELSE /\ cur \in Legs
            /\ pc \in {"abandon", "fill", "logClose", "bookEntry", "exit", "flatten", "capture",
                       "logOpen", "record", "bookExit", "submit"}
  /\ pc \in {"flatten", "capture"} => exitId[cur] # NoExit
  /\ todo \subseteq Legs /\ isOpen \in BOOLEAN /\ basket \in Nat
  /\ streak \in [Legs -> Nat] /\ faults \in 0..MaxFaults

Sold(l) == exits[l][1].filled + exits[l][2].filled
Working(order) == order.st \in {"hidden", "live"}

Net(l) == entry[l].filled - Sold(l)

(* A flatten the opening auction filled in part is the leg's last, and its  *)
(* row is closed on it: the rest stays in the account, and is nobody's.     *)
PartlySold(l) == \E e \in Exits : exits[l][e].st = "done" /\ exits[l][e].filled < qty[l]
Held(l) == IF PartlySold(l) THEN 0 ELSE Net(l)

(* A leg the table calls flattened, or abandoned, is flat at the broker for *)
(* good, what a flatten filled in part leaves behind aside: bought and sold *)
(* alike, and nothing of it still on order.                                 *)
FlattenedIsFlat ==
  \A l \in Legs : status[l] = "flattened" =>
    /\ Held(l) = 0
    /\ ~Working(entry[l]) /\ \A e \in Exits : ~Working(exits[l][e])

(* What the account holds, or has on order, is of one basket, what is left  *)
(* behind aside: the caps, which count one, bound it all.                   *)
AtRisk(l) == Working(entry[l]) \/ Held(l) # 0
OneBasket == \A l, m \in Legs : AtRisk(l) /\ AtRisk(m) => Basket(l) = Basket(m)

(* The measurement has the open auction of every leg that was flattened,    *)
(* and no row of an auction that did not fill, nor two of a close.          *)
FlattenedIsMeasured ==
  \A l \in Legs :
    /\ status[l] = "flattened" /\ entry[l].filled > 0 => openRows[l] > 0
    /\ closeRows[l] <= 1 /\ (closeRows[l] = 1 => qty[l] > 0)
    /\ openRows[l] > 0 => Sold(l) > 0

(* The container keeps the promise of RoundTrip to the account: a leg buys  *)
(* once, however little the auction gives it, sells once, and is closed in  *)
(* the table for good when it has sold, or never bought.                    *)
Bought == {l \in Legs : entry[l].filled > 0}
Closed == {l \in Legs : status[l] = "flattened"}
RT == INSTANCE RoundTrip WITH
        Trades <- Legs, Lots <- 1..Lot,
        held <- [l \in Legs |-> Held(l)],
        bought <- Bought, settled <- Closed
KeepsRoundTrip == RT!RTSpec

(* A leg is closed in the table in the end, unless the broker let its entry *)
(* or its flatten die, or never had the flatten: nothing submits another.   *)
Stuck(l) ==
  \/ entry[l].st = "dead"
  \/ exitId[l] # NoExit /\ exits[l][exitId[l]].st \in {"none", "dead"}
LegsResolve == \A l \in Legs : status[l] = "entered" ~> status[l] = "flattened" \/ Stuck(l)
================================================================================
