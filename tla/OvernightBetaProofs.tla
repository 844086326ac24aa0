--------------------------- MODULE OvernightBetaProofs ---------------------------
(* Theorems about OvernightBeta, for every set of legs, every cap and any      *)
(* number of failed calls and crashes, at a broker that shows an order it has  *)
(* taken before the entry's not-founds make it dead.                           *)
EXTENDS OvernightBeta, TLAPS

(* Why a leg the table closes is flat: an entry is abandoned only if it never  *)
(* landed, a flatten is for the whole fill, there is one, and it sells all of  *)
(* it or leaves the rest behind.                                               *)
LegInv(l) ==
  /\ entry[l].filled > 0 <=> entry[l].st = "done"
  /\ entry[l].st # "none" => status[l] # "absent"
  /\ qty[l] > 0 => entry[l].st = "done" /\ entry[l].filled = qty[l]
  /\ exitId[l] # 2 /\ exits[l][2].st = "none" /\ exits[l][2].filled = 0
  /\ exitId[l] # NoExit => qty[l] > 0
  /\ exitId[l] = NoExit => exits[l][1].st = "none"
  /\ exits[l][1].filled > 0 <=> exits[l][1].st = "done"
  /\ exits[l][1].filled <= qty[l]
  /\ exits[l][1].st # "hidden"
  /\ status[l] = "flattened" =>
       \/ entry[l].st = "none"
       \/ exits[l][1].st = "done" /\ openRows[l] > 0
  /\ closeRows[l] <= 1 /\ (closeRows[l] = 1 => qty[l] > 0)
  /\ openRows[l] > 0 => exits[l][1].st = "done"

(* What the step at hand may rely on.                                          *)
StepInv ==
  /\ pc \notin {"enter", "submit"} => \A l \in todo : status[l] # "absent"
  /\ pc = "abandon" => entry[cur].st = "none" /\ status[cur] # "absent"
  /\ pc = "fill" => entry[cur].st = "done" /\ qty[cur] = 0
  /\ pc = "logClose" => qty[cur] > 0 /\ closeRows[cur] = 0
  /\ pc = "exit" => qty[cur] > 0 /\ exitId[cur] = NoExit
  /\ pc = "flatten" => exits[cur][1].st = "none"
  /\ pc \in {"logOpen", "record"} => exits[cur][1].st = "done"
  /\ pc = "record" => openRows[cur] > 0
  /\ pc = "submit" => status[cur] = "entered" /\ entry[cur].st = "none"

(* The legs still open are of the basket decided last.                         *)
BasketInv ==
  /\ \A l \in Legs : basket < Basket(l) => status[l] = "absent"
  /\ \A l \in Legs : status[l] = "entered" => Basket(l) = basket
  /\ pc \in {"enter", "submit"} =>
       \A l \in todo : status[l] = "absent" /\ Basket(l) = basket

Inv ==
  /\ TypeOK
  /\ \A l \in Legs : LegInv(l)
  /\ StepInv
  /\ BasketInv

LEMMA ConstantFacts ==
  /\ MaxLegs \in Nat /\ MinChecks \in Nat /\ EntryLag \in Nat /\ MaxFaults \in Nat
  /\ Lot \in Nat /\ Lot > 0 /\ MinChecks > 1
  /\ \A l \in Legs : Basket(l) \in Nat /\ Basket(l) > 0
BY OvernightBetaConstants DEF OvernightBetaConstants, Basket

-----------------------------------------------------------------------------
(* Type correctness.                                                           *)
LEMMA Order ==
  ASSUME NEW st \in {"none", "hidden", "live", "done", "dead"}, NEW n \in 0..Lot
  PROVE  /\ An(st, n) \in Orders /\ An(st, n).st = st /\ An(st, n).filled = n
BY DEF An, Orders

LEMMA TypeInit == Init => TypeOK
<1> SUFFICES ASSUME Init PROVE TypeOK
  OBVIOUS
<1> USE ConstantFacts
<1>1. NoOrder \in Orders
  BY Order DEF NoOrder
<1>2. entry \in [Legs -> Orders] /\ exits \in [Legs -> [Exits -> Orders]]
  BY <1>1 DEF Init
<1>3. /\ status \in [Legs -> {"absent", "entered", "flattened"}]
      /\ qty \in [Legs -> 0..Lot] /\ exitId \in [Legs -> {NoExit} \cup Exits]
      /\ closeRows \in [Legs -> Nat] /\ openRows \in [Legs -> Nat] /\ streak \in [Legs -> Nat]
  BY DEF Init
<1>4. /\ ledger = {} /\ mem = {} /\ pc = "down" /\ cur = NoLeg /\ todo = {} /\ isOpen = FALSE
      /\ basket = 0 /\ faults = MaxFaults
  BY DEF Init
<1>5. MaxFaults \in 0..MaxFaults
  OBVIOUS
<1> QED
  BY ONLY <1>2, <1>3, <1>4, <1>5 DEF TypeOK

LEMMA TypeStep ==
  ASSUME TypeOK, [Next]_vars
  PROVE  TypeOK'
<1> USE ConstantFacts DEF vars, table, logged, orders, memory, Goto, NextLeg, Mem, Store
<1>1. CASE Start
  BY <1>1 DEF TypeOK, Orders, Exits, NoExit, Start
<1>2. ASSUME NEW open \in BOOLEAN, BeginCycle(open) PROVE TypeOK'
  BY <1>2 DEF TypeOK, Orders, Exits, NoExit, BeginCycle, Entered
<1>3. ASSUME NEW l \in Legs, EntryNotFound(l) PROVE TypeOK'
  <2>1. streak[l] + 1 \in Nat /\ [streak EXCEPT ![l] = streak[l] + 1] \in [Legs -> Nat]
    BY DEF TypeOK
  <2>2. streak' \in [Legs -> Nat]
    BY <1>3, <2>1 DEF EntryNotFound, TypeOK
  <2>3. /\ UNCHANGED <<table, logged, ledger, orders, isOpen, basket, mem, faults>>
        /\ todo' \subseteq Legs
    BY <1>3 DEF EntryNotFound, Look, Looked, Store, TypeOK
  <2>4. \/ pc' = "manage" /\ cur' = NoLeg
        \/ pc' = "abandon" /\ cur' = l
    <3>1. CASE qty[l] > 0
      BY <1>3, <3>1 DEF EntryNotFound, NextLeg, Goto
    <3>2. CASE ~(qty[l] > 0)
      BY <1>3, <3>2 DEF EntryNotFound, NextLeg, Goto
    <3> QED
      BY <3>1, <3>2
  <2> QED
    BY <2>2, <2>3, <2>4 DEF TypeOK, table, logged, orders
<1>4. ASSUME NEW l \in Legs, LookupFails(l) PROVE TypeOK'
  BY <1>4 DEF TypeOK, Orders, Exits, NoExit, LookupFails, Look, Looked, Fault
<1>5. ASSUME NEW l \in Legs, EntryFound(l) PROVE TypeOK'
  BY <1>5 DEF TypeOK, Orders, Exits, NoExit, EntryFound, Look, Looked
<1>6. CASE MarkAbandoned
  BY <1>6 DEF TypeOK, Orders, Exits, NoExit, MarkAbandoned, At, Flatten
<1>7. CASE MarkEnteredFill
  BY <1>7 DEF TypeOK, Orders, Exits, NoExit, MarkEnteredFill, At
<1>8. CASE LogClose
  BY <1>8 DEF TypeOK, Orders, Exits, NoExit, LogClose, At
<1>9. CASE BookEntry
  BY <1>9 DEF TypeOK, Orders, Exits, NoExit, BookEntry, At, BookFill
<1>10. CASE MarkExitSubmitted
  BY <1>10 DEF TypeOK, Orders, Exits, NoExit, MarkExitSubmitted, At, NewExit
<1>11. CASE SubmitExit
  <2>1. cur \in Legs /\ exitId[cur] \in Exits
    BY <1>11 DEF SubmitExit, TypeOK
  <2>2. exits' \in [Legs -> [Exits -> Orders]]
    <3>1. [exits EXCEPT ![cur][exitId[cur]] = An("live", 0)] \in [Legs -> [Exits -> Orders]]
      <4>1. exits[cur] \in [Exits -> Orders] /\ An("live", 0) \in Orders
        BY <2>1, Order DEF TypeOK
      <4>2. [exits[cur] EXCEPT ![exitId[cur]] = An("live", 0)] \in [Exits -> Orders]
        BY <4>1
      <4> QED
        BY <4>2 DEF TypeOK
    <3> QED
      BY <1>11, <3>1 DEF SubmitExit, TypeOK
  <2>3. /\ UNCHANGED <<table, logged, ledger, memory, entry, todo, isOpen, faults>>
        /\ pc' = "manage" /\ cur' = NoLeg
    BY <1>11 DEF SubmitExit, NextLeg, Goto, Mem, Store
  <2> QED
    BY <2>2, <2>3 DEF TypeOK, table, logged, memory
<1>12. CASE FetchExit
  BY <1>12 DEF TypeOK, Orders, Exits, NoExit, FetchExit, At
<1>13. CASE FetchFails
  BY <1>13 DEF TypeOK, Orders, Exits, NoExit, FetchFails, Fault
<1>14. CASE LogOpen
  BY <1>14 DEF TypeOK, Orders, Exits, NoExit, LogOpen, At
<1>15. CASE RecordFlatten
  BY <1>15 DEF TypeOK, Orders, Exits, NoExit, RecordFlatten, At, Flatten
<1>16. CASE BookExit
  BY <1>16 DEF TypeOK, Orders, Exits, NoExit, BookExit, At, BookFill
<1>17. ASSUME NEW S \in SUBSET Legs, Decide(S) PROVE TypeOK'
  <2>1. basket' \in Nat /\ todo' \subseteq Legs
    BY <1>17 DEF Decide, TypeOK
  <2>2. /\ UNCHANGED <<table, logged, ledger, orders, streak, mem, faults>>
        /\ pc' = "enter" /\ cur' = NoLeg /\ isOpen' = FALSE
    BY <1>17 DEF Decide
  <2> QED
    BY <2>1, <2>2 DEF TypeOK
<1>18. CASE Refrain
  BY <1>18 DEF TypeOK, Orders, Exits, NoExit, Refrain, AfterManage
<1>19. ASSUME NEW l \in Legs, RecordEnter(l) PROVE TypeOK'
  BY <1>19 DEF TypeOK, Orders, Exits, NoExit, RecordEnter
<1>20. CASE SubmitCloseAuction
  <2>1. entry' \in [Legs -> Orders]
    <3>1. cur \in Legs /\ entry \in [Legs -> Orders] /\ An("hidden", 0) \in Orders
      BY <1>20, Order DEF SubmitCloseAuction, TypeOK
    <3> QED
      BY <1>20, <3>1 DEF SubmitCloseAuction
  <2>2. /\ UNCHANGED <<table, logged, ledger, memory, exits, todo, isOpen, faults>>
        /\ pc' = "enter" /\ cur' = NoLeg
    BY <1>20 DEF SubmitCloseAuction, Goto, Mem, Store
  <2> QED
    BY <2>1, <2>2 DEF TypeOK, table, logged, memory
<1>21. CASE Rebalanced
  BY <1>21 DEF TypeOK, Orders, Exits, NoExit, Rebalanced
<1>22. CASE CycleFails
  <2>1. mem' \subseteq Legs \X {"enter", "exit"}
    <3>1. pc \in {"bookEntry", "bookExit"} => cur \in Legs
      BY DEF TypeOK
    <3> QED
      BY <1>22, <3>1 DEF CycleFails, TypeOK
  <2>2. /\ UNCHANGED <<table, logged, ledger, orders, basket, streak>>
        /\ pc' = "idle" /\ cur' = NoLeg /\ todo' = {} /\ isOpen' = FALSE
        /\ faults' \in 0..MaxFaults
    BY <1>22 DEF CycleFails, Goto, Store, Fault, TypeOK
  <2> QED
    BY <2>1, <2>2 DEF TypeOK, table, logged, orders
<1>23. CASE Crash
  <2>1. /\ UNCHANGED <<table, logged, ledger, orders, basket>>
        /\ pc' = "down" /\ cur' = NoLeg /\ todo' = {} /\ isOpen' = FALSE /\ mem' = {}
        /\ faults' \in 0..MaxFaults /\ streak' \in [Legs -> Nat]
    BY <1>23 DEF Crash, Goto, Store, Fault, TypeOK
  <2> QED
    BY <2>1 DEF TypeOK, table, logged, orders
<1>24. ASSUME NEW l \in Legs, Reveal(l) PROVE TypeOK'
  BY <1>24 DEF TypeOK, Orders, Exits, NoExit, Reveal, Only, An
<1>25. ASSUME NEW l \in Legs, CloseAuction(l) PROVE TypeOK'
  BY <1>25 DEF TypeOK, Orders, Exits, NoExit, CloseAuction, Only, An, Auctioned
<1>26. ASSUME NEW l \in Legs, NEW e \in Exits, OpenAuction(l, e) PROVE TypeOK'
  BY <1>26 DEF TypeOK, Orders, Exits, NoExit, OpenAuction, Only, An, Auctioned
<1>27. CASE UNCHANGED vars
  BY <1>27 DEF TypeOK, Orders, Exits, NoExit
<1> QED
  BY <1>1, <1>2, <1>3, <1>4, <1>5, <1>6, <1>7, <1>8, <1>9, <1>10, <1>11, <1>12, <1>13, <1>14,
    <1>15, <1>16, <1>17, <1>18, <1>19, <1>20, <1>21, <1>22, <1>23, <1>24, <1>25, <1>26, <1>27 DEF
    Next, Strategy, Manage, Enter, Auction

-----------------------------------------------------------------------------
(* Every step keeps every leg in order.                                        *)
legs == <<status, qty, exitId, closeRows, openRows, entry, exits>>

LEMMA LegsMove ==
  ASSUME [Next]_vars
  PROVE  \/ UNCHANGED legs
         \/ MarkAbandoned \/ MarkEnteredFill \/ LogClose \/ MarkExitSubmitted \/ SubmitExit
         \/ LogOpen \/ RecordFlatten \/ SubmitCloseAuction
         \/ \E l \in Legs : RecordEnter(l) \/ Reveal(l) \/ CloseAuction(l)
         \/ \E l \in Legs, e \in Exits : OpenAuction(l, e)
<1> USE DEF legs, table, logged, orders, Store
<1>1. ASSUME Start \/ Refrain \/ Rebalanced \/ CycleFails \/ Crash \/ UNCHANGED vars
      PROVE  UNCHANGED legs
  BY <1>1 DEF Start, Refrain, Rebalanced, CycleFails, Crash, vars
<1>2. ASSUME FetchExit \/ FetchFails \/ BookEntry \/ BookExit PROVE UNCHANGED legs
  BY <1>2 DEF FetchExit, FetchFails, BookEntry, BookExit, BookFill, At
<1>3. ASSUME NEW l \in Legs, EntryNotFound(l) \/ LookupFails(l) \/ EntryFound(l)
      PROVE  UNCHANGED legs
  BY <1>3 DEF EntryNotFound, LookupFails, EntryFound, Looked
<1>4. ASSUME (\E open \in BOOLEAN : BeginCycle(open)) \/ \E S \in SUBSET Legs : Decide(S)
      PROVE  UNCHANGED legs
  BY <1>4 DEF BeginCycle, Decide
<1> QED
  BY <1>1, <1>2, <1>3, <1>4 DEF Next, Strategy, Manage, Enter, Auction

LEMMA LegStep ==
  ASSUME EntryLag < MinChecks, Inv, NEW k \in Legs, [Next]_vars
  PROVE  LegInv(k)'
<1> USE ConstantFacts DEF vars, table, logged, orders, memory, Goto, NextLeg, Mem, Store
<1>1. CASE UNCHANGED legs
  BY <1>1 DEF Inv, LegInv, legs
<1>2. CASE MarkAbandoned
  BY <1>2 DEF Inv, TypeOK, LegInv, StepInv, Exits, Orders, NoExit, MarkAbandoned, At, Flatten
<1>3. CASE MarkEnteredFill
  BY <1>3 DEF Inv, TypeOK, LegInv, StepInv, Exits, Orders, NoExit, MarkEnteredFill, At
<1>4. CASE LogClose
  BY <1>4 DEF Inv, TypeOK, LegInv, StepInv, Exits, Orders, NoExit, LogClose, At
<1>5. CASE MarkExitSubmitted
  BY <1>5 DEF Inv, TypeOK, LegInv, StepInv, Exits, Orders, NoExit, MarkExitSubmitted, At, NewExit
<1>6. CASE SubmitExit
  <2>1. cur \in Legs /\ exitId[cur] = 1 /\ exits[cur][1].st = "none"
    BY <1>6 DEF SubmitExit, Inv, TypeOK, StepInv, LegInv, NoExit, Exits
  <2>2. UNCHANGED <<status, qty, exitId, closeRows, openRows, entry>>
    BY <1>6 DEF SubmitExit, Store, table, logged
  <2>3. CASE UNCHANGED exits
    BY <2>2, <2>3 DEF Inv, LegInv
  <2>4. CASE exits' = [exits EXCEPT ![cur][1] = An("live", 0)]
    <3>1. /\ exits'[k][2] = exits[k][2] /\ (k # cur => exits'[k][1] = exits[k][1])
          /\ k = cur => exits'[k][1] = An("live", 0)
      BY <2>1, <2>4 DEF Inv, TypeOK, Exits
    <3>2. k = cur => exits'[k][1].st = "live" /\ exits'[k][1].filled = 0
      BY <3>1, Order
    <3>3. LegInv(k) /\ qty[k] \in Nat
      BY DEF Inv, TypeOK
    <3>4. CASE k # cur
      BY <2>2, <3>1, <3>3, <3>4 DEF LegInv
    <3>5. CASE k = cur
      <4>1. exitId[k] = 1 /\ exits[k][1].st = "none"
        BY <2>1, <3>5
      <4> QED
        BY <2>2, <3>1, <3>2, <3>3, <3>5, <4>1 DEF LegInv, NoExit
    <3> QED
      BY <3>4, <3>5
  <2> QED
    BY <1>6, <2>1, <2>3, <2>4 DEF SubmitExit
<1>7. CASE LogOpen
  BY <1>7 DEF Inv, TypeOK, LegInv, StepInv, Exits, Orders, NoExit, LogOpen, At
<1>8. CASE RecordFlatten
  BY <1>8 DEF Inv, TypeOK, LegInv, StepInv, Exits, Orders, NoExit, RecordFlatten, At, Flatten
<1>9. ASSUME NEW l \in Legs, RecordEnter(l) PROVE LegInv(k)'
  BY <1>9 DEF Inv, TypeOK, LegInv, StepInv, Exits, Orders, NoExit, RecordEnter
<1>10. CASE SubmitCloseAuction
  <2>1. cur \in Legs /\ status[cur] = "entered" /\ entry[cur].st = "none"
    BY <1>10 DEF SubmitCloseAuction, Inv, TypeOK, StepInv
  <2>2. UNCHANGED <<status, qty, exitId, closeRows, openRows, exits>>
    BY <1>10 DEF SubmitCloseAuction, Store, table, logged
  <2>3. CASE UNCHANGED entry
    BY <2>2, <2>3 DEF Inv, LegInv
  <2>4. CASE entry' = [entry EXCEPT ![cur] = An("hidden", 0)]
    <3>1. /\ k # cur => entry'[k] = entry[k]
          /\ k = cur => entry'[k].st = "hidden" /\ entry'[k].filled = 0
      BY <2>1, <2>4, Order DEF Inv, TypeOK
    <3>2. LegInv(k) /\ qty[k] \in Nat
      BY DEF Inv, TypeOK
    <3>3. CASE k # cur
      BY <2>2, <3>1, <3>2, <3>3 DEF LegInv
    <3>4. CASE k = cur
      <4>1. status[k] = "entered" /\ entry[k].st = "none"
        BY <2>1, <3>4
      <4> QED
        BY <2>2, <3>1, <3>2, <3>4, <4>1 DEF LegInv
    <3> QED
      BY <3>3, <3>4
  <2> QED
    BY <1>10, <2>3, <2>4 DEF SubmitCloseAuction
<1>11. ASSUME NEW l \in Legs, Reveal(l) PROVE LegInv(k)'
  BY <1>11 DEF Inv, TypeOK, LegInv, StepInv, Exits, Orders, NoExit, Reveal, Only, An
<1>12. ASSUME NEW l \in Legs, CloseAuction(l) PROVE LegInv(k)'
  BY <1>12 DEF Inv, TypeOK, LegInv, StepInv, Exits, Orders, NoExit, CloseAuction, Only, An,
    Auctioned
<1>13. ASSUME NEW l \in Legs, NEW e \in Exits, OpenAuction(l, e) PROVE LegInv(k)'
  BY <1>13 DEF Inv, TypeOK, LegInv, StepInv, Exits, Orders, NoExit, OpenAuction, Only, An, Auctioned
<1> QED
  BY <1>1, <1>2, <1>3, <1>4, <1>5, <1>6, <1>7, <1>8, <1>9, <1>10, <1>11, <1>12, <1>13, LegsMove

LEMMA StepStep ==
  ASSUME EntryLag < MinChecks, Inv, [Next]_vars
  PROVE  StepInv'
<1> USE ConstantFacts DEF vars, table, logged, orders, memory, Goto, NextLeg, Mem, Store
<1>1. CASE Start
  BY <1>1 DEF Inv, TypeOK, LegInv, StepInv, Exits, Orders, NoExit, Start
<1>2. ASSUME NEW open \in BOOLEAN, BeginCycle(open) PROVE StepInv'
  BY <1>2 DEF Inv, TypeOK, LegInv, StepInv, Exits, Orders, NoExit, BeginCycle, Entered
<1>3. ASSUME NEW l \in Legs, EntryNotFound(l) PROVE StepInv'
  BY <1>3 DEF Inv, TypeOK, LegInv, StepInv, Exits, Orders, NoExit, EntryNotFound, Look, Looked
<1>4. ASSUME NEW l \in Legs, LookupFails(l) PROVE StepInv'
  BY <1>4 DEF Inv, TypeOK, LegInv, StepInv, Exits, Orders, NoExit, LookupFails, Look, Looked, Fault
<1>5. ASSUME NEW l \in Legs, EntryFound(l) PROVE StepInv'
  BY <1>5 DEF Inv, TypeOK, LegInv, StepInv, Exits, Orders, NoExit, EntryFound, Look, Looked
<1>6. CASE MarkAbandoned
  BY <1>6 DEF Inv, TypeOK, LegInv, StepInv, Exits, Orders, NoExit, MarkAbandoned, At, Flatten
<1>7. CASE MarkEnteredFill
  <2>1. /\ cur \in Legs /\ entry[cur].st = "done" /\ entry[cur].filled \in Nat /\ qty[cur] = 0
        /\ qty \in [Legs -> 0..Lot]
    BY <1>7 DEF MarkEnteredFill, At, Inv, TypeOK, StepInv, Orders
  <2>2. entry[cur].filled > 0 /\ closeRows[cur] \in Nat /\ closeRows[cur] <= 1 /\ closeRows[cur] # 1
    BY <2>1 DEF Inv, TypeOK, LegInv
  <2>3. closeRows[cur] = 0
    BY <2>2
  <2>4. /\ pc' = "logClose" /\ cur' = cur /\ pc = "fill"
        /\ qty' = [qty EXCEPT ![cur] = entry[cur].filled]
        /\ UNCHANGED <<status, exitId, closeRows, todo>>
    BY <1>7 DEF MarkEnteredFill, At, Goto, logged
  <2>5. qty'[cur'] > 0 /\ closeRows'[cur'] = 0
    BY <2>1, <2>2, <2>3, <2>4
  <2>6. \A l \in todo' : status'[l] # "absent"
    BY <2>4 DEF Inv, StepInv
  <2> QED
    BY <2>4, <2>5, <2>6 DEF StepInv
<1>8. CASE LogClose
  BY <1>8 DEF Inv, TypeOK, LegInv, StepInv, Exits, Orders, NoExit, LogClose, At
<1>9. CASE BookEntry
  BY <1>9 DEF Inv, TypeOK, LegInv, StepInv, Exits, Orders, NoExit, BookEntry, At, BookFill
<1>10. CASE MarkExitSubmitted
  BY <1>10 DEF Inv, TypeOK, LegInv, StepInv, Exits, Orders, NoExit, MarkExitSubmitted, At, NewExit
<1>11. CASE SubmitExit
  BY <1>11 DEF Inv, TypeOK, LegInv, StepInv, Exits, Orders, NoExit, SubmitExit, An
<1>12. CASE FetchExit
  BY <1>12 DEF Inv, TypeOK, LegInv, StepInv, Exits, Orders, NoExit, FetchExit, At
<1>13. CASE FetchFails
  BY <1>13 DEF Inv, TypeOK, LegInv, StepInv, Exits, Orders, NoExit, FetchFails, Fault
<1>14. CASE LogOpen
  BY <1>14 DEF Inv, TypeOK, LegInv, StepInv, Exits, Orders, NoExit, LogOpen, At
<1>15. CASE RecordFlatten
  BY <1>15 DEF Inv, TypeOK, LegInv, StepInv, Exits, Orders, NoExit, RecordFlatten, At, Flatten
<1>16. CASE BookExit
  BY <1>16 DEF Inv, TypeOK, LegInv, StepInv, Exits, Orders, NoExit, BookExit, At, BookFill
<1>17. ASSUME NEW S \in SUBSET Legs, Decide(S) PROVE StepInv'
  BY <1>17 DEF Inv, TypeOK, LegInv, StepInv, Exits, Orders, NoExit, Decide, AfterManage
<1>18. CASE Refrain
  BY <1>18 DEF Inv, TypeOK, LegInv, StepInv, Exits, Orders, NoExit, Refrain, AfterManage
<1>19. ASSUME NEW l \in Legs, RecordEnter(l) PROVE StepInv'
  BY <1>19 DEF Inv, TypeOK, LegInv, StepInv, Exits, Orders, NoExit, RecordEnter, BasketInv
<1>20. CASE SubmitCloseAuction
  BY <1>20 DEF Inv, TypeOK, LegInv, StepInv, Exits, Orders, NoExit, SubmitCloseAuction, An
<1>21. CASE Rebalanced
  BY <1>21 DEF Inv, TypeOK, LegInv, StepInv, Exits, Orders, NoExit, Rebalanced
<1>22. CASE CycleFails
  BY <1>22 DEF Inv, TypeOK, LegInv, StepInv, Exits, Orders, NoExit, CycleFails, Fault
<1>23. CASE Crash
  BY <1>23 DEF Inv, TypeOK, LegInv, StepInv, Exits, Orders, NoExit, Crash, Fault
<1>24. ASSUME NEW l \in Legs, Reveal(l) PROVE StepInv'
  BY <1>24 DEF Inv, TypeOK, LegInv, StepInv, Exits, Orders, NoExit, Reveal, Only, An
<1>25. ASSUME NEW l \in Legs, CloseAuction(l) PROVE StepInv'
  BY <1>25 DEF Inv, TypeOK, LegInv, StepInv, Exits, Orders, NoExit, CloseAuction, Only, An,
    Auctioned
<1>26. ASSUME NEW l \in Legs, NEW e \in Exits, OpenAuction(l, e) PROVE StepInv'
  BY <1>26 DEF Inv, TypeOK, LegInv, StepInv, Exits, Orders, NoExit, OpenAuction, Only, An, Auctioned
<1>27. CASE UNCHANGED vars
  BY <1>27 DEF Inv, TypeOK, LegInv, StepInv, Exits, Orders, NoExit
<1> QED
  BY <1>1, <1>2, <1>3, <1>4, <1>5, <1>6, <1>7, <1>8, <1>9, <1>10, <1>11, <1>12, <1>13, <1>14,
    <1>15, <1>16, <1>17, <1>18, <1>19, <1>20, <1>21, <1>22, <1>23, <1>24, <1>25, <1>26, <1>27 DEF
    Next, Strategy, Manage, Enter, Auction

LEMMA BasketStep ==
  ASSUME Inv, [Next]_vars
  PROVE  BasketInv'
<1> USE ConstantFacts DEF vars, table, logged, orders, memory, Goto, NextLeg, Mem, Store
<1>1. CASE Start
  BY <1>1 DEF Inv, TypeOK, BasketInv, Entered, StepInv, Start
<1>2. ASSUME NEW open \in BOOLEAN, BeginCycle(open) PROVE BasketInv'
  BY <1>2 DEF Inv, TypeOK, BasketInv, Entered, StepInv, BeginCycle
<1>3. ASSUME NEW l \in Legs, EntryNotFound(l) PROVE BasketInv'
  BY <1>3 DEF Inv, TypeOK, BasketInv, Entered, StepInv, EntryNotFound, Look, Looked
<1>4. ASSUME NEW l \in Legs, LookupFails(l) PROVE BasketInv'
  BY <1>4 DEF Inv, TypeOK, BasketInv, Entered, StepInv, LookupFails, Look, Looked, Fault
<1>5. ASSUME NEW l \in Legs, EntryFound(l) PROVE BasketInv'
  BY <1>5 DEF Inv, TypeOK, BasketInv, Entered, StepInv, EntryFound, Look, Looked
<1>6. CASE MarkAbandoned
  BY <1>6 DEF Inv, TypeOK, BasketInv, Entered, StepInv, MarkAbandoned, At, Flatten
<1>7. CASE MarkEnteredFill
  BY <1>7 DEF Inv, TypeOK, BasketInv, Entered, StepInv, MarkEnteredFill, At
<1>8. CASE LogClose
  BY <1>8 DEF Inv, TypeOK, BasketInv, Entered, StepInv, LogClose, At
<1>9. CASE BookEntry
  BY <1>9 DEF Inv, TypeOK, BasketInv, Entered, StepInv, BookEntry, At, BookFill
<1>10. CASE MarkExitSubmitted
  BY <1>10 DEF Inv, TypeOK, BasketInv, Entered, StepInv, MarkExitSubmitted, At, NewExit
<1>11. CASE SubmitExit
  BY <1>11 DEF Inv, TypeOK, BasketInv, Entered, StepInv, SubmitExit, An
<1>12. CASE FetchExit
  BY <1>12 DEF Inv, TypeOK, BasketInv, Entered, StepInv, FetchExit, At
<1>13. CASE FetchFails
  BY <1>13 DEF Inv, TypeOK, BasketInv, Entered, StepInv, FetchFails, Fault
<1>14. CASE LogOpen
  BY <1>14 DEF Inv, TypeOK, BasketInv, Entered, StepInv, LogOpen, At
<1>15. CASE RecordFlatten
  <2>1. cur \in Legs /\ exits[cur][1].st = "done" /\ qty[cur] \in Nat
    BY <1>15 DEF RecordFlatten, At, Inv, TypeOK, StepInv
  <2>2. status[cur] # "absent"
    BY <2>1 DEF Inv, LegInv
  <2>3. /\ status' = [status EXCEPT ![cur] = "flattened"] /\ UNCHANGED basket /\ pc' = "bookExit"
    BY <1>15 DEF RecordFlatten, Flatten, Goto, Mem, memory
  <2> QED
    BY <2>1, <2>2, <2>3 DEF Inv, TypeOK, BasketInv
<1>16. CASE BookExit
  BY <1>16 DEF Inv, TypeOK, BasketInv, Entered, StepInv, BookExit, At, BookFill
<1>17. ASSUME NEW S \in SUBSET Legs, Decide(S) PROVE BasketInv'
  BY <1>17 DEF Inv, TypeOK, BasketInv, Entered, StepInv, Decide, AfterManage
<1>18. CASE Refrain
  BY <1>18 DEF Inv, TypeOK, BasketInv, Entered, StepInv, Refrain, AfterManage
<1>19. ASSUME NEW l \in Legs, RecordEnter(l) PROVE BasketInv'
  BY <1>19 DEF Inv, TypeOK, BasketInv, Entered, StepInv, RecordEnter
<1>20. CASE SubmitCloseAuction
  BY <1>20 DEF Inv, TypeOK, BasketInv, Entered, StepInv, SubmitCloseAuction, An
<1>21. CASE Rebalanced
  BY <1>21 DEF Inv, TypeOK, BasketInv, Entered, StepInv, Rebalanced
<1>22. CASE CycleFails
  BY <1>22 DEF Inv, TypeOK, BasketInv, Entered, StepInv, CycleFails, Fault
<1>23. CASE Crash
  BY <1>23 DEF Inv, TypeOK, BasketInv, Entered, StepInv, Crash, Fault
<1>24. ASSUME NEW l \in Legs, Reveal(l) PROVE BasketInv'
  BY <1>24 DEF Inv, TypeOK, BasketInv, Entered, StepInv, Reveal, Only, An
<1>25. ASSUME NEW l \in Legs, CloseAuction(l) PROVE BasketInv'
  BY <1>25 DEF Inv, TypeOK, BasketInv, Entered, StepInv, CloseAuction, Only, An, Auctioned
<1>26. ASSUME NEW l \in Legs, NEW e \in Exits, OpenAuction(l, e) PROVE BasketInv'
  BY <1>26 DEF Inv, TypeOK, BasketInv, Entered, StepInv, OpenAuction, Only, An, Auctioned
<1>27. CASE UNCHANGED vars
  BY <1>27 DEF Inv, TypeOK, BasketInv, Entered, StepInv
<1> QED
  BY <1>1, <1>2, <1>3, <1>4, <1>5, <1>6, <1>7, <1>8, <1>9, <1>10, <1>11, <1>12, <1>13, <1>14,
    <1>15, <1>16, <1>17, <1>18, <1>19, <1>20, <1>21, <1>22, <1>23, <1>24, <1>25, <1>26, <1>27 DEF
    Next, Strategy, Manage, Enter, Auction

-----------------------------------------------------------------------------
(* The theorems.                                                               *)
LEMMA InvInit == Init => Inv
<1> SUFFICES ASSUME Init PROVE Inv
  OBVIOUS
<1>1. TypeOK
  BY TypeInit
<1>2. ASSUME NEW l \in Legs PROVE LegInv(l)
  <2>1. NoOrder.st = "none" /\ NoOrder.filled = 0
    BY DEF NoOrder, An
  <2> QED
    BY <1>2, <2>1 DEF Init, LegInv, Exits, NoExit
<1>3. StepInv /\ BasketInv
  BY ConstantFacts DEF Init, StepInv, BasketInv
<1> QED
  BY <1>1, <1>2, <1>3 DEF Inv

LEMMA Invariant ==
  ASSUME EntryLag < MinChecks
  PROVE  Spec => []Inv
<1>1. Inv /\ [Next]_vars => Inv'
  <2> SUFFICES ASSUME Inv, [Next]_vars PROVE Inv'
    OBVIOUS
  <2>1. TypeOK'
    BY TypeStep DEF Inv
  <2>2. \A l \in Legs : LegInv(l)'
    BY LegStep
  <2>3. StepInv' /\ BasketInv'
    BY StepStep, BasketStep
  <2> QED
    BY <2>1, <2>2, <2>3 DEF Inv
<1> QED
  BY <1>1, InvInit, PTL DEF Spec

(* Every variable keeps its domain, whatever the broker hides.                 *)
THEOREM TypeCorrect == Spec => []TypeOK
<1>1. TypeOK /\ [Next]_vars => TypeOK'
  BY TypeStep
<1> QED
  BY <1>1, TypeInit, PTL DEF Spec

(* Sold(l) is what the leg's one exit sold.                                    *)
LEMMA SoldOnce ==
  ASSUME Inv, NEW l \in Legs
  PROVE  /\ Sold(l) = exits[l][1].filled
         /\ exits[l][1].filled \in Nat /\ entry[l].filled \in Nat /\ qty[l] \in Nat
BY DEF Inv, TypeOK, LegInv, Sold, Orders, Exits

LEMMA LegIsFlat ==
  ASSUME Inv, NEW l \in Legs, entry[l].st = "none" \/ exits[l][1].st = "done"
  PROVE  /\ Held(l) = 0
         /\ ~Working(entry[l]) /\ \A e \in Exits : ~Working(exits[l][e])
<1>1. LegInv(l)
  BY DEF Inv
<1>2. CASE entry[l].st = "none"
  <2>1. ~(entry[l].filled > 0) /\ ~(qty[l] > 0)
    BY <1>1, <1>2 DEF LegInv
  <2>2. exits[l][1].st = "none" /\ exits[l][2].st = "none"
    BY <1>1, <2>1 DEF LegInv
  <2>3. ~(exits[l][1].filled > 0)
    BY <1>1, <2>2 DEF LegInv
  <2> QED
    BY <1>2, <2>1, <2>2, <2>3, SoldOnce DEF Working, Exits, Held, Net
<1>3. CASE exits[l][1].st = "done"
  <2>1. exits[l][1].filled <= qty[l] /\ qty[l] > 0 /\ exits[l][2].st = "none"
    BY <1>1, <1>3, SoldOnce DEF LegInv
  <2>2. entry[l].st = "done" /\ entry[l].filled = qty[l]
    BY <1>1, <2>1 DEF LegInv
  <2>3. Held(l) = 0
    <3>1. CASE exits[l][1].filled = qty[l]
      BY <2>2, <3>1, SoldOnce DEF Held, Net
    <3>2. CASE exits[l][1].filled < qty[l]
      BY <1>3, <3>2 DEF Held, PartlySold, Exits
    <3> QED
      BY <2>1, <3>1, <3>2, SoldOnce
  <2> QED
    BY <1>3, <2>1, <2>2, <2>3 DEF Working, Exits
<1> QED
  BY <1>2, <1>3

LEMMA FlatLeg ==
  ASSUME Inv, NEW l \in Legs, status[l] # "entered"
  PROVE  /\ Held(l) = 0
         /\ ~Working(entry[l]) /\ \A e \in Exits : ~Working(exits[l][e])
<1>1. status[l] \in {"absent", "flattened"} /\ LegInv(l)
  BY DEF Inv, TypeOK
<1>2. entry[l].st = "none" \/ exits[l][1].st = "done"
  BY <1>1 DEF LegInv
<1> QED
  BY <1>2, LegIsFlat

(* What the table closes is flat for good, or was left behind by a flatten the *)
(* auction filled in part: an entry is abandoned only if it never landed, and  *)
(* a flatten is submitted once, for all that was filled.                       *)
THEOREM ClosedLegsAreFlat ==
  ASSUME EntryLag < MinChecks
  PROVE  Spec => []FlattenedIsFlat
<1>1. Inv => FlattenedIsFlat
  BY FlatLeg DEF FlattenedIsFlat
<1> QED
  BY <1>1, Invariant, PTL

(* The legs at risk are of one basket, whenever the process died or a basket   *)
(* was left half entered: the gate counts the table's legs.                    *)
THEOREM OneBasketAtRisk ==
  ASSUME EntryLag < MinChecks
  PROVE  Spec => []OneBasket
<1>1. ASSUME Inv, NEW l \in Legs, AtRisk(l) PROVE Basket(l) = basket
  <2>1. status[l] = "entered"
    BY <1>1, FlatLeg DEF AtRisk
  <2> QED
    BY <1>1, <2>1 DEF Inv, BasketInv
<1>2. Inv => OneBasket
  BY <1>1 DEF OneBasket
<1> QED
  BY <1>2, Invariant, PTL

(* No leg is flattened whose open auction is not in slippage_log, and nothing  *)
(* is there that did not fill, nor a close twice.                              *)
THEOREM FlattensAreMeasured ==
  ASSUME EntryLag < MinChecks
  PROVE  Spec => []FlattenedIsMeasured
<1>1. ASSUME Inv, NEW l \in Legs
      PROVE  /\ status[l] = "flattened" /\ entry[l].filled > 0 => openRows[l] > 0
             /\ closeRows[l] <= 1 /\ (closeRows[l] = 1 => qty[l] > 0)
             /\ openRows[l] > 0 => Sold(l) > 0
  <2>1. LegInv(l) /\ Sold(l) = exits[l][1].filled
    BY <1>1, SoldOnce DEF Inv
  <2> QED
    BY <2>1 DEF LegInv
<1>2. Inv => FlattenedIsMeasured
  BY <1>1 DEF FlattenedIsMeasured
<1> QED
  BY <1>2, Invariant, PTL
-----------------------------------------------------------------------------
(* The refinement of RoundTrip: an entry's auction buys, the flatten's sells,  *)
(* and closing the row settles; all else stutters.                             *)

\* What RoundTrip sees of a leg is the same.
SameToAll(k) ==
  /\ entry'[k].filled = entry[k].filled
  /\ \A e \in Exits : exits'[k][e].filled = exits[k][e].filled
  /\ PartlySold(k)' <=> PartlySold(k)
  /\ status'[k] = "flattened" <=> status[k] = "flattened"

LEMMA SeenTheSame ==
  ASSUME \A k \in Legs : SameToAll(k)
  PROVE  UNCHANGED RT!tvars
<1>1. \A k \in Legs : Held(k)' = Held(k)
  BY DEF SameToAll, Held, Net, Sold, Exits
<1>2. Bought' = Bought /\ Closed' = Closed
  BY DEF SameToAll, Bought, Closed
<1> QED
  BY <1>1, <1>2 DEF RT!tvars

\* The closing auction fills an entry nothing of which is bought or sold yet.
LEMMA CloseAuctionBuys ==
  ASSUME Inv, NEW l \in Legs, CloseAuction(l)
  PROVE  RT!Buy(l) \/ UNCHANGED RT!tvars
<1>1. /\ entry[l].st \in {"hidden", "live"} /\ entry \in [Legs -> Orders]
      /\ UNCHANGED <<status, exits>> /\ \A k \in Legs : PartlySold(k)' <=> PartlySold(k)
  BY DEF CloseAuction, Only, table, Inv, TypeOK, PartlySold
<1>2. PICK n \in 0..Lot : entry' = [entry EXCEPT ![l] = Auctioned(n)]
  BY DEF CloseAuction
<1>3. status[l] = "entered"
  BY <1>1, FlatLeg DEF Working
<1>4. entry[l].filled = 0 /\ Sold(l) = 0 /\ ~PartlySold(l)
  <2>1. LegInv(l) /\ entry[l].filled \in Nat /\ qty[l] \in Nat /\ exits[l][1].filled \in Nat
    BY SoldOnce DEF Inv
  <2>2. ~(entry[l].filled > 0) /\ ~(qty[l] > 0)
    BY <1>1, <2>1 DEF LegInv
  <2>3. exits[l][1].st = "none"
    BY <2>1, <2>2 DEF LegInv
  <2>4. ~(exits[l][1].filled > 0)
    BY <2>1, <2>3 DEF LegInv
  <2>5. ~PartlySold(l)
    BY <2>1, <2>3 DEF PartlySold, LegInv, Exits
  <2> QED
    BY <2>1, <2>2, <2>4, <2>5, SoldOnce
<1>5. entry'[l].filled = n /\ \A k \in Legs : k # l => entry'[k] = entry[k]
  BY <1>1, <1>2 DEF Auctioned, An
<1>6. CASE n = 0
  BY <1>1, <1>4, <1>5, <1>6, SeenTheSame DEF SameToAll
<1>7. CASE n # 0
  <2>1. \A k \in Legs : Held(k)' = IF k = l THEN n ELSE Held(k)
    BY <1>1, <1>4, <1>5 DEF Held, Net, Sold
  <2>2. l \notin Bought \cup Closed /\ Closed' = Closed /\ Bought' = Bought \cup {l}
    BY <1>1, <1>3, <1>4, <1>5, <1>7 DEF Bought, Closed
  <2>3. n \in 1..Lot
    BY <1>2, <1>7, OvernightBetaConstants
  <2>4. [k \in Legs |-> Held(k)]' = [k \in Legs |-> IF k = l THEN n ELSE Held(k)]
    BY <2>1
  <2>5. [k \in Legs |-> Held(k)]' = [[k \in Legs |-> Held(k)] EXCEPT ![l] = n]
    BY <2>4, Zenon
  <2> QED
    BY <2>2, <2>3, <2>5 DEF RT!Buy
<1> QED
  BY <1>6, <1>7

\* The opening auction fills the one exit, and what it does not sell is left.
LEMMA OpenAuctionSells ==
  ASSUME Inv, NEW l \in Legs, NEW e \in Exits, OpenAuction(l, e)
  PROVE  RT!Sell(l) \/ UNCHANGED RT!tvars
<1>1. /\ exits[l][e].st = "live" /\ exits \in [Legs -> [Exits -> Orders]]
      /\ UNCHANGED <<status, entry>> /\ LegInv(l)
      /\ qty[l] \in 0..Lot
  BY DEF OpenAuction, Only, table, Inv, TypeOK
<1>2. PICK n \in 0..qty[l] : exits' = [exits EXCEPT ![l][e] = Auctioned(n)]
  BY DEF OpenAuction
<1>3. e = 1 /\ qty[l] > 0 /\ entry[l].filled = qty[l] /\ ~(exits[l][1].filled > 0)
  BY <1>1 DEF LegInv, Exits
<1>4. exits[l][1].filled = 0 /\ exits[l][2].filled = 0
  BY <1>1, <1>3, SoldOnce DEF LegInv
<1>5. /\ exits'[l][1] = Auctioned(n) /\ exits'[l][2] = exits[l][2]
      /\ \A k \in Legs : k # l => exits'[k] = exits[k]
      /\ UNCHANGED qty
  BY <1>1, <1>2, <1>3 DEF Exits, OpenAuction, Only, table
<1>6. /\ exits'[l][1].filled = n /\ exits'[l][1].st = IF n > 0 THEN "done" ELSE "dead"
      /\ exits'[l][2].filled = 0 /\ exits'[l][2].st = "none"
  BY <1>1, <1>4, <1>5 DEF Auctioned, An, LegInv
<1>7. ~PartlySold(l) /\ \A k \in Legs : k # l => (PartlySold(k)' <=> PartlySold(k))
  BY <1>1, <1>3, <1>5 DEF PartlySold, LegInv, Exits
<1>8. CASE n = 0
  <2>1. ~PartlySold(l)'
    BY <1>6, <1>8 DEF PartlySold, Exits
  <2> QED
    BY <1>1, <1>4, <1>5, <1>6, <1>7, <1>8, <2>1, SeenTheSame DEF SameToAll, Exits
<1>9. CASE n > 0
  <2>0. Held(l)' = 0
    <3>1. CASE n = qty[l]
      BY <1>1, <1>3, <1>6, <3>1 DEF Held, Net, Sold
    <3>2. CASE n < qty[l]
      BY <1>5, <1>6, <1>9, <3>2 DEF Held, PartlySold, Exits
    <3> QED
      BY <1>1, <1>2, <3>1, <3>2
  <2>1. Held(l) = qty[l] /\ Held(l)' = 0 /\ \A k \in Legs : k # l => Held(k)' = Held(k)
    BY <1>1, <1>3, <1>4, <1>5, <1>7, <2>0 DEF Held, Net, Sold
  <2>2. [k \in Legs |-> Held(k)]' = [[k \in Legs |-> Held(k)] EXCEPT ![l] = 0]
    BY <2>1
  <2>3. Bought' = Bought /\ Closed' = Closed
    BY <1>1 DEF Bought, Closed
  <2> QED
    BY <1>1, <1>3, <2>1, <2>2, <2>3 DEF RT!Sell
<1> QED
  BY <1>1, <1>2, <1>8, <1>9

\* mark_abandoned and record_flatten close a row whose leg is flat.
LEMMA FlattenSettles ==
  ASSUME Inv, MarkAbandoned \/ RecordFlatten
  PROVE  RT!Settle(cur) \/ UNCHANGED RT!tvars
<1>1. /\ cur \in Legs /\ status' = [status EXCEPT ![cur] = "flattened"] /\ UNCHANGED <<entry, exits, qty>>
      /\ status \in [Legs -> {"absent", "entered", "flattened"}]
      /\ entry[cur].st = "none" \/ exits[cur][1].st = "done"
  BY DEF MarkAbandoned, RecordFlatten, At, Flatten, orders, Inv, TypeOK, StepInv
<1>2. Held(cur) = 0
  BY <1>1, LegIsFlat
<1>3. CASE status[cur] = "flattened"
  BY <1>1, <1>3, SeenTheSame DEF SameToAll, PartlySold
<1>4. CASE status[cur] # "flattened"
  <2>1. cur \notin Closed /\ Closed' = Closed \cup {cur} /\ Bought' = Bought
    BY <1>1, <1>4 DEF Closed, Bought
  <2>2. [k \in Legs |-> Held(k)]' = [k \in Legs |-> Held(k)]
    BY <1>1 DEF Held, PartlySold, Net, Sold
  <2> QED
    BY <1>1, <1>2, <2>1, <2>2 DEF RT!Settle
<1> QED
  BY <1>3, <1>4

\* No other step fills an order or closes a row.
LEMMA OtherStepsStutter ==
  ASSUME Inv, UNCHANGED legs \/ MarkEnteredFill \/ LogClose \/ MarkExitSubmitted \/ SubmitExit
              \/ LogOpen \/ SubmitCloseAuction \/ \E l \in Legs : RecordEnter(l) \/ Reveal(l)
  PROVE  UNCHANGED RT!tvars
<1>0. TypeOK
  BY DEF Inv
<1>1. CASE MarkEnteredFill
  <2>1. /\ cur \in Legs /\ qty[cur] = 0 /\ LegInv(cur) /\ UNCHANGED <<status, entry, exits>>
        /\ \A k \in Legs : k # cur => qty'[k] = qty[k]
    BY <1>1 DEF MarkEnteredFill, At, orders, Inv, TypeOK, StepInv
  <2>2. \A e \in Exits : exits[cur][e].st # "done"
    BY <2>1 DEF LegInv, Exits
  <2>3. \A k \in Legs : PartlySold(k)' <=> PartlySold(k)
    BY <2>1, <2>2 DEF PartlySold
  <2> QED
    BY <2>1, <2>3, SeenTheSame DEF SameToAll
<1>2. CASE SubmitExit
  <2>1. cur \in Legs /\ exitId[cur] = 1 /\ exits[cur][1].st = "none" /\ LegInv(cur)
    BY <1>2 DEF SubmitExit, Inv, TypeOK, StepInv, LegInv, NoExit, Exits
  <2>2. UNCHANGED <<status, entry, qty>>
    BY <1>2 DEF SubmitExit, Store, table
  <2>3. exits[cur][1].filled = 0 /\ An("live", 0).filled = 0 /\ An("live", 0).st = "live"
    BY <2>1, SoldOnce DEF LegInv, An
  <2>4. UNCHANGED exits \/ exits' = [exits EXCEPT ![cur][1] = An("live", 0)]
    BY <1>2, <2>1 DEF SubmitExit
  <2>5. \A k \in Legs : \A e \in Exits : exits'[k][e].filled = exits[k][e].filled
    BY <1>0, <2>1, <2>3, <2>4 DEF TypeOK
  <2>6. \A k \in Legs : \A e \in Exits : exits'[k][e].st = "done" <=> exits[k][e].st = "done"
    BY <1>0, <2>1, <2>3, <2>4 DEF TypeOK
  <2>7. \A k \in Legs : PartlySold(k)' <=> PartlySold(k)
    BY <2>2, <2>5, <2>6 DEF PartlySold
  <2> QED
    BY <2>2, <2>5, <2>7, SeenTheSame DEF SameToAll
<1>3. CASE SubmitCloseAuction
  <2>1. cur \in Legs /\ entry[cur].st = "none" /\ LegInv(cur)
    BY <1>3 DEF SubmitCloseAuction, Inv, TypeOK, StepInv
  <2>2. entry[cur].filled = 0 /\ An("hidden", 0).filled = 0
    BY <2>1, SoldOnce DEF LegInv, An
  <2>3. \A k \in Legs : entry'[k].filled = entry[k].filled
    BY <1>0, <1>3, <2>1, <2>2 DEF SubmitCloseAuction, TypeOK
  <2>4. UNCHANGED <<status, exits, qty>>
    BY <1>3 DEF SubmitCloseAuction, Store, table
  <2> QED
    BY <2>3, <2>4, SeenTheSame DEF SameToAll, PartlySold
<1>4. ASSUME NEW l \in Legs, RecordEnter(l) PROVE UNCHANGED RT!tvars
  <2>1. status[l] = "absent" /\ status' = [status EXCEPT ![l] = "entered"] /\ UNCHANGED <<entry, exits, qty>>
    BY <1>4 DEF RecordEnter, Inv, BasketInv, orders
  <2> QED
    BY <1>0, <2>1, SeenTheSame DEF SameToAll, PartlySold, TypeOK
<1>5. ASSUME NEW l \in Legs, Reveal(l) PROVE UNCHANGED RT!tvars
  <2>1. entry[l].st = "hidden" /\ LegInv(l) /\ entry' = [entry EXCEPT ![l] = An("live", 0)]
        /\ UNCHANGED <<status, exits, qty>>
    BY <1>5 DEF Reveal, Only, table, Inv
  <2>2. entry[l].filled = 0 /\ An("live", 0).filled = 0
    BY <2>1, SoldOnce DEF LegInv, An
  <2>3. \A k \in Legs : entry'[k].filled = entry[k].filled
    BY <1>0, <2>1, <2>2 DEF TypeOK
  <2> QED
    BY <2>1, <2>3, SeenTheSame DEF SameToAll, PartlySold
<1>6. CASE UNCHANGED legs \/ LogClose \/ MarkExitSubmitted \/ LogOpen
  BY <1>6, SeenTheSame DEF SameToAll, PartlySold, legs, LogClose, MarkExitSubmitted, LogOpen,
    At, orders, table
<1> QED
  BY <1>1, <1>2, <1>3, <1>4, <1>5, <1>6

(* At such a broker the container implements RoundTrip: each leg buys once,    *)
(* sells once, and is closed in the table for good when it holds nothing but   *)
(* what that sale left behind, through crashes, failed calls, refusals and     *)
(* auctions that fill in part or not at all.                                   *)
THEOREM ImplementsRoundTrip ==
  ASSUME EntryLag < MinChecks
  PROVE  Spec => KeepsRoundTrip
<1>1. Init => RT!RTInit
  <2>1. NoOrder.filled = 0
    BY DEF NoOrder, An
  <2> QED
    BY <2>1 DEF Init, RT!RTInit, Held, Net, Sold, Bought, Closed, Exits
<1>2. ASSUME Inv, [Next]_vars PROVE [RT!RTNext]_(RT!tvars)
  <2>1. MarkAbandoned \/ RecordFlatten => cur \in Legs
    BY <1>2 DEF Inv, TypeOK, MarkAbandoned, RecordFlatten, At
  <2>2. \/ \E l \in Legs : RT!Buy(l) \/ RT!Sell(l) \/ RT!Settle(l)
        \/ UNCHANGED RT!tvars
    BY <1>2, <2>1, LegsMove, CloseAuctionBuys, OpenAuctionSells, FlattenSettles, OtherStepsStutter
  <2> QED
    BY <2>2 DEF RT!RTNext
<1> QED
  BY <1>1, <1>2, Invariant, PTL DEF Spec, KeepsRoundTrip, RT!RTSpec
================================================================================
