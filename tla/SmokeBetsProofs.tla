--------------------------- MODULE SmokeBetsProofs ---------------------------
(* Theorems about SmokeBets, for every number of bets, lot size and fault     *)
(* bound: its type invariant, the inductive invariants behind its safety      *)
(* properties, and its refinement of RoundTrip.                               *)
EXTENDS SmokeBets, TLAPS

LEMMA ConstantFacts ==
  /\ NumBets \in Nat /\ Qty \in Nat \ {0} /\ MaxGen \in Nat
  /\ MinChecks \in Nat \ {0, 1} /\ PendChecks \in Nat \ {0} /\ MaxFaults \in Nat
  /\ Bets \subseteq Nat /\ 0 \notin Bets /\ Gens \subseteq Nat /\ 0 \in Gens /\ NoExit \notin Gens
BY SmokeConstants DEF SmokeConstants, MaxGen, Bets, Gens, NoExit

LEMMA IdIsInt == ASSUME NEW e \in Gens \cup {NoExit} PROVE e \in Int
BY DEF Gens, NoExit

LEMMA OrderIsFilled == ASSUME NEW o \in Order PROVE o.filled \in Nat
BY ConstantFacts DEF Order

-----------------------------------------------------------------------------
(* Type correctness.                                                       *)

LEMMA InitTypeOK == Init => TypeOK
BY ConstantFacts DEF Init, TypeOK, Unbooked, NoOrder, Order, OpenStatuses, PCs, NoExit

LEMMA ManageTypeOK == TypeOK /\ ManageStep => TypeOK'
<1> SUFFICES ASSUME TypeOK, ManageStep PROVE TypeOK'
  OBVIOUS
<1> USE ConstantFacts
    DEF TypeOK, At, Goto, NextBet, store, broker, trackers, OpenStatuses, PCs, Becomes
<1>1. CASE PickBet
  BY <1>1 DEF PickBet
<1>2. CASE EndPass
  BY <1>2 DEF EndPass
<1>3. CASE EntryNotFound
  <2>1. UNCHANGED <<status, qty, exitId, ledger, entry, exits, held, due, faults, mode, todo, mem, pend>>
    BY <1>3 DEF EntryNotFound
  <2>2. pc' \in PCs /\ cur' \in Bets \cup {0} /\ obs' \in 0..Qty /\ retry' \in {"no", "lost", "stale"}
    BY <1>3 DEF EntryNotFound
  <2>3. streak' \in [Bets -> 0..MinChecks]
    BY <1>3 DEF EntryNotFound
  <2>4. QED
    BY <2>1, <2>2, <2>3
<1>4. CASE EntryFound
  BY <1>4 DEF EntryFound, Order
<1>5. CASE MarkAbandoned
  BY <1>5 DEF MarkAbandoned
<1>6. CASE MarkFilled
  BY <1>6 DEF MarkFilled
<1>7. CASE BookBuy
  BY <1>7 DEF BookBuy
<1>8. CASE CheckHold
  <2>1. UNCHANGED <<status, qty, exitId, ledger, entry, exits, held, due, faults, mode, todo, mem, streak, pend>>
    BY <1>8 DEF CheckHold
  <2>2. pc' \in PCs /\ cur' \in Bets \cup {0} /\ obs' \in 0..Qty /\ retry' \in {"no", "lost", "stale"}
    BY <1>8 DEF CheckHold
  <2>3. QED
    BY <2>1, <2>2
<1>9. CASE EnsureFindsNoFill
  BY <1>9 DEF EnsureFindsNoFill, Fault
<1>10. CASE EnsureFindsFill
  BY <1>10 DEF EnsureFindsFill, Order
<1>11. CASE MarkClosing
  BY <1>11 DEF MarkClosing
<1>12. CASE SubmitExit
  BY <1>12 DEF SubmitExit, Exit, Order
<1>13. CASE ExitFilled
  BY <1>13 DEF ExitFilled
<1>14. CASE ExitPending
  <2>1. UNCHANGED <<status, qty, exitId, ledger, entry, exits, held, due, faults, mode, todo, mem, streak>>
    BY <1>14 DEF ExitPending
  <2>2. pc' \in PCs /\ cur' \in Bets \cup {0} /\ obs' \in 0..Qty /\ retry' \in {"no", "lost", "stale"}
    BY <1>14 DEF ExitPending
  <2>3. pend' \in [Bets -> 0..PendChecks]
    BY <1>14 DEF ExitPending
  <2>4. QED
    BY <2>1, <2>2, <2>3
<1>15. CASE ExitNotFound
  <2>1. UNCHANGED <<status, qty, exitId, ledger, entry, exits, held, due, faults, mode, todo, mem, streak, pend>>
    BY <1>15 DEF ExitNotFound
  <2>2. pc' \in PCs /\ cur' \in Bets \cup {0} /\ obs' \in 0..Qty /\ retry' \in {"no", "lost", "stale"}
    BY <1>15 DEF ExitNotFound
  <2>3. QED
    BY <2>1, <2>2
<1>16. CASE CancelExit
  BY <1>16 DEF CancelExit, Exit, Order
<1>17. CASE BumpExit
  <2>1. UNCHANGED <<status, qty, ledger, entry, exits, held, due, faults, mode, cur, todo, obs, retry, mem, streak>>
    BY <1>17 DEF BumpExit
  <2>2. pc' \in PCs
    BY <1>17 DEF BumpExit
  <2>3. exitId' \in [Bets -> Gens \cup {NoExit}]
    <3>1. cur \in Bets /\ exitId[cur] \in Gens \cup {NoExit} /\ exitId[cur] < MaxGen
      BY <1>17 DEF BumpExit
    <3>2. exitId[cur] + 1 \in Gens
      BY ONLY <3>1, ConstantFacts DEF Gens, NoExit
    <3>3. exitId' = exitId \/ exitId' = [exitId EXCEPT ![cur] = exitId[cur] + 1]
      BY <1>17, <3>1 DEF BumpExit
    <3>4. QED
      BY <3>1, <3>2, <3>3
  <2>4. pend' \in [Bets -> 0..PendChecks]
    BY <1>17 DEF BumpExit
  <2>5. QED
    BY <2>1, <2>2, <2>3, <2>4
<1>18. CASE RecordClose
  BY <1>18 DEF RecordClose
<1>19. CASE BookSell
  BY <1>19 DEF BookSell
<1>20. QED
  BY <1>1, <1>2, <1>3, <1>4, <1>5, <1>6, <1>7, <1>8, <1>9, <1>10, <1>11, <1>12, <1>13,
     <1>14, <1>15, <1>16, <1>17, <1>18, <1>19 DEF ManageStep

LEMMA FailureTypeOK == TypeOK /\ Failure => TypeOK'
<1> SUFFICES ASSUME TypeOK, Failure PROVE TypeOK'
  OBVIOUS
<1> USE ConstantFacts
    DEF TypeOK, At, Goto, NextBet, Fault, Abort, store, broker, trackers, PCs
<1>1. CASE EntryLookupFails
  BY <1>1 DEF EntryLookupFails
<1>2. CASE ExitLookupFails
  BY <1>2 DEF ExitLookupFails
<1>3. CASE CallFails
  BY <1>3 DEF CallFails
<1>4. CASE AppendFails
  BY <1>4 DEF AppendFails
<1>5. CASE Crash
  BY <1>5 DEF Crash
<1>6. QED
  BY <1>1, <1>2, <1>3, <1>4, <1>5 DEF Failure

LEMMA BrokerTypeOK == TypeOK /\ Broker => TypeOK'
<1> SUFFICES ASSUME TypeOK, Broker PROVE TypeOK'
  OBVIOUS
<1> USE ConstantFacts
    DEF TypeOK, Fault, Fills, Order, Becomes, FilledTo, store, broker, trackers, local
<1> PICK b \in Bets :
      \/ HoldElapses(b) \/ FillEntry(b) \/ RevealEntry(b) \/ EntryDies(b)
      \/ \E g \in Gens : FillExit(b, g) \/ RevealExit(b, g) \/ ExitDies(b, g)
  BY DEF Broker
<1>1. CASE HoldElapses(b)
  BY <1>1 DEF HoldElapses, OpenBets
<1>2. CASE FillEntry(b)
  BY <1>2 DEF FillEntry
<1>3. CASE RevealEntry(b)
  BY <1>3 DEF RevealEntry
<1>4. CASE EntryDies(b)
  BY <1>4 DEF EntryDies
<1>5. ASSUME NEW g \in Gens, FillExit(b, g) PROVE TypeOK'
  BY <1>5 DEF FillExit
<1>6. ASSUME NEW g \in Gens, RevealExit(b, g) PROVE TypeOK'
  BY <1>6 DEF RevealExit
<1>7. ASSUME NEW g \in Gens, ExitDies(b, g) PROVE TypeOK'
  BY <1>7 DEF ExitDies
<1>8. QED
  BY <1>1, <1>2, <1>3, <1>4, <1>5, <1>6, <1>7

LEMMA StepTypeOK == TypeOK /\ [Next]_vars => TypeOK'
<1> SUFFICES ASSUME TypeOK, [Next]_vars PROVE TypeOK'
  OBVIOUS
<1> USE ConstantFacts DEF TypeOK, At, Goto, store, broker, trackers, OpenStatuses, PCs
<1>1. CASE Start
  BY <1>1 DEF Start, OpenBets
<1>2. CASE BeginCycle
  BY <1>2 DEF BeginCycle, OpenBets
<1>3. CASE GateRefuses
  BY <1>3 DEF GateRefuses
<1>4. CASE RecordOpen
  BY <1>4 DEF RecordOpen
<1>5. CASE SubmitEntry
  BY <1>5 DEF SubmitEntry, Order, Becomes
<1>6. CASE UNCHANGED vars
  BY <1>6 DEF vars
<1>7. QED
  BY <1>1, <1>2, <1>3, <1>4, <1>5, <1>6, ManageTypeOK, FailureTypeOK, BrokerTypeOK
  DEF Next, Strategy

\* Every variable of the container, its table, its ledger and the broker keeps
\* its type, and exit generations stay below MaxGen.
THEOREM TypeCorrect == Spec => []TypeOK
<1>1. QED
  BY InitTypeOK, StepTypeOK, PTL DEF Spec

-----------------------------------------------------------------------------
(* The inductive invariant.                                                *)

\* Every step is one of these, or leaves all of SmokeBets unchanged.
LEMMA StepCases ==
  ASSUME [Next]_vars
  PROVE  \/ Start \/ BeginCycle \/ GateRefuses \/ RecordOpen \/ SubmitEntry
         \/ ManageStep \/ Failure \/ Broker \/ UNCHANGED vars
BY DEF Next, Strategy

\* The broker and the clock touch nothing of the process.
LEMMA BrokerFrame == Broker => UNCHANGED <<store, ledger, local, mem, trackers>>
BY DEF Broker, HoldElapses, FillEntry, RevealEntry, EntryDies, FillExit, RevealExit, ExitDies

\* A failure touches no row and no entry order.
LEMMA FailureFrame == Failure => UNCHANGED <<store, broker, due>>
BY DEF Failure, EntryLookupFails, ExitLookupFails, CallFails, AppendFails, Crash

LEMMA RowsInit == Init => RowsConsistent /\ ControlConsistent /\ FillsRecorded /\ GivenUpIsDead /\ ExitsInOrder
BY ConstantFacts DEF Init, RowsConsistent, ControlConsistent, FillsRecorded, GivenUpIsDead,
   ExitsInOrder, Effective, NoOrder, Gens, NoExit, OpenBets

LEMMA RowsStep ==
  ASSUME TypeOK, RowsConsistent, ControlConsistent, FillsRecorded, [Next]_vars
  PROVE  RowsConsistent'
<1> USE ConstantFacts DEF TypeOK, RowsConsistent, At, Goto, store, OpenStatuses
<1>1. CASE MarkAbandoned
  BY <1>1 DEF MarkAbandoned, ControlConsistent
<1>2. CASE MarkFilled
  BY <1>2 DEF MarkFilled, ControlConsistent, FillsRecorded
<1>3. CASE MarkClosing
  BY <1>3 DEF MarkClosing, ControlConsistent, NoExit
<1>4. CASE BumpExit
  <2>1. cur \in Bets /\ status[cur] = "closing" /\ exitId[cur] \in Gens /\ exitId[cur] # NoExit
    BY <1>4 DEF BumpExit, ControlConsistent, NoExit
  <2>2. exitId' = [exitId EXCEPT ![cur] = exitId[cur] + 1] /\ UNCHANGED <<status, qty>>
    BY <1>4, <2>1 DEF BumpExit
  <2>3. exitId[cur] + 1 # NoExit
    BY <2>1 DEF Gens, NoExit
  <2>4. QED
    BY <2>1, <2>2, <2>3
<1>5. CASE RecordClose
  BY <1>5 DEF RecordClose, ControlConsistent
<1>6. CASE RecordOpen
  <2>1. UNCHANGED <<qty, exitId>>
    BY <1>6 DEF RecordOpen
  <2>2. PICK b \in Bets : status[b] = "absent" /\ status' = [status EXCEPT ![b] = "open"]
    BY <1>6 DEF RecordOpen
  <2>3. QED
    BY <2>1, <2>2
<1>7. CASE UNCHANGED store
  BY <1>7
<1>8. QED
  <2>1. CASE ManageStep
    BY <1>1, <1>2, <1>3, <1>4, <1>5, <1>7, <2>1
    DEF ManageStep, PickBet, EndPass, EntryNotFound, EntryFound, BookBuy, CheckHold,
        EnsureFindsNoFill, EnsureFindsFill, SubmitExit, ExitFilled, ExitPending,
        ExitNotFound, CancelExit, BookSell
  <2>2. CASE Start \/ BeginCycle \/ GateRefuses \/ SubmitEntry \/ UNCHANGED vars
    BY <1>7, <2>2 DEF Start, BeginCycle, GateRefuses, SubmitEntry, vars
  <2>3. QED
    BY <1>6, <1>7, <2>1, <2>2, StepCases, BrokerFrame, FailureFrame

LEMMA ControlStep ==
  ASSUME TypeOK, RowsConsistent, ControlConsistent, FillsRecorded, [Next]_vars
  PROVE  ControlConsistent'
<1> USE ConstantFacts DEF TypeOK, ControlConsistent, At, Goto, NextBet, store, OpenStatuses, OpenBets
<1>1. CASE Start
  BY <1>1 DEF Start
<1>2. CASE BeginCycle
  BY <1>2 DEF BeginCycle
<1>3. CASE GateRefuses
  BY <1>3 DEF GateRefuses
<1>4. CASE RecordOpen
  BY <1>4 DEF RecordOpen
<1>5. CASE SubmitEntry
  BY <1>5 DEF SubmitEntry
<1>6. CASE PickBet
  BY <1>6 DEF PickBet, RowsConsistent
<1>7. CASE EndPass
  BY <1>7 DEF EndPass
<1>8. CASE EntryNotFound
  <2>1. cur \in Bets /\ status[cur] \in OpenStatuses /\ (mode = "run" => status[cur] = "open")
    BY <1>8 DEF EntryNotFound, RowsConsistent
  <2>2. UNCHANGED <<status, qty, mode, todo>>
    BY <1>8 DEF EntryNotFound
  <2>3. \/ mode = "startup" /\ pc' = "hold" /\ UNCHANGED <<cur, obs>>
        \/ mode = "run" /\ pc' = "abandon" /\ UNCHANGED <<cur, obs>>
        \/ pc' = "pick" /\ cur' = 0
    BY <1>8 DEF EntryNotFound
  <2>4. QED
    BY <2>1, <2>2, <2>3
<1>9. CASE EntryFound
  BY <1>9 DEF EntryFound, RowsConsistent
<1>10. CASE MarkAbandoned
  BY <1>10 DEF MarkAbandoned
<1>11. CASE MarkFilled
  BY <1>11 DEF MarkFilled
<1>12. CASE BookBuy
  BY <1>12 DEF BookBuy
<1>13. CASE CheckHold
  <2>1. cur \in Bets /\ status[cur] \in OpenStatuses
    BY <1>13 DEF CheckHold
  <2>2. UNCHANGED <<status, qty, mode, todo>>
    BY <1>13 DEF CheckHold
  <2>3. \/ pc' = "pick" /\ cur' = 0
        \/ pc' = "ensure" /\ qty[cur] = 0 /\ UNCHANGED <<cur, obs>>
        \/ pc' = "mark_closing" /\ qty[cur] > 0 /\ exitId[cur] = NoExit /\ UNCHANGED <<cur, obs>>
        \/ pc' = "lookup" /\ qty[cur] > 0 /\ exitId[cur] # NoExit /\ UNCHANGED <<cur, obs>>
    BY <1>13 DEF CheckHold
  <2>4. QED
    BY <2>1, <2>2, <2>3 DEF RowsConsistent
<1>14. CASE EnsureFindsNoFill
  BY <1>14 DEF EnsureFindsNoFill
<1>15. CASE EnsureFindsFill
  BY <1>15 DEF EnsureFindsFill
<1>16. CASE MarkClosing
  BY <1>16 DEF MarkClosing
<1>17. CASE SubmitExit
  BY <1>17 DEF SubmitExit
<1>18. CASE ExitFilled
  BY <1>18 DEF ExitFilled
<1>19. CASE ExitPending
  <2>1. cur \in Bets /\ status[cur] = "closing" /\ UNCHANGED <<status, qty, mode, todo>>
    BY <1>19 DEF ExitPending
  <2>2. \/ pc' = "cancel" /\ UNCHANGED <<cur, obs>>
        \/ pc' = "pick" /\ cur' = 0
    BY <1>19 DEF ExitPending
  <2>3. QED
    BY <2>1, <2>2
<1>20. CASE ExitNotFound
  BY <1>20 DEF ExitNotFound
<1>21. CASE CancelExit
  BY <1>21 DEF CancelExit
<1>22. CASE BumpExit
  BY <1>22 DEF BumpExit
<1>23. CASE RecordClose
  BY <1>23 DEF RecordClose, RowsConsistent
<1>24. CASE BookSell
  BY <1>24 DEF BookSell
<1>25. CASE EntryLookupFails
  BY <1>25 DEF EntryLookupFails
<1>26. CASE ExitLookupFails
  BY <1>26 DEF ExitLookupFails
<1>27. CASE CallFails
  BY <1>27 DEF CallFails, Abort
<1>28. CASE AppendFails
  BY <1>28 DEF AppendFails, Abort
<1>29. CASE Crash
  BY <1>29 DEF Crash
<1>30. CASE Broker
  BY <1>30, BrokerFrame DEF local
<1>31. CASE UNCHANGED vars
  BY <1>31 DEF vars
<1>32. QED
  BY <1>1, <1>2, <1>3, <1>4, <1>5, <1>6, <1>7, <1>8, <1>9, <1>10, <1>11, <1>12, <1>13, <1>14, <1>15, <1>16, <1>17, <1>18, <1>19, <1>20, <1>21, <1>22, <1>23, <1>24, <1>25, <1>26, <1>27, <1>28, <1>29, <1>30, <1>31, StepCases
  DEF ManageStep, Failure

\* Only these actions touch the entry orders; every other step leaves them be.
LEMMA EntryCases ==
  ASSUME [Next]_vars
  PROVE  \/ SubmitEntry
         \/ \E b \in Bets : FillEntry(b) \/ RevealEntry(b) \/ EntryDies(b)
         \/ UNCHANGED entry
<1>1. CASE Broker
  BY <1>1 DEF Broker, HoldElapses, FillExit, RevealExit, ExitDies, broker
<1>2. CASE ManageStep
  BY <1>2 DEF ManageStep, PickBet, EndPass, EntryNotFound, EntryFound, MarkAbandoned,
     MarkFilled, BookBuy, CheckHold, EnsureFindsNoFill, EnsureFindsFill, MarkClosing,
     SubmitExit, ExitFilled, ExitPending, ExitNotFound, CancelExit, BumpExit, RecordClose,
     BookSell, broker
<1>3. CASE Start \/ BeginCycle \/ GateRefuses \/ RecordOpen \/ UNCHANGED vars
  BY <1>3 DEF Start, BeginCycle, GateRefuses, RecordOpen, broker, vars
<1>4. QED
  BY <1>1, <1>2, <1>3, StepCases, FailureFrame DEF broker

\* An order at the broker never goes back to not existing, and never unfills.
LEMMA EntryGrows ==
  ASSUME TypeOK, [Next]_vars, NEW b \in Bets
  PROVE  /\ entry[b].filled <= entry'[b].filled
         /\ entry[b].st # "none" => entry'[b].st # "none"
         /\ entry'[b].st = "none" => entry'[b].filled = entry[b].filled
         /\ entry'[b].st # "none" /\ entry[b].st = "none" => pc = "submit_entry" /\ cur = b
<1> USE ConstantFacts DEF TypeOK, Order, Becomes, FilledTo
<1>1. CASE SubmitEntry
  BY <1>1 DEF SubmitEntry, At
<1>2. ASSUME NEW c \in Bets, FillEntry(c) \/ RevealEntry(c) \/ EntryDies(c)
      PROVE  /\ entry[b].filled <= entry'[b].filled
             /\ entry[b].st # "none" => entry'[b].st # "none"
             /\ entry'[b].st = "none" => entry'[b].filled = entry[b].filled
             /\ entry'[b].st # "none" => entry[b].st # "none"
  BY <1>2 DEF FillEntry, RevealEntry, EntryDies, Fills
<1>3. CASE UNCHANGED entry
  BY <1>3
<1>4. QED
  BY <1>1, <1>2, <1>3, EntryCases

\* The captured quantity changes only when mark_filled stores it, and a row
\* leaves "absent" and "open" only as the store's methods say.
LEMMA RowCases ==
  ASSUME TypeOK, ControlConsistent, [Next]_vars, NEW b \in Bets
  PROVE  \/ status'[b] = status[b] /\ qty'[b] = qty[b]
         \/ MarkFilled /\ cur = b /\ status[b] = "open" /\ status'[b] = "filled" /\ qty'[b] = obs
         \/ qty'[b] = qty[b] /\ status[b] # "closed" /\ status'[b] # "closed"
         \/ MarkAbandoned /\ cur = b /\ qty'[b] = qty[b] /\ status[b] = "open" /\ status'[b] = "closed"
         \/ RecordClose /\ cur = b /\ qty'[b] = qty[b] /\ status[b] = "closing" /\ status'[b] = "closed"
<1> USE ConstantFacts DEF TypeOK, ControlConsistent, At, store, OpenStatuses
<1>1. CASE MarkAbandoned
  BY <1>1 DEF MarkAbandoned
<1>2. CASE MarkFilled
  BY <1>2 DEF MarkFilled
<1>3. CASE MarkClosing
  BY <1>3 DEF MarkClosing
<1>4. CASE BumpExit
  BY <1>4 DEF BumpExit
<1>5. CASE RecordClose
  BY <1>5 DEF RecordClose
<1>6. CASE RecordOpen
  BY <1>6 DEF RecordOpen
<1>7. CASE UNCHANGED store
  BY <1>7
<1>8. QED
  <2>1. CASE ManageStep
    BY <1>1, <1>2, <1>3, <1>4, <1>5, <1>7, <2>1
    DEF ManageStep, PickBet, EndPass, EntryNotFound, EntryFound, BookBuy, CheckHold,
        EnsureFindsNoFill, EnsureFindsFill, SubmitExit, ExitFilled, ExitPending,
        ExitNotFound, CancelExit, BookSell
  <2>2. CASE Start \/ BeginCycle \/ GateRefuses \/ SubmitEntry \/ UNCHANGED vars
    BY <1>7, <2>2 DEF Start, BeginCycle, GateRefuses, SubmitEntry, vars
  <2>3. QED
    BY <1>6, <1>7, <2>1, <2>2, StepCases, BrokerFrame, FailureFrame

\* What the process carries to mark_filled was read from the entry order.
LEMMA CarriedFill ==
  ASSUME TypeOK, FillsRecorded, [Next]_vars, cur' \in Bets, pc' \in {"mark", "mark_late"}
  PROVE  0 < obs' /\ obs' <= entry[cur'].filled
<1> USE ConstantFacts DEF TypeOK, FillsRecorded, At, Goto, NextBet, Order
<1>1. CASE EntryFound
  BY <1>1 DEF EntryFound
<1>2. CASE EnsureFindsFill
  BY <1>2 DEF EnsureFindsFill
<1>3. CASE UNCHANGED local
  BY <1>3 DEF local
<1>4. CASE ManageStep
  BY <1>1, <1>2, <1>4
  DEF ManageStep, PickBet, EndPass, EntryNotFound, MarkAbandoned, MarkFilled, BookBuy,
      CheckHold, EnsureFindsNoFill, MarkClosing, SubmitExit, ExitFilled, ExitPending,
      ExitNotFound, CancelExit, BumpExit, RecordClose, BookSell
<1>5. CASE Start \/ BeginCycle \/ GateRefuses \/ RecordOpen \/ SubmitEntry
  BY <1>5 DEF Start, BeginCycle, GateRefuses, RecordOpen, SubmitEntry
<1>6. CASE Failure
  BY <1>6 DEF Failure, EntryLookupFails, ExitLookupFails, CallFails, AppendFails, Crash, Abort
<1>7. CASE Broker \/ UNCHANGED vars
  BY <1>3, <1>7, BrokerFrame DEF vars, local
<1>8. QED
  BY <1>4, <1>5, <1>6, <1>7, StepCases

LEMMA FillsStep ==
  ASSUME TypeOK, TypeOK', RowsConsistent, ControlConsistent, FillsRecorded, [Next]_vars
  PROVE  FillsRecorded'
<1>1. ASSUME NEW b \in Bets
      PROVE  qty'[b] <= entry'[b].filled /\ (entry'[b].st = "none" => entry'[b].filled = 0)
  <2>1. qty[b] \in Nat /\ qty'[b] \in Nat /\ entry[b].filled \in Nat /\ entry'[b].filled \in Nat
    BY <1>1, ConstantFacts DEF TypeOK, Order
  <2>2. qty'[b] <= entry[b].filled
    BY <1>1, <2>1, RowCases DEF FillsRecorded, MarkFilled, At
  <2>3. QED
    BY <1>1, <2>1, <2>2, EntryGrows DEF FillsRecorded
<1>2. ASSUME cur' \in Bets, pc' \in {"mark", "mark_late"}
      PROVE  0 < obs' /\ obs' <= entry'[cur'].filled
  <2>1. 0 < obs' /\ obs' <= entry[cur'].filled
    BY <1>2, CarriedFill
  <2>2. entry[cur'].filled <= entry'[cur'].filled
    BY <1>2, EntryGrows
  <2>3. obs' \in Nat /\ entry[cur'].filled \in Nat /\ entry'[cur'].filled \in Nat
    BY <1>2, ConstantFacts DEF TypeOK, Order
  <2>4. QED
    BY <2>1, <2>2, <2>3
<1>3. QED
  BY <1>1, <1>2 DEF FillsRecorded

LEMMA GivenUpStep ==
  ASSUME EntryLag < MinChecks,
         TypeOK, TypeOK', ControlConsistent, GivenUpIsDead, [Next]_vars
  PROVE  GivenUpIsDead'
<1> SUFFICES ASSUME cur' \in Bets, pc' = "abandon"
             PROVE  entry'[cur'].st = "none"
  BY DEF GivenUpIsDead
<1> USE ConstantFacts DEF TypeOK, At, Goto, NextBet, Order
<1>1. CASE EntryNotFound
  <2>1. cur \in Bets /\ cur' = cur /\ entry' = entry /\ mode # "startup"
    BY <1>1 DEF EntryNotFound, broker
  <2>2. streak[cur] \in Nat /\ streak'[cur] = MinChecks
    BY <1>1, <2>1 DEF EntryNotFound
  <2>3. streak'[cur] = IF streak[cur] < MinChecks THEN streak[cur] + 1 ELSE streak[cur]
    BY <1>1, <2>1 DEF EntryNotFound
  <2>4. ~(streak[cur] < EntryLag)
    BY <2>2, <2>3, SmokeConstants DEF SmokeConstants
  <2>5. QED
    BY <1>1, <2>1, <2>4 DEF EntryNotFound
<1>2. CASE UNCHANGED local
  BY <1>2, EntryGrows DEF local, GivenUpIsDead
<1>3. CASE ManageStep
  BY <1>1, <1>3
  DEF ManageStep, PickBet, EndPass, EntryFound, MarkAbandoned, MarkFilled, BookBuy,
      CheckHold, EnsureFindsNoFill, EnsureFindsFill, MarkClosing, SubmitExit, ExitFilled,
      ExitPending, ExitNotFound, CancelExit, BumpExit, RecordClose, BookSell
<1>4. CASE Start \/ BeginCycle \/ GateRefuses \/ RecordOpen \/ SubmitEntry
  BY <1>4 DEF Start, BeginCycle, GateRefuses, RecordOpen, SubmitEntry
<1>5. CASE Failure
  BY <1>5 DEF Failure, EntryLookupFails, ExitLookupFails, CallFails, AppendFails, Crash, Abort
<1>6. CASE Broker \/ UNCHANGED vars
  BY <1>2, <1>6, BrokerFrame DEF vars, local
<1>7. QED
  BY <1>3, <1>4, <1>5, <1>6, StepCases

LEMMA AbandonedStep ==
  ASSUME TypeOK, ControlConsistent, GivenUpIsDead, RowsConsistent, FillsRecorded,
         AbandonedNeverLanded, [Next]_vars
  PROVE  AbandonedNeverLanded'
<1> SUFFICES ASSUME NEW b \in Bets, status'[b] = "closed", qty'[b] = 0
             PROVE  entry'[b].st = "none"
  BY DEF AbandonedNeverLanded
<1>1. \/ status[b] = "closed" /\ qty[b] = 0
      \/ MarkAbandoned /\ cur = b
      \/ RecordClose /\ cur = b /\ status[b] = "closing" /\ qty[b] = 0
  BY RowCases
<1>2. entry[b].st = "none"
  <2>1. CASE status[b] = "closed" /\ qty[b] = 0
    BY <2>1 DEF AbandonedNeverLanded
  <2>2. CASE MarkAbandoned /\ cur = b
    BY <2>2 DEF MarkAbandoned, At, GivenUpIsDead
  <2>3. ~(status[b] = "closing" /\ qty[b] = 0)
    BY DEF RowsConsistent
  <2>4. QED
    BY <1>1, <2>1, <2>2, <2>3
<1>3. pc # "submit_entry" \/ cur # b
  BY <1>1 DEF ControlConsistent, MarkAbandoned, RecordClose, At
<1>4. QED
  BY <1>2, <1>3, EntryGrows

\* Only _book_fill writes the durable ledger.
LEMMA LedgerCases ==
  ASSUME [Next]_vars
  PROVE  BookBuy \/ BookSell \/ UNCHANGED ledger
<1>1. CASE ManageStep
  BY <1>1 DEF ManageStep, PickBet, EndPass, EntryNotFound, EntryFound, MarkAbandoned,
     MarkFilled, CheckHold, EnsureFindsNoFill, EnsureFindsFill, MarkClosing, SubmitExit,
     ExitFilled, ExitPending, ExitNotFound, CancelExit, BumpExit, RecordClose
<1>2. CASE Failure
  BY <1>2 DEF Failure, EntryLookupFails, ExitLookupFails, CallFails, AppendFails, Crash
<1>3. CASE Broker
  BY <1>3 DEF Broker, HoldElapses, FillEntry, RevealEntry, EntryDies, FillExit, RevealExit, ExitDies
<1>4. CASE Start \/ BeginCycle \/ GateRefuses \/ RecordOpen \/ SubmitEntry \/ UNCHANGED vars
  BY <1>4 DEF Start, BeginCycle, GateRefuses, RecordOpen, SubmitEntry, vars
<1>5. QED
  BY <1>1, <1>2, <1>3, <1>4, StepCases

LEMMA LedgerStep ==
  ASSUME TypeOK, RowsConsistent, ControlConsistent, LedgerFollowsTable, [Next]_vars
  PROVE  LedgerFollowsTable'
<1> USE ConstantFacts DEF TypeOK, At
<1> SUFFICES ASSUME NEW b \in Bets
             PROVE  /\ ledger'[b].buy \in {0, qty'[b]}
                    /\ ledger'[b].sell > 0 => status'[b] = "closed" /\ ledger'[b].sell = qty'[b]
  BY DEF LedgerFollowsTable
<1>1. CASE BookBuy
  <2>1. UNCHANGED <<status, qty>> /\ cur \in Bets /\ obs = qty[cur]
    BY <1>1 DEF BookBuy, ControlConsistent, store
  <2>2. \/ ledger'[b] = ledger[b]
        \/ cur = b /\ ledger'[b] = [buy |-> obs, sell |-> ledger[b].sell]
    BY <1>1, <2>1 DEF BookBuy
  <2>3. QED
    BY <2>1, <2>2 DEF LedgerFollowsTable
<1>2. CASE BookSell
  <2>1. UNCHANGED <<status, qty>> /\ cur \in Bets /\ status[cur] = "closed"
    BY <1>2 DEF BookSell, ControlConsistent, store
  <2>2. /\ ledger'[b].buy = ledger[b].buy
        /\ \/ ledger'[b].sell = ledger[b].sell
           \/ cur = b /\ ledger'[b].sell = qty[b]
    BY <1>2, <2>1 DEF BookSell
  <2>3. status'[b] = status[b] /\ qty'[b] = qty[b]
    BY <2>1
  <2>4. QED
    BY <2>1, <2>2, <2>3 DEF LedgerFollowsTable
<1>3. CASE UNCHANGED ledger
  <2>1. ledger'[b] = ledger[b] /\ ledger[b].sell \in 0..Qty /\ qty[b] \in 0..Qty
    BY <1>3
  <2>2. status[b] # "closed" => ledger[b].sell = 0
    BY <2>1 DEF LedgerFollowsTable
  <2>3. \/ qty'[b] = qty[b] /\ (status[b] = "closed" => status'[b] = "closed")
        \/ status[b] = "open" /\ qty[b] = 0
    <3>1. status[b] = "open" => qty[b] = 0
      BY DEF RowsConsistent
    <3>2. \/ qty'[b] = qty[b] /\ status'[b] = status[b]
          \/ qty'[b] = qty[b] /\ status[b] # "closed"
          \/ status[b] = "open"
      BY RowCases
    <3>3. QED
      BY <3>1, <3>2
  <2>4. QED
    BY <2>1, <2>2, <2>3 DEF LedgerFollowsTable
<1>4. QED
  BY <1>1, <1>2, <1>3, LedgerCases

\* What a step may do to one exit order, when landed orders are visible and a
\* stale one has stopped working.
LEMMA ExitCases ==
  ASSUME ~ExitMayLag, ~StaleMayFill, TypeOK, ExitsInOrder, [Next]_vars,
         NEW b \in Bets, NEW g \in Gens
  PROVE  \/ exits'[b][g] = exits[b][g]
         \/ /\ pc = "submit" /\ cur = b /\ g = exitId[b]
            /\ exits'[b][g].st = "live" /\ exits'[b][g].filled = exits[b][g].filled
         \/ /\ exits[b][g].st = "live" /\ exits'[b][g].st = "dead"
            /\ exits'[b][g].filled = exits[b][g].filled
         \/ /\ exits[b][g].st = "live" /\ exits'[b][g].st = "live"
            /\ ~(pc = "cancel" /\ cur = b /\ g = exitId[b])
            /\ exits'[b][g].filled <= qty[b]
<1> USE ConstantFacts DEF TypeOK, At, Order, Becomes, FilledTo
<1>1. CASE SubmitExit
  BY <1>1 DEF SubmitExit
<1>2. CASE CancelExit
  BY <1>2 DEF CancelExit, Exit
<1>3. CASE UNCHANGED exits
  BY <1>3
<1>4. CASE ManageStep
  BY <1>1, <1>2, <1>3, <1>4 DEF ManageStep, PickBet, EndPass, EntryNotFound, EntryFound,
     MarkAbandoned, MarkFilled, BookBuy, CheckHold, EnsureFindsNoFill, EnsureFindsFill,
     MarkClosing, ExitFilled, ExitPending, ExitNotFound, BumpExit, RecordClose, BookSell, broker
<1>5. CASE Start \/ BeginCycle \/ GateRefuses \/ RecordOpen \/ SubmitEntry \/ UNCHANGED vars
  BY <1>3, <1>5 DEF Start, BeginCycle, GateRefuses, RecordOpen, SubmitEntry, vars, broker
<1>6. CASE Failure
  BY <1>3, <1>6, FailureFrame DEF broker
<1>7. CASE Broker
  <2> PICK c \in Bets :
        \/ HoldElapses(c) \/ FillEntry(c) \/ RevealEntry(c) \/ EntryDies(c)
        \/ \E h \in Gens : FillExit(c, h) \/ RevealExit(c, h) \/ ExitDies(c, h)
    BY <1>7 DEF Broker
  <2>1. CASE HoldElapses(c) \/ FillEntry(c) \/ RevealEntry(c) \/ EntryDies(c)
    BY <1>3, <2>1 DEF HoldElapses, FillEntry, RevealEntry, EntryDies, broker
  <2>2. ASSUME NEW h \in Gens, FillExit(c, h)
        PROVE  \/ exits'[b][g] = exits[b][g]
               \/ /\ exits[b][g].st = "live" /\ exits'[b][g].st = "live"
                  /\ ~(pc = "cancel" /\ cur = b /\ g = exitId[b])
                  /\ exits'[b][g].filled <= qty[b]
    BY <2>2 DEF FillExit, Fills
  <2>3. ASSUME NEW h \in Gens, RevealExit(c, h) PROVE FALSE
    BY <2>3 DEF RevealExit, ExitsInOrder
  <2>4. ASSUME NEW h \in Gens, ExitDies(c, h)
        PROVE  \/ exits'[b][g] = exits[b][g]
               \/ /\ exits[b][g].st = "live" /\ exits'[b][g].st = "dead"
                  /\ exits'[b][g].filled = exits[b][g].filled
    BY <2>4 DEF ExitDies
  <2>5. QED
    BY <2>1, <2>2, <2>3, <2>4
<1>8. QED
  BY <1>4, <1>5, <1>6, <1>7, StepCases

\* The stored generation changes in two ways only.
LEMMA ExitIdCases ==
  ASSUME TypeOK, ControlConsistent, RowsConsistent, [Next]_vars, NEW b \in Bets
  PROVE  \/ exitId'[b] = exitId[b]
         \/ MarkClosing /\ cur = b /\ exitId[b] = NoExit /\ exitId'[b] = 0
         \/ BumpExit /\ cur = b /\ exitId[b] \in Gens /\ exitId'[b] = exitId[b] + 1
<1> USE ConstantFacts DEF TypeOK, ControlConsistent, RowsConsistent, At, store, OpenStatuses
<1>1. CASE MarkClosing
  BY <1>1 DEF MarkClosing
<1>2. CASE BumpExit
  BY <1>2 DEF BumpExit
<1>3. CASE UNCHANGED exitId
  BY <1>3
<1>4. CASE ManageStep
  BY <1>1, <1>2, <1>3, <1>4 DEF ManageStep, PickBet, EndPass, EntryNotFound, EntryFound,
     MarkAbandoned, MarkFilled, BookBuy, CheckHold, EnsureFindsNoFill, EnsureFindsFill,
     SubmitExit, ExitFilled, ExitPending, ExitNotFound, CancelExit, RecordClose, BookSell
<1>5. CASE Start \/ BeginCycle \/ GateRefuses \/ RecordOpen \/ SubmitEntry \/ UNCHANGED vars
  BY <1>3, <1>5 DEF Start, BeginCycle, GateRefuses, RecordOpen, SubmitEntry, vars
<1>6. QED
  BY <1>3, <1>4, <1>5, StepCases, BrokerFrame, FailureFrame

\* How the process comes to cancel or replace an exit.
LEMMA ReplaceCases ==
  ASSUME TypeOK, [Next]_vars, cur' \in Bets
  PROVE  /\ pc' = "bump" => ExitNotFound \/ CancelExit \/ UNCHANGED local
         /\ pc' = "cancel" => ExitPending \/ UNCHANGED local
<1> USE ConstantFacts DEF TypeOK, At, Goto, NextBet
<1>1. CASE ManageStep
  BY <1>1 DEF ManageStep, PickBet, EndPass, EntryNotFound, EntryFound, MarkAbandoned,
     MarkFilled, BookBuy, CheckHold, EnsureFindsNoFill, EnsureFindsFill, MarkClosing, SubmitExit,
     ExitFilled, ExitPending, ExitNotFound, CancelExit, BumpExit, RecordClose, BookSell
<1>2. CASE Start \/ BeginCycle \/ GateRefuses \/ RecordOpen \/ SubmitEntry
  BY <1>2 DEF Start, BeginCycle, GateRefuses, RecordOpen, SubmitEntry
<1>3. CASE Failure
  BY <1>3 DEF Failure, EntryLookupFails, ExitLookupFails, CallFails, AppendFails, Crash, Abort
<1>4. CASE Broker \/ UNCHANGED vars
  BY <1>4, BrokerFrame DEF vars, local
<1>5. QED
  BY <1>1, <1>2, <1>3, <1>4, StepCases

LEMMA ExitsStep ==
  ASSUME ~ExitMayLag, ~StaleMayFill, TypeOK, TypeOK', RowsConsistent, ControlConsistent,
         ExitsInOrder, [Next]_vars
  PROVE  ExitsInOrder'
<1>1. ASSUME NEW b \in Bets, NEW g \in Gens
      PROVE  /\ exits'[b][g].st # "hidden"
             /\ exits'[b][g].st = "none" => exits'[b][g].filled = 0
             /\ exits'[b][g].filled <= qty'[b]
             /\ g > exitId'[b] => exits'[b][g].st = "none"
             /\ g < exitId'[b] => ~Effective(exits[b][g])'
  <2>1. /\ exits[b][g].filled \in Nat /\ exits'[b][g].filled \in Nat
        /\ qty[b] \in Nat /\ qty'[b] \in Nat /\ g \in Nat
        /\ exitId[b] \in Int /\ exitId'[b] \in Int
    <3>1. /\ exits[b][g] \in Order /\ exits'[b][g] \in Order
          /\ exitId[b] \in Gens \cup {NoExit} /\ exitId'[b] \in Gens \cup {NoExit}
      BY <1>1 DEF TypeOK
    <3>2. qty[b] \in Nat /\ qty'[b] \in Nat /\ g \in Nat
      BY <1>1, ConstantFacts DEF TypeOK
    <3>3. QED
      BY <3>1, <3>2, IdIsInt, OrderIsFilled
  <2>2. /\ exits[b][g].st # "hidden" /\ (exits[b][g].st = "none" => exits[b][g].filled = 0)
        /\ exits[b][g].filled <= qty[b]
        /\ g > exitId[b] => exits[b][g].st = "none"
        /\ g < exitId[b] => ~Effective(exits[b][g])
    BY <1>1 DEF ExitsInOrder
  <2>3. exits'[b][g].st # "hidden" /\ (exits'[b][g].st = "none" => exits'[b][g].filled = 0)
    BY <1>1, <2>2, ExitCases
  <2>4. exits'[b][g].filled <= qty'[b]
    <3>1. CASE qty'[b] = qty[b]
      BY <1>1, <2>1, <2>2, <3>1, ExitCases
    <3>2. CASE MarkFilled /\ cur = b /\ status[b] = "open"
      <4>1. exits[b][g].st = "none"
        BY <1>1, <2>1, <2>2, <3>2 DEF RowsConsistent, NoExit
      <4>2. exits'[b][g] = exits[b][g]
        BY <1>1, <3>2, <4>1, ExitCases DEF MarkFilled, At
      <4>3. QED
        BY <2>1, <2>2, <4>1, <4>2
    <3>3. QED
      BY <1>1, <3>1, <3>2, RowCases
  <2>5. exitId[b] <= exitId'[b]
    BY <1>1, <2>1, ExitIdCases DEF NoExit
  <2>6. ASSUME g > exitId'[b] PROVE exits'[b][g].st = "none"
    BY <1>1, <2>1, <2>2, <2>5, <2>6, ExitCases
  <2>7. ASSUME g < exitId'[b] PROVE ~Effective(exits[b][g])'
    <3>1. CASE g < exitId[b]
      BY <1>1, <2>1, <2>2, <3>1, ExitCases DEF Effective
    <3>2. CASE ~(g < exitId[b])
      <4>1. BumpExit /\ cur = b /\ g = exitId[b]
        BY <1>1, <2>1, <2>7, <3>2, ExitIdCases
      <4>2. ~Effective(exits[b][g]) /\ pc = "bump"
        BY <1>1, <4>1 DEF BumpExit, At, ExitsInOrder, Exit
      <4>3. QED
        BY <1>1, <4>2, ExitCases DEF Effective
    <3>3. QED
      BY <3>1, <3>2
  <2>8. QED
    BY <2>3, <2>4, <2>6, <2>7
<1>2. ASSUME cur \in Bets, status[cur] = "closing", cur' = cur, exitId' = exitId
      PROVE  exitId[cur] \in Gens /\ Exit(cur)' = exits'[cur][exitId[cur]]
  BY <1>2 DEF RowsConsistent, TypeOK, Exit
<1>3. ASSUME cur' \in Bets, pc' = "bump" PROVE ~Effective(Exit(cur))'
  <2>1. CASE ExitNotFound
    <3>1. cur \in Bets /\ status[cur] = "closing" /\ cur' = cur /\ exitId' = exitId /\ exits' = exits
          /\ ~Visible(Exit(cur))
      BY <1>3, <2>1, ConstantFacts DEF ExitNotFound, At, ControlConsistent, NextBet, store, broker
    <3>2. Exit(cur).st = "none" /\ Exit(cur).filled = 0
      BY <1>2, <3>1 DEF ExitsInOrder, Visible, Exit, TypeOK, Order
    <3>3. QED
      BY <1>2, <3>1, <3>2 DEF Effective, Exit
  <2>2. CASE CancelExit
    <3>1. cur \in Bets /\ pc = "cancel" /\ status[cur] = "closing" /\ cur' = cur /\ exitId' = exitId
      BY <2>2 DEF CancelExit, At, ControlConsistent, Goto, store
    <3>2. exitId[cur] \in Gens /\ Exit(cur).filled = 0 /\ qty[cur] > 0 /\ Exit(cur).st # "hidden"
      BY <1>2, <3>1 DEF ExitsInOrder, RowsConsistent, Exit
    <3>3. \/ exits' = exits /\ Exit(cur).st # "live"
          \/ exits' = [exits EXCEPT ![cur][exitId[cur]] = Becomes(@, "dead")]
      BY <2>2, <3>2 DEF CancelExit
    <3>4. exits'[cur][exitId[cur]].st \notin {"live", "hidden"} /\ exits'[cur][exitId[cur]].filled = 0
      BY <3>1, <3>2, <3>3 DEF Becomes, Exit, TypeOK
    <3>5. QED
      BY <1>2, <3>1, <3>4 DEF Effective
  <2>3. CASE UNCHANGED local
    <3>1. cur \in Bets /\ pc = "bump" /\ status[cur] = "closing" /\ cur' = cur
      BY <1>3, <2>3 DEF local, ControlConsistent
    <3>2. exitId'[cur] = exitId[cur] /\ exitId[cur] \in Gens
      BY <2>3, <3>1, ExitIdCases DEF MarkClosing, BumpExit, At, Goto, local, RowsConsistent, TypeOK
    <3>3. ~Effective(exits[cur][exitId[cur]])
      BY <3>1 DEF ExitsInOrder, Exit
    <3>4. exits'[cur][exitId[cur]] = exits[cur][exitId[cur]]
      BY <3>1, <3>2, <3>3, ExitCases DEF Effective
    <3>5. QED
      BY <3>1, <3>2, <3>3, <3>4 DEF Exit, Effective
  <2>4. QED
    BY <1>3, <2>1, <2>2, <2>3, ReplaceCases
<1>4. ASSUME cur' \in Bets, pc' = "cancel" PROVE Exit(cur)'.filled = 0
  <2>1. CASE ExitPending
    BY <1>4, <2>1, ConstantFacts DEF ExitPending, At, NextBet, Exit, store, broker
  <2>2. CASE UNCHANGED local
    <3>1. cur \in Bets /\ pc = "cancel" /\ status[cur] = "closing" /\ cur' = cur
      BY <1>4, <2>2 DEF local, ControlConsistent
    <3>2. exitId'[cur] = exitId[cur] /\ exitId[cur] \in Gens
      BY <2>2, <3>1, ExitIdCases DEF MarkClosing, BumpExit, At, Goto, local, RowsConsistent, TypeOK
    <3>3. exits'[cur][exitId[cur]].filled = exits[cur][exitId[cur]].filled
      BY <3>1, <3>2, ExitCases
    <3>4. QED
      BY <3>1, <3>2, <3>3 DEF Exit, ExitsInOrder
  <2>3. QED
    BY <1>4, <2>1, <2>2, ReplaceCases
<1>5. QED
  BY <1>1, <1>3, <1>4 DEF ExitsInOrder

-----------------------------------------------------------------------------
(* Orders that fill whole.                                                  *)

\* Without partial fills an order fills for what it asks.
LEMMA WholeFill ==
  ASSUME ~PartialFills, NEW order, NEW target, NEW n \in Fills(order, target)
  PROVE  n = target
BY DEF Fills

\* What a step may do to one exit order, in any environment: it is submitted,
\* changes its state, or fills.
LEMMA ExitMoves ==
  ASSUME TypeOK, [Next]_vars, NEW b \in Bets, NEW g \in Gens
  PROVE  \/ exits'[b][g] = exits[b][g]
         \/ /\ exits'[b][g].filled = exits[b][g].filled
            /\ exits[b][g].st # "none" \/ (pc = "submit" /\ cur = b /\ g = exitId[b])
         \/ FillExit(b, g)
<1> DEFINE Moves ==
      \/ exits'[b][g] = exits[b][g]
      \/ /\ exits'[b][g].filled = exits[b][g].filled
         /\ exits[b][g].st # "none" \/ (pc = "submit" /\ cur = b /\ g = exitId[b])
      \/ FillExit(b, g)
<1> USE ConstantFacts DEF TypeOK, At, Becomes, FilledTo
<1>1. CASE SubmitExit
  <2>1. CASE exits' = exits
    BY <2>1
  <2>2. CASE exits' # exits
    <3>1. PICK st : exits' = [exits EXCEPT ![cur][exitId[cur]] = Becomes(@, st)]
      BY <1>1, <2>2 DEF SubmitExit
    <3>2. pc = "submit"
      BY <1>1 DEF SubmitExit
    <3>3. QED
      BY <3>1, <3>2
  <2>3. QED
    BY <2>1, <2>2
<1>2. CASE CancelExit
  <2>1. CASE exits' = exits
    BY <2>1
  <2>2. CASE exits' # exits
    <3>1. Exit(cur).st = "live" /\ exits' = [exits EXCEPT ![cur][exitId[cur]] = Becomes(@, "dead")]
      BY <1>2, <2>2 DEF CancelExit
    <3>2. QED
      BY <1>2, <3>1 DEF CancelExit, Exit
  <2>3. QED
    BY <2>1, <2>2
<1>3. CASE UNCHANGED exits
  BY <1>3
<1>4. CASE ManageStep
  BY <1>1, <1>2, <1>3, <1>4 DEF ManageStep, PickBet, EndPass, EntryNotFound, EntryFound,
     MarkAbandoned, MarkFilled, BookBuy, CheckHold, EnsureFindsNoFill, EnsureFindsFill,
     MarkClosing, ExitFilled, ExitPending, ExitNotFound, BumpExit, RecordClose, BookSell, broker
<1>5. CASE Start \/ BeginCycle \/ GateRefuses \/ RecordOpen \/ SubmitEntry \/ UNCHANGED vars
  BY <1>3, <1>5 DEF Start, BeginCycle, GateRefuses, RecordOpen, SubmitEntry, vars, broker
<1>6. CASE Failure
  BY <1>3, <1>6, FailureFrame DEF broker
<1>7. CASE Broker
  <2> PICK c \in Bets :
        \/ HoldElapses(c) \/ FillEntry(c) \/ RevealEntry(c) \/ EntryDies(c)
        \/ \E h \in Gens : FillExit(c, h) \/ RevealExit(c, h) \/ ExitDies(c, h)
    BY <1>7 DEF Broker
  <2>1. CASE HoldElapses(c) \/ FillEntry(c) \/ RevealEntry(c) \/ EntryDies(c)
    BY <1>3, <2>1 DEF HoldElapses, FillEntry, RevealEntry, EntryDies, broker
  <2>2. ASSUME NEW h \in Gens, FillExit(c, h) PROVE Moves
    <3>1. CASE c = b /\ h = g
      BY <2>2, <3>1
    <3>2. CASE ~(c = b /\ h = g)
      BY <2>2, <3>2 DEF FillExit
    <3>3. QED
      BY <3>1, <3>2
  <2>3. ASSUME NEW h \in Gens, RevealExit(c, h) PROVE Moves
    BY <2>3 DEF RevealExit
  <2>4. ASSUME NEW h \in Gens, ExitDies(c, h) PROVE Moves
    BY <2>4 DEF ExitDies
  <2>5. QED
    BY <2>1, <2>2, <2>3, <2>4
<1>8. QED
  BY <1>4, <1>5, <1>6, <1>7, StepCases

\* A fill of an entry order is a buy in the account, and nothing else is.
LEMMA EntryMoves ==
  ASSUME TypeOK, [Next]_vars, NEW b \in Bets
  PROVE  entry'[b].filled = entry[b].filled \/ FillEntry(b)
<1> USE DEF TypeOK, Becomes, FilledTo
<1>1. CASE SubmitEntry
  <2>1. CASE entry' = entry
    BY <2>1
  <2>2. CASE entry' # entry
    <3>1. PICK st : entry' = [entry EXCEPT ![cur] = Becomes(@, st)]
      BY <1>1, <2>2 DEF SubmitEntry
    <3>2. QED
      BY <3>1
  <2>3. QED
    BY <2>1, <2>2
<1>2. ASSUME NEW c \in Bets, FillEntry(c) \/ RevealEntry(c) \/ EntryDies(c)
      PROVE  entry'[b].filled = entry[b].filled \/ FillEntry(b)
  <2>1. CASE c = b
    BY <1>2, <2>1 DEF RevealEntry, EntryDies
  <2>2. CASE c # b
    BY <1>2, <2>2 DEF FillEntry, RevealEntry, EntryDies
  <2>3. QED
    BY <2>1, <2>2
<1>3. QED
  BY <1>1, <1>2, EntryCases

\* The process carries what it read from the entry order, or nothing.
LEMMA ObsCases ==
  ASSUME TypeOK, [Next]_vars
  PROVE  obs' \in {0, obs} \/ (cur \in Bets /\ obs' = entry[cur].filled)
<1> USE DEF TypeOK, At, Goto, NextBet
<1>1. CASE ManageStep
  BY <1>1 DEF ManageStep, PickBet, EndPass, EntryNotFound, EntryFound, MarkAbandoned,
     MarkFilled, BookBuy, CheckHold, EnsureFindsNoFill, EnsureFindsFill, MarkClosing, SubmitExit,
     ExitFilled, ExitPending, ExitNotFound, CancelExit, BumpExit, RecordClose, BookSell
<1>2. CASE Start \/ BeginCycle \/ GateRefuses \/ RecordOpen \/ SubmitEntry
  BY <1>2 DEF Start, BeginCycle, GateRefuses, RecordOpen, SubmitEntry
<1>3. CASE Failure
  BY <1>3 DEF Failure, EntryLookupFails, ExitLookupFails, CallFails, AppendFails, Crash, Abort
<1>4. CASE Broker \/ UNCHANGED vars
  BY <1>4, BrokerFrame DEF vars, local
<1>5. QED
  BY <1>1, <1>2, <1>3, <1>4, StepCases

LEMMA WholeStep ==
  ASSUME ~PartialFills, TypeOK, TypeOK', RowsConsistent, ControlConsistent, FillsWhole,
         [Next]_vars
  PROVE  FillsWhole'
<1> USE DEF FillsWhole
<1>1. obs' \in {0, Qty}
  BY ObsCases
<1>2. ASSUME NEW b \in Bets
      PROVE  /\ entry'[b].filled \in {0, Qty} /\ qty'[b] \in {0, Qty}
             /\ \A g \in Gens :
                  /\ exits'[b][g].filled \in {0, qty'[b]}
                  /\ g > exitId'[b] => exits'[b][g] = NoOrder
  <2>1. entry'[b].filled \in {0, Qty}
    <3>1. FillEntry(b) => entry'[b].filled = Qty
      BY <1>2, WholeFill DEF FillEntry, FilledTo, TypeOK
    <3>2. QED
      BY <1>2, <3>1, EntryMoves
  <2>2. qty'[b] \in {0, Qty}
    BY <1>2, RowCases
  <2>3. ASSUME NEW g \in Gens
        PROVE  /\ exits'[b][g].filled \in {0, qty'[b]}
               /\ g > exitId'[b] => exits'[b][g] = NoOrder
    <3>1. /\ g \in Int /\ exitId[b] \in Int /\ exitId'[b] \in Int
          /\ exitId[b] <= exitId'[b]
      <4>1. exitId[b] \in Gens \cup {NoExit} /\ exitId'[b] \in Gens \cup {NoExit}
        BY <1>2 DEF TypeOK
      <4>2. g \in Int /\ exitId[b] \in Int /\ exitId'[b] \in Int
        BY <2>3, <4>1, IdIsInt
      <4>3. QED
        BY <1>2, <4>2, ExitIdCases DEF NoExit
    <3>2. g > exitId[b] => exits'[b][g] = NoOrder
      <4>1. ASSUME g > exitId[b] PROVE exits[b][g].st = "none" /\ g # exitId[b]
        BY <1>2, <2>3, <3>1, <4>1 DEF NoOrder
      <4>2. QED
        BY <1>2, <2>3, <4>1, ExitMoves DEF FillExit
    <3>3. exits'[b][g].filled \in {0, qty[b]}
      <4>1. FillExit(b, g) => exits'[b][g].filled = qty[b]
        BY <1>2, <2>3, WholeFill DEF FillExit, FilledTo, TypeOK
      <4>2. QED
        BY <1>2, <2>3, <4>1, ExitMoves
    <3>4. CASE qty'[b] = qty[b]
      BY <3>1, <3>2, <3>3, <3>4
    <3>5. CASE MarkFilled /\ cur = b /\ status[b] = "open"
      <4>1. exits[b][g] = NoOrder
        BY <1>2, <2>3, <3>1, <3>5 DEF RowsConsistent, NoExit, Gens
      <4>2. exits' = exits
        BY <3>5 DEF MarkFilled, broker
      <4>3. QED
        BY <3>1, <3>2, <4>1, <4>2 DEF NoOrder
    <3>6. QED
      BY <1>2, <3>4, <3>5, RowCases
  <2>4. QED
    BY <2>1, <2>2, <2>3
<1>3. QED
  BY <1>1, <1>2

\* An exit that sold the captured quantity is left as it is.
LEMMA SoldStays ==
  ASSUME TypeOK, [Next]_vars, NEW b \in Bets, NEW g \in Gens, exits[b][g].filled = qty[b]
  PROVE  exits'[b][g].filled = qty[b]
<1>1. qty[b] \in Nat
  BY ConstantFacts DEF TypeOK
<1>2. ~FillExit(b, g)
  BY <1>1 DEF FillExit, Fills
<1>3. QED
  BY <1>2, ExitMoves

\* The process comes to record_close from an exit it found filled.
LEMMA CloseCases ==
  ASSUME TypeOK, [Next]_vars, cur' \in Bets, pc' = "close"
  PROVE  ExitFilled \/ UNCHANGED local
<1> USE ConstantFacts DEF TypeOK, At, Goto, NextBet
<1>1. CASE ManageStep
  BY <1>1 DEF ManageStep, PickBet, EndPass, EntryNotFound, EntryFound, MarkAbandoned,
     MarkFilled, BookBuy, CheckHold, EnsureFindsNoFill, EnsureFindsFill, MarkClosing, SubmitExit,
     ExitPending, ExitNotFound, CancelExit, BumpExit, RecordClose, BookSell
<1>2. CASE Start \/ BeginCycle \/ GateRefuses \/ RecordOpen \/ SubmitEntry
  BY <1>2 DEF Start, BeginCycle, GateRefuses, RecordOpen, SubmitEntry
<1>3. CASE Failure
  BY <1>3 DEF Failure, EntryLookupFails, ExitLookupFails, CallFails, AppendFails, Crash, Abort
<1>4. CASE Broker \/ UNCHANGED vars
  BY <1>4, BrokerFrame DEF vars, local
<1>5. QED
  BY <1>1, <1>2, <1>3, <1>4, StepCases

LEMMA SoldStep ==
  ASSUME TypeOK, TypeOK', RowsConsistent, ControlConsistent, FillsWhole, SoldBeforeClosed,
         [Next]_vars
  PROVE  SoldBeforeClosed'
\* A bet past its open status that keeps its exit keeps what the exit sold.
<1>1. ASSUME NEW b \in Bets, exitId[b] \in Gens, Exit(b).filled = qty[b],
             exitId'[b] = exitId[b], qty'[b] = qty[b]
      PROVE  Exit(b)'.filled = qty'[b]
  BY <1>1, SoldStays DEF Exit
<1>2. ASSUME cur' \in Bets, pc' = "close" PROVE Exit(cur)'.filled = qty'[cur']
  <2>1. CASE ExitFilled
    <3>1. cur \in Bets /\ status[cur] = "closing" /\ cur' = cur /\ UNCHANGED <<qty, exitId, exits>>
      BY <2>1 DEF ExitFilled, At, Goto, ControlConsistent, store, broker
    <3>2. exitId[cur] \in Gens
      BY <3>1 DEF RowsConsistent, TypeOK
    <3>3. Exit(cur).filled > 0 /\ Exit(cur).filled \in {0, qty[cur]}
      BY <2>1, <3>1, <3>2 DEF ExitFilled, FillsWhole, Exit
    <3>4. QED
      BY <3>1, <3>3 DEF Exit
  <2>2. CASE UNCHANGED local
    <3>1. cur' = cur /\ cur \in Bets /\ pc = "close" /\ status[cur] = "closing"
      BY <1>2, <2>2 DEF local, ControlConsistent
    <3>2. exitId'[cur] = exitId[cur] /\ exitId[cur] \in Gens
      BY <3>1, ExitIdCases DEF MarkClosing, BumpExit, At, RowsConsistent, TypeOK
    <3>3. qty'[cur] = qty[cur]
      BY <3>1, RowCases
    <3>4. QED
      BY <1>1, <3>1, <3>2, <3>3 DEF SoldBeforeClosed, Exit
  <2>3. QED
    BY <1>2, <2>1, <2>2, CloseCases
<1>3. ASSUME NEW b \in Bets, status'[b] = "closed", qty'[b] > 0
      PROVE  Exit(b)'.filled = qty'[b]
  <2>1. \/ status[b] = "closed"
        \/ RecordClose /\ cur = b /\ status[b] = "closing"
    <3>1. status[b] = "open" => qty[b] = 0
      BY DEF RowsConsistent
    <3>2. QED
      BY <1>3, <3>1, RowCases
  <2>2. qty'[b] = qty[b]
    BY <1>3, <2>1, RowCases
  <2>3. exitId[b] \in Gens
    BY <1>3, <2>1, <2>2 DEF RowsConsistent, TypeOK
  <2>4. exitId'[b] = exitId[b]
    BY <1>3, <2>1, <2>3, ExitIdCases, ConstantFacts
    DEF RecordClose, MarkClosing, BumpExit, At, ControlConsistent
  <2>5. Exit(b).filled = qty[b]
    BY <1>3, <2>1, <2>2 DEF SoldBeforeClosed, RecordClose, At
  <2>6. QED
    BY <1>1, <2>2, <2>3, <2>4, <2>5
<1>4. QED
  BY <1>2, <1>3 DEF SoldBeforeClosed

\* The position changes by the fills of the orders alone.
LEMMA HeldCases ==
  ASSUME TypeOK, [Next]_vars, NEW b \in Bets
  PROVE  \/ /\ held'[b] = held[b] /\ entry'[b].filled = entry[b].filled
            /\ \A g \in Gens : exits'[b][g].filled = exits[b][g].filled
         \/ FillEntry(b)
         \/ \E g \in Gens : FillExit(b, g)
<1> SUFFICES ASSUME ~FillEntry(b), \A g \in Gens : ~FillExit(b, g)
             PROVE  held'[b] = held[b]
  BY EntryMoves, ExitMoves
<1> USE DEF TypeOK
<1>1. CASE ManageStep
  BY <1>1 DEF ManageStep, PickBet, EndPass, EntryNotFound, EntryFound, MarkAbandoned,
     MarkFilled, BookBuy, CheckHold, EnsureFindsNoFill, EnsureFindsFill, MarkClosing, SubmitExit,
     ExitFilled, ExitPending, ExitNotFound, CancelExit, BumpExit, RecordClose, BookSell, broker
<1>2. CASE Start \/ BeginCycle \/ GateRefuses \/ RecordOpen \/ SubmitEntry \/ UNCHANGED vars
  BY <1>2 DEF Start, BeginCycle, GateRefuses, RecordOpen, SubmitEntry, vars, broker
<1>3. CASE Failure
  BY <1>3, FailureFrame DEF broker
<1>4. CASE Broker
  <2> PICK c \in Bets :
        \/ HoldElapses(c) \/ FillEntry(c) \/ RevealEntry(c) \/ EntryDies(c)
        \/ \E h \in Gens : FillExit(c, h) \/ RevealExit(c, h) \/ ExitDies(c, h)
    BY <1>4 DEF Broker
  <2>1. CASE HoldElapses(c) \/ RevealEntry(c) \/ EntryDies(c)
    BY <2>1 DEF HoldElapses, RevealEntry, EntryDies, broker
  <2>2. CASE FillEntry(c)
    <3>1. c # b
      BY <2>2
    <3>2. PICK n : held' = [held EXCEPT ![c] = held[c] + n - entry[c].filled]
      BY <2>2 DEF FillEntry
    <3>3. QED
      BY <3>1, <3>2
  <2>3. ASSUME NEW h \in Gens, FillExit(c, h) PROVE held'[b] = held[b]
    <3>1. c # b
      BY <2>3
    <3>2. PICK n : held' = [held EXCEPT ![c] = held[c] - (n - exits[c][h].filled)]
      BY <2>3 DEF FillExit
    <3>3. QED
      BY <3>1, <3>2
  <2>4. ASSUME NEW h \in Gens, RevealExit(c, h) \/ ExitDies(c, h) PROVE held'[b] = held[b]
    BY <2>4 DEF RevealExit, ExitDies
  <2>5. QED
    BY <2>1, <2>2, <2>3, <2>4
<1>5. QED
  BY <1>1, <1>2, <1>3, <1>4, StepCases

\* Only the exit under the stored coid can fill.
LEMMA FillIsCurrent ==
  ASSUME TypeOK, ExitsInOrder, NEW b \in Bets, NEW g \in Gens, FillExit(b, g)
  PROVE  g = exitId[b]
<1>1. g \in Int /\ exitId[b] \in Int
  BY IdIsInt DEF TypeOK
<1>2. /\ exits[b][g].st = "live"
      /\ g > exitId[b] => exits[b][g].st = "none"
      /\ g < exitId[b] => ~Effective(exits[b][g])
  BY DEF FillExit, ExitsInOrder
<1>3. QED
  BY <1>1, <1>2 DEF Effective

LEMMA HeldStep ==
  ASSUME TypeOK, TypeOK', RowsConsistent, ControlConsistent, ExitsInOrder, HeldIsNet,
         [Next]_vars
  PROVE  HeldIsNet'
<1> DEFINE Sold(b) == IF exitId[b] = NoExit THEN 0 ELSE Exit(b).filled
<1> SUFFICES ASSUME NEW b \in Bets PROVE held'[b] = entry'[b].filled - Sold(b)'
  BY DEF HeldIsNet
<1>1. /\ held[b] = entry[b].filled - Sold(b) /\ held[b] \in Int
      /\ entry[b].filled \in Nat /\ entry'[b].filled \in Nat /\ Sold(b) \in Nat
      /\ exitId[b] \in Gens \cup {NoExit} /\ exitId'[b] \in Gens \cup {NoExit}
  <2>1. exitId[b] \in Gens => Exit(b) \in Order
    BY DEF TypeOK, Exit
  <2>2. Sold(b) \in Nat
    <3>1. exitId[b] = NoExit \/ exitId[b] \in Gens
      BY DEF TypeOK
    <3>2. QED
      BY <2>1, <3>1, OrderIsFilled
  <2>3. entry[b].filled \in Nat /\ entry'[b].filled \in Nat
    BY OrderIsFilled DEF TypeOK
  <2>4. QED
    BY <2>2, <2>3 DEF HeldIsNet, TypeOK
<1>2. CASE /\ held'[b] = held[b] /\ entry'[b].filled = entry[b].filled
           /\ \A g \in Gens : exits'[b][g].filled = exits[b][g].filled
  <2>1. CASE exitId'[b] = exitId[b]
    BY <1>1, <1>2, <2>1 DEF Exit
  \* The first exit does not exist yet.
  <2>2. CASE MarkClosing /\ exitId[b] = NoExit /\ exitId'[b] = 0
    <3>1. 0 \in Gens /\ 0 > exitId[b]
      BY <2>2, ConstantFacts DEF NoExit
    <3>2. exits[b][0].filled = 0
      BY <3>1 DEF ExitsInOrder
    <3>3. Sold(b) = 0 /\ Sold(b)' = 0
      BY <1>2, <2>2, <3>1, <3>2 DEF Exit, NoExit
    <3>4. QED
      BY <1>1, <1>2, <3>3
  \* The exit given up sold nothing, and its replacement does not exist yet.
  <2>3. CASE BumpExit /\ cur = b /\ exitId[b] \in Gens /\ exitId'[b] = exitId[b] + 1
    <3>1. exitId[b] \in Int /\ exitId'[b] \in Gens /\ exitId'[b] > exitId[b] /\ exitId'[b] # NoExit
      <4>1. exitId[b] \in Nat
        BY <2>3, ConstantFacts
      <4>2. exitId'[b] > exitId[b] /\ exitId'[b] # NoExit
        BY ONLY <2>3, <4>1 DEF NoExit
      <4>3. QED
        BY <1>1, <4>1, <4>2
    <3>2. exits[b][exitId'[b]].filled = 0
      BY <3>1 DEF ExitsInOrder
    <3>3. ~Effective(Exit(b))
      BY <2>3 DEF BumpExit, At, ExitsInOrder
    <3>4. Exit(b).filled \in Nat /\ exitId[b] # NoExit
      <4>1. Exit(b) \in Order
        BY <2>3 DEF TypeOK, Exit
      <4>2. QED
        BY <2>3, <4>1, OrderIsFilled, ConstantFacts
    <3>5. Sold(b) = 0 /\ Sold(b)' = 0
      BY <1>2, <3>1, <3>2, <3>3, <3>4 DEF Exit, Effective
    <3>6. QED
      BY <1>1, <1>2, <3>5
  <2>4. QED
    BY <2>1, <2>2, <2>3, ExitIdCases
<1>3. CASE FillEntry(b)
  <2>1. UNCHANGED <<exits, exitId>>
    BY <1>3 DEF FillEntry, store
  <2>2. PICK n \in Fills(entry[b], Qty) :
          /\ entry' = [entry EXCEPT ![b] = FilledTo(@, n)]
          /\ held' = [held EXCEPT ![b] = @ + n - entry[b].filled]
    BY <1>3 DEF FillEntry
  <2>3. entry'[b].filled = n /\ held'[b] = held[b] + n - entry[b].filled
    BY <2>2 DEF TypeOK, FilledTo
  <2>4. Sold(b)' = Sold(b)
    BY <2>1 DEF Exit
  <2>5. QED
    BY <1>1, <2>3, <2>4
<1>4. ASSUME NEW g \in Gens, FillExit(b, g) PROVE held'[b] = entry'[b].filled - Sold(b)'
  <2>1. g = exitId[b] /\ UNCHANGED <<entry, exitId>>
    BY <1>4, FillIsCurrent DEF FillExit, store
  <2>2. PICK n \in Fills(exits[b][g], qty[b]) :
          /\ exits' = [exits EXCEPT ![b][g] = FilledTo(@, n)]
          /\ held' = [held EXCEPT ![b] = @ - (n - exits[b][g].filled)]
    BY <1>4 DEF FillExit
  <2>3. exits'[b][g].filled = n /\ held'[b] = held[b] - (n - exits[b][g].filled)
    BY <2>2 DEF TypeOK, FilledTo
  <2>4. n \in Int
    <3>1. exits[b][g].filled \in Nat /\ qty[b] \in Nat
      BY OrderIsFilled, ConstantFacts DEF TypeOK
    <3>2. QED
      BY <2>2, <3>1 DEF Fills
  <2>5. g # NoExit
    BY ConstantFacts
  <2>6. Sold(b) = exits[b][g].filled /\ Sold(b)' = n
    BY <2>1, <2>3, <2>5 DEF Exit
  <2>7. QED
    BY <1>1, <2>1, <2>3, <2>4, <2>6
<1>5. QED
  BY <1>2, <1>3, <1>4, HeldCases

-----------------------------------------------------------------------------
(* The safety theorems.                                                    *)

\* What holds of the container in every environment.
Consistent == RowsConsistent /\ ControlConsistent /\ FillsRecorded /\ LedgerFollowsTable

LEMMA AlwaysConsistent == Spec => [](TypeOK /\ Consistent)
<1>1. Init => TypeOK /\ Consistent
  BY InitTypeOK, RowsInit, ConstantFacts DEF Consistent, Init, LedgerFollowsTable, Unbooked
<1>2. TypeOK /\ Consistent /\ [Next]_vars => (TypeOK /\ Consistent)'
  BY StepTypeOK, RowsStep, ControlStep, FillsStep, LedgerStep DEF Consistent
<1>3. QED
  BY <1>1, <1>2, PTL DEF Spec

\* The durable ledger books the captured quantity of an entry or nothing, and a
\* sale only of a closed bet, of that quantity: whatever fails between mark_filled,
\* record_close and _book_fill.
THEOREM LedgerNeverLeads == Spec => []LedgerFollowsTable
BY AlwaysConsistent, PTL DEF Consistent

\* If a landed entry shows fewer not-founds than SMOKE_STALE_ENTRY_MIN_CHECKS,
\* _abandon_if_entry_dead never gives up a bet whose order landed.
THEOREM AbandonIsSafe ==
  ASSUME EntryLag < MinChecks
  PROVE  Spec => []AbandonedNeverLanded
<1>1. Init => GivenUpIsDead /\ AbandonedNeverLanded
  BY RowsInit, ConstantFacts DEF Init, AbandonedNeverLanded
<1>2. ASSUME TypeOK /\ Consistent, TypeOK', GivenUpIsDead /\ AbandonedNeverLanded, [Next]_vars
      PROVE  (GivenUpIsDead /\ AbandonedNeverLanded)'
  BY <1>2, GivenUpStep, AbandonedStep DEF Consistent
<1>3. QED
  BY <1>1, <1>2, AlwaysConsistent, PTL DEF Spec

\* When a landed exit is visible to lookups and an exit declared stale has stopped
\* working, no sequence of crashes, lost SELLs and replaced exits ever leaves a bet
\* two exits that can sell, or sells more than its entry bought.
THEOREM ExitsNeverOversell ==
  ASSUME ~ExitMayLag, ~StaleMayFill
  PROVE  Spec => []NeverOversold
<1>1. Init => ExitsInOrder
  BY RowsInit
<1>2. ASSUME TypeOK /\ Consistent, TypeOK', ExitsInOrder, [Next]_vars
      PROVE  ExitsInOrder'
  BY <1>2, ExitsStep DEF Consistent
<1>3. ASSUME TypeOK /\ Consistent, ExitsInOrder PROVE NeverOversold
  <2>1. ASSUME NEW b \in Bets, NEW g \in Gens, Effective(exits[b][g]) PROVE g = exitId[b]
    <3>1. g \in Int /\ exitId[b] \in Int
      BY <1>3, <2>1, IdIsInt DEF TypeOK, Gens
    <3>2. /\ g > exitId[b] => exits[b][g].st = "none"
          /\ exits[b][g].st = "none" => exits[b][g].filled = 0
          /\ g < exitId[b] => ~Effective(exits[b][g])
      BY <1>3, <2>1 DEF ExitsInOrder
    <3>3. exits[b][g].st # "none"
      BY <2>1, <3>1, <3>2 DEF Effective
    <3>4. ~(g > exitId[b]) /\ ~(g < exitId[b])
      BY <2>1, <3>2, <3>3
    <3>5. QED
      BY <3>1, <3>4
  <2>2. ASSUME NEW b \in Bets, NEW g \in Gens PROVE exits[b][g].filled <= entry[b].filled
    <3>1. exits[b][g].filled \in Nat /\ qty[b] \in Nat /\ entry[b].filled \in Nat
      BY <1>3, <2>2, ConstantFacts DEF TypeOK, Order
    <3>2. QED
      BY <1>3, <2>2, <3>1 DEF ExitsInOrder, Consistent, FillsRecorded
  <2>3. QED
    BY <2>1, <2>2 DEF NeverOversold
<1>4. QED
  BY <1>1, <1>2, <1>3, AlwaysConsistent, PTL DEF Spec

LEMMA AlwaysWhole ==
  ASSUME ~PartialFills
  PROVE  Spec => [](TypeOK /\ Consistent /\ FillsWhole /\ SoldBeforeClosed)
<1>1. Init => FillsWhole /\ SoldBeforeClosed
  BY ConstantFacts DEF Init, FillsWhole, SoldBeforeClosed, NoOrder
<1>2. ASSUME TypeOK /\ Consistent, TypeOK', FillsWhole /\ SoldBeforeClosed, [Next]_vars
      PROVE  (FillsWhole /\ SoldBeforeClosed)'
  BY <1>2, WholeStep, SoldStep DEF Consistent
<1>3. QED
  BY <1>1, <1>2, AlwaysConsistent, PTL DEF Spec

\* While orders fill whole, the durable ledger shows no fill the broker did not
\* make, whatever its lookups hide and whenever a stale exit fills: _book_fill
\* books the captured quantity, and _finalize_close sells only what an exit sold.
THEOREM LedgerShowsRealFills ==
  ASSUME ~PartialFills
  PROVE  Spec => []LedgerIsReal
<1>1. ASSUME TypeOK /\ Consistent, FillsWhole /\ SoldBeforeClosed PROVE LedgerIsReal
  <2> SUFFICES ASSUME NEW b \in Bets
               PROVE  /\ ledger[b].buy <= entry[b].filled
                      /\ ledger[b].sell > 0 => \E g \in Gens : exits[b][g].filled >= ledger[b].sell
    BY DEF LedgerIsReal
  <2>1. qty[b] \in Nat /\ entry[b].filled \in Nat /\ qty[b] <= entry[b].filled
    BY <1>1, OrderIsFilled, ConstantFacts DEF TypeOK, Consistent, FillsRecorded
  <2>2. ledger[b].buy \in {0, qty[b]}
    BY <1>1 DEF Consistent, LedgerFollowsTable
  <2>3. ASSUME ledger[b].sell > 0 PROVE exitId[b] \in Gens /\ exits[b][exitId[b]].filled = ledger[b].sell
    <3>1. status[b] = "closed" /\ qty[b] = ledger[b].sell
      BY <1>1, <2>3 DEF Consistent, LedgerFollowsTable
    <3>2. exitId[b] \in Gens
      BY <1>1, <2>3, <3>1 DEF Consistent, RowsConsistent, TypeOK
    <3>3. QED
      BY <1>1, <2>3, <3>1, <3>2 DEF SoldBeforeClosed, Exit
  <2>4. ledger[b].buy <= entry[b].filled
    BY <2>1, <2>2
  <2>5. ASSUME ledger[b].sell > 0 PROVE \E g \in Gens : exits[b][g].filled >= ledger[b].sell
    <3>1. ledger[b].sell \in Nat
      BY <1>1, ConstantFacts DEF TypeOK
    <3>2. QED
      BY <2>3, <2>5, <3>1
  <2>6. QED
    BY <2>4, <2>5
<1>2. QED
  BY <1>1, AlwaysWhole, PTL

\* What a bet bought and sold once it is closed.
LEMMA ClosedBet ==
  ASSUME TypeOK, Consistent, FillsWhole, SoldBeforeClosed, AbandonedNeverLanded,
         NEW b \in Bets, status[b] = "closed"
  PROVE  \/ entry[b].st = "none"
         \/ /\ exitId[b] \in Gens /\ entry[b].filled = Qty
            /\ Exit(b).filled = Qty /\ qty[b] = Qty
<1>1. CASE qty[b] = 0
  BY <1>1 DEF AbandonedNeverLanded
<1>2. CASE qty[b] # 0
  <2>1. qty[b] = Qty /\ entry[b].filled \in {0, Qty} /\ qty[b] <= entry[b].filled
    BY <1>2 DEF FillsWhole, Consistent, FillsRecorded
  <2>2. entry[b].filled = Qty
    BY <2>1, ConstantFacts
  <2>3. exitId[b] \in Gens
    BY <1>2 DEF Consistent, RowsConsistent, TypeOK
  <2>4. Exit(b).filled = Qty
    BY <2>1, ConstantFacts DEF SoldBeforeClosed
  <2>5. QED
    BY <2>1, <2>2, <2>3, <2>4
<1>3. QED
  BY <1>1, <1>2

\* While orders fill whole and a landed entry shows fewer not-founds than
\* SMOKE_STALE_ENTRY_MIN_CHECKS, mark_abandoned and record_close close only bets
\* that hold nothing: the entry never landed, or one exit sold all of it.
THEOREM ClosedBetsAreFlat ==
  ASSUME ~PartialFills, EntryLag < MinChecks
  PROVE  Spec => []ClosedMeansFlat
<1>1. ASSUME TypeOK /\ Consistent /\ FillsWhole /\ SoldBeforeClosed, AbandonedNeverLanded
      PROVE  ClosedMeansFlat
  <2> SUFFICES ASSUME NEW b \in Bets, status[b] = "closed"
               PROVE  \/ entry[b].st = "none"
                      \/ entry[b].filled > 0 /\ \E g \in Gens : exits[b][g].filled = entry[b].filled
    BY DEF ClosedMeansFlat
  <2>1. \/ entry[b].st = "none"
        \/ exitId[b] \in Gens /\ entry[b].filled = Qty /\ Exit(b).filled = Qty
    BY <1>1, ClosedBet
  <2>2. ASSUME exitId[b] \in Gens, entry[b].filled = Qty, Exit(b).filled = Qty
        PROVE  \E g \in Gens : exits[b][g].filled = entry[b].filled
    <3>1. exits[b][exitId[b]].filled = entry[b].filled
      BY <2>2 DEF Exit
    <3>2. QED
      BY ONLY <2>2, <3>1
  <2>3. Qty > 0
    BY ConstantFacts
  <2>4. QED
    BY <2>1, <2>2, <2>3
<1>2. QED
  BY <1>1, AlwaysWhole, AbandonIsSafe, PTL

-----------------------------------------------------------------------------
(* The refinement of RoundTrip.                                             *)

\* Everything the step-by-step mapping uses, at a good broker.
RoundTripInv ==
  /\ TypeOK /\ Consistent /\ FillsWhole /\ SoldBeforeClosed
  /\ GivenUpIsDead /\ AbandonedNeverLanded /\ ExitsInOrder /\ HeldIsNet

Bought == {b \in Bets : entry[b].filled > 0}
Settled == {b \in Bets : status[b] = "closed"}

LEMMA AlwaysRoundTripInv ==
  ASSUME ~ExitMayLag, ~StaleMayFill, ~PartialFills, EntryLag < MinChecks
  PROVE  Spec => []RoundTripInv
<1>1. Init => GivenUpIsDead /\ AbandonedNeverLanded /\ ExitsInOrder /\ HeldIsNet
  BY RowsInit, ConstantFacts DEF Init, AbandonedNeverLanded, HeldIsNet, NoOrder
<1>2. ASSUME TypeOK /\ Consistent /\ FillsWhole /\ SoldBeforeClosed, TypeOK',
             GivenUpIsDead /\ AbandonedNeverLanded /\ ExitsInOrder /\ HeldIsNet, [Next]_vars
      PROVE  (GivenUpIsDead /\ AbandonedNeverLanded /\ ExitsInOrder /\ HeldIsNet)'
  BY <1>2, GivenUpStep, AbandonedStep, ExitsStep, HeldStep DEF Consistent
<1>3. QED
  BY <1>1, <1>2, AlwaysWhole, PTL DEF Spec, RoundTripInv

\* The first and only fill of an entry is RoundTrip's Buy.
LEMMA FillEntryBuys ==
  ASSUME ~PartialFills, RoundTripInv, NEW b \in Bets, FillEntry(b)
  PROVE  RT!Buy(b)
<1> USE DEF RoundTripInv
<1>1. /\ UNCHANGED <<status, exits, qty>> /\ entry[b].st = "live"
      /\ entry' = [entry EXCEPT ![b] = FilledTo(@, Qty)]
      /\ held' = [held EXCEPT ![b] = @ + Qty - entry[b].filled]
  <2>1. PICK n \in Fills(entry[b], Qty) :
          /\ entry' = [entry EXCEPT ![b] = FilledTo(@, n)]
          /\ held' = [held EXCEPT ![b] = @ + n - entry[b].filled]
    BY DEF FillEntry
  <2>2. QED
    BY <2>1, WholeFill DEF FillEntry, store
<1>2. entry[b].filled = 0
  <2>1. Qty \in Fills(entry[b], Qty)
    BY WholeFill DEF FillEntry
  <2>2. entry[b].filled # Qty
    BY <2>1, ConstantFacts DEF Fills
  <2>3. QED
    BY <2>2 DEF FillsWhole
<1>3. held[b] = 0
  <2>1. \A g \in Gens : exits[b][g].filled = 0
    <3>1. qty[b] = 0
      BY <1>2, ConstantFacts DEF Consistent, FillsRecorded, TypeOK
    <3>2. QED
      BY <3>1 DEF FillsWhole
  <2>2. exitId[b] # NoExit => Exit(b).filled = 0
    BY <2>1 DEF Exit, TypeOK
  <2>3. QED
    BY <1>2, <2>2 DEF HeldIsNet
<1>4. status[b] # "closed"
  BY <1>1, <1>2, ClosedBet, ConstantFacts
<1>5. b \notin Bought \cup Settled
  BY <1>2, <1>4 DEF Bought, Settled
<1>6. held' = [held EXCEPT ![b] = Qty]
  BY <1>1, <1>2, <1>3, ConstantFacts
<1>7. Bought' = Bought \cup {b}
  BY <1>1, ConstantFacts DEF Bought, TypeOK, FilledTo
<1>8. Settled' = Settled
  BY <1>1 DEF Settled
<1>9. QED
  BY <1>5, <1>6, <1>7, <1>8 DEF RT!Buy, Bought, Settled

\* The fill of the stored exit is RoundTrip's Sell.
LEMMA FillExitSells ==
  ASSUME ~PartialFills, RoundTripInv, NEW b \in Bets, NEW g \in Gens, FillExit(b, g)
  PROVE  RT!Sell(b)
<1> USE DEF RoundTripInv
<1>1. /\ g = exitId[b] /\ g # NoExit /\ UNCHANGED <<status, entry>>
      /\ held' = [held EXCEPT ![b] = @ - (qty[b] - exits[b][g].filled)]
  <2>1. PICK n \in Fills(exits[b][g], qty[b]) :
          held' = [held EXCEPT ![b] = @ - (n - exits[b][g].filled)]
    BY DEF FillExit
  <2>2. QED
    BY <2>1, WholeFill, FillIsCurrent, ConstantFacts DEF FillExit, store
<1>2. exits[b][g].filled = 0 /\ qty[b] = Qty
  <2>1. qty[b] \in Fills(exits[b][g], qty[b])
    BY WholeFill DEF FillExit
  <2>2. qty[b] \in Nat /\ exits[b][g].filled \in Nat
    BY OrderIsFilled, ConstantFacts DEF TypeOK
  <2>3. exits[b][g].filled < qty[b]
    BY <2>1, <2>2 DEF Fills
  <2>4. QED
    BY <2>2, <2>3 DEF FillsWhole
<1>3. entry[b].filled = Qty
  BY <1>2, ConstantFacts DEF FillsWhole, Consistent, FillsRecorded
<1>4. held[b] = Qty
  BY <1>1, <1>2, <1>3, ConstantFacts DEF HeldIsNet, Exit
<1>5. held' = [held EXCEPT ![b] = 0]
  BY <1>1, <1>2, <1>4, ConstantFacts
<1>6. QED
  BY <1>1, <1>4, <1>5 DEF RT!Sell

\* Closing a row, by mark_abandoned or record_close, is RoundTrip's Settle.
LEMMA CloseSettles ==
  ASSUME RoundTripInv, NEW b \in Bets, cur = b, MarkAbandoned \/ RecordClose
  PROVE  RT!Settle(b)
<1> USE DEF RoundTripInv
<1>1. UNCHANGED <<entry, exits, held>>
  BY DEF MarkAbandoned, RecordClose, broker
<1>2. status[b] \in {"open", "closing"} /\ status' = [status EXCEPT ![b] = "closed"]
  BY DEF MarkAbandoned, RecordClose, At, Consistent, ControlConsistent, OpenStatuses
<1>3. held[b] = 0
  <2>1. CASE MarkAbandoned
    <3>1. entry[b].filled = 0 /\ exitId[b] = NoExit
      BY <2>1 DEF MarkAbandoned, At, GivenUpIsDead, Consistent, FillsRecorded,
         ControlConsistent, RowsConsistent
    <3>2. QED
      BY <3>1 DEF HeldIsNet
  <2>2. CASE RecordClose
    <3>1. status[b] = "closing" /\ Exit(b).filled = qty[b]
      BY <2>2 DEF RecordClose, At, Consistent, ControlConsistent, SoldBeforeClosed
    <3>2. qty[b] > 0 /\ exitId[b] # NoExit
      BY <3>1 DEF Consistent, RowsConsistent
    <3>3. qty[b] = Qty /\ entry[b].filled = Qty
      BY <3>2, ConstantFacts DEF FillsWhole, Consistent, FillsRecorded
    <3>4. QED
      BY <3>1, <3>2, <3>3, ConstantFacts DEF HeldIsNet
  <2>3. QED
    BY <2>1, <2>2
<1>4. Settled' = Settled \cup {b} /\ b \notin Settled
  BY <1>2 DEF Settled, TypeOK
<1>5. QED
  BY <1>1, <1>3, <1>4 DEF RT!Settle, Settled

\* Every other step leaves the mapped state alone.
LEMMA OtherStepsStutter ==
  ASSUME RoundTripInv, [Next]_vars, \A b \in Bets : ~FillEntry(b),
         \A b \in Bets, g \in Gens : ~FillExit(b, g), ~MarkAbandoned, ~RecordClose
  PROVE  UNCHANGED <<held, Bought, Settled>>
<1> USE DEF RoundTripInv
<1>1. TypeOK'
  BY StepTypeOK
<1>2. held' = held
  <2>1. \A b \in Bets : held'[b] = held[b]
    BY HeldCases
  <2>2. QED
    BY <1>1, <2>1 DEF TypeOK
<1>3. Bought' = Bought
  <2>1. \A b \in Bets : entry'[b].filled = entry[b].filled
    BY EntryMoves
  <2>2. QED
    BY <2>1 DEF Bought
<1>4. Settled' = Settled
  <2>1. \A b \in Bets : status'[b] = "closed" <=> status[b] = "closed"
    BY RowCases DEF Consistent
  <2>2. QED
    BY <2>1 DEF Settled
<1>5. QED
  BY <1>2, <1>3, <1>4

\* At a broker that fills whole, shows what landed within the checks and fills no
\* order it was asked to cancel, the container implements the abstract round trip
\* for any number of bets: whatever crashes, fails, is lost or is replaced, each
\* bet buys at most once, sells that lot at most once, and is closed in the table
\* only when it holds nothing.
THEOREM ImplementsRoundTrip ==
  ASSUME ~ExitMayLag, ~StaleMayFill, ~PartialFills, EntryLag < MinChecks
  PROVE  Spec => KeepsRoundTrip
<1>1. Init => RT!RTInit
  BY ConstantFacts DEF Init, RT!RTInit, NoOrder
<1>2. ASSUME RoundTripInv, [Next]_vars
      PROVE  [RT!RTNext]_(RT!tvars)
  <2>1. ASSUME NEW b \in Bets, FillEntry(b) PROVE RT!RTNext
    BY <1>2, <2>1, FillEntryBuys DEF RT!RTNext
  <2>2. ASSUME NEW b \in Bets, NEW g \in Gens, FillExit(b, g) PROVE RT!RTNext
    BY <1>2, <2>2, FillExitSells DEF RT!RTNext
  <2>3. CASE MarkAbandoned \/ RecordClose
    <3>1. PICK b \in Bets : cur = b
      BY <2>3 DEF MarkAbandoned, RecordClose, At
    <3>2. RT!Settle(b)
      BY <1>2, <2>3, <3>1, CloseSettles
    <3>3. QED
      BY <3>2 DEF RT!RTNext
  <2>4. CASE UNCHANGED <<held, Bought, Settled>>
    BY <2>4 DEF RT!tvars, Bought, Settled
  <2>5. QED
    BY <1>2, <2>1, <2>2, <2>3, <2>4, OtherStepsStutter
<1>3. QED
  BY <1>1, <1>2, AlwaysRoundTripInv, PTL DEF Spec, KeepsRoundTrip, RT!RTSpec

=============================================================================
