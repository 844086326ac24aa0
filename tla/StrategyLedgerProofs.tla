------------------------ MODULE StrategyLedgerProofs ------------------------
(* Theorems about StrategyLedger, for every set of ids, quantity, backend    *)
(* and number of crashes and errors: between its calls the runner's memory   *)
(* is in the ledger, and what is booked beyond the broker's fills was booked *)
(* again by a re-submission or by a save over re-read rows.                  *)
EXTENDS StrategyLedger, TLAPS

LEMMA ConstantFacts ==
  /\ Qty \in Nat /\ Qty > 0 /\ Cap \in Nat /\ Qty <= Cap
  /\ MaxErrors \in Nat /\ MaxCrashes \in Nat
BY StrategyLedgerConstants DEF StrategyLedgerConstants

\* The saturating sum keeps orders.
LEMMA SumFacts ==
  ASSUME NEW a \in 0..Cap, NEW b \in Nat
  PROVE  /\ Sum(a, b) \in 0..Cap /\ a <= Sum(a, b)
         /\ Sum(a, b) <= a + b
         /\ Sum(a, b) = a + b \/ Sum(a, b) = Cap
BY ConstantFacts DEF Sum

LEMMA AgainFacts ==
  ASSUME NEW x \in 0..Cap, NEW f \in 0..Cap, NEW q \in Nat
  PROVE  Sum(x, Lesser(f, q)) \in 0..Cap
BY ConstantFacts DEF Sum, Lesser

-----------------------------------------------------------------------------
(* Type correctness.                                                       *)

LEMMA InitTypeOK == Init => TypeOK
BY ConstantFacts DEF Init, TypeOK, Nothing, NoAnswer, OrderStates, Quantities

LEMMA RecoverTypeOK ==
  ASSUME TypeOK, Load \/ Reconcile \/ \E c \in Coids : RecoverOnRestart(c)
  PROVE  TypeOK'
<1> USE ConstantFacts DEF TypeOK, OrderStates, Quantities, NoAnswer, broker, booked
<1>1. CASE Load
  <2>1. listed' \in [Coids -> 0..Qty]
    BY <1>1 DEF Load
  <2> QED
    BY <1>1, <2>1 DEF Load
<1>2. CASE Reconcile
  <2>1. [c \in Coids |-> IF fills[c] = 0 THEN listed[c] ELSE fills[c]] \in [Coids -> 0..Cap]
    OBVIOUS
  <2> QED
    BY <1>2, <2>1 DEF Reconcile, Unsaved
<1>3. ASSUME NEW c \in Coids, RecoverOnRestart(c) PROVE TypeOK'
  BY <1>3 DEF RecoverOnRestart, Adopt
<1> QED
  BY <1>1, <1>2, <1>3

LEMMA CycleTypeOK ==
  ASSUME TypeOK,
         \/ SubmitIntents \/ Manage \/ Book \/ Save \/ Return
         \/ \E c \in Coids : Submit(c) \/ Poll(c) \/ PollRaises(c) \/ AppendFill(c)
  PROVE  TypeOK'
<1> USE ConstantFacts DEF TypeOK, OrderStates, Quantities, NoAnswer, broker, booked
<1>1. CASE SubmitIntents
  BY <1>1 DEF SubmitIntents
<1>2. CASE Manage
  BY <1>2 DEF Manage
<1>3. CASE Book
  <2> DEFINE c == answer.coid
             qty == IF answer.state \in {"open", "filled"} THEN NewQty ELSE 0
  <2>1. c \in Coids /\ qty \in Int
    BY <1>3 DEF Book, NewQty
  <2>2. CASE qty > 0
    <3>1. Sum(fills[c], qty) \in 0..Cap /\ Sum(ledger[c], qty) \in 0..Cap
          /\ Sum(extra[c], Lesser(fills[c], qty)) \in 0..Cap
      <4>1. qty \in Nat
        BY <2>1, <2>2
      <4>2. fills[c] \in 0..Cap /\ ledger[c] \in 0..Cap /\ extra[c] \in 0..Cap
        BY <2>1
      <4> HIDE DEF c, qty
      <4> QED
        BY ONLY <4>1, <4>2, SumFacts, AgainFacts
    <3>2. fills' \in [Coids -> 0..Cap] /\ ledger' \in [Coids -> 0..Cap] /\ extra' \in [Coids -> 0..Cap]
      <4>1. /\ fills' = [fills EXCEPT ![c] = Sum(@, qty)]
            /\ ledger' = [ledger EXCEPT ![c] = Sum(@, qty)]
            /\ extra' = extra \/ extra' = [extra EXCEPT ![c] = Sum(@, Lesser(fills[c], qty))]
        BY <1>3, <2>2 DEF Book
      <4> HIDE DEF c, qty
      <4> QED
        BY <3>1, <4>1
    <3> QED
      BY <1>3, <3>2 DEF Book
  <2>3. CASE ~(qty > 0)
    BY <1>3, <2>3 DEF Book
  <2> QED
    BY <2>2, <2>3
<1>4. CASE Save
  BY <1>4 DEF Save, Unsaved
<1>5. CASE Return
  BY <1>5 DEF Return
<1>6. ASSUME NEW c \in Coids, Submit(c) PROVE TypeOK'
  BY <1>6 DEF Submit, Answer, Error
<1>7. ASSUME NEW c \in Coids, Poll(c) PROVE TypeOK'
  BY <1>7 DEF Poll, Answer
<1>8. ASSUME NEW c \in Coids, PollRaises(c) PROVE TypeOK'
  BY <1>8 DEF PollRaises, Error
<1>9. ASSUME NEW c \in Coids, AppendFill(c) PROVE TypeOK'
  <2>1. Sum(ledger[c], fills[c]) \in 0..Cap /\ Sum(extra[c], Lesser(ledger[c], fills[c])) \in 0..Cap
    <3>1. fills[c] \in 0..Cap /\ ledger[c] \in 0..Cap /\ extra[c] \in 0..Cap
      OBVIOUS
    <3>2. fills[c] \in Nat /\ ledger[c] \in Nat
      BY <3>1
    <3> QED
      BY ONLY <3>1, <3>2, SumFacts, AgainFacts
  <2> QED
    BY <1>9, <2>1 DEF AppendFill
<1> QED
  BY <1>1, <1>2, <1>3, <1>4, <1>5, <1>6, <1>7, <1>8, <1>9

LEMMA WorldTypeOK ==
  ASSUME TypeOK, Crash \/ \E c \in Coids : Fill(c) \/ Die(c)
  PROVE  TypeOK'
<1> USE ConstantFacts DEF TypeOK, OrderStates, Quantities, NoAnswer, broker, memory, booked
<1>1. CASE Crash
  BY <1>1 DEF Crash, Nothing
<1>2. ASSUME NEW c \in Coids, Fill(c) PROVE TypeOK'
  BY <1>2 DEF Fill
<1>3. ASSUME NEW c \in Coids, Die(c) PROVE TypeOK'
  BY <1>3 DEF Die
<1> QED
  BY <1>1, <1>2, <1>3

LEMMA NextTypeOK == TypeOK /\ [Next]_vars => TypeOK'
<1> SUFFICES ASSUME TypeOK, [Next]_vars PROVE TypeOK'
  OBVIOUS
<1>1. CASE Step
  BY <1>1, RecoverTypeOK, CycleTypeOK DEF Step
<1>2. CASE Crash \/ \E c \in Coids : Fill(c) \/ Die(c)
  BY <1>2, WorldTypeOK
<1>3. CASE UNCHANGED vars
  BY <1>3 DEF TypeOK, vars, broker, memory, booked, NoAnswer
<1> QED
  BY <1>1, <1>2, <1>3 DEF Next

\* Type correctness, which the other theorems rest on.
THEOREM TypeCorrect == Spec => []TypeOK
<1>1. Init => TypeOK
  BY InitTypeOK
<1>2. TypeOK /\ [Next]_vars => TypeOK'
  BY NextTypeOK
<1> QED
  BY <1>1, <1>2, PTL DEF Spec

-----------------------------------------------------------------------------
(* The ledger is complete: while no save is due it has what memory has, and   *)
(* what it lacks of an adopted fill the save under way has yet to append; it  *)
(* has no more than memory with a backend that returns the rows it was given. *)

Saved ==
  /\ pc \in {"idle", "loop", "book"} => \A c \in Coids : fills[c] <= ledger[c]
  /\ pc = "save" => \A c \in Coids \ todo : fills[c] <= ledger[c]
  /\ pc # "down" /\ ~Rereads => \A c \in Coids : ledger[c] <= fills[c]

LEMMA NextSaved == TypeOK /\ Saved /\ [Next]_vars => Saved'
<1> SUFFICES ASSUME TypeOK, Saved, [Next]_vars PROVE Saved'
  OBVIOUS
<1> USE ConstantFacts DEF TypeOK, Saved, Quantities, broker, memory, booked, Rereads
<1>1. CASE Load
  BY <1>1 DEF Load
<1>2. CASE Reconcile
  <2> DEFINE adopted == [c \in Coids |-> IF fills[c] = 0 THEN listed[c] ELSE fills[c]]
  <2>1. fills' = adopted /\ todo' = Unsaved(adopted) /\ UNCHANGED <<ledger, env>> /\ pc' = "save"
    BY <1>2 DEF Reconcile
  <2>2. ~Rereads => \A c \in Coids : ledger[c] <= adopted[c]
    BY <1>2 DEF Reconcile
  <2>3. \A c \in Coids : c \notin todo' => adopted[c] <= ledger[c]
    BY <2>1 DEF Unsaved
  <2> QED
    BY <2>1, <2>2, <2>3
<1>3. CASE SubmitIntents
  BY <1>3 DEF SubmitIntents
<1>4. CASE Manage
  BY <1>4 DEF Manage
<1>5. CASE Book
  <2> DEFINE c == answer.coid
             qty == IF answer.state \in {"open", "filled"} THEN NewQty ELSE 0
  <2>1. c \in Coids /\ qty \in Int /\ pc' = "loop" /\ UNCHANGED env
    BY <1>5 DEF Book, NewQty, OrderStates
  <2>2. CASE qty > 0
    <3>1. fills' = [fills EXCEPT ![c] = Sum(@, qty)] /\ ledger' = [ledger EXCEPT ![c] = Sum(@, qty)]
      BY <1>5, <2>2 DEF Book
    <3>2. /\ fills[c] <= ledger[c] => Sum(fills[c], qty) <= Sum(ledger[c], qty)
          /\ ledger[c] <= fills[c] => Sum(ledger[c], qty) <= Sum(fills[c], qty)
      BY <2>1, <2>2 DEF Sum
    <3> HIDE DEF c, qty
    <3> QED
      BY <1>5, <2>1, <3>1, <3>2 DEF Book
  <2>3. CASE ~(qty > 0)
    BY <1>5, <2>3 DEF Book
  <2> QED
    BY <2>2, <2>3
<1>6. CASE Save
  BY <1>6 DEF Save, Unsaved
<1>7. CASE Return
  BY <1>7 DEF Return
<1>8. ASSUME NEW c \in Coids, RecoverOnRestart(c) PROVE Saved'
  BY <1>8 DEF RecoverOnRestart, Adopt
<1>9. ASSUME NEW c \in Coids, Submit(c) PROVE Saved'
  BY <1>9 DEF Submit, Error
<1>10. ASSUME NEW c \in Coids, Poll(c) \/ PollRaises(c) PROVE Saved'
  BY <1>10 DEF Poll, PollRaises, Error
<1>11. ASSUME NEW c \in Coids, AppendFill(c) PROVE Saved'
  <2>1. fills[c] <= Sum(ledger[c], fills[c])
    BY DEF Sum
  <2> QED
    BY <1>11, <2>1 DEF AppendFill
<1>12. CASE Crash
  BY <1>12 DEF Crash
<1>13. ASSUME NEW c \in Coids, Fill(c) \/ Die(c) PROVE Saved'
  BY <1>13 DEF Fill, Die
<1>14. CASE UNCHANGED vars
  BY <1>14 DEF vars
<1> QED
  BY <1>1, <1>2, <1>3, <1>4, <1>5, <1>6, <1>7, <1>8, <1>9, <1>10, <1>11, <1>12, <1>13, <1>14 DEF Next, Step

LEMMA InitSaved == Init => Saved
BY DEF Init, Saved, Nothing

\* Every method of the runner ends with what memory holds in the ledger, and
\* with no more than that if the backend returns the rows it was given
\* (recover, submit_intents, manage, PgStateStore.save).
THEOREM CallsEndSaved == Spec => []LedgerIsComplete
<1>1. TypeOK /\ Saved => LedgerIsComplete
  BY DEF TypeOK, Quantities, Saved, LedgerIsComplete
<1> QED
  BY <1>1, InitSaved, NextSaved, TypeCorrect, PTL DEF Spec

-----------------------------------------------------------------------------
(* Nothing else is booked that was not filled: what the broker told is never  *)
(* more than it has filled since, and the ledger leads memory by no more than *)
(* what was booked again.                                                     *)

Told ==
  /\ \A c \in Coids : listed[c] <= filled[c] /\ (order[c] = "none" => filled[c] = 0)
  /\ pc = "book" => answer.qty <= filled[answer.coid]
Led == pc # "down" => \A c \in Coids : ledger[c] <= fills[c] + extra[c]
Real == Told /\ Led /\ NeverOverbooked

LEMMA NextReal == TypeOK /\ Real /\ [Next]_vars => Real'
<1> SUFFICES ASSUME TypeOK, Real, [Next]_vars PROVE Real'
  OBVIOUS
<1> USE ConstantFacts DEF TypeOK, Real, Told, Led, NeverOverbooked, Quantities, broker, memory, booked
<1>1. CASE Load
  BY <1>1 DEF Load
<1>2. CASE Reconcile
  BY <1>2 DEF Reconcile
<1>3. CASE SubmitIntents
  BY <1>3 DEF SubmitIntents
<1>4. CASE Manage
  BY <1>4 DEF Manage
<1>5. CASE Book
  <2> DEFINE c == answer.coid
             qty == IF answer.state \in {"open", "filled"} THEN NewQty ELSE 0
  <2>1. /\ c \in Coids /\ qty \in Int /\ pc' = "loop" /\ UNCHANGED <<listed, filled, order>>
        /\ answer.qty \in 0..Qty /\ answer.qty <= filled[c] /\ filled[c] \in 0..Qty
    BY <1>5 DEF Book, NewQty, OrderStates
  <2>2. CASE qty > 0
    <3>1. /\ fills' = [fills EXCEPT ![c] = Sum(@, qty)]
          /\ ledger' = [ledger EXCEPT ![c] = Sum(@, qty)]
          /\ \/ qty = answer.qty - fills[c] /\ extra' = extra
             \/ /\ qty = answer.qty
                /\ extra' = [extra EXCEPT ![c] = Sum(@, Lesser(fills[c], qty))]
      BY <1>5, <2>2 DEF Book, NewQty
    <3>2. qty \in 0..Cap /\ extra'[c] \in 0..Cap
      <4>1. qty \in 0..Cap
        BY <2>1, <2>2, <3>1
      <4> HIDE DEF c, qty
      <4>2. Sum(extra[c], Lesser(fills[c], qty)) \in 0..Cap
        <5>1. fills[c] \in 0..Cap /\ extra[c] \in 0..Cap /\ qty \in Nat
          BY <2>1, <4>1
        <5> QED
          BY ONLY <5>1, AgainFacts
      <4> QED
        BY <2>1, <3>1, <4>1, <4>2
    <3>3. \/ qty = answer.qty - fills[c] /\ extra'[c] = extra[c]
          \/ qty = answer.qty /\ extra'[c] = Sum(extra[c], Lesser(fills[c], qty))
      BY <2>1, <3>1
    <3> HIDE DEF c, qty
    <3>4. /\ fills'[c] <= filled[c] + extra'[c] /\ ledger'[c] <= filled[c] + extra'[c]
          /\ ledger'[c] <= fills'[c] + extra'[c]
      <4>1. /\ fills[c] \in 0..Cap /\ ledger[c] \in 0..Cap /\ extra[c] \in 0..Cap
            /\ fills[c] <= filled[c] + extra[c] /\ ledger[c] <= filled[c] + extra[c]
            /\ ledger[c] <= fills[c] + extra[c]
            /\ fills'[c] = Sum(fills[c], qty) /\ ledger'[c] = Sum(ledger[c], qty)
        BY <1>5, <2>1, <3>1 DEF Book
      <4>2. /\ Sum(fills[c], qty) <= filled[c] + extra'[c] /\ Sum(ledger[c], qty) <= filled[c] + extra'[c]
            /\ Sum(ledger[c], qty) <= Sum(fills[c], qty) + extra'[c]
        BY ONLY <2>1, <2>2, <3>2, <3>3, <4>1, ConstantFacts DEF Sum, Lesser
      <4> QED
        BY <4>1, <4>2
    <3>5. \A d \in Coids : d # c => fills'[d] = fills[d] /\ ledger'[d] = ledger[d] /\ extra'[d] = extra[d]
      BY <3>1
    <3> QED
      BY <1>5, <2>1, <3>4, <3>5 DEF Book
  <2>3. CASE ~(qty > 0)
    BY <1>5, <2>3 DEF Book
  <2> QED
    BY <2>2, <2>3
<1>6. CASE Save
  BY <1>6 DEF Save
<1>7. CASE Return
  BY <1>7 DEF Return
<1>8. ASSUME NEW c \in Coids, RecoverOnRestart(c) PROVE Real'
  BY <1>8 DEF RecoverOnRestart, Adopt
<1>9. ASSUME NEW c \in Coids, Submit(c) PROVE Real'
  BY <1>9 DEF Submit, Answer
<1>10. ASSUME NEW c \in Coids, Poll(c) \/ PollRaises(c) PROVE Real'
  BY <1>10 DEF Poll, PollRaises, Answer
<1>11. ASSUME NEW c \in Coids, AppendFill(c) PROVE Real'
  <2>1. CASE Rereads
    <3>1. /\ ledger' = [ledger EXCEPT ![c] = Sum(@, fills[c])]
          /\ extra' = [extra EXCEPT ![c] = Sum(@, Lesser(ledger[c], fills[c]))]
          /\ UNCHANGED <<fills, filled, listed, order, answer, pc>> /\ pc = "save"
      BY <1>11, <2>1 DEF AppendFill
    <3>2. /\ extra[c] <= extra'[c] /\ ledger'[c] <= filled[c] + extra'[c]
          /\ ledger'[c] <= fills[c] + extra'[c]
      BY <3>1 DEF Sum, Lesser
    <3>3. \A d \in Coids : d # c => ledger'[d] = ledger[d] /\ extra'[d] = extra[d]
      BY <3>1
    <3>4. extra'[c] \in Int
      BY <3>1 DEF Sum, Lesser
    <3> QED
      BY <3>1, <3>2, <3>3, <3>4
  <2>2. CASE ~Rereads
    BY <1>11, <2>2 DEF AppendFill
  <2> QED
    BY <2>1, <2>2
<1>12. CASE Crash
  BY <1>12 DEF Crash, Nothing
<1>13. ASSUME NEW c \in Coids, Fill(c) \/ Die(c) PROVE Real'
  BY <1>13 DEF Fill, Die, OrderStates
<1>14. CASE UNCHANGED vars
  BY <1>14 DEF vars
<1> QED
  BY <1>1, <1>2, <1>3, <1>4, <1>5, <1>6, <1>7, <1>8, <1>9, <1>10, <1>11, <1>12, <1>13, <1>14 DEF Next, Step

LEMMA InitReal == Init => Real
BY ConstantFacts DEF Init, Real, Told, Led, NeverOverbooked, Nothing

\* With either backend, through crashes, partial fills and re-submissions: what
\* is booked beyond the broker's fills is what a re-submission booked again or
\* a save over re-read rows appended again (submit_intents, manage,
\* recover_on_restart, reconcile, PgStateStore.save).
THEOREM PositionsAreReal == Spec => []NeverOverbooked
<1>1. Real => NeverOverbooked
  BY DEF Real
<1> QED
  BY <1>1, InitReal, NextReal, TypeCorrect, PTL DEF Spec
=============================================================================
