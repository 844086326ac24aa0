----------------------------- MODULE StrategyLedger -----------------------------
(***************************************************************************)
(* The position-keeping core of the strategies: the runner that submits a   *)
(* strategy's orders, polls them and books what the broker says it filled,  *)
(* the durable ledger of those fills, and what a restart recovers from the  *)
(* ledger and from the broker.                                              *)
(*                                                                          *)
(* quantlib/strategy_core/{production_runner,production_state,              *)
(* production_execution,paper_alpaca_executor,state}.py.  A step is a call  *)
(* of the broker or a write to the store; between two of them orders fill   *)
(* and die, and the process may crash.  An order goes by its client id, and *)
(* fills of one id are told apart by their sums alone.                      *)
(***************************************************************************)
EXTENDS Integers, FiniteSets

CONSTANTS
  Coids,      \* the client ids of the strategy's orders
  Qty,        \* the shares of each
  Cap,        \* bound on sums of booked fills, which saturate there
  MaxErrors,  \* bound on refused orders and failed look-ups
  MaxCrashes  \* bound on crashes

ASSUME StrategyLedgerConstants ==
  /\ Qty \in Nat \ {0} /\ Cap \in Nat /\ Qty <= Cap
  /\ {MaxErrors, MaxCrashes} \subseteq Nat

VARIABLES
  order,   \* an order at the broker
  filled,  \* its cumulative fill there
  fills,   \* what state.fills holds of each id
  ledger,  \* what the durable ledger does
  call,    \* the runner's method: recover, submit or manage
  pc,      \* where it is in it
  asked,   \* the ids submit_intents returned
  todo,    \* ids the method has yet to query, submit, poll or save
  answer,  \* the broker's last answer, not yet booked
  listed,  \* broker_fills, as of the restart
  env,     \* which backend the store was given, and what is left of the bounds
  extra    \* history: what was booked again, of each id

broker == <<order, filled>>
memory == <<fills, call, pc, asked, todo, answer, listed>>
booked == <<ledger, extra>>
vars == <<broker, memory, booked, env>>

Sum(a, b) == IF a + b < Cap THEN a + b ELSE Cap
Lesser(a, b) == IF a < b THEN a ELSE b

(* The rows come back as new objects (Postgres), or as the ones given (dict). *)
Rereads == env.rereads

Nothing == [c \in Coids |-> 0]
NoAnswer == [coid |-> "none", state |-> "none", qty |-> 0]
\* The broker's view of c: with a fill, an open order is partially filled.
Answer(c) == [coid |-> c, state |-> order[c], qty |-> filled[c]]

Error == env.errors > 0 /\ env' = [env EXCEPT !.errors = @ - 1]

Init ==
  /\ order = [c \in Coids |-> "none"] /\ filled = Nothing
  /\ fills = Nothing /\ ledger = Nothing
  /\ call = "recover" /\ pc = "down" /\ asked = {} /\ todo = {}
  /\ answer = NoAnswer /\ listed = Nothing
  /\ env \in [rereads : BOOLEAN, errors : {MaxErrors}, crashes : {MaxCrashes}]
  /\ extra = Nothing

-----------------------------------------------------------------------------
(* The broker. *)

Fill(c) ==
  /\ order[c] = "open" /\ \E q \in (filled[c] + 1)..Qty :
       /\ filled' = [filled EXCEPT ![c] = q]
       /\ order' = IF q = Qty THEN [order EXCEPT ![c] = "filled"] ELSE order
  /\ UNCHANGED <<memory, booked, env>>

(* Canceled or expired, with what it had filled. *)
Die(c) ==
  /\ order[c] = "open" /\ order' = [order EXCEPT ![c] = "dead"]
  /\ UNCHANGED <<filled, memory, booked, env>>

-----------------------------------------------------------------------------
(* Restart: load, query each pending id, adopt from the broker's list, save. *)

(* The caller lists its broker fills and its pending ids: those it asked    *)
(* for, less what the list call or a failed query leaves out.               *)
Load ==
  /\ pc = "down"
  /\ fills' = ledger
  /\ \E L \in SUBSET Coids : listed' = [c \in Coids |-> IF c \in L THEN filled[c] ELSE 0]
  /\ todo' \in SUBSET asked
  /\ call' = "recover" /\ pc' = "query"
  /\ UNCHANGED <<broker, asked, answer, booked, env>>

Adopt(c, qty) == IF fills[c] = 0 THEN [fills EXCEPT ![c] = qty] ELSE fills

RecoverOnRestart(c) ==
  /\ pc = "query" /\ c \in todo /\ todo' = todo \ {c}
  /\ fills' = IF order[c] \in {"open", "filled"} THEN Adopt(c, filled[c]) ELSE fills
  /\ UNCHANGED <<broker, call, pc, asked, answer, listed, booked, env>>

(* The ids whose fills save appends. *)
Unsaved(new) == {c \in Coids : IF Rereads THEN new[c] > 0 ELSE new[c] > ledger[c]}

\* Mutant: the adopted fills are not saved.
AdoptUnsaved ==
  /\ pc = "query" /\ todo = {}
  /\ fills' = [c \in Coids |-> IF fills[c] = 0 THEN listed[c] ELSE fills[c]]
  /\ pc' = "idle"
  /\ UNCHANGED <<broker, call, asked, todo, answer, listed, booked, env>>

Reconcile ==
  /\ pc = "query" /\ todo = {}
  /\ LET new == [c \in Coids |-> IF fills[c] = 0 THEN listed[c] ELSE fills[c]]
     IN  fills' = new /\ todo' = Unsaved(new)
  /\ pc' = "save"
  /\ UNCHANGED <<broker, call, asked, answer, listed, booked, env>>

-----------------------------------------------------------------------------
(* A cycle: submit_intents, then manage. *)

SubmitIntents ==
  /\ pc = "idle" /\ call # "submit" /\ call' = "submit" /\ pc' = "loop"
  /\ todo' \in SUBSET Coids
  /\ UNCHANGED <<broker, fills, asked, answer, listed, booked, env>>

(* An id the broker knows is answered with the order it names; one it       *)
(* refuses is returned to the caller all the same.                          *)
Submit(c) ==
  /\ pc = "loop" /\ call = "submit" /\ c \in todo
  /\ todo' = todo \ {c} /\ asked' = asked \cup {c} /\ pc' = "book"
  /\ \/ /\ order[c] # "none" /\ answer' = Answer(c)
        /\ UNCHANGED <<broker, env>>
     \/ /\ order[c] = "none"
        /\ \E q \in 0..Qty :
             /\ order' = [order EXCEPT ![c] = IF q = Qty THEN "filled" ELSE "open"]
             /\ filled' = [filled EXCEPT ![c] = q]
             /\ answer' = [coid |-> c, state |-> order'[c], qty |-> q]
        /\ UNCHANGED env
     \/ /\ order[c] = "none" /\ Error /\ answer' = Answer(c)
        /\ UNCHANGED broker
  /\ UNCHANGED <<fills, call, listed, booked>>

Manage ==
  /\ pc = "idle" /\ call = "submit" /\ call' = "manage" /\ pc' = "loop"
  /\ todo' = asked
  /\ UNCHANGED <<broker, fills, asked, answer, listed, booked, env>>

Poll(c) ==
  /\ pc = "loop" /\ call = "manage" /\ c \in todo /\ order[c] # "none"
  /\ todo' = todo \ {c} /\ answer' = Answer(c) /\ pc' = "book"
  /\ UNCHANGED <<broker, fills, call, asked, listed, booked, env>>

(* The KeyError of an id the broker does not know, or of a look-up that     *)
(* fails, ends the cycle.                                                   *)
PollRaises(c) ==
  /\ pc = "loop" /\ call = "manage" /\ c \in todo
  /\ IF order[c] = "none" THEN UNCHANGED env ELSE Error
  /\ todo' = {} /\ pc' = "idle"
  /\ UNCHANGED <<broker, fills, call, asked, answer, listed, booked>>

\* Mutants: a poll's answer is booked whole, and only once for an id.
NewQtyWhole == answer.qty
NewQtyOnce == IF fills[answer.coid] = 0 THEN answer.qty ELSE 0
(* Manage books what is new of the cumulative fill, submit_intents all.     *)
NewQty == IF call = "manage" THEN answer.qty - fills[answer.coid] ELSE answer.qty

(* apply_fill, then append_fill: a crash between them loses both.  An id    *)
(* submitted again is booked again.                                         *)
Book ==
  LET c == answer.coid
      qty == IF answer.state \in {"open", "filled"} THEN NewQty ELSE 0
  IN  /\ pc = "book" /\ pc' = "loop" /\ answer' = NoAnswer
      /\ IF qty > 0
         THEN /\ fills' = [fills EXCEPT ![c] = Sum(@, qty)]
              /\ ledger' = [ledger EXCEPT ![c] = Sum(@, qty)]
              /\ extra' = IF call = "manage" THEN extra
                          ELSE [extra EXCEPT ![c] = Sum(@, Lesser(fills[c], qty))]
         ELSE UNCHANGED <<fills, booked>>
      /\ UNCHANGED <<broker, call, asked, todo, listed, env>>

-----------------------------------------------------------------------------
(* save, at the end of every method; one append per row, in some order.  A  *)
(* row that was read into a new object is taken for new: appended again.    *)

Save ==
  /\ pc = "loop" /\ todo = {}
  /\ todo' = Unsaved(fills) /\ pc' = "save"
  /\ UNCHANGED <<broker, fills, call, asked, answer, listed, booked, env>>

AppendFill(c) ==
  /\ pc = "save" /\ c \in todo /\ todo' = todo \ {c}
  /\ IF Rereads
     THEN /\ ledger' = [ledger EXCEPT ![c] = Sum(@, fills[c])]
          /\ extra' = [extra EXCEPT ![c] = Sum(@, Lesser(ledger[c], fills[c]))]
     ELSE ledger' = [ledger EXCEPT ![c] = fills[c]] /\ UNCHANGED extra
  /\ UNCHANGED <<broker, fills, call, pc, asked, answer, listed, env>>

Return ==
  /\ pc = "save" /\ todo = {} /\ pc' = "idle"
  /\ UNCHANGED <<broker, fills, call, asked, todo, answer, listed, booked, env>>

(* The ids a strategy asked for can be made again: they are its decisions'. *)
Crash ==
  /\ pc # "down" /\ env.crashes > 0 /\ env' = [env EXCEPT !.crashes = @ - 1]
  /\ pc' = "down" /\ fills' = Nothing /\ answer' = NoAnswer /\ todo' = {}
  /\ UNCHANGED <<broker, call, asked, listed, booked>>

-----------------------------------------------------------------------------
Step ==
  \/ Load \/ Reconcile \/ SubmitIntents \/ Manage \/ Book \/ Save \/ Return
  \/ \E c \in Coids :
       RecoverOnRestart(c) \/ Submit(c) \/ Poll(c) \/ PollRaises(c) \/ AppendFill(c)

Next == Step \/ Crash \/ \E c \in Coids : Fill(c) \/ Die(c)

Spec == Init /\ [][Next]_vars

(* The process runs while it is up and is started again when it is not; a   *)
(* method takes a finite basket, and submit_intents and manage alternate.   *)
FairSpec == Spec /\ WF_vars(Step)

-----------------------------------------------------------------------------
OrderStates == {"none", "open", "filled", "dead"}
Quantities == [Coids -> 0..Cap]
TypeOK ==
  /\ order \in [Coids -> OrderStates]
  /\ filled \in [Coids -> 0..Qty] /\ listed \in [Coids -> 0..Qty]
  /\ fills \in Quantities /\ ledger \in Quantities /\ extra \in Quantities
  /\ call \in {"recover", "submit", "manage"}
  /\ pc \in {"down", "query", "idle", "loop", "book", "save"}
  /\ asked \subseteq Coids /\ todo \subseteq Coids
  /\ answer.state \in OrderStates /\ answer.qty \in 0..Qty
  /\ IF pc = "book" THEN answer.coid \in Coids ELSE answer = NoAnswer
  /\ env \in [rereads : BOOLEAN, errors : 0..MaxErrors, crashes : 0..MaxCrashes]

(* No share is booked that the broker did not fill, in memory or in the     *)
(* ledger, whichever of submit, poll, query and list told of it, and        *)
(* wherever the process died in between; but for the shares of an id that   *)
(* was submitted again (submit_intents) and the rows a re-reading backend   *)
(* made save append again.                                                  *)
NeverOverbooked ==
  \A c \in Coids : fills[c] <= filled[c] + extra[c] /\ ledger[c] <= filled[c] + extra[c]

(* Between its methods the process has nothing that the ledger has not: a   *)
(* restart starts from no less than the positions it ended with, and from   *)
(* exactly those if the backend returns the rows it was given.              *)
LedgerIsComplete ==
  pc = "idle" =>
    \A c \in Coids : fills[c] <= ledger[c] /\ (Rereads \/ fills[c] = ledger[c])

(* What a filled order bought is booked in the end, its part from before a  *)
(* crash and its part from after it, unless an id the broker does not have  *)
(* is asked for: manage raises at each poll of it.                          *)
FilledIsBooked ==
  \A c \in Coids :
    order[c] = "filled" ~> ledger[c] >= Qty \/ \E d \in asked : order[d] = "none"
=============================================================================
