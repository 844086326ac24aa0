------------------------------ MODULE RoundTrip ------------------------------
(***************************************************************************)
(* What a strategy container promises the shared account, order mechanics  *)
(* aside: each bet buys at most once, sells what it bought at most once,   *)
(* and is settled in the book only when it holds nothing, for good.        *)
(***************************************************************************)
EXTENDS Integers

CONSTANTS
  Trades,   \* the bets
  Lots      \* units a bet may buy, all at once

VARIABLES held,     \* units each bet holds at the broker
          bought,   \* bets that have bought
          settled   \* bets closed in the book

tvars == <<held, bought, settled>>

RTInit == held = [t \in Trades |-> 0] /\ bought = {} /\ settled = {}

Buy(t) ==
  /\ t \notin bought \cup settled
  /\ \E n \in Lots : held' = [held EXCEPT ![t] = n]
  /\ bought' = bought \cup {t}
  /\ UNCHANGED settled

Sell(t) ==
  /\ held[t] \in Lots
  /\ held' = [held EXCEPT ![t] = 0]
  /\ UNCHANGED <<bought, settled>>

Settle(t) ==
  /\ t \notin settled /\ held[t] = 0
  /\ settled' = settled \cup {t}
  /\ UNCHANGED <<held, bought>>

RTNext == \E t \in Trades : Buy(t) \/ Sell(t) \/ Settle(t)

RTSpec == RTInit /\ [][RTNext]_tvars
=============================================================================
