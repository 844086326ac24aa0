------------------------------- MODULE FrameFeed -------------------------------
(* What a subscription to the bus promises.  From the frame a reader first   *)
(* catches on a stream it is given every frame, in order and once, as long   *)
(* as it is never Kept frames behind; and what it is owed it is given.  Only  *)
(* an error on the way may make it skip.  It restarts without a memory.       *)
EXTENDS Integers

CONSTANTS Readers, Streams, Kept

VARIABLES
  owed,    \* frames of each stream a reader has yet to be given, or Waiting
  given,   \* frames of each stream its last reading gave it
  errors   \* errors still to come

Waiting == -1
None == [s \in Streams |-> 0]
Apart == [s \in Streams |-> Waiting]

Init ==
  /\ owed = [r \in Readers |-> Apart] /\ given = [r \in Readers |-> None]
  /\ errors \in Nat

(* A frame is owed to who reads the stream, and may be the first to somebody. *)
Owing(n) ==
  CASE n = Waiting -> {Waiting, 1}
    [] n >= Kept -> {n, n + 1}
    [] OTHER -> {n + 1}

Publish(s) ==
  /\ \A r \in Readers : \E n \in Owing(owed[r][s]) : owed'[r] = [owed[r] EXCEPT ![s] = n]
  /\ DOMAIN owed' = Readers
  /\ UNCHANGED <<given, errors>>

(* A reader is given the oldest frames it is owed. *)
Give(r) ==
  \E k \in [Streams -> 0..Kept] :
    /\ k # None /\ \A s \in Streams : k[s] > 0 => k[s] <= owed[r][s]
    /\ owed' = [owed EXCEPT ![r] = [s \in Streams |-> owed[r][s] - k[s]]]
    /\ given' = [given EXCEPT ![r] = k]
    /\ UNCHANGED errors

Forget(r) == given' = [given EXCEPT ![r] = None] /\ UNCHANGED <<owed, errors>>

Skip(r) ==
  /\ errors > 0 /\ errors' = errors - 1
  /\ \E k \in [Streams -> 0..(2 * Kept)] :
       /\ \A s \in Streams : k[s] > 0 => k[s] <= owed[r][s]
       /\ owed' = [owed EXCEPT ![r] = [s \in Streams |-> owed[r][s] - k[s]]]
  /\ UNCHANGED given

Restart(r) ==
  /\ owed' = [owed EXCEPT ![r] = Apart] /\ given' = [given EXCEPT ![r] = None]
  /\ UNCHANGED errors

Next ==
  \/ \E s \in Streams : Publish(s)
  \/ \E r \in Readers : Give(r) \/ Forget(r) \/ Skip(r) \/ Restart(r)

vars == <<owed, given, errors>>

Feed == Init /\ [][Next]_vars /\ \A r \in Readers : WF_vars(Give(r))
===============================================================================
