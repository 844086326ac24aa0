-------------------------- MODULE DeployQueueProofs --------------------------
(* Theorems about DeployQueue, for every set of services, every number of     *)
(* processes, merges and deaths: no consumed merge loses its deploy but with  *)
(* the process that had claimed it, no pull brings the feature-computer a     *)
(* change its guard could have known of, and the queue repeats no intent.     *)
EXTENDS DeployQueue, FiniteSetTheorems, WellFoundedInduction, TLAPS

LEMMA ConstantFacts ==
  /\ MaxMerges \in Nat /\ MaxDeaths \in Nat
  /\ Tier1 \cap Tier2 = {}
BY DeployConstants DEF DeployConstants

\* A non-empty set of numbers up to N has a greatest one: the sets of numbers
\* above its elements are well-founded under strict inclusion.
LEMMA Greatest ==
  ASSUME NEW N \in Nat, NEW T, T \subseteq 0..N, T # {}
  PROVE  \E x \in T : \A y \in T : y <= x
<1> DEFINE Above == {(x + 1)..N : x \in T}
           R == StrictSubsetOrdering(0..N)
<1>1. Above \subseteq FiniteSubsetsOf(0..N)
  <2>1. IsFiniteSet(0..N)
    BY FS_Interval
  <2>2. \A x \in T : (x + 1)..N \subseteq 0..N
    BY SMT
  <2> QED
    BY <2>1, <2>2, FS_Subset DEF FiniteSubsetsOf
<1>2. Above # {}
  OBVIOUS
<1>3. PICK A \in Above : \A B \in Above : <<B, A>> \notin R
  <2> HIDE DEF Above, R
  <2>1. IsWellFoundedOn(R, FiniteSubsetsOf(0..N))
    BY FS_StrictSubsetOrderingWellFounded DEF R
  <2> QED
    BY <1>1, <1>2, <2>1, WFMin
<1>4. PICK x \in T : A = (x + 1)..N
  OBVIOUS
<1>5. ASSUME NEW y \in T, x < y PROVE FALSE
  <2>1. (y + 1)..N \subseteq A /\ (y + 1)..N # A
    BY <1>4, <1>5
  <2>2. (y + 1)..N \in Above /\ A \in SUBSET (0..N) /\ (y + 1)..N \in SUBSET (0..N)
    BY <1>4, SMT
  <2> QED
    BY <1>3, <2>1, <2>2 DEF StrictSubsetOrdering
<1> QED
  BY <1>5

\* _coalesce_newest keeps, of each service, an entry as new as any.
LEMMA NewestKeeps ==
  ASSUME NEW Q, Q \subseteq Entry, NEW e \in Q
  PROVE  \E f \in Newest(Q) : f.service = e.service /\ e.sha <= f.sha
<1> DEFINE T == {f.sha : f \in {g \in Q : g.service = e.service}}
<1>1. T \subseteq 0..MaxMerges /\ T # {}
  BY DEF Entry, Shas
<1>2. PICK x \in T : \A y \in T : y <= x
  BY <1>1, Greatest, ConstantFacts
<1> QED
  BY <1>2 DEF Newest

-----------------------------------------------------------------------------
(* Type correctness.                                                       *)

LEMMA InitTypeOK == Init => TypeOK
BY ConstantFacts DEF Init, TypeOK, Shas, Merges, Steps, NoSha

LEMMA ObserveTypeOK ==
  ASSUME TypeOK, NEW p \in Procs,
         Fetch(p) \/ FirstRun(p) \/ NothingNew(p) \/ Observe(p) \/ Truncate(p) \/ Write(p)
  PROVE  TypeOK'
<1> USE ConstantFacts DEF TypeOK, repo, tree, local, hands, past, Later, Shas, Steps, NoSha, At, Goto
<1>1. CASE Fetch(p)
  BY <1>1 DEF Fetch
<1>2. CASE FirstRun(p)
  <2>1. (seen + 1)..fetched \subseteq Merges
    BY DEF Merges
  <2>2. seen' \in 0..fetched /\ UNCHANGED fetched
    BY <1>2 DEF FirstRun
  <2> QED
    BY <1>2, <2>1, <2>2 DEF FirstRun
<1>3. CASE NothingNew(p)
  BY <1>3 DEF NothingNew
<1>4. CASE Observe(p)
  BY <1>4 DEF Observe, Diff
<1>5. CASE Truncate(p)
  BY <1>5 DEF Truncate
<1>6. CASE Write(p)
  BY <1>6 DEF Write
<1> QED
  BY <1>1, <1>2, <1>3, <1>4, <1>5, <1>6

LEMMA QueueTypeOK ==
  ASSUME TypeOK, NEW p \in Procs,
         Enqueue(p) \/ ClaimBatch(p) \/ Finish(p)
  PROVE  TypeOK'
<1> USE ConstantFacts DEF TypeOK, repo, tree, local, hands, past, Later, Steps, At, Goto
<1>1. CASE Enqueue(p)
  <2>1. {[service |-> s, sha |-> new[p], ripe |-> FALSE] : s \in plan[p]} \subseteq Entry
    <3>1. new[p] \in 0..MaxMerges /\ plan[p] \subseteq Services
      BY DEF Shas
    <3>2. \A s \in Services, n \in 0..MaxMerges :
            [service |-> s, sha |-> n, ripe |-> FALSE] \in Entry
      BY DEF Entry, Shas
    <3> QED
      BY ONLY <3>1, <3>2
  <2>2. queue' \subseteq Entry
    BY <1>1, <2>1 DEF Enqueue, Added
  <2> QED
    BY <1>1, <2>2 DEF Enqueue
<1>2. CASE ClaimBatch(p)
  <2>1. Newest(Ripe) \subseteq Entry
    BY DEF Newest, Ripe
  <2> QED
    BY <1>2, <2>1 DEF ClaimBatch
<1>3. CASE Finish(p)
  <2>1. queue' \subseteq Entry
    BY <1>3 DEF Finish, Added
  <2> QED
    BY <1>3, <2>1 DEF Finish
<1> QED
  BY <1>1, <1>2, <1>3

LEMMA ApplyTypeOK ==
  ASSUME TypeOK, NEW p \in Procs,
         \/ \E s \in Tier1 : Defer(p, s) \/ Check(p, s) \/ FailOpen(p, s) \/ Build(p, s)
         \/ Blocked(p) \/ Pull(p) \/ PullFails(p) \/ BuildFails(p) \/ Die(p)
  PROVE  TypeOK'
<1> USE ConstantFacts DEF TypeOK, repo, tree, local, hands, past, Later, Shas, Steps, At, Goto, GiveUp
<1>1. ASSUME NEW s \in Tier1, Defer(p, s) PROVE TypeOK'
  BY <1>1 DEF Defer
<1>2. ASSUME NEW s \in Tier1, Check(p, s) \/ FailOpen(p, s) PROVE TypeOK'
  BY <1>2 DEF Check, FailOpen, Passed
<1>3. ASSUME NEW s \in Tier1, Build(p, s) PROVE TypeOK'
  <2>1. running' \in [Services -> 0..head]
    BY <1>3 DEF Build, Services
  <2> QED
    BY <1>3, <2>1 DEF Build
<1>4. CASE Blocked(p)
  BY <1>4 DEF Blocked
<1>5. CASE Pull(p)
  BY <1>5 DEF Pull
<1>6. CASE PullFails(p)
  BY <1>6 DEF PullFails
<1>7. CASE BuildFails(p)
  <2>1. \A e \in cur[p] : e.service \in Services
    BY DEF Entry
  <2>2. running' \in [Services -> 0..head]
    BY <1>7, <2>1 DEF BuildFails
  <2> QED
    BY <1>7, <2>2 DEF BuildFails
<1>8. CASE Die(p)
  BY <1>8 DEF Die
<1> QED
  BY <1>1, <1>2, <1>3, <1>4, <1>5, <1>6, <1>7, <1>8

LEMMA OthersTypeOK ==
  ASSUME TypeOK,
         \/ Merge \/ Ripen \/ RelaunchBegins \/ RelaunchRestarts \/ DrainCoordinated
         \/ UNCHANGED vars
  PROVE  TypeOK'
<1> USE ConstantFacts DEF TypeOK, repo, tree, local, hands, past
<1>1. CASE Merge
  <2>1. PICK S \in SUBSET Services : touches' = [touches EXCEPT ![main + 1] = S]
    BY <1>1 DEF Merge
  <2>2. touches' \in [Merges -> SUBSET Services]
    BY <2>1
  <2> QED
    BY <1>1, <2>2 DEF Merge, Shas
<1>2. CASE Ripen
  <2>1. PICK e \in queue : queue' = {[o EXCEPT !.ripe = @ \/ o.sha = e.sha] : o \in queue}
    BY <1>2 DEF Ripen
  <2>2. \A o \in queue : (o.ripe \/ o.sha = e.sha) \in BOOLEAN
    OBVIOUS
  <2>3. \A o \in Entry, b \in BOOLEAN : [o EXCEPT !.ripe = b] \in Entry
    BY DEF Entry
  <2>4. queue' \subseteq Entry
    BY <2>1, <2>2, <2>3
  <2> QED
    BY <1>2, <2>4 DEF Ripen
<1>3. CASE RelaunchBegins
  BY <1>3 DEF RelaunchBegins, Shas
<1>4. CASE RelaunchRestarts
  BY <1>4 DEF RelaunchRestarts
<1>5. CASE DrainCoordinated
  BY <1>5 DEF DrainCoordinated
<1>6. CASE UNCHANGED vars
  BY <1>6 DEF vars
<1> QED
  BY <1>1, <1>2, <1>3, <1>4, <1>5, <1>6

LEMMA NextTypeOK == TypeOK /\ [Next]_vars => TypeOK'
BY ObserveTypeOK, QueueTypeOK, ApplyTypeOK, OthersTypeOK DEF Next, Tick

\* Shas stay within what was fetched, HEAD within the refs, containers within
\* HEAD, through every step (all of ops/auto_deploy.py).
THEOREM TypeCorrect == Spec => []TypeOK
BY InitTypeOK, NextTypeOK, PTL DEF Spec

-----------------------------------------------------------------------------
(* The tree's surface of the feature-computer.                             *)

\* A later start leaves a part of an interval.
LEMMA Narrower ==
  ASSUME NEW a \in Nat, NEW b \in Nat, a <= b, NEW c \in Int, NEW m \in (b + 1)..c
  PROVE  m \in (a + 1)..c /\ m \in Nat /\ b < m /\ m <= c
OBVIOUS

GatedInv == TypeOK /\ JudgedIsClean

LEMMA GatedNext == GatedInv /\ [Next]_vars => GatedInv'
<1> SUFFICES ASSUME GatedInv, [Next]_vars PROVE GatedInv'
  OBVIOUS
<1> USE DEF GatedInv, JudgedIsClean, At, Goto
<1>0. TypeOK'
  BY NextTypeOK
<1>1. /\ head \in Nat /\ fetched \in Nat /\ main \in Nat
      /\ head <= fetched /\ fetched <= main /\ main <= MaxMerges
      /\ at \in [Procs -> Steps] /\ judged \in [Procs -> {NoSha} \cup 0..fetched]
      /\ touches \in [Merges -> SUBSET Services] /\ NoSha = -1 /\ MaxMerges \in Nat
  BY ConstantFacts DEF TypeOK, Shas, NoSha
<1>2. ASSUME UNCHANGED touches, head' \in {head, main},
             \A p \in Procs : at'[p] = "pull" => at[p] = "pull" /\ judged'[p] = judged[p]
      PROVE  GatedInv'
  <2>1. ASSUME NEW p \in Procs, at'[p] = "pull", NEW m \in (head' + 1)..judged'[p]
        PROVE  touches'[m] \cap Tier2 = {}
    <3>1. at[p] = "pull" /\ judged'[p] = judged[p] /\ judged[p] \in Int /\ head <= head'
      BY <1>1, <1>2, <2>1
    <3>2. head' \in Nat
      BY <1>1, <1>2
    <3>3. m \in (head + 1)..judged[p]
      BY <1>1, <3>1, <3>2, Narrower
    <3> QED
      BY <1>2, <3>1, <3>3
  <2> QED
    BY <1>0, <2>1
<1>3. ASSUME NEW p \in Procs,
             \/ Fetch(p) \/ FirstRun(p) \/ NothingNew(p) \/ Observe(p) \/ Enqueue(p)
             \/ Truncate(p) \/ Write(p) \/ ClaimBatch(p) \/ Blocked(p) \/ Pull(p)
             \/ PullFails(p) \/ BuildFails(p) \/ Finish(p) \/ Die(p)
             \/ \E s \in Tier1 : Defer(p, s) \/ Build(p, s)
      PROVE  GatedInv'
  BY <1>1, <1>2, <1>3
     DEF Fetch, FirstRun, NothingNew, Observe, Enqueue, Truncate, Write, ClaimBatch, Blocked,
         Defer, Build, Pull, PullFails, BuildFails, Finish, Die, GiveUp, repo, tree, local, hands
<1>4. ASSUME NEW p \in Procs, NEW s \in Tier1, NEW sha, Passed(p, s, sha),
             \A m \in (head + 1)..sha : touches[m] \cap Tier2 = {}
      PROVE  GatedInv'
  <2>1. /\ UNCHANGED <<touches, head>> /\ judged' = [judged EXCEPT ![p] = sha]
        /\ at' = [at EXCEPT ![p] = "pull"]
    BY <1>4 DEF Passed, repo, tree
  <2> QED
    BY <1>0, <1>1, <1>4, <2>1
<1>5. ASSUME NEW p \in Procs, NEW s \in Tier1, Check(p, s) PROVE GatedInv'
  <2>1. \A m \in (head + 1)..fetched : touches[m] \cap Tier2 = {}
    BY <1>1, <1>5 DEF Check, FfIsSafe, Diff, Services, Merges
  <2> QED
    BY <1>4, <1>5, <2>1 DEF Check
<1>6. ASSUME NEW p \in Procs, NEW s \in Tier1, FailOpen(p, s) PROVE GatedInv'
  <2>1. (head + 1)..NoSha = {}
    BY <1>1
  <2> QED
    BY <1>4, <1>6, <2>1 DEF FailOpen
<1>7. CASE Merge
  <2>1. /\ UNCHANGED <<head, at, judged>>
        /\ \A m \in Merges : m <= main => touches'[m] = touches[m]
    BY <1>1, <1>7 DEF Merge, tree, local, hands, Merges
  <2>2. \A p \in Procs : \A m \in (head + 1)..judged[p] : m \in Merges /\ m <= main
    BY <1>1 DEF Merges
  <2> QED
    BY <1>0, <2>1, <2>2
<1>8. CASE Ripen \/ RelaunchBegins \/ RelaunchRestarts \/ DrainCoordinated \/ UNCHANGED vars
  BY <1>2, <1>8
     DEF Ripen, RelaunchBegins, RelaunchRestarts, DrainCoordinated, vars, repo, tree, local, hands
<1> QED
  BY <1>3, <1>5, <1>6, <1>7, <1>8 DEF Next, Tick

\* One step of FcTreeIsGated.
GatedStep ==
  \A m \in (head + 1)..head' :
    touches[m] \cap Tier2 # {} => RelaunchBegins \/ \E p \in Procs : Pull(p) /\ judged[p] < m

LEMMA GatedMoves == GatedInv /\ [Next]_vars => [GatedStep]_vars
<1> SUFFICES ASSUME GatedInv, Next, ~RelaunchBegins PROVE GatedStep
  BY DEF GatedStep, Next
<1>1. ASSUME NEW p \in Procs, Pull(p) PROVE GatedStep
  <2>1. /\ head \in Nat /\ judged[p] \in {NoSha} \cup Nat /\ NoSha = -1
        /\ \A m \in (head + 1)..judged[p] : touches[m] \cap Tier2 = {}
    BY <1>1, ConstantFacts DEF Pull, GatedInv, JudgedIsClean, TypeOK, At, Shas, NoSha
  <2> QED
    BY <1>1, <2>1 DEF GatedStep
<1>2. ASSUME UNCHANGED head PROVE GatedStep
  <2>1. head \in Nat /\ (head + 1)..head = {}
    BY ConstantFacts DEF GatedInv, TypeOK, Shas
  <2> QED
    BY <1>2, <2>1 DEF GatedStep
<1>3. (\E p \in Procs : Pull(p)) \/ UNCHANGED head
  BY DEF Next, Tick, Fetch, FirstRun, NothingNew, Observe, Enqueue, Truncate, Write, ClaimBatch,
         Blocked, Defer, Check, FailOpen, Passed, Build, PullFails, BuildFails, Finish, Die,
         Merge, Ripen, RelaunchRestarts, DrainCoordinated, tree
<1> QED
  BY <1>1, <1>2, <1>3

\* Whatever is merged, pulled, relaunched or dies in between, by any number of
\* daemons, a pull gives the feature-computer's tree no change of its surface
\* that had been fetched when its guard read the ref (_tree_ff_is_fp_safe).
THEOREM OnlyTheRelaunchMovesFc == Spec => FcTreeIsGated
<1>1. Init => GatedInv
  BY InitTypeOK DEF Init, GatedInv, JudgedIsClean, At
<1> QED
  BY <1>1, GatedNext, GatedMoves, PTL DEF Spec, FcTreeIsGated, GatedStep

-----------------------------------------------------------------------------
(* No consumed merge loses its deploy.                                     *)

LostInv == TypeOK /\ HandsMatchStep /\ Consumed /\ NothingLost

LEMMA HandsNext ==
  ASSUME TypeOK, HandsMatchStep, TypeOK', [Next]_vars
  PROVE  HandsMatchStep'
<1> USE DEF HandsMatchStep, TypeOK, At, Goto
<1>1. ASSUME NEW p \in Procs, Fetch(p) \/ FirstRun(p) \/ NothingNew(p) \/ Observe(p)
                              \/ Enqueue(p) \/ Truncate(p) \/ Write(p)
      PROVE  HandsMatchStep'
  BY <1>1 DEF Fetch, FirstRun, NothingNew, Observe, Enqueue, Truncate, Write, local, hands
<1>2. ASSUME NEW p \in Procs, ClaimBatch(p) \/ Blocked(p) \/ Finish(p)
      PROVE  HandsMatchStep'
  BY <1>2 DEF ClaimBatch, Blocked, Finish
<1>3. ASSUME NEW p \in Procs, NEW s \in Tier1, Defer(p, s) \/ Check(p, s) \/ FailOpen(p, s) \/ Build(p, s)
      PROVE  HandsMatchStep'
  BY <1>3 DEF Defer, Check, FailOpen, Passed, Build
<1>4. ASSUME NEW p \in Procs, Pull(p) \/ PullFails(p) \/ BuildFails(p) \/ Die(p)
      PROVE  HandsMatchStep'
  BY <1>4 DEF Pull, PullFails, BuildFails, Die, GiveUp, local, hands
<1>5. CASE \/ Merge \/ Ripen \/ RelaunchBegins \/ RelaunchRestarts \/ DrainCoordinated
           \/ UNCHANGED vars
  BY <1>5 DEF Merge, Ripen, RelaunchBegins, RelaunchRestarts, DrainCoordinated, vars, local, hands
<1> QED
  BY <1>1, <1>2, <1>3, <1>4, <1>5 DEF Next, Tick

InHand(p) == batch[p] \cup cur[p] \cup failed[p]

LEMMA AmongIs ==
  ASSUME NEW s, NEW m
  PROVE  /\ Among(Entries, s, m) <=> \/ Among(queue, s, m)
                                     \/ \E p \in Procs : Among(InHand(p), s, m)
         /\ Among(Entries, s, m)' <=> \/ Among(queue', s, m)
                                      \/ \E p \in Procs : Among(InHand(p)', s, m)
BY DEF Among, Entries, InHand

\* An entry leaves the queue only for a process's hands or a newer one, and its
\* hands only for the queue, unless it is built or its process dies with it.
LEMMA OwnedKept ==
  ASSUME TypeOK, HandsMatchStep, TypeOK', [Next]_vars,
         \A p \in Procs, s \in Tier1 : ~Build(p, s),
         NEW s \in Tier1, NEW m \in Merges, Among(Entries, s, m)
  PROVE  Among(Entries, s, m)' \/ Among(dropped', s, m)
<1> USE DEF At, Goto, Among
<1>1. ASSUME UNCHANGED <<queue, batch, cur, failed>> PROVE Among(Entries, s, m)'
  BY <1>1, AmongIs DEF InHand
<1>2. ASSUME NEW p \in Procs, UNCHANGED queue, \A q \in Procs : InHand(q) \subseteq InHand(q)'
      PROVE  Among(Entries, s, m)'
  BY <1>2, AmongIs
<1>3. ASSUME NEW p \in Procs, Fetch(p) \/ FirstRun(p) \/ NothingNew(p) \/ Observe(p)
                              \/ Truncate(p) \/ Write(p) \/ Pull(p)
      PROVE  Among(Entries, s, m)'
  BY <1>1, <1>3 DEF Fetch, FirstRun, NothingNew, Observe, Truncate, Write, Pull, local, hands
<1>4. ASSUME NEW p \in Procs, Enqueue(p) PROVE Among(Entries, s, m)'
  BY <1>4, AmongIs DEF Enqueue, Added, InHand, hands
<1>5. ASSUME NEW p \in Procs, ClaimBatch(p) PROVE Among(Entries, s, m)'
  <2>1. batch' = [batch EXCEPT ![p] = Newest(Ripe)] /\ queue' = queue \ Ripe
        /\ UNCHANGED <<cur, failed>> /\ at[p] = "claim"
    BY <1>5 DEF ClaimBatch
  <2>2. InHand(p) = {} /\ InHand(p)' = Newest(Ripe) \cup cur[p] \cup failed[p]
    BY <2>1 DEF HandsMatchStep, InHand, TypeOK
  <2>3. \A q \in Procs : q # p => InHand(q)' = InHand(q)
    BY <2>1 DEF InHand, TypeOK
  <2>4. ASSUME NEW e \in Ripe, e.service = s, m <= e.sha PROVE Among(InHand(p)', s, m)
    <3>1. Ripe \subseteq Entry
      BY DEF Ripe, TypeOK
    <3>2. PICK f \in Newest(Ripe) : f.service = e.service /\ e.sha <= f.sha
      BY <3>1, NewestKeeps
    <3>3. e.sha \in Nat /\ f.sha \in Nat /\ m \in Nat
      BY <3>1, ConstantFacts DEF Entry, Shas, Merges, Newest
    <3> QED
      BY <2>2, <2>4, <3>2, <3>3
  <2> QED
    BY <2>1, <2>2, <2>3, <2>4, AmongIs
<1>6. ASSUME NEW p \in Procs, Blocked(p) PROVE Among(Entries, s, m)'
  BY <1>2, <1>6 DEF Blocked, InHand, TypeOK, HandsMatchStep
<1>7. ASSUME NEW p \in Procs, NEW r \in Tier1, Defer(p, r) \/ Check(p, r) \/ FailOpen(p, r)
      PROVE  Among(Entries, s, m)'
  BY <1>2, <1>7 DEF Defer, Check, FailOpen, Passed, InHand, TypeOK, HandsMatchStep
<1>8. ASSUME NEW p \in Procs, PullFails(p) \/ BuildFails(p) PROVE Among(Entries, s, m)'
  BY <1>2, <1>8 DEF PullFails, BuildFails, GiveUp, InHand, TypeOK
<1>9. ASSUME NEW p \in Procs, Finish(p) PROVE Among(Entries, s, m)'
  <2>1. /\ queue' = Added(queue, failed[p]) /\ UNCHANGED <<batch, cur>>
        /\ failed' = [failed EXCEPT ![p] = {}]
        /\ batch[p] = {} /\ cur[p] = {}
    BY <1>9 DEF Finish, HandsMatchStep
  <2>2. \A q \in Procs : q # p => InHand(q)' = InHand(q)
    BY <2>1 DEF InHand, TypeOK
  <2>3. InHand(p) = failed[p] /\ queue \subseteq queue'
    BY <2>1 DEF InHand, Added
  <2>4. \A e \in failed[p] : \E f \in queue' : f.service = e.service /\ f.sha = e.sha
    BY <2>1 DEF Added
  <2> QED
    BY <2>2, <2>3, <2>4, AmongIs
<1>10. ASSUME NEW p \in Procs, Die(p) PROVE Among(Entries, s, m)' \/ Among(dropped', s, m)
  <2>1. InHand(p) \subseteq dropped' /\ UNCHANGED queue
    BY <1>10 DEF Die, InHand
  <2>2. \A q \in Procs : q # p => InHand(q)' = InHand(q)
    BY <1>10 DEF Die, InHand, TypeOK
  <2> QED
    BY <2>1, <2>2, AmongIs
<1>11. CASE Merge \/ RelaunchBegins \/ RelaunchRestarts \/ UNCHANGED vars
  BY <1>1, <1>11 DEF Merge, RelaunchBegins, RelaunchRestarts, vars, local, hands
<1>12. CASE Ripen
  <2>1. PICK e \in queue : queue' = {[o EXCEPT !.ripe = @ \/ o.sha = e.sha] : o \in queue}
    BY <1>12 DEF Ripen
  <2>2. \A o \in queue : LET r == [o EXCEPT !.ripe = @ \/ o.sha = e.sha]
                         IN  r.service = o.service /\ r.sha = o.sha
    BY DEF TypeOK, Entry
  <2>3. ASSUME NEW o \in queue PROVE \E f \in queue' : f.service = o.service /\ f.sha = o.sha
    <3>1. [o EXCEPT !.ripe = @ \/ o.sha = e.sha] \in queue'
      BY <2>1
    <3> QED
      BY <2>2, <3>1
  <2>4. \A q \in Procs : InHand(q)' = InHand(q)
    BY <1>12 DEF Ripen, InHand, local, hands
  <2> QED
    BY <2>3, <2>4, AmongIs
<1>13. CASE DrainCoordinated
  <2>1. \A e \in queue : e.service = s => e \in queue'
    BY <1>13, ConstantFacts DEF DrainCoordinated
  <2> QED
    BY <1>13, <2>1, AmongIs DEF DrainCoordinated, InHand, local, hands
<1> QED
  BY <1>3, <1>4, <1>5, <1>6, <1>7, <1>8, <1>9, <1>10, <1>11, <1>12, <1>13 DEF Next, Tick

\* Shas only grow, what is written in the history stays, and a merge keeps the
\* services it touches.
LEMMA Grows ==
  ASSUME TypeOK, [Next]_vars
  PROVE  /\ seen <= seen' /\ fetched <= fetched' /\ head <= head'
         /\ skipped \subseteq skipped' /\ dropped \subseteq dropped'
         /\ \A m \in Merges : m <= main => touches'[m] = touches[m]
<1>1. /\ seen \in Nat /\ fetched \in Nat /\ head \in Nat /\ main \in Nat
      /\ head <= fetched /\ fetched <= main /\ \A p \in Procs : new[p] \in Nat
  BY ConstantFacts DEF TypeOK, Shas
<1>2. /\ seen' \in {seen} \cup {Later(seen, n) : n \in Nat}
      /\ skipped \subseteq skipped' /\ dropped \subseteq dropped'
  BY <1>1 DEF Next, Tick, Fetch, FirstRun, NothingNew, Observe, Enqueue, Truncate, Write,
         ClaimBatch, Blocked, Defer, Check, FailOpen, Passed, Build, Pull, PullFails,
         BuildFails, Finish, Die, Merge, Ripen, RelaunchBegins, RelaunchRestarts,
         DrainCoordinated, vars, past
<1>3. fetched' \in {fetched, main} /\ head' \in {head, main}
  BY DEF Next, Tick, Fetch, FirstRun, NothingNew, Observe, Enqueue, Truncate, Write,
         ClaimBatch, Blocked, Defer, Check, FailOpen, Passed, Build, Pull, PullFails,
         BuildFails, Finish, Die, Merge, Ripen, RelaunchBegins, RelaunchRestarts,
         DrainCoordinated, vars, tree
<1>4. UNCHANGED touches \/ Merge
  BY DEF Next, Tick, Fetch, FirstRun, NothingNew, Observe, Enqueue, Truncate, Write,
         ClaimBatch, Blocked, Defer, Check, FailOpen, Passed, Build, Pull, PullFails,
         BuildFails, Finish, Die, Ripen, RelaunchBegins, RelaunchRestarts,
         DrainCoordinated, vars, repo
<1>5. ASSUME Merge, NEW m \in Merges, m <= main PROVE touches'[m] = touches[m]
  BY <1>1, <1>5 DEF Merge, Merges, TypeOK
<1> QED
  BY <1>1, <1>2, <1>3, <1>4, <1>5 DEF Later

\* No step makes a container older.
LEMMA StaleBack ==
  ASSUME TypeOK, TypeOK', [Next]_vars,
         NEW s \in Tier1, NEW m \in Merges, m <= main, Stale(s, m)'
  PROVE  Stale(s, m)
<1>1. running[s] \in 0..head /\ head \in Int /\ s \in Services /\ s \notin Tier2
  BY ConstantFacts DEF TypeOK, Services, Shas
<1>2. running'[s] = running[s] \/ running'[s] = head
  <2>1. CASE UNCHANGED running
    BY <2>1
  <2>2. ASSUME NEW p \in Procs, NEW r \in Tier1, Build(p, r)
        PROVE  running'[s] = running[s] \/ running'[s] = head
    BY <2>2, <1>1 DEF Build, TypeOK
  <2>3. ASSUME NEW p \in Procs, BuildFails(p)
        PROVE  running'[s] = running[s] \/ running'[s] = head
    BY <2>3, <1>1 DEF BuildFails, TypeOK
  <2>4. CASE RelaunchRestarts
    BY <2>4, <1>1 DEF RelaunchRestarts
  <2> QED
    BY <2>1, <2>2, <2>3, <2>4
       DEF Next, Tick, Die, Merge, Ripen, RelaunchBegins, DrainCoordinated, vars, Fetch,
           FirstRun, NothingNew, Observe, Enqueue, Truncate, Write, ClaimBatch, Blocked,
           Defer, Check, FailOpen, Passed, Pull, PullFails, Finish
<1>3. touches'[m] = touches[m]
  BY Grows
<1>4. running'[s] < m /\ m \in Int
  BY DEF Stale, Merges
<1> QED
  BY <1>1, <1>2, <1>3, <1>4 DEF Stale

\* Every entry comes from what was fetched.
LEMMA FetchedKept ==
  ASSUME TypeOK, TypeOK', Consumed, [Next]_vars, NEW e \in Entries'
  PROVE  e.sha <= fetched'
<1>1. /\ fetched \in Nat /\ fetched' \in Nat /\ fetched <= fetched' /\ NoSha = -1
      /\ \A o \in Entries : o.sha \in Nat /\ o.sha <= fetched
  BY Grows, ConstantFacts DEF Consumed, TypeOK, Shas, Entries, Entry, NoSha
<1>2. SUFFICES ASSUME ~\E o \in Entries : o.sha = e.sha PROVE FALSE
        \/ e.sha <= fetched'
  BY <1>1
<1> USE DEF At, Goto, Entries
<1>3. ASSUME queue' \subseteq Entries, UNCHANGED <<batch, cur, failed>> PROVE FALSE
  BY <1>2, <1>3
<1>4. ASSUME NEW p \in Procs, queue' \subseteq Entries,
             \A q \in Procs : InHand(q)' \subseteq Entries
      PROVE  FALSE
  BY <1>2, <1>4 DEF InHand
<1>5. ASSUME NEW p \in Procs, Enqueue(p) PROVE e.sha <= fetched'
  <2>1. e \in queue' /\ e \notin queue
    BY <1>2, <1>5 DEF Enqueue, hands
  <2>2. e.sha = new[p]
    BY <1>5, <2>1 DEF Enqueue, Added
  <2> QED
    BY <1>1, <1>5, <2>2, ConstantFacts DEF TypeOK, Shas, Enqueue, tree
<1>6. ASSUME NEW p \in Procs, Fetch(p) \/ FirstRun(p) \/ NothingNew(p) \/ Observe(p)
                              \/ Truncate(p) \/ Write(p) \/ Pull(p)
      PROVE  FALSE
  BY <1>3, <1>6 DEF Fetch, FirstRun, NothingNew, Observe, Truncate, Write, Pull, local, hands
<1>7. ASSUME NEW p \in Procs, ClaimBatch(p) \/ Blocked(p) \/ PullFails(p) \/ BuildFails(p)
                              \/ Finish(p) \/ Die(p)
      PROVE  FALSE
  BY <1>4, <1>7 DEF ClaimBatch, Ripe, Newest, Blocked, PullFails, BuildFails, GiveUp, Finish,
                    Added, Die, InHand, TypeOK
<1>8. ASSUME NEW p \in Procs, NEW s \in Tier1,
             Defer(p, s) \/ Check(p, s) \/ FailOpen(p, s) \/ Build(p, s)
      PROVE  FALSE
  BY <1>4, <1>8 DEF Defer, Check, FailOpen, Passed, Build, InHand, TypeOK
<1>9. CASE Merge \/ RelaunchBegins \/ RelaunchRestarts \/ DrainCoordinated \/ UNCHANGED vars
  BY <1>3, <1>9 DEF Merge, RelaunchBegins, RelaunchRestarts, DrainCoordinated, vars, local, hands
<1>10. CASE Ripen
  <2>1. UNCHANGED <<batch, cur, failed>>
    BY <1>10 DEF Ripen, local, hands
  <2>2. PICK o \in queue, b \in BOOLEAN : e = [o EXCEPT !.ripe = b]
    <3>1. e \in queue'
      BY <1>2, <2>1
    <3> QED
      BY <1>10, <3>1 DEF Ripen, TypeOK, Entry
  <2>3. e.sha = o.sha
    BY <2>2 DEF TypeOK, Entry
  <2> QED
    BY <1>2, <2>2, <2>3
<1> QED
  BY <1>5, <1>6, <1>7, <1>8, <1>9, <1>10 DEF Next, Tick

\* A step that is not a process's own leaves its locals alone.
LEMMA OthersStill ==
  ASSUME TypeOK, [Next]_vars, NEW q \in Procs, ~Tick(q), ~Die(q)
  PROVE  at'[q] = at[q] /\ new'[q] = new[q] /\ plan'[q] = plan[q] /\ cur'[q] = cur[q]
<1> DEFINE Still == at'[q] = at[q] /\ new'[q] = new[q] /\ plan'[q] = plan[q] /\ cur'[q] = cur[q]
<1>1. CASE \/ Merge \/ Ripen \/ RelaunchBegins \/ RelaunchRestarts \/ DrainCoordinated
           \/ UNCHANGED vars
  BY <1>1 DEF Merge, Ripen, RelaunchBegins, RelaunchRestarts, DrainCoordinated, vars, local, hands
<1>2. ASSUME NEW p \in Procs, p # q, \/ Fetch(p) \/ FirstRun(p) \/ NothingNew(p) \/ Observe(p)
                                     \/ Enqueue(p) \/ Truncate(p) \/ Write(p)
      PROVE  Still
  BY <1>2 DEF Fetch, FirstRun, NothingNew, Observe, Enqueue, Truncate, Write, Goto, local, hands,
              TypeOK
<1>3. ASSUME NEW p \in Procs, p # q, \/ ClaimBatch(p) \/ Blocked(p) \/ Pull(p) \/ PullFails(p)
                                     \/ BuildFails(p) \/ Finish(p) \/ Die(p)
      PROVE  Still
  BY <1>3 DEF ClaimBatch, Blocked, Pull, PullFails, BuildFails, GiveUp, Finish, Die, Goto, local,
              hands, TypeOK
<1>4. ASSUME NEW p \in Procs, p # q, NEW s \in Tier1,
             Defer(p, s) \/ Check(p, s) \/ FailOpen(p, s) \/ Build(p, s)
      PROVE  Still
  BY <1>4 DEF Defer, Check, FailOpen, Passed, Build, Goto, TypeOK
<1> QED
  BY <1>1, <1>2, <1>3, <1>4 DEF Next, Tick

LEMMA ConsumedNext ==
  ASSUME TypeOK, TypeOK', Consumed, HandsMatchStep, [Next]_vars
  PROVE  Consumed'
<1> USE DEF At, Goto
<1>1. /\ seen \in Nat /\ fetched \in Nat /\ head \in Nat /\ main \in Nat /\ main <= MaxMerges
      /\ seen <= fetched /\ fetched <= main /\ head <= fetched
      /\ state \in {NoSha} \cup Nat /\ NoSha = -1
      /\ new \in [Procs -> 0..fetched] /\ at \in [Procs -> Steps]
      /\ plan \in [Procs -> SUBSET Services]
      /\ seen' \in Nat /\ seen <= seen' /\ fetched <= fetched' /\ head <= head' /\ head' \in Nat
  BY Grows, ConstantFacts DEF TypeOK, Shas, NoSha
<1>2. state' <= seen'
  <2>1. CASE UNCHANGED state
    BY <1>1, <2>1 DEF Consumed
  <2>2. ASSUME NEW p \in Procs, Truncate(p) PROVE state' <= seen'
    BY <1>1, <2>2 DEF Truncate
  <2>3. ASSUME NEW p \in Procs, Write(p) PROVE state' <= seen'
    BY <1>1, <2>3 DEF Write, Consumed
  <2> QED
    BY <2>1, <2>2, <2>3 DEF Next, Tick, Fetch, FirstRun, NothingNew, Observe, Enqueue,
         ClaimBatch, Blocked, Defer, Check, FailOpen, Passed, Build, Pull, PullFails,
         BuildFails, Finish, Die, Merge, Ripen, RelaunchBegins, RelaunchRestarts,
         DrainCoordinated, vars
<1>3. \A e \in Entries' : e.sha <= fetched'
  BY FetchedKept
<1>4. ASSUME NEW p \in Procs, at'[p] = "enqueue", NEW s \in Tier1,
             NEW m \in (seen' + 1)..new'[p], s \in touches'[m]
      PROVE  s \in plan'[p]
  <2>1. CASE Observe(p)
    <3>1. new'[p] = fetched /\ plan'[p] = Diff(state, fetched) /\ UNCHANGED touches /\ state # NoSha
      BY <1>1, <2>1 DEF Observe, repo
    <3>2. m \in Merges /\ state < m /\ m <= fetched /\ s \in Services
      <4>1. m \in Nat /\ seen' < m /\ m <= fetched
        BY <1>1, <3>1, Narrower
      <4>2. state \in Nat /\ state <= seen
        BY <1>1, <3>1 DEF Consumed
      <4> QED
        BY <1>1, <4>1, <4>2, ConstantFacts DEF Merges, Services
    <3> QED
      BY <1>4, <3>1, <3>2 DEF Diff
  <2>2. CASE at[p] = "enqueue" /\ new'[p] = new[p] /\ plan'[p] = plan[p]
    <3>1. m \in Merges /\ m <= main /\ m \in (seen + 1)..new[p]
      <4>1. new[p] \in Nat /\ new[p] <= fetched /\ new'[p] = new[p] /\ new'[p] \in Int
        BY <1>1, <2>2
      <4>2. m \in (seen + 1)..new'[p] /\ m \in Nat /\ seen' < m /\ m <= new'[p]
        BY <1>1, <4>1, Narrower
      <4> QED
        BY <1>1, <4>1, <4>2, ConstantFacts DEF Merges
    <3> QED
      BY <1>4, <2>2, <3>1, Grows DEF Consumed
  <2> QED
    <3>1. Observe(p) \/ (at[p] = "enqueue" /\ new'[p] = new[p] /\ plan'[p] = plan[p])
      BY <1>1, <1>4, OthersStill DEF Tick, Fetch, FirstRun, NothingNew, Enqueue, Truncate,
         Write, ClaimBatch, Blocked, Defer, Check, FailOpen, Passed, Build, Pull, PullFails,
         BuildFails, GiveUp, Finish, Die
    <3> QED
      BY <2>1, <2>2, <3>1
<1>5. ASSUME NEW p \in Procs, at'[p] \in {"truncate", "write"} PROVE new'[p] <= seen'
  <2>1. CASE FirstRun(p)
    BY <1>1, <2>1 DEF FirstRun, Later
  <2>2. CASE Enqueue(p)
    BY <1>1, <2>2 DEF Enqueue, Later
  <2>3. CASE at[p] \in {"truncate", "write"} /\ new'[p] = new[p]
    BY <1>1, <2>3 DEF Consumed
  <2> QED
    <3>1. \/ FirstRun(p) \/ Enqueue(p)
          \/ at[p] \in {"truncate", "write"} /\ new'[p] = new[p]
      BY <1>1, <1>5, OthersStill DEF Tick, Fetch, NothingNew, Observe, Truncate, Write,
         ClaimBatch, Blocked, Defer, Check, FailOpen, Passed, Build, Pull, PullFails,
         BuildFails, GiveUp, Finish, Die, local
    <3> QED
      BY <2>1, <2>2, <2>3, <3>1
<1>6. ASSUME NEW p \in Procs, at'[p] = "build", NEW e \in cur'[p] PROVE e.sha <= head'
  <2>1. CASE Pull(p)
    <3>1. e \in Entries /\ head' = main
      BY <1>6, <2>1 DEF Pull, local, hands, Entries
    <3> QED
      BY <1>1, <3>1, ConstantFacts DEF Consumed, TypeOK, Entries, Entry, Shas
  <2>2. CASE at[p] = "build" /\ cur'[p] = cur[p]
    BY <1>1, <1>6, <2>2, ConstantFacts DEF Consumed, TypeOK, Entry, Shas
  <2> QED
    <3>1. Pull(p) \/ (at[p] = "build" /\ cur'[p] = cur[p])
      BY <1>1, <1>6, OthersStill DEF Tick, Fetch, FirstRun, NothingNew, Observe, Enqueue,
         Truncate, Write, ClaimBatch, Blocked, Defer, Check, FailOpen, Passed, Build,
         PullFails, BuildFails, GiveUp, Finish, Die
    <3> QED
      BY <2>1, <2>2, <3>1
<1> QED
  BY <1>2, <1>3, <1>4, <1>5, <1>6 DEF Consumed

\* A container built for an entry is as new as the entry.
LEMMA BuiltIsNew ==
  ASSUME TypeOK, HandsMatchStep, Consumed, NEW p \in Procs, NEW r \in Tier1, Build(p, r),
         NEW s \in Tier1, NEW m \in Merges, Among(Entries, s, m), Stale(s, m)'
  PROVE  Among(Entries, s, m)'
<1> USE DEF At, Goto
<1>1. /\ at[p] = "build" /\ running' = [running EXCEPT ![r] = head]
      /\ cur' = [cur EXCEPT ![p] = {}] /\ UNCHANGED <<queue, batch, failed>>
      /\ \E e \in cur[p] : e.service = r
  BY DEF Build
<1>2. PICK e \in Entry : cur[p] = {e}
  BY <1>1 DEF HandsMatchStep
<1>3. \A q \in Procs : InHand(q) \ {e} \subseteq InHand(q)'
  BY <1>1, <1>2 DEF InHand, TypeOK
<1>4. PICK o \in Entries : o.service = s /\ m <= o.sha
  BY DEF Among
<1>5. o # e
  <2>1. ASSUME o = e PROVE FALSE
    <3>1. s = r /\ running'[s] = head /\ e.sha <= head
      BY <1>1, <1>2, <1>4, <2>1 DEF TypeOK, Services, Consumed
    <3>2. head \in Nat /\ e.sha \in Nat /\ m \in Nat
      BY <1>2, ConstantFacts DEF TypeOK, Shas, Entry, Merges
    <3> QED
      BY <1>4, <2>1, <3>1, <3>2 DEF Stale
  <2> QED
    BY <2>1
<1> QED
  BY <1>1, <1>3, <1>4, <1>5, AmongIs DEF Among, Entries, InHand

LEMMA LostNext == LostInv /\ [Next]_vars => LostInv'
<1> SUFFICES ASSUME LostInv, [Next]_vars PROVE LostInv'
  OBVIOUS
<1> USE DEF LostInv
<1>1. TypeOK' /\ HandsMatchStep' /\ Consumed'
  BY NextTypeOK, HandsNext, ConsumedNext
<1>2. /\ seen \in Nat /\ seen' \in Nat /\ seen <= main /\ main \in Nat
      /\ state' <= seen' /\ state' \in {NoSha} \cup Nat /\ NoSha = -1
      /\ \A p \in Procs : new[p] \in Nat /\ fetched \in Nat
  BY <1>1, ConstantFacts DEF TypeOK, Consumed, Shas, NoSha
<1>3. ASSUME NEW s \in Tier1, NEW m \in Merges, Stale(s, m)', m <= seen
      PROVE  Among(Entries, s, m)' \/ Forgotten(s, m)'
  <2>1. Stale(s, m)
    BY <1>1, <1>2, <1>3, StaleBack DEF Merges
  <2>2. CASE Forgotten(s, m)
    BY <2>2, Grows DEF Forgotten, Among
  <2>3. CASE Among(Entries, s, m)
    <3>1. ASSUME NEW p \in Procs, NEW r \in Tier1, Build(p, r) PROVE Among(Entries, s, m)'
      BY <1>3, <2>3, <3>1, BuiltIsNew
    <3>2. ASSUME \A p \in Procs, r \in Tier1 : ~Build(p, r)
          PROVE  Among(Entries, s, m)' \/ Forgotten(s, m)'
      BY <1>1, <2>3, <3>2, OwnedKept DEF Forgotten, Among
    <3> QED
      BY <3>1, <3>2
  <2> QED
    BY <1>3, <2>1, <2>2, <2>3 DEF NothingLost
<1>4. ASSUME NEW s \in Tier1, NEW m \in Merges, Stale(s, m)', m <= seen', ~(m <= seen)
      PROVE  Among(Entries, s, m)' \/ Forgotten(s, m)'
  <2>1. PICK p \in Procs : FirstRun(p) \/ Enqueue(p)
    <3>1. ~UNCHANGED seen
      BY <1>4
    <3> QED
      BY <3>1 DEF Next, Tick, Fetch, NothingNew, Observe, Truncate, Write, ClaimBatch,
         Blocked, Defer, Check, FailOpen, Passed, Build, Pull, PullFails, BuildFails, Finish,
         Die, Merge, Ripen, RelaunchBegins, RelaunchRestarts, DrainCoordinated, vars, past
  <2>2. CASE FirstRun(p)
    BY <1>2, <1>4, <2>2 DEF FirstRun, Later, Forgotten, Merges
  <2>3. CASE Enqueue(p)
    <3>1. m \in (seen + 1)..new[p] /\ s \in touches[m] /\ at[p] = "enqueue"
      BY <1>2, <1>4, <2>3 DEF Enqueue, Later, Merges, Stale, At, repo
    <3>2. s \in plan[p]
      BY <3>1 DEF Consumed, At
    <3> DEFINE e == [service |-> s, sha |-> new[p], ripe |-> FALSE]
               es == {[service |-> t, sha |-> new[p], ripe |-> FALSE] : t \in plan[p]}
    <3>3. queue' = Added(queue, es) /\ e \in es /\ e.service = s /\ e.sha = new[p]
      BY <2>3, <3>2 DEF Enqueue
    <3>4. \E o \in queue' : o.service = s /\ o.sha = new[p]
      BY ONLY <3>3 DEF Added
    <3> QED
      BY <1>2, <3>1, <3>4, AmongIs DEF Among
  <2> QED
    BY <2>1, <2>2, <2>3
<1>5. NothingLost'
  BY <1>2, <1>3, <1>4 DEF NothingLost, Merges
<1> QED
  BY <1>1, <1>5

\* Whatever merges, failures, retries, relaunches and deaths come, by any number
\* of daemons, no merge counted as consumed loses its deploy, unless it ended in
\* a baseline or a process died with its claimed entry (observe_and_enqueue,
\* claim_batch, apply_batch).
THEOREM OnlyDeathsLoseDeploys == Spec => []NothingLost
<1>1. Init => LostInv
  BY InitTypeOK DEF Init, LostInv, HandsMatchStep, Consumed, NothingLost, At, Merges, NoSha,
                    Entries
<1>2. LostInv => NothingLost
  BY DEF LostInv
<1> QED
  BY <1>1, <1>2, LostNext, PTL DEF Spec

-----------------------------------------------------------------------------
(* One entry per service and sha.                                          *)

Once(es) == \A e, f \in es : e.service = f.service /\ e.sha = f.sha => e = f

OnceInv == TypeOK /\ HandsMatchStep /\ Once(queue) /\ \A p \in Procs : Once(InHand(p))

LEMMA AddedOnce ==
  ASSUME NEW q, NEW es, Once(q), Once(es)
  PROVE  Once(Added(q, es))
BY DEF Added, Once

LEMMA OnceNext == OnceInv /\ [Next]_vars => OnceInv'
<1> SUFFICES ASSUME OnceInv, [Next]_vars PROVE OnceInv'
  OBVIOUS
<1> USE DEF OnceInv, At, Goto
<1>1. TypeOK' /\ HandsMatchStep'
  BY NextTypeOK, HandsNext
<1>2. /\ batch \in [Procs -> SUBSET Entry] /\ cur \in [Procs -> SUBSET Entry]
      /\ failed \in [Procs -> SUBSET Entry] /\ queue \subseteq Entry
  BY DEF TypeOK
<1>3. ASSUME UNCHANGED queue, \A q \in Procs : InHand(q)' \subseteq InHand(q) PROVE OnceInv'
  BY <1>1, <1>3 DEF Once
<1>4. ASSUME NEW p \in Procs, \/ Fetch(p) \/ FirstRun(p) \/ NothingNew(p) \/ Observe(p)
                              \/ Truncate(p) \/ Write(p) \/ Pull(p)
      PROVE  OnceInv'
  BY <1>3, <1>4 DEF Fetch, FirstRun, NothingNew, Observe, Truncate, Write, Pull, local, hands, InHand
<1>5. ASSUME NEW p \in Procs, Enqueue(p) PROVE OnceInv'
  <2> DEFINE es == {[service |-> s, sha |-> new[p], ripe |-> FALSE] : s \in plan[p]}
  <2>1. Once(es)
    <3>1. ASSUME NEW e \in es, NEW f \in es, e.service = f.service PROVE e = f
      <4>1. PICK s \in plan[p] : e = [service |-> s, sha |-> new[p], ripe |-> FALSE]
        OBVIOUS
      <4>2. PICK t \in plan[p] : f = [service |-> t, sha |-> new[p], ripe |-> FALSE]
        OBVIOUS
      <4> QED
        BY <3>1, <4>1, <4>2
    <3> QED
      BY <3>1 DEF Once
  <2>2. Once(queue')
    BY <1>5, <2>1, AddedOnce DEF Enqueue
  <2>3. \A q \in Procs : InHand(q)' = InHand(q)
    BY <1>5 DEF Enqueue, InHand, hands
  <2> QED
    BY <1>1, <2>2, <2>3 DEF Once
<1>6. ASSUME NEW p \in Procs, ClaimBatch(p) PROVE OnceInv'
  <2>1. batch' = [batch EXCEPT ![p] = Newest(Ripe)] /\ queue' = queue \ Ripe
        /\ UNCHANGED <<cur, failed>> /\ at[p] = "claim"
    BY <1>6 DEF ClaimBatch
  <2>2. InHand(p)' = Newest(Ripe)
    BY <1>2, <2>1 DEF HandsMatchStep, InHand
  <2>3. \A q \in Procs : q # p => InHand(q)' = InHand(q)
    BY <1>2, <2>1 DEF InHand
  <2>4. Newest(Ripe) \subseteq queue
    BY DEF Newest, Ripe
  <2> QED
    BY <1>1, <2>1, <2>2, <2>3, <2>4 DEF Once
<1>7. ASSUME NEW p \in Procs, NEW s \in Tier1, Defer(p, s) \/ Check(p, s) \/ FailOpen(p, s) \/ Build(p, s)
      PROVE  OnceInv'
  BY <1>2, <1>3, <1>7 DEF Defer, Check, FailOpen, Passed, Build, InHand
<1>8. ASSUME NEW p \in Procs, Blocked(p) \/ PullFails(p) \/ BuildFails(p) \/ Die(p)
      PROVE  OnceInv'
  BY <1>2, <1>3, <1>8 DEF Blocked, PullFails, BuildFails, GiveUp, Die, InHand
<1>9. ASSUME NEW p \in Procs, Finish(p) PROVE OnceInv'
  <2>1. Once(failed[p])
    BY DEF Once, InHand
  <2>2. Once(queue')
    BY <1>9, <2>1, AddedOnce DEF Finish
  <2>3. \A q \in Procs : InHand(q)' \subseteq InHand(q)
    BY <1>2, <1>9 DEF Finish, InHand
  <2> QED
    BY <1>1, <2>2, <2>3 DEF Once
<1>10. CASE Merge \/ RelaunchBegins \/ RelaunchRestarts \/ UNCHANGED vars
  BY <1>3, <1>10 DEF Merge, RelaunchBegins, RelaunchRestarts, vars, local, hands, InHand
<1>11. CASE Ripen
  <2>1. PICK e \in queue : queue' = {[o EXCEPT !.ripe = @ \/ o.sha = e.sha] : o \in queue}
    BY <1>11 DEF Ripen
  <2>2. \A o \in queue : LET r == [o EXCEPT !.ripe = @ \/ o.sha = e.sha]
                         IN  r.service = o.service /\ r.sha = o.sha
    BY <1>2 DEF Entry
  <2>3. Once(queue')
    <3>1. ASSUME NEW a \in queue', NEW b \in queue', a.service = b.service, a.sha = b.sha
          PROVE  a = b
      <4>1. PICK o \in queue : a = [o EXCEPT !.ripe = @ \/ o.sha = e.sha]
        BY <2>1
      <4>2. PICK r \in queue : b = [r EXCEPT !.ripe = @ \/ r.sha = e.sha]
        BY <2>1
      <4>3. o = r
        BY <2>2, <3>1, <4>1, <4>2 DEF Once
      <4> QED
        BY <4>1, <4>2, <4>3
    <3> QED
      BY <3>1 DEF Once
  <2>4. \A q \in Procs : InHand(q)' = InHand(q)
    BY <1>11 DEF Ripen, InHand, local, hands
  <2> QED
    BY <1>1, <2>3, <2>4 DEF Once
<1>12. CASE DrainCoordinated
  <2>1. Once(queue')
    BY <1>12 DEF DrainCoordinated, Once
  <2>2. \A q \in Procs : InHand(q)' = InHand(q)
    BY <1>12 DEF DrainCoordinated, InHand, local, hands
  <2> QED
    BY <1>1, <2>1, <2>2 DEF Once
<1> QED
  BY <1>4, <1>5, <1>6, <1>7, <1>8, <1>9, <1>10, <1>11, <1>12 DEF Next, Tick

\* Through ticks that die anywhere, retries and re-observed merges, by any
\* number of daemons, the queue holds a service and sha once (enqueue).
THEOREM QueuedOnce == Spec => []NoDoubleIntent
<1>1. Init => OnceInv
  BY InitTypeOK DEF Init, OnceInv, HandsMatchStep, Once, InHand, At
<1>2. OnceInv => NoDoubleIntent
  BY DEF OnceInv, Once, NoDoubleIntent
<1> QED
  BY <1>1, <1>2, OnceNext, PTL DEF Spec
=============================================================================
