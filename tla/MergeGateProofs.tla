---------------------------- MODULE MergeGateProofs ----------------------------
(* Theorems about MergeGate, for every set of pull requests and watchers, and *)
(* any number of pushes, deaths, timeouts and refusals: no commit is called   *)
(* green that has not earned it.  And about SafeDeploy, which deploys what the  *)
(* gate merges, for any number of merges, faults and relaunches.              *)
EXTENDS MergeGate, SafeDeploy, SequenceTheorems, TLAPS

(* A noisy run is only forgiven what fails alone as well, if anything does. *)
LEMMA FpJobSound ==
  ASSUME NEW c, NEW noise, FpJob(c, noise)
  PROVE  Sound(c) /\ ("error" \in c.defects => noise = "flake")
<1>1. CASE Passes(c, noise) \/ Passes(c, "none")
  BY <1>1 DEF Passes, Sound
<1>2. CASE ~(Passes(c, noise) \/ Passes(c, "none"))
  <2> DEFINE ids == IF FailedIds(c, noise) = {} THEN FailedIds(c, "none") ELSE FailedIds(c, noise)
  <2>1. ids \subseteq {"flake"}
    BY <1>2 DEF FpJob, PassAlone
  <2>2. c.defects \cap {"failure", "broken"} \subseteq ids
    BY DEF FailedIds
  <2>3. ids # {}
    BY <1>2 DEF FpJob
  <2>4. "flake" \in FailedIds(c, noise) => noise = "flake"
    BY DEF FailedIds
  <2>5. "flake" \notin FailedIds(c, "none")
    BY DEF FailedIds
  <2>6. noise = "flake"
    BY <2>1, <2>3, <2>4, <2>5
  <2> QED
    BY <2>1, <2>2, <2>6 DEF Sound
<1> QED
  BY <1>1, <1>2

\* A tier is a verdict, and gates what its paths do.
LEMMA TiersGate ==
  ASSUME NEW c, NEW t \in Tiers(c)
  PROVE  t \in BOOLEAN /\ (Gated(c) => t)
<1>1. Gated(c) \in BOOLEAN /\ MovedSince(c) \in BOOLEAN
  BY DEF Gated, MovedSince, Merged
<1>2. t = Gated(c) \/ t = (Gated(c) \/ MovedSince(c))
  BY DEF Tiers
<1> QED
  BY <1>1, <1>2, Zenon

-----------------------------------------------------------------------------
(* What a watcher has listed, or has at hand, is a commit that was pushed:    *)
(* what is pushed later does not touch it.                                    *)
Listing(t) == t[1] \in PRs /\ t[2] \in Pushes /\ t[2] <= pr[t[1]].head /\ t[3] \in BOOLEAN
Busy(w) == at[w] \notin {"idle", "next"}

PullRequests == [st : {"none", "open", "merged"}, head : 0..MaxPushes, held : BOOLEAN,
                 gated : BOOLEAN, merge : Nat]

Shapes ==
  /\ main \in Seq({"dash", "docs", "fc", "none"})
  /\ pr \in [PRs -> PullRequests]
  /\ commit \in [PRs -> [Pushes -> Commits]]
  /\ status \in [PRs -> [Pushes -> {"none", "pending", "success", "failure", "error"}]]
  /\ at \in [Watchers -> {"idle", "next", "suite", "post", "label", "merge"}]
  /\ green \in [Watchers -> BOOLEAN] /\ tier2 \in [Watchers -> BOOLEAN]
  /\ graded \in [Watchers -> [PRs -> 0..MaxPushes]]
  /\ flaked \subseteq PRs \X Pushes
  /\ env \in [DOMAIN Bounds -> Nat]

Hands ==
  /\ DOMAIN todo = Watchers /\ DOMAIN cur = Watchers
  /\ \A p \in PRs : pr[p].st # "none" => pr[p].head > 0
  /\ \A w \in Watchers :
       /\ todo[w] \subseteq PRs \X Pushes \X BOOLEAN
       /\ \A t \in todo[w] : t[2] <= pr[t[1]].head
       /\ Busy(w) => cur[w] \in PRs \X Pushes \X BOOLEAN /\ Sha(w) <= pr[PR(w)].head

\* What earns a commit its success, given whether a suite of it was noisy.
Clean(c, noisy) == Sound(c) /\ ("error" \in c.defects => noisy)

LEMMA EarnedClean ==
  ASSUME NEW p, NEW n
  PROVE  Earned(p, n) <=> Clean(commit[p][n], <<p, n>> \in flaked)
BY DEF Earned, Clean

(* A verdict is earned from the suite to the merge. *)
Judged == {"post", "label", "merge"}
Verdicts ==
  /\ \A w \in Watchers : at[w] \in Judged =>
       /\ green[w] => Earned(PR(w), Sha(w))
       /\ Gated(Commit(w)) => tier2[w]
  /\ \A p \in PRs, n \in Pushes :
       status[p][n] = "success" => n <= pr[p].head /\ Earned(p, n)

Typed == Shapes /\ Hands
Inv == Typed /\ Verdicts

LEMMA TypedTypeOK == Typed => TypeOK
BY DEF Typed, Shapes, PullRequests, Hands, TypeOK, Busy

LEMMA Constants ==
  /\ MaxPushes \in Nat /\ Daemons \subseteq Watchers /\ Surfaces \subseteq {"dash", "docs", "fc", "none"}
  /\ \A D \in Defects : D \subseteq {"failure", "error", "broken"}
  /\ Bounds \in [DOMAIN Bounds -> Nat]
BY MergeGateConstants, OriginConstants DEF MergeGateConstants, OriginConstants, Bounds

LEMMA InitInv == Init => Inv
<1> SUFFICES ASSUME Init PROVE Inv
  OBVIOUS
<1>1. Shapes
  BY Constants DEF Init, Shapes, PullRequests, Unopened, Unpushed, NoGrade, Commits
<1>2. Hands
  BY DEF Init, Hands, Busy, Unopened
<1>3. Verdicts
  BY DEF Init, Verdicts, Judged
<1> QED
  BY <1>1, <1>2, <1>3 DEF Inv, Typed

LEMMA Spent ==
  ASSUME Shapes, NEW what \in DOMAIN Bounds, Spend(what)
  PROVE  env' \in [DOMAIN Bounds -> Nat]
<1>1. env \in [DOMAIN Bounds -> Nat] /\ env[what] - 1 \in Nat
  BY DEF Shapes, Spend
<1> QED
  BY <1>1 DEF Spend

LEMMA BoundNames == DOMAIN Bounds = {"others", "failures", "refusals"}
BY DEF Bounds

-----------------------------------------------------------------------------
(* People: what was pushed stays what it was.                                 *)
Kept ==
  \A p \in PRs : /\ pr[p].head \in Nat /\ pr'[p].head \in Nat /\ pr[p].head <= pr'[p].head
                 /\ \A n \in Pushes : n <= pr[p].head => commit'[p][n] = commit[p][n]

LEMMA KeptInv ==
  ASSUME Inv, Kept, UNCHANGED <<status, at, local, flaked>>,
         \A p \in PRs : pr'[p].st # "none" => pr'[p].head > 0
  PROVE  Hands' /\ Verdicts'
<1> USE DEF local, Pushes
<1>1. Hands'
  <2>1. \A w \in Watchers : \A t \in todo[w] : t[2] <= pr'[t[1]].head
    BY DEF Inv, Typed, Hands, Kept
  <2>2. \A w \in Watchers : Busy(w) => Sha(w) <= pr'[PR(w)].head
    BY DEF Inv, Typed, Hands, Kept, Sha, PR
  <2> QED
    BY <2>1, <2>2 DEF Inv, Typed, Hands, Busy, Sha, PR
<1>2. ASSUME NEW w \in Watchers, at[w] \in Judged
      PROVE  Commit(w)' = Commit(w)
  <2>1. cur[w] \in PRs \X Pushes \X BOOLEAN /\ Sha(w) <= pr[PR(w)].head
    BY <1>2 DEF Inv, Typed, Hands, Busy, Judged
  <2>2. PR(w) \in PRs /\ Sha(w) \in Pushes
    BY <2>1 DEF PR, Sha
  <2>3. commit'[PR(w)][Sha(w)] = commit[PR(w)][Sha(w)]
    BY <2>1, <2>2 DEF Kept
  <2> QED
    BY <2>1, <2>3 DEF Commit, PR, Sha
<1>3. ASSUME NEW p \in PRs, NEW n \in Pushes, status[p][n] = "success"
      PROVE  n <= pr'[p].head /\ Earned(p, n)'
  <2>1. n <= pr[p].head /\ Earned(p, n)
    BY <1>3 DEF Inv, Verdicts
  <2> QED
    BY <2>1 DEF Kept, Earned, Sound
<1> QED
  BY <1>1, <1>2, <1>3 DEF Inv, Verdicts, Earned, Commit, PR, Sha, Sound, Gated

\* A merge by whoever.
LEMMA SquashShapes ==
  ASSUME Typed, NEW p \in PRs, Open(p), Squash(p)
  PROVE  /\ main' \in Seq({"dash", "docs", "fc", "none"})
         /\ \E s \in {"dash", "docs", "fc", "none"} : main' = Append(main, s)
         /\ pr' \in [PRs -> PullRequests]
         /\ \A q \in PRs : pr'[q].head = pr[q].head /\ (pr'[q].st # "none" <=> pr[q].st # "none")
<1>1. pr[p].head \in Pushes
  <2>1. pr[p].head \in 0..MaxPushes
    BY DEF Typed, Shapes, PullRequests
  <2>2. pr[p].head > 0
    BY DEF Typed, Hands, Open
  <2> QED
    BY <2>1, <2>2, Constants DEF Pushes
<1>2. commit[p][pr[p].head].surface \in {"dash", "docs", "fc", "none"}
  BY <1>1 DEF Typed, Shapes, PullRequests, Commits
<1>3. main' \in Seq({"dash", "docs", "fc", "none"})
      /\ \E s \in {"dash", "docs", "fc", "none"} : main' = Append(main, s)
  BY <1>2, AppendProperties DEF Typed, Shapes, PullRequests, Squash
<1>4. Len(main) + 1 \in Nat
  BY LenProperties DEF Typed, Shapes, PullRequests
<1>5. /\ pr' \in [PRs -> PullRequests]
      /\ \A q \in PRs : pr'[q].head = pr[q].head /\ (pr'[q].st # "none" <=> pr[q].st # "none")
  BY <1>4 DEF Typed, Shapes, PullRequests, Squash, Open
<1> QED
  BY <1>3, <1>5

LEMMA PersonInv ==
  ASSUME Inv, NEW p \in PRs, Person(p)
  PROVE  Inv'
<1> USE DEF Outside
<1>1. ASSUME NEW s \in Surfaces, NEW D \in Defects, NEW b \in 0..Len(main), Push(p, s, D, b)
      PROVE  Shapes' /\ Kept /\ UNCHANGED <<status, at, local, flaked>>
             /\ \A q \in PRs : pr'[q].st # "none" => pr'[q].head > 0
  <2>0. Shapes
    BY DEF Inv, Typed
  <2>1. pr[p].head + 1 \in Pushes /\ pr[p].head + 1 \in 0..MaxPushes /\ pr[p].head < pr[p].head + 1
    BY <1>1, <2>0, Constants DEF Push, Shapes, PullRequests, Pushes
  <2>2. [surface |-> s, defects |-> D, base |-> b] \in Commits
    <3>1. b \in Nat
      BY <2>0, LenProperties DEF Shapes
    <3> QED
      BY <3>1, Constants DEF Commits
  <2>6. pr' \in [PRs -> PullRequests]
    <3>1. pr \in [PRs -> PullRequests]
      BY <2>0 DEF Shapes
    <3>2. pr' = [pr EXCEPT ![p] = [pr[p] EXCEPT !.st = "open", !.head = pr[p].head + 1]]
      BY <1>1, <3>1 DEF Push
    <3>4. pr[p] \in PullRequests
      BY <3>1
    <3>3. [pr[p] EXCEPT !.st = "open", !.head = pr[p].head + 1] \in PullRequests
      BY <2>1, <3>4 DEF PullRequests
    <3> QED
      BY <3>1, <3>2, <3>3
  <2>7. commit' \in [PRs -> [Pushes -> Commits]]
    BY <1>1, <2>0, <2>1, <2>2 DEF Push, Shapes, PullRequests
  <2>8. UNCHANGED <<main, status, at, green, tier2, graded, flaked, env>>
    BY <1>1 DEF Push, local
  <2>3. Shapes'
    BY <2>0, <2>6, <2>7, <2>8 DEF Shapes
  <2>9. \A q \in PRs : /\ pr[q].head \in Nat /\ pr'[q].head = IF q = p THEN pr[q].head + 1 ELSE pr[q].head
                       /\ q # p => pr'[q].st = pr[q].st
    BY <1>1, <2>0, Constants DEF Push, Shapes, PullRequests
  <2>10. \A q \in PRs, n \in Pushes : n <= pr[q].head => commit'[q][n] = commit[q][n]
    <3>1. commit \in [PRs -> [Pushes -> Commits]] /\ pr[p].head \in Nat
      BY <2>0, <2>9 DEF Shapes
    <3>2. \A n \in Pushes : n <= pr[p].head => n # pr[p].head + 1
      BY <3>1 DEF Pushes
    <3> QED
      BY <1>1, <3>1, <3>2 DEF Push
  <2>4. Kept
    BY <2>9, <2>10 DEF Kept
  <2>5. \A q \in PRs : pr'[q].st # "none" => pr'[q].head > 0
    BY <2>9 DEF Inv, Typed, Hands
  <2> QED
    BY <1>1, <2>3, <2>4, <2>5 DEF Push
<1>2. ASSUME Hold(p)
      PROVE  Shapes' /\ Kept /\ UNCHANGED <<status, at, local, flaked>>
             /\ \A q \in PRs : pr'[q].st # "none" => pr'[q].head > 0
  <2>1. Shapes /\ \A q \in PRs : pr[q].st # "none" => pr[q].head > 0
    BY DEF Inv, Typed, Hands
  <2>2. /\ pr' = [pr EXCEPT ![p] = [@ EXCEPT !.held = TRUE]]
        /\ UNCHANGED <<main, commit, status, at, todo, cur, green, tier2, graded, flaked, env>>
    BY <1>2, <2>1 DEF Hold, local
  <2>3. [pr[p] EXCEPT !.held = TRUE] \in PullRequests
    <3>1. pr[p] \in PullRequests
      BY <2>1 DEF Shapes
    <3> QED
      BY <3>1 DEF PullRequests
  <2>4. Shapes'
    BY <2>1, <2>2, <2>3 DEF Shapes, PullRequests
  <2>5. \A q \in PRs : pr'[q].head = pr[q].head /\ pr'[q].st = pr[q].st
    BY <2>1, <2>2 DEF Shapes, PullRequests
  <2>6. Kept
    BY <2>1, <2>2, <2>5, Constants DEF Kept, Shapes, PullRequests
  <2> QED
    BY <2>1, <2>2, <2>4, <2>5, <2>6 DEF local
<1>3. ASSUME MergeByHand(p)
      PROVE  Shapes' /\ Kept /\ UNCHANGED <<status, at, local, flaked>>
             /\ \A q \in PRs : pr'[q].st # "none" => pr'[q].head > 0
  <2>1. Open(p) /\ Squash(p) /\ UNCHANGED <<commit, status, at, local, flaked, env>>
    BY <1>3 DEF MergeByHand
  <2>2. Typed
    BY DEF Inv
  <2>3. Shapes'
    BY <2>1, <2>2, SquashShapes DEF Typed, Shapes, PullRequests, local
  <2>4. \A q \in PRs : pr'[q].head = pr[q].head /\ (pr'[q].st # "none" <=> pr[q].st # "none")
    BY <2>1, <2>2, SquashShapes
  <2>5. Kept
    BY <2>1, <2>2, <2>4, Constants DEF Kept, Typed, Shapes, PullRequests
  <2> QED
    BY <2>1, <2>2, <2>3, <2>4, <2>5 DEF Typed, Hands
<1>4. Shapes' /\ Kept /\ UNCHANGED <<status, at, local, flaked>>
      /\ \A q \in PRs : pr'[q].st # "none" => pr'[q].head > 0
  BY <1>1, <1>2, <1>3 DEF Person
<1> QED
  BY <1>4, KeptInv DEF Inv, Typed

-----------------------------------------------------------------------------
(* A merge of what no watcher lists.                                          *)
LEMMA OtherInv ==
  ASSUME Inv, NEW s \in Surfaces, MergeOther(s)
  PROVE  Inv'
<1>1. Shapes /\ s \in {"dash", "docs", "fc", "none"} /\ main' = Append(main, s)
      /\ UNCHANGED <<pr, commit, status, at, local, flaked>>
  BY Constants DEF Inv, Typed, MergeOther
<1>2. main' \in Seq({"dash", "docs", "fc", "none"})
  BY <1>1, AppendProperties DEF Shapes
<1>3. env' \in [DOMAIN Bounds -> Nat]
  BY <1>1, Spent, BoundNames DEF MergeOther
<1>4. Shapes'
  BY <1>1, <1>2, <1>3 DEF Shapes, local
<1>5. Kept
  BY <1>1, Constants DEF Kept, Shapes, PullRequests
<1> QED
  BY <1>1, <1>4, <1>5, KeptInv DEF Inv, Typed, Hands

-----------------------------------------------------------------------------
(* A watcher's step disturbs nobody else's, and no commit.                    *)
Hand(t) == t \in PRs \X Pushes \X BOOLEAN /\ t[2] <= pr[t[1]].head

Others(w) ==
  \A v \in Watchers \ {w} :
    at'[v] = at[v] /\ todo'[v] = todo[v] /\ cur'[v] = cur[v]
    /\ green'[v] = green[v] /\ tier2'[v] = tier2[v]

Moves(w) ==
  /\ DOMAIN todo' = Watchers /\ DOMAIN cur' = Watchers
  /\ Others(w)
  /\ \A t \in todo'[w] : Hand(t)
  /\ at'[w] \notin {"idle", "next"} => Hand(cur'[w])
  /\ at'[w] \in Judged =>
       /\ green'[w] => Clean(commit[cur'[w][1]][cur'[w][2]], <<cur'[w][1], cur'[w][2]>> \in flaked')
       /\ Gated(commit[cur'[w][1]][cur'[w][2]]) => tier2'[w]

SameCommits ==
  /\ commit' = commit /\ flaked \subseteq flaked'
  /\ \A p \in PRs : pr'[p].head = pr[p].head /\ (pr'[p].st # "none" <=> pr[p].st # "none")

Says ==
  \A p \in PRs, n \in Pushes :
    status'[p][n] = "success"
      => status[p][n] = "success" \/ (n <= pr[p].head /\ Earned(p, n))

LEMMA MoveInv ==
  ASSUME Inv, NEW w \in Watchers, Moves(w), SameCommits, Says
  PROVE  Hands' /\ Verdicts'
<1>1. ASSUME NEW v \in Watchers
      PROVE  /\ todo'[v] \subseteq PRs \X Pushes \X BOOLEAN
             /\ \A t \in todo'[v] : t[2] <= pr'[t[1]].head
             /\ at'[v] \notin {"idle", "next"}
                  => cur'[v] \in PRs \X Pushes \X BOOLEAN /\ cur'[v][2] <= pr'[cur'[v][1]].head
  <2>1. CASE v = w
    BY <2>1 DEF Moves, SameCommits, Hand
  <2>2. CASE v # w
    <3>1. at'[v] = at[v] /\ todo'[v] = todo[v] /\ cur'[v] = cur[v]
      BY <2>2 DEF Moves, Others
    <3>2. /\ todo[v] \subseteq PRs \X Pushes \X BOOLEAN
          /\ \A t \in todo[v] : t[2] <= pr[t[1]].head
          /\ at[v] \notin {"idle", "next"}
               => cur[v] \in PRs \X Pushes \X BOOLEAN /\ cur[v][2] <= pr[cur[v][1]].head
      BY DEF Inv, Typed, Hands, Busy, Sha, PR
    <3> QED
      BY <3>1, <3>2 DEF SameCommits
  <2> QED
    BY <2>1, <2>2
<1>2. \A p \in PRs : pr'[p].st # "none" => pr'[p].head > 0
  BY DEF Inv, Typed, Hands, SameCommits
<1>3. Hands'
  BY <1>1, <1>2 DEF Hands, Busy, Sha, PR, Moves
<1>4. ASSUME NEW v \in Watchers, at'[v] \in Judged
      PROVE  /\ green'[v] => Clean(commit'[cur'[v][1]][cur'[v][2]], <<cur'[v][1], cur'[v][2]>> \in flaked')
             /\ Gated(commit'[cur'[v][1]][cur'[v][2]]) => tier2'[v]
  <2>1. CASE v = w
    BY <1>4, <2>1 DEF Moves, SameCommits
  <2>2. CASE v # w
    BY <1>4, <2>2 DEF Moves, Others, SameCommits, Inv, Verdicts, Commit, Sha, PR, Earned, Clean
  <2> QED
    BY <2>1, <2>2
<1>5. ASSUME NEW p \in PRs, NEW n \in Pushes, status'[p][n] = "success"
      PROVE  n <= pr'[p].head /\ Earned(p, n)'
  BY <1>5 DEF Says, SameCommits, Inv, Verdicts, Earned, Sound
<1>6. Verdicts'
  BY <1>4, <1>5 DEF Verdicts, Commit, Sha, PR, Earned, Clean, Sound, Gated
<1> QED
  BY <1>3, <1>6

LEMMA AtHand ==
  ASSUME Inv, NEW w \in Watchers
  PROVE  /\ Busy(w) => /\ PR(w) \in PRs /\ Sha(w) \in Pushes /\ Hand(cur[w])
                       /\ Sha(w) <= pr[PR(w)].head
         /\ \A t \in todo[w] : Hand(t)
BY DEF Inv, Typed, Hands, Busy, PR, Sha, Hand

\* Of a step that leaves GitHub alone.
LEMMA Quietly ==
  ASSUME UNCHANGED <<github, flaked>>
  PROVE  SameCommits /\ Says /\ UNCHANGED <<main, pr, commit, status>>
BY DEF github, SameCommits, Says

\* Of one that only posts a status, and no success that is not sound.
LEMMA Posting ==
  ASSUME Inv, NEW w \in Watchers, Busy(w), NEW state \in {"pending", "success", "failure", "error"},
         state = "success" => Earned(PR(w), Sha(w)),
         UNCHANGED <<pr, commit, flaked>>, PostStatus(w, state)
  PROVE  /\ SameCommits /\ Says
         /\ status' \in [PRs -> [Pushes -> {"none", "pending", "success", "failure", "error"}]]
<1>1. PR(w) \in PRs /\ Sha(w) \in Pushes /\ Sha(w) <= pr[PR(w)].head
  BY AtHand
<1>2. status \in [PRs -> [Pushes -> {"none", "pending", "success", "failure", "error"}]]
  BY DEF Inv, Typed, Shapes
<1>3. Says
  BY <1>1, <1>2 DEF PostStatus, Says, Commit
<1>4. status' \in [PRs -> [Pushes -> {"none", "pending", "success", "failure", "error"}]]
  BY <1>1, <1>2 DEF PostStatus
<1> QED
  BY <1>3, <1>4 DEF SameCommits

LEMMA GradedMoves ==
  ASSUME Inv, NEW w \in Watchers, Busy(w), Graded(w), todo' = todo, UNCHANGED flaked
  PROVE  /\ Moves(w)
         /\ at' \in [Watchers -> {"idle", "next", "suite", "post", "label", "merge"}]
         /\ green' \in [Watchers -> BOOLEAN] /\ tier2' \in [Watchers -> BOOLEAN]
         /\ graded' \in [Watchers -> [PRs -> 0..MaxPushes]]
<1>1. PR(w) \in PRs /\ Sha(w) \in 0..MaxPushes
  BY AtHand, Constants DEF Pushes
<1>2. Shapes /\ DOMAIN todo = Watchers /\ DOMAIN cur = Watchers
  BY DEF Inv, Typed, Hands
<1>3. Moves(w)
  BY <1>2, AtHand DEF Shapes, Graded, Goto, Forget, Moves, Others, Judged
<1>4. graded' \in [Watchers -> [PRs -> 0..MaxPushes]]
  BY <1>1, <1>2 DEF Shapes, Graded, Remember
<1> QED
  BY <1>2, <1>3, <1>4 DEF Shapes, Graded, Goto, Forget

LEMMA GoneMoves ==
  ASSUME Inv, NEW w \in Watchers, Gone(w), UNCHANGED flaked
  PROVE  /\ Moves(w)
         /\ at' \in [Watchers -> {"idle", "next", "suite", "post", "label", "merge"}]
         /\ green' \in [Watchers -> BOOLEAN] /\ tier2' \in [Watchers -> BOOLEAN]
         /\ graded' \in [Watchers -> [PRs -> 0..MaxPushes]]
<1>1. Shapes /\ DOMAIN todo = Watchers /\ DOMAIN cur = Watchers
  BY DEF Inv, Typed, Hands
<1>2. Moves(w)
  BY <1>1 DEF Shapes, Gone, Goto, Forget, Moves, Others, Judged
<1>3. NoGrade \in [PRs -> 0..MaxPushes]
  BY Constants DEF NoGrade
<1> QED
  BY <1>1, <1>2, <1>3 DEF Shapes, Gone, Goto, Forget

\* A step from one stage to the next, with what is at hand as it was.
LEMMA OnwardMoves ==
  ASSUME Inv, NEW w \in Watchers, Busy(w), NEW stage \in {"post", "label", "merge"}, Goto(w, stage),
         UNCHANGED <<todo, cur, graded>>,
         NEW verdict \in BOOLEAN, green' = [green EXCEPT ![w] = verdict],
         NEW gated \in BOOLEAN, tier2' = [tier2 EXCEPT ![w] = gated],
         verdict => Clean(Commit(w), <<PR(w), Sha(w)>> \in flaked'), Gated(Commit(w)) => gated
  PROVE  /\ Moves(w)
         /\ at' \in [Watchers -> {"idle", "next", "suite", "post", "label", "merge"}]
         /\ green' \in [Watchers -> BOOLEAN] /\ tier2' \in [Watchers -> BOOLEAN]
         /\ graded' \in [Watchers -> [PRs -> 0..MaxPushes]]
<1>1. Shapes /\ DOMAIN todo = Watchers /\ DOMAIN cur = Watchers
  BY DEF Inv, Typed, Hands
<1>2. Moves(w)
  BY <1>1, AtHand DEF Shapes, Goto, Moves, Others, Commit, PR, Sha, Judged
<1> QED
  BY <1>1, <1>2 DEF Shapes, Goto

-----------------------------------------------------------------------------
(* One step per action of a watcher's.                                        *)
Step(w) == Shapes' /\ Moves(w) /\ SameCommits /\ Says

Action(w) ==
  \/ List(w) \/ Listed(w) \/ (\E t \in todo[w] : Begin(w, t)) \/ CheckoutFails(w)
  \/ Suite(w) \/ SuiteTimesOut(w) \/ FingerprintFails(w) \/ Post(w) \/ Label(w)
  \/ AutoMerge(w) \/ Refused(w) \/ Die(w)

LEMMA ActionSteps ==
  ASSUME Inv, NEW w \in Watchers, Action(w)
  PROVE  Step(w)
<1>0. Shapes /\ DOMAIN todo = Watchers /\ DOMAIN cur = Watchers
  BY DEF Inv, Typed, Hands
<1>1. CASE List(w)
  <2> DEFINE L == {<<p, pr[p].head, pr[p].held>> : p \in {q \in PRs :
                     Open(q) /\ (w \in Daemons => graded[w][q] # pr[q].head)}}
  <2>1. at' = [at EXCEPT ![w] = "next"] /\ todo' = [todo EXCEPT ![w] = L]
        /\ UNCHANGED <<github, cur, green, tier2, graded, flaked, env>>
    BY <1>1 DEF List, Goto
  <2>2. \A t \in L : Hand(t)
    <3>1. ASSUME NEW p \in PRs, Open(p) PROVE Hand(<<p, pr[p].head, pr[p].held>>)
      <4>1. pr[p] \in PullRequests
        BY <1>0 DEF Shapes
      <4>2. pr[p].head > 0
        BY <3>1 DEF Open, Inv, Typed, Hands
      <4> QED
        BY <4>1, <4>2, Constants DEF PullRequests, Hand, Pushes
    <3> QED
      BY <3>1
  <2> HIDE DEF L
  <2>3. Moves(w)
    BY <1>0, <2>1, <2>2 DEF Shapes, Moves, Others, Judged
  <2> QED
    BY <1>0, <2>1, <2>3, Quietly DEF Step, Shapes
<1>2. CASE Listed(w)
  <2>1. Moves(w)
    BY <1>0, <1>2, AtHand DEF Listed, Goto, Shapes, Moves, Others, Judged, local
  <2> QED
    BY <1>0, <1>2, <2>1, Quietly DEF Listed, Goto, Step, Shapes, local
<1>3. ASSUME NEW t \in todo[w], Begin(w, t) PROVE Step(w)
  <2>1. Hand(t)
    BY AtHand
  <2>2. t[1] \in PRs /\ t[2] \in Pushes
    BY <2>1 DEF Hand
  <2>3. Says /\ SameCommits
    BY <1>0, <1>3, <2>2 DEF Begin, Says, SameCommits, Shapes
  <2>4. Moves(w)
    BY <1>0, <1>3, <2>1, AtHand DEF Begin, Goto, Shapes, Moves, Others, Judged
  <2>5. status' \in [PRs -> [Pushes -> {"none", "pending", "success", "failure", "error"}]]
    BY <1>0, <1>3, <2>2 DEF Begin, Shapes
  <2> QED
    BY <1>0, <1>3, <2>3, <2>4, <2>5 DEF Begin, Goto, Step, Shapes
<1>4. CASE CheckoutFails(w)
  <2>1. Busy(w) /\ Graded(w) /\ PostStatus(w, "error") /\ UNCHANGED <<main, pr, commit, todo, flaked>>
    BY <1>4 DEF CheckoutFails, At, Busy
  <2>2. env' \in [DOMAIN Bounds -> Nat]
    BY <1>0, <1>4, Spent, BoundNames DEF CheckoutFails
  <2> QED
    BY <1>0, <2>1, <2>2, Posting, GradedMoves DEF Step, Shapes
<1>5. CASE Suite(w)
  <2>1. PICK noise \in Noises :
          /\ green' = [green EXCEPT ![w] = FpJob(Commit(w), noise)]
          /\ flaked' = IF noise = "flake" THEN flaked \cup {<<PR(w), Sha(w)>>} ELSE flaked
    BY <1>5 DEF Suite
  <2>2. FpJob(Commit(w), noise) \in BOOLEAN
    BY DEF FpJob
  <2>3. FpJob(Commit(w), noise) => Clean(Commit(w), <<PR(w), Sha(w)>> \in flaked')
    BY <2>1, FpJobSound DEF Clean
  <2>4. Busy(w) /\ Goto(w, "post") /\ UNCHANGED <<github, todo, cur, graded, env>>
    BY <1>5 DEF Suite, At, Busy
  <2>5. PICK t \in Tiers(Commit(w)) : tier2' = [tier2 EXCEPT ![w] = t]
    BY <1>5 DEF Suite
  <2>6. t \in BOOLEAN /\ (Gated(Commit(w)) => t)
    BY TiersGate
  <2> QED
    <3>1. PR(w) \in PRs /\ Sha(w) \in Pushes
      BY <2>4, AtHand
    <3>2. SameCommits /\ Says /\ flaked' \subseteq PRs \X Pushes
      BY <1>0, <2>1, <2>4, <3>1 DEF github, SameCommits, Says, Shapes
    <3> QED
      BY <1>0, <2>1, <2>2, <2>3, <2>4, <2>5, <2>6, <3>2, OnwardMoves DEF Step, Shapes, github
<1>6. CASE SuiteTimesOut(w)
  <2>1. Busy(w) /\ Goto(w, "post") /\ green' = [green EXCEPT ![w] = FALSE]
        /\ UNCHANGED <<github, todo, cur, graded, flaked>>
    BY <1>6 DEF SuiteTimesOut, At, Busy
  <2>2. env' \in [DOMAIN Bounds -> Nat]
    BY <1>0, <1>6, Spent, BoundNames DEF SuiteTimesOut
  <2>3. PICK t \in Tiers(Commit(w)) : tier2' = [tier2 EXCEPT ![w] = t]
    BY <1>6 DEF SuiteTimesOut
  <2>4. t \in BOOLEAN /\ (Gated(Commit(w)) => t)
    BY TiersGate
  <2> QED
    BY <1>0, <2>1, <2>2, <2>3, <2>4, OnwardMoves, Quietly DEF Step, Shapes
<1>7. CASE FingerprintFails(w)
  BY <1>0, <1>7, GoneMoves, Quietly DEF FingerprintFails, Step, Shapes
<1>8. CASE Post(w)
  <2>1. Busy(w) /\ Goto(w, "label") /\ UNCHANGED <<main, pr, commit, todo, cur, green, tier2, graded, flaked, env>>
    BY <1>8 DEF Post, At, Busy, local
  <2>2. green[w] \in BOOLEAN /\ green' = [green EXCEPT ![w] = green[w]]
        /\ tier2[w] \in BOOLEAN /\ tier2' = [tier2 EXCEPT ![w] = tier2[w]]
    BY <1>0, <2>1 DEF Shapes
  <2>3. (green[w] => Earned(PR(w), Sha(w))) /\ (Gated(Commit(w)) => tier2[w])
    BY <1>8 DEF Post, At, Inv, Verdicts, Judged
  <2>6. green[w] => Clean(Commit(w), <<PR(w), Sha(w)>> \in flaked')
    BY <2>1, <2>3 DEF Earned, Clean, Commit
  <2>4. CASE green[w]
    <3>1. PostStatus(w, "success")
      BY <1>8, <2>4 DEF Post
    <3> QED
      BY <1>0, <2>1, <2>2, <2>3, <2>4, <2>6, <3>1, Posting, OnwardMoves DEF Step, Shapes
  <2>5. CASE ~green[w]
    <3>1. PostStatus(w, "failure")
      BY <1>8, <2>5 DEF Post
    <3> QED
      BY <1>0, <2>1, <2>2, <2>3, <2>5, <2>6, <3>1, Posting, OnwardMoves DEF Step, Shapes
  <2> QED
    BY <2>4, <2>5
<1>9. CASE Label(w)
  <2>1. Busy(w) /\ Goto(w, "merge")
        /\ UNCHANGED <<main, commit, status, todo, cur, green, tier2, graded, flaked, env>>
    BY <1>9 DEF Label, At, Busy, local
  <2>2. PR(w) \in PRs /\ pr \in [PRs -> PullRequests]
    BY <1>0, <2>1, AtHand DEF Shapes
  <2>3. pr' = [pr EXCEPT ![PR(w)] = [pr[PR(w)] EXCEPT !.gated = tier2[w]]]
    BY <1>9, <2>2 DEF Label
  <2>4. [pr[PR(w)] EXCEPT !.gated = tier2[w]] \in PullRequests
    <3>1. pr[PR(w)] \in PullRequests /\ tier2[w] \in BOOLEAN
      BY <1>0, <2>2 DEF Shapes
    <3> QED
      BY <3>1 DEF PullRequests
  <2>5. pr' \in [PRs -> PullRequests]
    BY <2>2, <2>3, <2>4
  <2>6. SameCommits /\ Says
    BY <2>1, <2>2, <2>3 DEF SameCommits, Says, PullRequests
  <2>7. green[w] \in BOOLEAN /\ green' = [green EXCEPT ![w] = green[w]]
        /\ tier2[w] \in BOOLEAN /\ tier2' = [tier2 EXCEPT ![w] = tier2[w]]
    BY <1>0, <2>1 DEF Shapes
  <2>8. (green[w] => Clean(Commit(w), <<PR(w), Sha(w)>> \in flaked'))
        /\ (Gated(Commit(w)) => tier2[w])
    BY <1>9, <2>1 DEF Label, At, Inv, Verdicts, Judged, Earned, Clean, Commit
  <2> QED
    BY <1>0, <2>1, <2>5, <2>6, <2>7, <2>8, OnwardMoves DEF Step, Shapes
<1>10. CASE AutoMerge(w)
  <2>1. Busy(w) /\ Graded(w) /\ UNCHANGED <<commit, status, todo, flaked, env>>
    BY <1>10 DEF AutoMerge, At, Busy
  <2>2. PR(w) \in PRs
    BY <2>1, AtHand
  <2>3. \/ UNCHANGED <<main, pr>>
        \/ Open(PR(w)) /\ Squash(PR(w))
    BY <1>10 DEF AutoMerge
  <2>4. /\ main' \in Seq({"dash", "docs", "fc", "none"}) /\ pr' \in [PRs -> PullRequests]
        /\ \A q \in PRs : pr'[q].head = pr[q].head /\ (pr'[q].st # "none" <=> pr[q].st # "none")
    BY <1>0, <2>2, <2>3, SquashShapes DEF Inv, Typed, Shapes
  <2> QED
    BY <1>0, <2>1, <2>4, GradedMoves DEF Step, Shapes, SameCommits, Says
<1>11. CASE Refused(w)
  <2>1. env' \in [DOMAIN Bounds -> Nat] /\ UNCHANGED <<github, todo, flaked>>
    BY <1>0, <1>11, Spent, BoundNames DEF Refused
  <2>2. ASSUME NEW stage \in {"label", "merge"}, at[w] \in Judged, Goto(w, stage),
               UNCHANGED <<cur, green, tier2, graded>>
        PROVE  Step(w)
    <3>1. green[w] \in BOOLEAN /\ green' = [green EXCEPT ![w] = green[w]]
          /\ tier2[w] \in BOOLEAN /\ tier2' = [tier2 EXCEPT ![w] = tier2[w]]
      BY <1>0, <2>2 DEF Shapes
    <3>2. (green[w] => Clean(Commit(w), <<PR(w), Sha(w)>> \in flaked'))
          /\ (Gated(Commit(w)) => tier2[w]) /\ Busy(w)
      BY <2>1, <2>2 DEF Inv, Verdicts, Judged, Busy, Earned, Clean, Commit
    <3> QED
      BY <1>0, <2>1, <2>2, <3>1, <3>2, OnwardMoves, Quietly DEF Step, Shapes
  <2>3. CASE At(w, "merge") /\ Graded(w)
    BY <1>0, <2>1, <2>3, GradedMoves, Quietly DEF Step, Shapes, At, Busy
  <2> QED
    BY <1>11, <2>2, <2>3 DEF Refused, At, Judged
<1>12. CASE Die(w)
  <2>1. env' \in [DOMAIN Bounds -> Nat] /\ Gone(w) /\ UNCHANGED <<github, flaked>>
    BY <1>0, <1>12, Spent, BoundNames DEF Die
  <2> QED
    BY <1>0, <2>1, GoneMoves, Quietly DEF Step, Shapes
<1> QED
  BY <1>1, <1>2, <1>3, <1>4, <1>5, <1>6, <1>7, <1>8, <1>9, <1>10, <1>11, <1>12 DEF Action

LEMMA NextInv == Inv /\ [Next]_vars => Inv'
<1> SUFFICES ASSUME Inv, [Next]_vars PROVE Inv'
  OBVIOUS
<1>1. ASSUME NEW p \in PRs, Person(p) PROVE Inv'
  BY <1>1, PersonInv
<1>2. ASSUME NEW w \in Watchers, Action(w) PROVE Inv'
  <2>1. Step(w)
    BY <1>2, ActionSteps
  <2> QED
    BY <2>1, MoveInv DEF Step, Inv, Typed
<1>3. ASSUME NEW s \in Surfaces, MergeOther(s) PROVE Inv'
  BY <1>3, OtherInv
<1>4. CASE UNCHANGED vars
  <2>1. UNCHANGED <<main, pr, commit, status, at, todo, cur, green, tier2, graded, flaked, env>>
    BY <1>4 DEF vars, github, local
  <2>2. Shapes' /\ Hands'
    BY <2>1 DEF Inv, Typed, Shapes, Hands, Busy, Sha, PR
  <2>3. Verdicts'
    BY <2>1 DEF Inv, Verdicts, Commit, Sha, PR, Earned, Sound, Gated
  <2> QED
    BY <2>2, <2>3 DEF Inv, Typed
<1> QED
  BY <1>1, <1>2, <1>3, <1>4 DEF Next, Watch, Action

LEMMA AlwaysInv == Spec => []Inv
BY InitInv, NextInv, PTL DEF Spec

(* Type correctness: what a watcher lists and holds was pushed. *)
THEOREM TypeCorrect == Spec => []TypeOK
<1>1. Inv => TypeOK
  BY TypedTypeOK DEF Inv
<1> QED
  BY <1>1, AlwaysInv, PTL

(* No commit is called green that a test fails of, nor one with a fixture that *)
(* errs unless a test flaked on it: not for the commit pushed during its      *)
(* grade, nor after a noisy run, nor by a second watcher.                     *)
THEOREM GreenIsEarned == Spec => []SuccessIsEarned
<1>1. Inv => SuccessIsEarned
  BY DEF Inv, Verdicts, SuccessIsEarned
<1> QED
  BY <1>1, AlwaysInv, PTL

(* TIER-2 is never merged by a watcher, nor what has not earned it, if it     *)
(* merges the head it graded.                                                 *)
THEOREM MergesAreSafe == Spec => GradedMergesAreSafe
<1> DEFINE Safe == \A w \in Watchers :
                     AutoMerge(w) /\ main' # main /\ pr[PR(w)].head = Sha(w)
                       => Earned(PR(w), Sha(w)) /\ ~Gated(Commit(w))
<1>1. Inv => Safe
  <2> SUFFICES ASSUME Inv, NEW w \in Watchers, AutoMerge(w), main' # main
               PROVE  Earned(PR(w), Sha(w)) /\ ~Gated(Commit(w))
    OBVIOUS
  <2>1. at[w] \in Judged /\ green[w] /\ ~tier2[w]
    BY DEF AutoMerge, ShouldAutoMerge, At, Judged
  <2> QED
    BY <2>1 DEF Inv, Verdicts
<1> HIDE DEF Safe
<1>2. Inv => [Safe]_vars
  BY <1>1
<1> QED
  BY <1>2, AlwaysInv, PTL DEF GradedMergesAreSafe, Safe
-----------------------------------------------------------------------------
(* The deploy watcher.  All it takes of the others is that main only grows:   *)
(* Grow stands for a merge, whoever makes it and however many there are.      *)
Surface == {"dash", "docs", "fc", "none"}
Grow == \E s \in Surface : main' = Append(main, s) /\ UNCHANGED <<live, watcher, left>>

\* DeployTypeOK as the provers take it.
DeployTyped ==
  /\ main \in Seq(Surface)
  /\ fetched \in 0..Len(main) /\ tree \in 0..Len(main) /\ pinned \in 0..Len(main)
  /\ dash \in 0..Len(main) /\ new \in 0..Len(main)
  /\ file \in NoSha..Len(main) /\ last \in NoSha..Len(main)
  /\ step \in {"idle", "read", "classify", "pull", "build", "truncate", "write"}
  /\ left \in [{"faults", "relaunches"} -> Nat]

DeployInv == DeployTyped /\ AboutToConsume

LEMMA DeployConstants ==
  Surfaces \subseteq Surface /\ {MaxMerges, MaxFaults, MaxRelaunches} \subseteq Nat
BY SafeDeployConstants, OriginConstants DEF SafeDeployConstants, OriginConstants, Surface

LEMMA InitDeployInv == DeployInit => DeployInv
BY DeployConstants DEF DeployInit, DeployInv, DeployTyped, AboutToConsume, NoSha

LEMMA Left ==
  ASSUME DeployTyped, NEW what \in {"faults", "relaunches"}, Spending(what)
  PROVE  left' \in [{"faults", "relaunches"} -> Nat]
<1>1. left[what] > 0 /\ left' = [left EXCEPT ![what] = left[what] - 1] /\ left[what] \in Nat
  BY DEF Spending, DeployTyped
<1> QED
  BY <1>1 DEF DeployTyped

\* A merge moves no range that was there before it.
LEMMA GrowKeepsRanges ==
  ASSUME DeployTyped, Grow
  PROVE  /\ main' \in Seq(Surface) /\ Len(main') = Len(main) + 1
         /\ \A a \in 0..Len(main), b \in 0..Len(main), s \in Surface : Merged(a, b, s)' <=> Merged(a, b, s)
<1>1. PICK s \in Surface : main' = Append(main, s)
  BY DEF Grow
<1>2. /\ main' \in Seq(Surface) /\ Len(main') = Len(main) + 1
      /\ \A m \in 1..Len(main) : main'[m] = main[m]
  BY <1>1 DEF DeployTyped
<1>3. ASSUME NEW a \in 0..Len(main), NEW b \in 0..Len(main), NEW m \in (a + 1)..b
      PROVE  m \in 1..Len(main)
  OBVIOUS
<1> QED
  BY <1>2, <1>3 DEF Merged

LEMMA GrowDeployInv == DeployInv /\ Grow => DeployInv'
<1> SUFFICES ASSUME DeployInv, Grow PROVE DeployInv'
  OBVIOUS
<1>1. UNCHANGED <<fetched, tree, pinned, dash, file, step, new, last, left>>
  BY DEF Grow, live, watcher
<1>2. DeployTyped'
  BY <1>1, GrowKeepsRanges DEF DeployInv, DeployTyped, NoSha
<1>3. last # NoSha => (Vouched(new)' <=> Vouched(new))
  BY <1>1, GrowKeepsRanges DEF DeployInv, DeployTyped, NoSha, Vouched, Merged, Surface
<1> QED
  BY <1>1, <1>2, <1>3 DEF DeployInv, AboutToConsume

LEMMA DeployStepInv == DeployInv /\ Deploy => DeployInv'
<1> SUFFICES ASSUME DeployInv, Deploy PROVE DeployInv'
  OBVIOUS
<1> USE DEF DeployInv, DeployTyped, AboutToConsume, NoSha, Then, Mine, live
<1>1. CASE Fetch
  <2>1. main' = main /\ (UNCHANGED left \/ Spending("faults"))
    BY <1>1 DEF Fetch
  <2>2. left' \in [{"faults", "relaunches"} -> Nat]
    BY <2>1, Left
  <2> QED
    BY <1>1, <2>1, <2>2 DEF Fetch
<1>2. CASE Read
  BY <1>2 DEF Read
<1>3. CASE Classify
  <2>1. step' = IF IsAuto /\ Deployable THEN "pull" ELSE "truncate"
    BY <1>3 DEF Classify
  <2>2. UNCHANGED <<main, fetched, tree, pinned, dash, file, new, last, left>>
    BY <1>3 DEF Classify
  <2>3. ~(IsAuto /\ Deployable) => Vouched(new)
    BY DEF IsAuto, Deployable, Vouched
  <2>4. Vouched(new)' <=> Vouched(new)
    BY <2>2 DEF Vouched, Merged
  <2> QED
    BY <2>1, <2>2, <2>3, <2>4
<1>4. CASE Pull
  BY <1>4 DEF Pull
<1>5. CASE Build
  BY <1>5 DEF Build, Vouched
<1>6. CASE Truncate
  BY <1>6 DEF Truncate, Vouched, Merged
<1>7. CASE Write
  BY <1>7 DEF Write
<1>8. CASE DeployFails
  BY <1>8, Left DEF DeployFails
<1>9. CASE DeployDies
  BY <1>9, Left DEF DeployDies
<1>10. CASE Relaunch
  <2>1. UNCHANGED <<main, dash, file, step, new, last>> /\ tree' = Len(main) /\ pinned' = Len(main)
        /\ fetched' = Len(main)
    BY <1>10 DEF Relaunch, watcher
  <2>2. left' \in [{"faults", "relaunches"} -> Nat]
    BY <1>10, Left DEF Relaunch
  <2> QED
    BY <2>1, <2>2 DEF Vouched, Merged
<1> QED
  BY <1>1, <1>2, <1>3, <1>4, <1>5, <1>6, <1>7, <1>8, <1>9, <1>10 DEF Deploy, Poll

\* What the deploy watcher keeps, whatever main does as long as it grows.
LEMMA DeployStep ==
  ASSUME DeployInv, Deploy \/ Grow \/ UNCHANGED deployVars
  PROVE  /\ DeployInv'
         /\ file' # NoSha /\ file' # file /\ last # NoSha => Vouched(file')
<1>1. DeployInv'
  <2>1. CASE UNCHANGED deployVars
    BY <2>1 DEF DeployInv, DeployTyped, AboutToConsume, Vouched, Merged, deployVars, live, watcher
  <2> QED
    BY <2>1, GrowDeployInv, DeployStepInv
<1>2. ASSUME file' # NoSha, file' # file PROVE Write
  BY <1>2 DEF Grow, deployVars, watcher, Deploy, Poll, Fetch, Read, Classify, Pull, Build, Truncate,
       DeployFails, DeployDies, Relaunch, Mine
<1>3. Write /\ last # NoSha => Vouched(file')
  BY DEF Write, DeployInv, AboutToConsume
<1> QED
  BY <1>1, <1>2, <1>3

LEMMA DeployTypedOK == DeployInv => DeployTypeOK
BY DEF DeployInv, DeployTyped, DeployTypeOK, Surface

LEMMA MergesGrow == DeployNext => Deploy \/ Grow
BY DeployConstants DEF DeployNext, Merge, Grow

LEMMA AlwaysDeployInv == DeploySpec => []DeployInv
BY InitDeployInv, MergesGrow, DeployStep, PTL DEF DeploySpec

\* No sha the deploy watcher goes by is ahead of main.
THEOREM DeployTypeCorrect == DeploySpec => []DeployTypeOK
BY AlwaysDeployInv, DeployTypedOK, PTL

\* A sha is consumed only with its dashboard running, or with a TIER-2 merge
\* among those the poll found: whatever a command's failure, a death, a merge
\* during the deploy or a relaunch leaves behind.
THEOREM ConsumedRuns == DeploySpec => ConsumedIsRunning
<1> DEFINE Consumes == file' # NoSha /\ file' # file /\ last # NoSha
             => dash >= file' \/ ~Merged(last, file', "dash") \/ Merged(last, file', "fc")
<1>1. DeployInv /\ [DeployNext]_deployVars => [Consumes]_deployVars
  BY MergesGrow, DeployStep DEF Vouched
<1> HIDE DEF Consumes
<1> QED
  BY <1>1, AlwaysDeployInv, PTL DEF DeploySpec, ConsumedIsRunning, Consumes

-----------------------------------------------------------------------------
(* The two together: the gate's merges are the ones the deploy watcher        *)
(* fetches.  Neither's promise takes more of the other.                       *)
GateAndDeploy ==
  /\ Init /\ DeployInit
  /\ [][\/ Next /\ UNCHANGED <<live, watcher, left>>
        \/ Deploy /\ UNCHANGED <<pr, commit, status, at, local, flaked, env>>]_<<vars, deployVars>>

\* A step of the gate leaves main alone or merges one commit onto it.
LEMMA GateGrows ==
  ASSUME Inv, Next
  PROVE  main' = main \/ \E s \in Surface : main' = Append(main, s)
<1>1. ASSUME NEW p \in PRs, Open(p), Squash(p) PROVE \E s \in Surface : main' = Append(main, s)
  BY <1>1, SquashShapes DEF Inv, Surface
<1>2. ASSUME NEW p \in PRs, Person(p) PROVE main' = main \/ \E s \in Surface : main' = Append(main, s)
  BY <1>1, <1>2 DEF Person, Push, Hold, MergeByHand
<1>3. ASSUME NEW w \in Watchers, AutoMerge(w)
      PROVE  main' = main \/ \E s \in Surface : main' = Append(main, s)
  <2>1. PR(w) \in PRs
    BY <1>3, AtHand DEF AutoMerge, At, Busy
  <2> QED
    BY <1>1, <1>3, <2>1 DEF AutoMerge
<1>4. ASSUME NEW w \in Watchers, Action(w), ~AutoMerge(w) PROVE main' = main
  BY <1>4 DEF Action, List, Listed, Begin, CheckoutFails, Suite, SuiteTimesOut, FingerprintFails,
       Post, Label, Refused, Die, github
<1>5. ASSUME NEW s \in Surfaces, MergeOther(s) PROVE \E t \in Surface : main' = Append(main, t)
  BY <1>5, Constants DEF MergeOther, Surface
<1> QED
  BY <1>2, <1>3, <1>4, <1>5 DEF Next, Watch, Action

\* Beside each other, the gate calls nothing green that a test fails of and
\* merges what it graded safely, and what the deploy watcher consumes of those
\* merges runs.
THEOREM GateAndDeployKeep ==
  GateAndDeploy => []SuccessIsEarned /\ GradedMergesAreSafe /\ []DeployTypeOK /\ ConsumedIsRunning
<1>1. GateAndDeploy => Spec
  <2>1. [\/ Next /\ UNCHANGED <<live, watcher, left>>
         \/ Deploy /\ UNCHANGED <<pr, commit, status, at, local, flaked, env>>]_<<vars, deployVars>> => [Next]_vars
    BY DEF vars, github, Deploy, Poll, Fetch, Read, Classify, Pull, Build, Truncate, Write,
         DeployFails, DeployDies, Relaunch, Mine
  <2> QED
    BY <2>1, PTL DEF GateAndDeploy, Spec
<1> DEFINE Both == \/ Next /\ UNCHANGED <<live, watcher, left>>
                   \/ Deploy /\ UNCHANGED <<pr, commit, status, at, local, flaked, env>>
           Consumes == file' # NoSha /\ file' # file /\ last # NoSha
             => dash >= file' \/ ~Merged(last, file', "dash") \/ Merged(last, file', "fc")
<1>2. Inv /\ [Both]_<<vars, deployVars>> => Deploy \/ Grow \/ UNCHANGED deployVars
  BY GateGrows DEF Grow, deployVars
<1>3. Inv /\ DeployInv /\ [Both]_<<vars, deployVars>> => DeployInv' /\ [Consumes]_deployVars
  BY <1>2, DeployStep DEF Vouched
<1> HIDE DEF Consumes
<1>4. GateAndDeploy => []DeployInv /\ [][Consumes]_deployVars
  BY <1>1, <1>3, AlwaysInv, InitDeployInv, PTL DEF GateAndDeploy
<1>5. GateAndDeploy => []DeployTypeOK /\ ConsumedIsRunning
  BY <1>4, DeployTypedOK, PTL DEF ConsumedIsRunning, Consumes
<1> QED
  BY <1>1, <1>5, GreenIsEarned, MergesAreSafe
================================================================================
