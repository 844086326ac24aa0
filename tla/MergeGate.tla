------------------------------- MODULE MergeGate -------------------------------
(***************************************************************************)
(* The merge gate.  A watcher lists the open pull requests, and for each    *)
(* whose head it has not graded checks the head out, runs the suite,        *)
(* classifies what it changes, posts a status and a label, and merges it if *)
(* it is green, TIER-1 and not held.                                        *)
(*                                                                          *)
(* ops/ci_watcher.py, ops/ci_scope.py, ops/ci_watcher.sh.  One step per     *)
(* call of GitHub whose order others can observe; people push, hold and     *)
(* merge beside it.  A commit goes by its pull request and the number of    *)
(* its push, what it changes by its surface (see Origin).                   *)
(***************************************************************************)
EXTENDS Origin

CONSTANTS
  PRs,
  Watchers,     \* processes of the watcher
  Daemons,      \* those that poll; the others run --once
  Armed,        \* those without --no-auto-merge
  Defects,      \* what may be wrong with a commit, together: "failure", a test that
                \* fails, "error", a test whose fixture does, "broken", a registry
                \* that cannot be imported
  MaxPushes,    \* commits of a pull request
  MaxOthers,    \* bound on merges of pull requests no watcher ever lists
  MaxFailures,  \* bound on watchers dying, suites that take too long and
                \* checkouts that fail
  MaxRefusals   \* bound on statuses, labels and merges GitHub refuses

ASSUME MergeGateConstants ==
  /\ Daemons \subseteq Watchers /\ Armed \subseteq Watchers
  /\ Defects \subseteq SUBSET {"failure", "error", "broken"}
  /\ {MaxPushes, MaxOthers, MaxFailures, MaxRefusals} \subseteq Nat

VARIABLES
  pr,       \* each pull request at GitHub: its state, head and labels
  commit,   \* what each commit changes, and what is wrong with it
  status,   \* its ci/fp-suite
  at,       \* the next step of each watcher, "idle" between polls
  todo,     \* pull requests it has listed and not yet graded
  cur,      \* the one it is grading, as it was listed
  green,    \* the suite's verdict
  tier2,    \* the classification's
  graded,   \* a daemon's memory of the heads it has graded
  flaked,   \* commits a test has flaked on in a suite; nobody keeps it
  env       \* what is left of the bounds

github == <<main, pr, commit, status>>
local == <<todo, cur, green, tier2, graded>>
vars == <<github, at, local, flaked, env>>

Pushes == 1..MaxPushes
Bounds == [others |-> MaxOthers, failures |-> MaxFailures, refusals |-> MaxRefusals]
Spend(what) == env[what] > 0 /\ env' = [env EXCEPT ![what] = @ - 1]

Unpushed == [surface |-> "docs", defects |-> {}, base |-> 0]
Unopened == [st |-> "none", head |-> 0, held |-> FALSE, gated |-> FALSE, merge |-> 0]
NoGrade == [p \in PRs |-> 0]

Init ==
  /\ main = <<>>
  /\ pr = [p \in PRs |-> Unopened]
  /\ commit = [p \in PRs |-> [n \in Pushes |-> Unpushed]]
  /\ status = [p \in PRs |-> [n \in Pushes |-> "none"]]
  /\ at = [w \in Watchers |-> "idle"] /\ todo = [w \in Watchers |-> {}]
  /\ cur = [w \in Watchers |-> <<>>] /\ green = [w \in Watchers |-> FALSE]
  /\ tier2 = [w \in Watchers |-> FALSE]
  /\ graded = [w \in Watchers |-> NoGrade] /\ flaked = {}
  /\ env = Bounds

-----------------------------------------------------------------------------
(* What the suite makes of a commit.                                        *)

\* "flake": a test fails in parallel and not alone; "crash": a worker does.
Noises == {"none", "flake", "crash"}

Passes(c, noise) == c.defects = {} /\ noise = "none"

\* The ids of pytest's FAILED lines: an error in a fixture has none.
FailedIds(c, noise) ==
  (c.defects \cap {"failure", "broken"}) \cup (IF noise = "flake" THEN {"flake"} ELSE {})
PassAlone(ids) == ids \subseteq {"flake"}

(* _run_fp_job: the parallel run; with no id to go by a serial one; and     *)
(* those that failed, alone. *)
FpJob(c, noise) ==
  LET ids == IF FailedIds(c, noise) = {} THEN FailedIds(c, "none") ELSE FailedIds(c, noise)
  IN  \/ Passes(c, noise)
      \/ FailedIds(c, noise) = {} /\ Passes(c, "none")
      \/ ids # {} /\ PassAlone(ids)

\* ci_scope.classify, of the paths a commit changes: an empty diff is gated.
Gated(c) == c.surface \in {"fc", "none"}

(* And of the fingerprints, of the commit and of the tip of main: what was  *)
(* merged since its base may have moved main's. *)
MovedSince(c) == Merged(c.base, Len(main), "fc")

\* Mutant: the fingerprints decide alone.
TiersByFingerprint(c) == {FALSE, MovedSince(c)}

Tiers(c) == {Gated(c), Gated(c) \/ MovedSince(c)}

-----------------------------------------------------------------------------
(* People.                                                                  *)

Outside == UNCHANGED <<at, local, flaked, env>>
Open(p) == pr[p].st = "open"

Push(p, surface, defects, base) ==
  /\ pr[p].st \in {"none", "open"} /\ pr[p].head < MaxPushes
  /\ pr' = [pr EXCEPT ![p] = [@ EXCEPT !.st = "open", !.head = pr[p].head + 1]]
  /\ commit' = [commit EXCEPT ![p][pr[p].head + 1] =
                  [surface |-> surface, defects |-> defects, base |-> base]]
  /\ UNCHANGED <<main, status>> /\ Outside

\* The no-auto label.
Hold(p) ==
  /\ Open(p) /\ ~pr[p].held
  /\ pr' = [pr EXCEPT ![p].held = TRUE]
  /\ UNCHANGED <<main, commit, status>> /\ Outside

(* A merge takes the head the pull request has by then. *)
Squash(p) ==
  /\ main' = Append(main, commit[p][pr[p].head].surface)
  /\ pr' = [pr EXCEPT ![p] = [@ EXCEPT !.st = "merged", !.merge = Len(main) + 1]]

MergeByHand(p) ==
  /\ Open(p) /\ Squash(p)
  /\ UNCHANGED <<commit, status>> /\ Outside

(* A pull request that is open between two polls only. *)
MergeOther(surface) ==
  /\ Spend("others")
  /\ main' = Append(main, surface)
  /\ UNCHANGED <<pr, commit, status, at, local, flaked>>

-----------------------------------------------------------------------------
(* A watcher.                                                               *)

At(w, step) == at[w] = step
Goto(w, step) == at' = [at EXCEPT ![w] = step]

(* list_open_prs, and what the loop skips of it. *)
List(w) ==
  /\ At(w, "idle") /\ Goto(w, "next")
  /\ todo' = [todo EXCEPT ![w] =
       {<<p, pr[p].head, pr[p].held>> : p \in {q \in PRs :
          Open(q) /\ (w \in Daemons => graded[w][q] # pr[q].head)}}]
  /\ UNCHANGED <<github, cur, green, tier2, graded, flaked, env>>

Listed(w) ==
  /\ At(w, "next") /\ todo[w] = {} /\ Goto(w, "idle")
  /\ UNCHANGED <<github, local, flaked, env>>

PR(w) == cur[w][1]
Sha(w) == cur[w][2]
Held(w) == cur[w][3]
Commit(w) == commit[PR(w)][Sha(w)]

\* Mutant: the status is that of the branch.
PostOnBranch(w, state) == status' = [status EXCEPT ![PR(w)][pr[PR(w)].head] = state]

PostStatus(w, state) == status' = [status EXCEPT ![PR(w)][Sha(w)] = state]

Begin(w, t) ==
  /\ At(w, "next") /\ t \in todo[w] /\ Goto(w, "suite")
  /\ todo' = [todo EXCEPT ![w] = @ \ {t}] /\ cur' = [cur EXCEPT ![w] = t]
  /\ status' = [status EXCEPT ![t[1]][t[2]] = "pending"]
  /\ UNCHANGED <<main, pr, commit, green, tier2, graded, flaked, env>>

\* Mutant: what is remembered is the head there is by then.
RememberHead(w) == graded' = [graded EXCEPT ![w][PR(w)] = pr[PR(w)].head]

\* main: the head that was listed is graded, whatever came of it.
Remember(w) == graded' = [graded EXCEPT ![w][PR(w)] = Sha(w)]

\* What grade_pr held is let go.
Forget(w) ==
  /\ cur' = [cur EXCEPT ![w] = <<>>]
  /\ green' = [green EXCEPT ![w] = FALSE] /\ tier2' = [tier2 EXCEPT ![w] = FALSE]
Graded(w) == Goto(w, "next") /\ Remember(w) /\ Forget(w)

(* The worktree cannot be had: an error, and not tried again. *)
CheckoutFails(w) ==
  /\ At(w, "suite") /\ Spend("failures") /\ Graded(w)
  /\ PostStatus(w, "error")
  /\ UNCHANGED <<main, pr, commit, todo, flaked>>

\* What was merged last decides whether main can be imported.
MainBroken == \E p \in PRs : pr[p].merge > 0 /\ pr[p].merge = Len(main)
                             /\ "broken" \in commit[p][pr[p].head].defects

Imports(w) == "broken" \notin Commit(w).defects /\ ~MainBroken

Suite(w) ==
  /\ At(w, "suite") /\ Imports(w) /\ Goto(w, "post")
  /\ \E noise \in Noises :
       /\ green' = [green EXCEPT ![w] = FpJob(Commit(w), noise)]
       /\ flaked' = IF noise = "flake" THEN flaked \cup {<<PR(w), Sha(w)>>} ELSE flaked
  /\ \E t \in Tiers(Commit(w)) : tier2' = [tier2 EXCEPT ![w] = t]
  /\ UNCHANGED <<github, todo, cur, graded, env>>

(* A job is given SUITE_TIMEOUT_S; the serial run of all tests needs more. *)
SuiteTimesOut(w) ==
  /\ At(w, "suite") /\ Imports(w) /\ Spend("failures") /\ Goto(w, "post")
  /\ green' = [green EXCEPT ![w] = FALSE]
  /\ \E t \in Tiers(Commit(w)) : tier2' = [tier2 EXCEPT ![w] = t]
  /\ UNCHANGED <<github, todo, cur, graded, flaked>>

(* The process is gone, and its memory; the wrapper starts another. *)
Gone(w) ==
  /\ Goto(w, "idle") /\ todo' = [todo EXCEPT ![w] = {}] /\ Forget(w)
  /\ graded' = [graded EXCEPT ![w] = NoGrade]

(* fingerprint_in raises, of the head or of main, and nobody catches it. *)
FingerprintFails(w) ==
  /\ At(w, "suite") /\ ~Imports(w)
  /\ Gone(w)
  /\ UNCHANGED <<github, flaked, env>>

Post(w) ==
  /\ At(w, "post") /\ Goto(w, "label")
  /\ PostStatus(w, IF green[w] THEN "success" ELSE "failure")
  /\ UNCHANGED <<main, pr, commit, local, flaked, env>>

\* Mutant: a label once there stays.
LabelAdded(w) ==
  /\ At(w, "label") /\ Goto(w, "merge")
  /\ pr' = [pr EXCEPT ![PR(w)].gated = @ \/ tier2[w]]
  /\ UNCHANGED <<main, commit, status, local, flaked, env>>

(* ensure_label, added or removed. *)
Label(w) ==
  /\ At(w, "label") /\ Goto(w, "merge")
  /\ pr' = [pr EXCEPT ![PR(w)].gated = tier2[w]]
  /\ UNCHANGED <<main, commit, status, local, flaked, env>>

(* The labels are those of the listing. *)
ShouldAutoMerge(w) == green[w] /\ ~tier2[w] /\ w \in Armed /\ ~Held(w)

AutoMerge(w) ==
  /\ At(w, "merge") /\ Graded(w)
  /\ IF ShouldAutoMerge(w) /\ Open(PR(w)) THEN Squash(PR(w)) ELSE UNCHANGED <<main, pr>>
  /\ UNCHANGED <<commit, status, todo, flaked, env>>

(* GitHub refuses a status, a label or the merge: logged, and passed over. *)
Refused(w) ==
  /\ Spend("refusals")
  /\ \/ At(w, "post") /\ Goto(w, "label") /\ UNCHANGED <<cur, green, tier2, graded>>
     \/ At(w, "label") /\ Goto(w, "merge") /\ UNCHANGED <<cur, green, tier2, graded>>
     \/ At(w, "merge") /\ ShouldAutoMerge(w) /\ Graded(w)
  /\ UNCHANGED <<github, todo, flaked>>

(* A call of gh fails, a docker run outlives its limit, or the host stops. *)
Die(w) ==
  /\ ~At(w, "idle") /\ Spend("failures")
  /\ Gone(w)
  /\ UNCHANGED <<github, flaked>>

-----------------------------------------------------------------------------
Watch(w) ==
  \/ List(w) \/ Listed(w) \/ Suite(w) \/ FingerprintFails(w) \/ Post(w) \/ Label(w) \/ AutoMerge(w)
  \/ \E t \in todo[w] : Begin(w, t)

Person(p) ==
  \/ Hold(p) \/ MergeByHand(p)
  \/ \E s \in Surfaces, D \in Defects, b \in 0..Len(main) : Push(p, s, D, b)

Next ==
  \/ \E p \in PRs : Person(p)
  \/ \E s \in Surfaces : MergeOther(s)
  \/ \E w \in Watchers :
       Watch(w) \/ CheckoutFails(w) \/ SuiteTimesOut(w) \/ Refused(w) \/ Die(w)

Spec == Init /\ [][Next]_vars

(* A daemon polls for ever, under a wrapper that restarts it. *)
FairSpec == Spec /\ \A w \in Daemons : WF_vars(Watch(w))

-----------------------------------------------------------------------------
(* Properties.                                                              *)

Commits == [surface : {"dash", "docs", "fc", "none"}, defects : SUBSET {"failure", "error", "broken"},
            base : Nat]

(* Every variable keeps its domain; a watcher at work has one at hand. *)
TypeOK ==
  /\ main \in Seq({"dash", "docs", "fc", "none"})
  /\ pr \in [PRs -> [st : {"none", "open", "merged"}, head : 0..MaxPushes, held : BOOLEAN,
                     gated : BOOLEAN, merge : Nat]]
  /\ \A p \in PRs : pr[p].st # "none" => pr[p].head > 0
  /\ commit \in [PRs -> [Pushes -> Commits]]
  /\ status \in [PRs -> [Pushes -> {"none", "pending", "success", "failure", "error"}]]
  /\ at \in [Watchers -> {"idle", "next", "suite", "post", "label", "merge"}]
  /\ green \in [Watchers -> BOOLEAN] /\ tier2 \in [Watchers -> BOOLEAN]
  /\ graded \in [Watchers -> [PRs -> 0..MaxPushes]] /\ flaked \subseteq PRs \X Pushes
  /\ \A w \in Watchers :
       /\ todo[w] \subseteq PRs \X Pushes \X BOOLEAN
       /\ at[w] \notin {"idle", "next"} => cur[w] \in PRs \X Pushes \X BOOLEAN
  /\ env \in [DOMAIN Bounds -> Nat]

\* None of its tests fails; and a fixture errs only if a suite was noisy.
Sound(c) == c.defects \cap {"failure", "broken"} = {}
Earned(p, n) ==
  Sound(commit[p][n]) /\ ("error" \in commit[p][n].defects => <<p, n>> \in flaked)

(* A commit is called green only if none of its tests fails, whoever graded *)
(* it, whatever was pushed meanwhile, and however noisy the run was; and if *)
(* no fixture errs, but for one passed over beside a flake.                 *)
SuccessIsEarned ==
  \A p \in PRs, n \in Pushes : status[p][n] = "success" => Earned(p, n)

(* A watcher that merges the head it graded merges one of TIER-1 that has   *)
(* earned it, whatever was merged, pushed or graded beside it.              *)
GradedMergesAreSafe ==
  [][\A w \in Watchers :
       AutoMerge(w) /\ main' # main /\ pr[PR(w)].head = Sha(w)
         => Earned(PR(w), Sha(w)) /\ ~Gated(Commit(w))]_vars

\* A label gates all of TIER-2, and else only what main has moved under.
LabelFits(p, c) ==
  /\ Gated(c) => pr[p].gated
  /\ pr[p].gated => Gated(c) \/ MovedSince(c)

\* GitHub refuses no call, and neither a head nor main ever breaks a registry.
Served ==
  /\ env.refusals = MaxRefusals
  /\ \A p \in PRs, n \in Pushes : "broken" \notin commit[p][n].defects

(* While that is so, a head that nobody replaces is graded in the end: its  *)
(* status says so, and the pull request's label is that of its tier.        *)
HeadsAreGraded ==
  \A p \in PRs, n \in Pushes :
    []Served /\ <>[](Open(p) /\ pr[p].head = n)
      => <>[](status[p][n] = "error"
                \/ (status[p][n] \in {"success", "failure"} /\ LabelFits(p, commit[p][n])))

-----------------------------------------------------------------------------
(* What the documents promise, and the code does not keep.                  *)

(* What an armed watcher merges is green and TIER-1.  gh merges the head    *)
(* there is by then, not the one that was graded.                           *)
AutoMergesAreGraded ==
  [][\A p \in PRs :
       pr'[p].st = "merged" /\ pr[p].st = "open" /\ (\E w \in Watchers : AutoMerge(w))
         => status[p][pr[p].head] = "success"]_vars

(* Green means that every gating job passes.  A fixture that errs is passed *)
(* over if a flaky test failed beside it.                                   *)
GreenIsClean ==
  \A p \in PRs, n \in Pushes : status[p][n] = "success" => commit[p][n].defects = {}
================================================================================
