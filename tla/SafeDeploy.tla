------------------------------- MODULE SafeDeploy -------------------------------
(***************************************************************************)
(* The deploy watcher of the merge gate.  A poll fetches origin/main and    *)
(* classifies what was merged since the sha in its state file: a range that *)
(* is TIER-1 and touches the dashboard alone is deployed, by a pull in the  *)
(* live tree and a rebuild; any other is consumed.                          *)
(*                                                                          *)
(* ops/ci_deploy.py, ops/ci_scope.py, ops/ci_daemon_guard.sh.  One step per *)
(* git or docker command and per access of the file.  For merges and shas   *)
(* see Origin; what the merge gate names too is named for the deploy here.  *)
(***************************************************************************)
EXTENDS Origin

CONSTANTS
  MaxMerges,    \* bound on merges
  MaxFaults,    \* bound on commands that fail, and deaths
  DiesWriting,  \* the process may die with the state file empty
  MaxRelaunches \* bound on relaunches of the feature-computer

ASSUME SafeDeployConstants ==
  /\ {MaxMerges, MaxFaults, MaxRelaunches} \subseteq Nat
  /\ DiesWriting \in BOOLEAN

VARIABLES
  fetched,  \* origin/main as the live tree's repository last saw it
  tree,     \* HEAD of the live tree, mounted by the feature-computer
  pinned,   \* HEAD as the last relaunch left it
  dash,     \* the sha the dashboard was last built from
  file,     \* the state file, NoSha while empty
  step,     \* the watcher's next step
  new, last,  \* the shas its poll compares
  left      \* what is left of the bounds

live == <<fetched, tree, pinned, dash>>
watcher == <<file, step, new, last>>
deployVars == <<main, live, watcher, left>>

NoSha == -1
Spending(what) == left[what] > 0 /\ left' = [left EXCEPT ![what] = @ - 1]

DeployInit ==
  /\ main = <<>>
  /\ fetched = 0 /\ tree = 0 /\ pinned = 0 /\ dash = 0
  /\ file = NoSha /\ step = "idle" /\ new = 0 /\ last = NoSha
  /\ left = [faults |-> MaxFaults, relaunches |-> MaxRelaunches]

-----------------------------------------------------------------------------
(* Others: a merge, and the relaunch that brings the live tree current.     *)

Merge(surface) ==
  /\ Len(main) < MaxMerges
  /\ main' = Append(main, surface)
  /\ UNCHANGED <<live, watcher, left>>

Relaunch ==
  /\ Spending("relaunches")
  /\ tree' = Len(main) /\ pinned' = Len(main) /\ fetched' = Len(main)
  /\ UNCHANGED <<main, dash, watcher>>

-----------------------------------------------------------------------------
(* deploy_once.                                                             *)

Then(next) == step' = next
Mine == UNCHANGED <<main, left>>

\* Mutant: the ref is read as the last pull left it.
FetchSkipped ==
  /\ step = "idle" /\ Then("read")
  /\ new' = fetched
  /\ UNCHANGED <<main, live, file, last, left>>

\* git fetch, whose failure nobody checks, and rev-parse.
Fetch ==
  /\ step = "idle" /\ Then("read")
  /\ \/ fetched' = Len(main) /\ UNCHANGED left
     \/ Spending("faults") /\ UNCHANGED fetched
  /\ new' = fetched'
  /\ UNCHANGED <<main, tree, pinned, dash, file, last>>

(* An empty file is a first run: the sha is a baseline. *)
Read ==
  /\ step = "read"
  /\ last' = file
  /\ Then(CASE file = NoSha -> "truncate" [] file = new -> "idle" [] OTHER -> "classify")
  /\ Mine /\ UNCHANGED <<live, file, new>>

Deployable == Merged(last, new, "dash")
IsAuto == ~Merged(last, new, "fc") /\ (Merged(last, new, "dash") \/ Merged(last, new, "docs"))

(* classify and deploy_target: what is not deployed is consumed. *)
Classify ==
  /\ step = "classify"
  /\ Then(IF IsAuto /\ Deployable THEN "pull" ELSE "truncate")
  /\ Mine /\ UNCHANGED <<live, file, new, last>>

(* git pull fetches once more: it brings what was merged since. *)
Pull ==
  /\ step = "pull" /\ Then("build")
  /\ tree' = Len(main) /\ fetched' = Len(main)
  /\ Mine /\ UNCHANGED <<pinned, dash, file, new, last>>

(* compose up --build, and a look at the container's state. *)
Build ==
  /\ step = "build" /\ Then("truncate")
  /\ dash' = tree
  /\ Mine /\ UNCHANGED <<fetched, tree, pinned, file, new, last>>

\* Mutant: the sha is consumed although the deploy failed.
FailConsumes ==
  /\ step \in {"pull", "build"} /\ Spending("faults") /\ Then("truncate")
  /\ UNCHANGED <<main, live, file, new, last>>

\* Mutant: a deploy that failed is taken back by a merge.
FailRollsBack ==
  /\ step \in {"pull", "build"} /\ Spending("faults") /\ Then("idle")
  /\ tree' = tree - 1
  /\ UNCHANGED <<main, fetched, pinned, dash, file, new, last>>

(* The pull or the build fails, or the container is not seen running: the   *)
(* sha stays for the next poll. *)
DeployFails ==
  /\ step \in {"pull", "build"} /\ Spending("faults") /\ Then("idle")
  /\ dash' \in IF step = "build" THEN {dash, tree} ELSE {dash}
  /\ UNCHANGED <<main, fetched, tree, pinned, file, new, last>>

(* _write_state opens the file with "w". *)
Truncate ==
  /\ step = "truncate" /\ Then("write")
  /\ file' = NoSha
  /\ Mine /\ UNCHANGED <<live, new, last>>

Write ==
  /\ step = "write" /\ Then("idle")
  /\ file' = new
  /\ Mine /\ UNCHANGED <<live, new, last>>

(* An exception nobody catches, or the host; the wrapper starts another. *)
DeployDies ==
  /\ step # "idle" /\ (step = "write" => DiesWriting) /\ Spending("faults") /\ Then("idle")
  /\ UNCHANGED <<main, live, file, new, last>>

-----------------------------------------------------------------------------
Poll == Fetch \/ Read \/ Classify \/ Pull \/ Build \/ Truncate \/ Write

Deploy == Poll \/ DeployFails \/ DeployDies \/ Relaunch

DeployNext == Deploy \/ \E s \in Surfaces : Merge(s)

DeploySpec == DeployInit /\ [][DeployNext]_deployVars

(* The daemon polls for ever, under a wrapper that restarts it. *)
DeployFairSpec == DeploySpec /\ WF_deployVars(Poll)

-----------------------------------------------------------------------------
(* Properties.                                                              *)

(* Every variable keeps its domain, and no sha is ahead of main. *)
DeployTypeOK ==
  /\ main \in Seq({"dash", "docs", "fc", "none"})
  /\ {fetched, tree, pinned, dash, new} \subseteq 0..Len(main)
  /\ {file, last} \subseteq NoSha..Len(main)
  /\ step \in {"idle", "read", "classify", "pull", "build", "truncate", "write"}
  /\ left \in [{"faults", "relaunches"} -> Nat]

(* A sha is consumed only with its dashboard running, or with a TIER-2      *)
(* merge among those the poll found, whatever failed, died or merged since. *)
ConsumedIsRunning ==
  [][file' # NoSha /\ file' # file /\ last # NoSha
       => dash >= file' \/ ~Merged(last, file', "dash") \/ Merged(last, file', "fc")]_deployVars

(* Why: a build comes after the pull that brought what was classified, and  *)
(* what is about to be consumed is vouched for already.                     *)
Vouched(sha) == dash >= sha \/ ~Merged(last, sha, "dash") \/ Merged(last, sha, "fc")
AboutToConsume ==
  /\ step = "build" => tree >= new
  /\ step \in {"truncate", "write"} /\ last # NoSha => Vouched(new)

Awaited(m) == file # NoSha /\ file < m /\ m <= Len(main) /\ main[m] = "dash"

(* If nothing of TIER-2 is ever merged, a merge of the dashboard that the   *)
(* state file has not seen runs in the end.                                 *)
DashboardFollows ==
  [](\A k \in 1..Len(main) : main[k] # "fc")
    => \A m \in 1..MaxMerges : Awaited(m) ~> dash >= m

-----------------------------------------------------------------------------
(* What the documents promise, and the code does not keep.                  *)

(* The tree the feature-computer mounts is pinned: what changes it comes    *)
(* with the relaunch.  A dashboard's pull brings everything merged before.  *)
TreeIsPinned == tree > pinned => ~Merged(pinned, tree, "fc")
================================================================================
