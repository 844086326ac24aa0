------------------------------ MODULE DeployQueue ------------------------------
(***************************************************************************)
(* The continuous auto-deploy daemon and its file-backed queue.  A tick     *)
(* observes origin/main, turns the merges since the last one observed into  *)
(* queue entries, claims the ripe entries of the services it may deploy,    *)
(* and for each fast-forwards the live tree and rebuilds the container.     *)
(* Merges of the feature-computer's surface wait for a coordinated,         *)
(* operator-run relaunch.                                                   *)
(*                                                                          *)
(* ops/auto_deploy.py, ops/deploy_queue.py, ops/deploy_scope.py.  One step  *)
(* per locked queue operation, state-file access, git command that others   *)
(* can observe, and rebuild.  A sha is the number of merges it contains; no *)
(* merge undoes another.                                                    *)
(***************************************************************************)
EXTENDS Integers, FiniteSets

CONSTANTS
  Tier1,        \* TIER-1 services, deployed by the daemon
  Tier2,        \* TIER-2 services, moved by the relaunch only
  Procs,        \* processes running tick: the daemon, a --once beside it
  MaxMerges,    \* bound on merges
  MaxDeaths     \* bound on processes dying

ASSUME DeployConstants ==
  /\ IsFiniteSet(Tier1) /\ IsFiniteSet(Tier2) /\ Tier1 \cap Tier2 = {}
  /\ {MaxMerges, MaxDeaths} \subseteq Nat

VARIABLES
  main,      \* merges on origin/main
  touches,   \* the services each merge makes stale
  fetched,   \* origin/main as the live tree's repository last saw it
  head,      \* HEAD of the live tree, mounted by the feature-computer
  state,     \* STATE_FILE, NoSha while empty
  queue,     \* pending.jsonl
  running,   \* the sha each container was last built or started from
  relaunch,  \* "none", or the last step of the relaunch under way
  deaths,    \* processes died so far
  at,        \* the next step of each process, "idle" between ticks
  new,       \* the sha its tick observed
  plan,      \* the services its tick is about to enqueue
  batch,     \* claimed entries not yet tried
  judged,    \* the ref its guard last judged, NoSha if it could not read it
  cur,       \* the entry being deployed, as a set
  failed,    \* entries to put back
  seen,      \* history: the greatest sha enqueued or taken for a baseline
  skipped,   \* history: the merges that ended in a baseline, never enqueued
  dropped    \* history: the entries in the hands of a process that died

repo == <<main, touches>>
tree == <<fetched, head>>
hands == <<batch, judged, cur, failed>>
local == <<new, plan, hands>>
past == <<seen, skipped, dropped>>
vars == <<repo, tree, state, queue, running, relaunch, deaths, at, local, past>>

Services == Tier1 \cup Tier2
Merges == 1..MaxMerges
Shas == 0..MaxMerges
NoSha == -1
Entry == [service : Services, sha : Shas, ripe : BOOLEAN]
Steps == {"idle", "read", "enqueue", "truncate", "write", "claim", "apply",
          "pull", "build"}

\* The services the merges between two shas make stale: git diff is symmetric,
\* affected_services maps its paths.
Diff(a, b) ==
  {s \in Services : \E m \in Merges :
     s \in touches[m] /\ ((a < m /\ m <= b) \/ (b < m /\ m <= a))}

Later(a, b) == IF a < b THEN b ELSE a

\* Mutant: every entry is appended.
AddedAlways(q, entries) == q \cup entries

\* deploy_queue.enqueue: idempotent on (service, sha).
Added(q, entries) ==
  q \cup {e \in entries : \A o \in q : o.service # e.service \/ o.sha # e.sha}

Init ==
  /\ main = 0 /\ touches = [m \in Merges |-> {}]
  /\ fetched = 0 /\ head = 0 /\ state = NoSha
  /\ queue = {}
  /\ running = [s \in Services |-> 0]
  /\ relaunch = "none" /\ deaths = 0
  /\ at = [p \in Procs |-> "idle"]
  /\ new = [p \in Procs |-> 0]
  /\ plan = [p \in Procs |-> {}]
  /\ batch = [p \in Procs |-> {}]
  /\ judged = [p \in Procs |-> NoSha]
  /\ cur = [p \in Procs |-> {}]
  /\ failed = [p \in Procs |-> {}]
  /\ seen = 0 /\ skipped = {} /\ dropped = {}

At(p, step) == at[p] = step
Goto(p, step) == at' = [at EXCEPT ![p] = step]

-----------------------------------------------------------------------------
(* Observe.                                                                *)

\* git fetch, whose failure nobody checks.
Fetch(p) ==
  /\ At(p, "idle")
  /\ fetched' \in {main, fetched}
  /\ Goto(p, "read")
  /\ UNCHANGED <<repo, head, state, queue, running, relaunch, deaths, local, past>>

\* An empty state file is a first run: main is the baseline, nothing is enqueued.
FirstRun(p) ==
  /\ At(p, "read") /\ state = NoSha
  /\ new' = [new EXCEPT ![p] = fetched]
  /\ skipped' = skipped \cup (seen + 1)..fetched
  /\ seen' = Later(seen, fetched)
  /\ Goto(p, "truncate")
  /\ UNCHANGED <<repo, tree, state, queue, running, relaunch, deaths, plan, hands, dropped>>

NothingNew(p) ==
  /\ At(p, "read") /\ state = fetched
  /\ Goto(p, "claim")
  /\ UNCHANGED <<repo, tree, state, queue, running, relaunch, deaths, local, past>>

\* Mutant: the diff starts after the first new merge.
ObserveSkipsOne(p) ==
  /\ At(p, "read") /\ state \notin {NoSha, fetched}
  /\ new' = [new EXCEPT ![p] = fetched]
  /\ plan' = [plan EXCEPT ![p] = Diff(state + 1, fetched)]
  /\ Goto(p, "enqueue")
  /\ UNCHANGED <<repo, tree, state, queue, running, relaunch, deaths, hands, past>>

Observe(p) ==
  /\ At(p, "read") /\ state \notin {NoSha, fetched}
  /\ new' = [new EXCEPT ![p] = fetched]
  /\ plan' = [plan EXCEPT ![p] = Diff(state, fetched)]
  /\ Goto(p, "enqueue")
  /\ UNCHANGED <<repo, tree, state, queue, running, relaunch, deaths, hands, past>>

Enqueue(p) ==
  /\ At(p, "enqueue")
  /\ queue' = Added(queue, {[service |-> s, sha |-> new[p], ripe |-> FALSE] : s \in plan[p]})
  /\ plan' = [plan EXCEPT ![p] = {}]
  /\ seen' = Later(seen, new[p])
  /\ Goto(p, "truncate")
  /\ UNCHANGED <<repo, tree, state, running, relaunch, deaths, new, hands, skipped, dropped>>

\* open(STATE_FILE, "w") empties the file before the sha is written.
Truncate(p) ==
  /\ At(p, "truncate")
  /\ state' = NoSha
  /\ Goto(p, "write")
  /\ UNCHANGED <<repo, tree, queue, running, relaunch, deaths, local, past>>

Write(p) ==
  /\ At(p, "write")
  /\ state' = new[p]
  /\ Goto(p, "claim")
  /\ UNCHANGED <<repo, tree, queue, running, relaunch, deaths, local, past>>

-----------------------------------------------------------------------------
(* Apply.                                                                  *)

\* _coalesce_newest: one entry per service, the newest.
Newest(entries) ==
  {e \in entries : \A o \in entries : o.service = e.service => o.sha <= e.sha}

Ripe == {e \in queue : e.ripe /\ e.service \in Tier1}

\* claim_batch: the ripe TIER-1 entries leave the queue, the rest stays.
ClaimBatch(p) ==
  /\ At(p, "claim")
  /\ batch' = [batch EXCEPT ![p] = Newest(Ripe)]
  /\ queue' = queue \ Ripe
  /\ Goto(p, "apply")
  /\ UNCHANGED <<repo, tree, state, running, relaunch, deaths, new, plan, judged, cur, failed, past>>

\* The entry in hand is not deployed: kept for the end of the batch.
GiveUp(p) ==
  /\ failed' = [failed EXCEPT ![p] = @ \cup cur[p]]
  /\ cur' = [cur EXCEPT ![p] = {}]
  /\ Goto(p, "apply")

\* The box is too loaded for a build.
Defer(p, s) ==
  /\ At(p, "apply")
  /\ \E e \in batch[p] :
       /\ e.service = s
       /\ batch' = [batch EXCEPT ![p] = @ \ {e}]
       /\ failed' = [failed EXCEPT ![p] = @ \cup {e}]
  /\ UNCHANGED <<repo, tree, state, queue, running, relaunch, deaths, at, new, plan, judged, cur, past>>

\* Mutant: the guard compares with the sha last observed, not with HEAD.
FfIsSafeSinceState == Diff(state, fetched) \cap Tier2 = {}

\* _tree_ff_is_fp_safe, on the ref as last fetched; FailOpen has its other case.
FfIsSafe == Diff(head, fetched) \cap Tier2 = {}

\* The guard let the tree move, having judged the merges up to sha.
Passed(p, s, sha) ==
  /\ At(p, "apply")
  /\ \E e \in batch[p] :
       /\ e.service = s
       /\ batch' = [batch EXCEPT ![p] = @ \ {e}]
       /\ cur' = [cur EXCEPT ![p] = {e}]
  /\ judged' = [judged EXCEPT ![p] = sha]
  /\ Goto(p, "pull")
  /\ UNCHANGED <<repo, tree, state, queue, running, relaunch, deaths, new, plan, failed, past>>

Check(p, s) == FfIsSafe /\ Passed(p, s, fetched)

\* HEAD or origin/main cannot be read, which passes for nothing to pull.
FailOpen(p, s) == Passed(p, s, NoSha)

Blocked(p) ==
  /\ At(p, "apply")
  /\ ~FfIsSafe
  /\ \E e \in batch[p] :
       /\ batch' = [batch EXCEPT ![p] = @ \ {e}]
       /\ failed' = [failed EXCEPT ![p] = @ \cup {e}]
  /\ UNCHANGED <<repo, tree, state, queue, running, relaunch, deaths, at, new, plan, judged, cur, past>>

\* git pull --ff-only fetches again, then moves HEAD to what it fetched.
Pull(p) ==
  /\ At(p, "pull")
  /\ fetched' = main /\ head' = main
  /\ Goto(p, "build")
  /\ UNCHANGED <<repo, state, queue, running, relaunch, deaths, local, past>>

PullFails(p) ==
  /\ At(p, "pull")
  /\ GiveUp(p)
  /\ UNCHANGED <<repo, tree, state, queue, running, relaunch, deaths, new, plan, batch, judged, past>>

Build(p, s) ==
  /\ At(p, "build")
  /\ \E e \in cur[p] : e.service = s
  /\ running' = [running EXCEPT ![s] = head]
  /\ cur' = [cur EXCEPT ![p] = {}]
  /\ Goto(p, "apply")
  /\ UNCHANGED <<repo, tree, state, queue, relaunch, deaths, new, plan, batch, judged, failed, past>>

\* A step fails and leaves the prior container, or the new one is not up.
BuildFails(p) ==
  /\ At(p, "build")
  /\ \/ UNCHANGED running
     \/ \E e \in cur[p] : running' = [running EXCEPT ![e.service] = head]
  /\ GiveUp(p)
  /\ UNCHANGED <<repo, tree, state, queue, relaunch, deaths, new, plan, batch, judged, past>>

\* Mutant: the batch ends without the retries.
FinishForgets(p) ==
  /\ At(p, "apply") /\ batch[p] = {}
  /\ UNCHANGED queue
  /\ failed' = [failed EXCEPT ![p] = {}]
  /\ Goto(p, "idle")
  /\ UNCHANGED <<repo, tree, state, running, relaunch, deaths, new, plan, batch, judged, cur, past>>

\* The end of apply_batch: failures go back, with the age they had.
Finish(p) ==
  /\ At(p, "apply") /\ batch[p] = {}
  /\ queue' = Added(queue, failed[p])
  /\ failed' = [failed EXCEPT ![p] = {}]
  /\ Goto(p, "idle")
  /\ UNCHANGED <<repo, tree, state, running, relaunch, deaths, new, plan, batch, judged, cur, past>>

\* The process is killed, or dies of a git diff that failed or of a build's
\* TimeoutExpired: what it held in memory is gone, its next tick starts afresh.
Die(p) ==
  /\ deaths < MaxDeaths
  /\ at[p] # "idle"
  /\ deaths' = deaths + 1
  /\ dropped' = dropped \cup batch[p] \cup cur[p] \cup failed[p]
  /\ Goto(p, "idle")
  /\ plan' = [plan EXCEPT ![p] = {}]
  /\ batch' = [batch EXCEPT ![p] = {}]
  /\ cur' = [cur EXCEPT ![p] = {}]
  /\ failed' = [failed EXCEPT ![p] = {}]
  /\ UNCHANGED <<repo, tree, state, queue, running, relaunch, new, judged, seen, skipped>>

-----------------------------------------------------------------------------
(* Others: merges, time, and the operator's relaunch.                      *)

Merge ==
  /\ main < MaxMerges
  /\ main' = main + 1
  /\ \E S \in SUBSET Services : touches' = [touches EXCEPT ![main + 1] = S]
  /\ UNCHANGED <<tree, state, queue, running, relaunch, deaths, at, local, past>>

\* BATCH_WINDOW_S passes over the oldest entries not yet ripe.
Ripen ==
  /\ \E e \in queue :
       /\ ~e.ripe
       /\ \A o \in queue : ~o.ripe => e.sha <= o.sha
       /\ queue' = {[o EXCEPT !.ripe = @ \/ o.sha = e.sha] : o \in queue}
  /\ UNCHANGED <<repo, tree, state, running, relaunch, deaths, at, local, past>>

\* The market-closed window: the operator brings the tree current, ...
RelaunchBegins ==
  /\ relaunch = "none"
  /\ relaunch' = "current"
  /\ fetched' = main /\ head' = main
  /\ UNCHANGED <<repo, state, queue, running, deaths, at, local, past>>

\* ... nightly_relaunch.sh recreates the container from it, ...
RelaunchRestarts ==
  /\ relaunch = "current"
  /\ relaunch' = "restarted"
  /\ running' = [s \in Services |-> IF s \in Tier2 THEN head ELSE running[s]]
  /\ UNCHANGED <<repo, tree, state, queue, deaths, at, local, past>>

\* ... and drain_coordinated clears the queue of what was waiting for it.
DrainCoordinated ==
  /\ relaunch = "restarted"
  /\ relaunch' = "none"
  /\ queue' = {e \in queue : e.service \notin Tier2}
  /\ UNCHANGED <<repo, tree, state, running, deaths, at, local, past>>

Tick(p) ==
  \/ Fetch(p) \/ FirstRun(p) \/ NothingNew(p) \/ Observe(p)
  \/ Enqueue(p) \/ Truncate(p) \/ Write(p)
  \/ ClaimBatch(p) \/ Blocked(p)
  \/ \E s \in Tier1 : Defer(p, s) \/ Check(p, s) \/ FailOpen(p, s) \/ Build(p, s)
  \/ Pull(p) \/ PullFails(p) \/ BuildFails(p) \/ Finish(p)

Next ==
  \/ \E p \in Procs : Tick(p) \/ Die(p)
  \/ Merge \/ Ripen
  \/ RelaunchBegins \/ RelaunchRestarts \/ DrainCoordinated

Spec == Init /\ [][Next]_vars

\* The polling loop and the operator keep going; a fetch, the load, a pull and
\* a build that are tried for ever succeed for ever again.
Fairness ==
  /\ \A p \in Procs : WF_vars(Tick(p))
  /\ \A p \in Procs : SF_vars(Fetch(p) /\ fetched' = main) /\ SF_vars(Pull(p))
  /\ \A p \in Procs, s \in Tier1 : SF_vars(Check(p, s)) /\ SF_vars(Build(p, s))
  /\ WF_vars(Ripen) /\ WF_vars(RelaunchBegins)
  /\ WF_vars(RelaunchRestarts) /\ WF_vars(DrainCoordinated)

FairSpec == Spec /\ Fairness

-----------------------------------------------------------------------------
(* Properties.                                                             *)

TypeOK ==
  /\ main \in Shas /\ touches \in [Merges -> SUBSET Services]
  /\ fetched \in 0..main /\ head \in 0..fetched
  /\ state \in {NoSha} \cup 0..fetched
  /\ queue \subseteq Entry
  /\ running \in [Services -> 0..head]
  /\ relaunch \in {"none", "current", "restarted"}
  /\ deaths \in 0..MaxDeaths
  /\ at \in [Procs -> Steps]
  /\ new \in [Procs -> 0..fetched]
  /\ plan \in [Procs -> SUBSET Services]
  /\ judged \in [Procs -> {NoSha} \cup 0..fetched]
  /\ \A held \in {batch, cur, failed} : held \in [Procs -> SUBSET Entry]
  /\ seen \in 0..fetched /\ skipped \subseteq Merges /\ dropped \subseteq Entry

\* The daemon is running a container of s older than merge m made it.
Stale(s, m) == m <= main /\ s \in touches[m] /\ running[s] < m

\* An entry for s as new as merge m.
Among(entries, s, m) == \E e \in entries : e.service = s /\ m <= e.sha

Entries == queue \cup UNION {batch[p] \cup cur[p] \cup failed[p] : p \in Procs}

\* The exceptions the code has: the merge ended in a baseline, so no entry was
\* made of it, or a process died with the entry in its hands.
Forgotten(s, m) == m \in skipped \/ Among(dropped, s, m)

\* Once the state file counts a merge as consumed, every service it made stale
\* has an entry as new, queued or in a process's hands, until it runs that
\* merge; a death costs exactly the entries its process had claimed
\* (observe_and_enqueue: "the queue now owns the deploy intent").
NothingLost ==
  \A s \in Tier1, m \in Merges :
    Stale(s, m) /\ (m <= state \/ m <= seen) => Among(Entries, s, m) \/ Forgotten(s, m)

\* The tree mounted by the feature-computer is given a change of its surface by
\* the relaunch, or by a pull whose guard could not have known of it: it was
\* not fetched when the guard read the ref, or the ref could not be read
\* (_tree_ff_is_fp_safe).
FcTreeIsGated ==
  [][\A m \in (head + 1)..head' :
       touches[m] \cap Tier2 # {} => RelaunchBegins \/ \E p \in Procs : Pull(p) /\ judged[p] < m]_vars

\* The queue holds an entry at most once per service and sha, across ticks that
\* die, retries and re-observed merges (enqueue).
NoDoubleIntent ==
  \A e, f \in queue : e.service = f.service /\ e.sha = f.sha => e = f

\* Every merge reaches the services it made stale, unless it ended in a
\* baseline or its entry died with its process.
EventuallyDeployed ==
  \A s \in Tier1, m \in Merges : Stale(s, m) ~> ~Stale(s, m) \/ Forgotten(s, m)

-----------------------------------------------------------------------------
(* Why it holds: the inductive invariants.                                 *)

\* A tick holds entries only while it applies a batch, and one at a time.
HandsMatchStep ==
  \A p \in Procs :
    /\ at[p] \notin {"apply", "pull", "build"} => batch[p] \cup cur[p] \cup failed[p] = {}
    /\ At(p, "apply") => cur[p] = {}
    /\ at[p] \in {"pull", "build"} => \E e \in Entry : cur[p] = {e}

\* What the guard judged, and the tree does not have yet, crosses no boundary.
JudgedIsClean ==
  \A p \in Procs : At(p, "pull") =>
    \A m \in (head + 1)..judged[p] : touches[m] \cap Tier2 = {}

\* What a tick is about to enqueue covers all that was not yet seen, what it is
\* about to record was seen, and what it builds is as new as the entry.
Consumed ==
  /\ state <= seen
  /\ \A e \in Entries : e.sha <= fetched
  /\ \A p \in Procs :
       /\ At(p, "enqueue") =>
            \A s \in Tier1, m \in (seen + 1)..new[p] : s \in touches[m] => s \in plan[p]
       /\ at[p] \in {"truncate", "write"} => new[p] <= seen
       /\ At(p, "build") => \A e \in cur[p] : e.sha <= head
=============================================================================
