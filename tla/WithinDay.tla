------------------------------- MODULE WithinDay -------------------------------
(***************************************************************************)
(* Within-day deploys.  Agents own one feature group each under a lease,    *)
(* watch its live values against a backfill, and enqueue fixes; at a minute *)
(* boundary the capture process claims the oldest job, gates it, moves its  *)
(* source tree, reloads the group, compares, and keeps or reverts the swap. *)
(*                                                                          *)
(* quantlib/features: within_day_{deploy_queue,applier,deploy_run,          *)
(* live_wiring,version,trust,assignment,monitor,run,scope_guard}.py,        *)
(* hot_swap.py, registry.py.  One step per database statement, git command  *)
(* and reload: the capture process is one thread, but agents and operators  *)
(* run beside it.  A commit changes one group; commit c on origin/main      *)
(* holds the commits 1..c, and the version of a group in it is the last of  *)
(* them that is the group's own, 0 the code before.  A group stands for its *)
(* features, which the code treats alike.                                   *)
(***************************************************************************)
EXTENDS Integers, Sequences, FiniteSets

CONSTANTS
  Groups, Agents, NoAgent,
  NCommits,        \* commits on origin/main
  Owner,           \* the group each commit changes
  LiveOf, BatchOf, \* the value the streaming and the batch code of a version yield
  FeaturesOf,      \* the feature set a version declares
  Stable,          \* clean cycles a grant takes
  MaxFaults,       \* bound on exceptions past the pipeline's own checks
  MaxRestarts,     \* bound on restarts of the capture process
  MaxPulls,        \* bound on moves of the live tree by somebody else
  MaxStalls        \* bound on heartbeats that come too late

Commits == 1..NCommits
Versions == 0..NCommits

ASSUME WithinDayConstants ==
  /\ {NCommits, MaxFaults, MaxRestarts, MaxPulls, MaxStalls} \subseteq Nat
  /\ Stable \in Nat \ {0}
  /\ Owner \in [Commits -> Groups]
  /\ DOMAIN LiveOf = Versions /\ DOMAIN BatchOf = Versions /\ DOMAIN FeaturesOf = Versions
  /\ NoAgent \notin Agents

VARIABLES
  head,     \* HEAD of the live tree
  disk,     \* the version of each group's file in it
  running,  \* the version of each group in the capture process's registry
  cells,    \* the version that emitted each group's settled window
  status,   \* the job of each commit
  fifo,     \* queued jobs, oldest first
  at,       \* the next step of the seam, "idle" between boundaries
  job,      \* the job being applied
  fpCommit, \* FP_GIT_COMMIT of the capture process's container
  prior,    \* what a roll-back checks out; from the checkout on, the commit that was
  before,   \* the version of the job's group running when it was claimed
  outcome,  \* of the job
  trust,    \* feature_trust: the version a TRUSTED group was granted on
  lock,     \* within_day_assignment: the agent with the active lock
  fresh,    \* its heartbeat is younger than the timeout
  mon,      \* each agent's run
  env       \* what is left of the bounds

code == <<head, disk, running, cells>>
table == <<status, fifo>>
seam == <<at, job, prior, before, outcome>>
vars == <<code, table, seam, fpCommit, trust, lock, fresh, mon, env>>

NonTrusted == -1
NotSet == -1   \* no FP_GIT_COMMIT in the environment
HeadRef == -2  \* the word HEAD, whatever commit that is
Off == [step |-> "off", group |-> NoAgent, streak |-> 0, code |-> 0, overrun |-> FALSE]
Bounds == [faults |-> MaxFaults, restarts |-> MaxRestarts, pulls |-> MaxPulls, stalls |-> MaxStalls]
Spend(what) == env[what] > 0 /\ env' = [env EXCEPT ![what] = @ - 1]

(* The version of a group in a commit. *)
Own(g, c) == {v \in 1..c : Owner[v] = g}
Version(g, c) == IF Own(g, c) = {} THEN 0 ELSE CHOOSE v \in Own(g, c) : \A w \in Own(g, c) : w <= v

(* compare_window on the settled window: what one version emitted against   *)
(* what the recomputing process's version makes of the same minutes.        *)
Clean(emitted, recomputing) == LiveOf[emitted] = BatchOf[recomputing]

Init ==
  /\ head = 0 /\ disk = [g \in Groups |-> 0]
  /\ running = disk /\ cells = disk
  /\ status = [c \in Commits |-> "none"] /\ fifo = <<>>
  /\ at = "idle" /\ job = 0 /\ prior = 0 /\ before = 0 /\ outcome = "none"
  /\ fpCommit \in {NotSet, head}
  /\ trust \in [Groups -> {NonTrusted, 0}]
  /\ lock = [g \in Groups |-> NoAgent] /\ fresh = [g \in Groups |-> FALSE]
  /\ mon = [a \in Agents |-> Off]
  /\ env = Bounds

-----------------------------------------------------------------------------
(* The queue. *)

Enqueue(c) ==
  /\ status[c] = "none"
  /\ status' = [status EXCEPT ![c] = "queued"]
  /\ fifo' = Append(fifo, c)
  /\ UNCHANGED <<code, seam, fpCommit, trust, lock, fresh, mon, env>>

(* current_git_commit() or "HEAD": what the container was started with,     *)
(* else what git answers, else the word.                                    *)
RollbackTargets == IF fpCommit # NotSet THEN {fpCommit} ELSE {head, HeadRef}

(* A minute is dispatched: the registry's code emits it, the window slides  *)
(* (for some groups past their swap), and the seam fixes its roll-back.     *)
Minute ==
  /\ at = "idle"
  /\ \E S \in SUBSET Groups : cells' = [g \in Groups |-> IF g \in S THEN running[g] ELSE cells[g]]
  /\ at' = "claim" /\ prior' \in RollbackTargets
  /\ UNCHANGED <<head, disk, running, table, job, before, outcome, fpCommit, trust, lock, fresh, mon, env>>

ClaimNext ==
  /\ at = "claim"
  /\ IF fifo = <<>>
       THEN at' = "idle" /\ UNCHANGED <<table, job, before>>
       ELSE /\ at' = "gate" /\ job' = Head(fifo) /\ fifo' = Tail(fifo)
            /\ before' = running[Owner[Head(fifo)]]
            /\ status' = [status EXCEPT ![Head(fifo)] = "applying"]
  /\ UNCHANGED <<code, prior, outcome, fpCommit, trust, lock, fresh, mon, env>>

-----------------------------------------------------------------------------
(* One job through the pipeline. *)

Group == Owner[job]
Goto(step) == at' = step /\ UNCHANGED <<job, prior, before, outcome>>
Conclude(result) == at' = "record" /\ outcome' = result /\ UNCHANGED <<job, prior, before>>
OnlySeam == UNCHANGED <<table, fpCommit, lock, fresh, mon>>

(* An exception apply_job does not expect ends in the boundary's catch-all. *)
Unexpected ==
  /\ at \notin {"idle", "claim"} /\ Spend("faults")
  /\ at' = "idle"
  /\ OnlySeam /\ UNCHANGED <<code, trust, job, prior, before, outcome>>

Gate ==
  /\ at = "gate"
  /\ IF trust[Group] = NonTrusted THEN Goto("merge") ELSE Conclude("escalated")
  /\ OnlySeam /\ UNCHANGED <<code, trust, env>>

(* git merge --ff-only: a no-op for a commit HEAD has, refused when a file  *)
(* it would change differs from HEAD and from the target.                   *)
FfAllowed(c) ==
  \A g \in Groups : Version(g, c) # Version(g, head) => disk[g] \in {Version(g, head), Version(g, c)}
FastForward(c) ==
  /\ head' = c
  /\ disk' = [g \in Groups |-> IF Version(g, c) = Version(g, head) THEN disk[g] ELSE Version(g, c)]

\* Mutant: HEAD moves and the files stay.
MergeRefOnly ==
  /\ at = "merge"
  /\ head' = IF job <= head THEN head ELSE job
  /\ Goto("swap")
  /\ OnlySeam /\ UNCHANGED <<disk, running, cells, trust, env>>

Merge ==
  /\ at = "merge"
  /\ IF job <= head THEN UNCHANGED <<head, disk>> ELSE FfAllowed(job) /\ FastForward(job)
  /\ Goto("swap")
  /\ OnlySeam /\ UNCHANGED <<running, cells, trust, env>>

\* Mutant: a failed merge leaves through the boundary's catch-all.
MergeRaises ==
  /\ at = "merge"
  /\ Goto("idle")
  /\ OnlySeam /\ UNCHANGED <<code, trust, env>>

MergeFails ==
  /\ at = "merge"
  /\ Conclude("escalated")
  /\ OnlySeam /\ UNCHANGED <<code, trust, env>>

(* The reload replaces a group by what its file holds, unless the feature   *)
(* set differs from the running one's.                                      *)
Refuses == FeaturesOf[disk[Group]] # FeaturesOf[running[Group]]
Reload == running' = [running EXCEPT ![Group] = disk[Group]]

Swap ==
  /\ at = "swap" /\ ~Refuses
  /\ Reload
  /\ Goto("tripwire")
  /\ OnlySeam /\ UNCHANGED <<head, disk, cells, trust, env>>

SwapRefused ==
  /\ at = "swap" /\ Refuses
  /\ Conclude("escalated")
  /\ OnlySeam /\ UNCHANGED <<code, trust, env>>

(* The reload registered the new class and the reseed fails.  Without a     *)
(* buffer to reseed from it raises HotSwapError, which apply_job reports as *)
(* a swap it refused; its other exceptions, and any in a roll-back, end in  *)
(* the catch-all.                                                           *)
SwapHalfDone ==
  /\ at \in {"swap", "reswap"} /\ ~Refuses /\ Spend("faults")
  /\ Reload
  /\ Goto("idle") \/ (at = "swap" /\ Conclude("escalated"))
  /\ OnlySeam /\ UNCHANGED <<head, disk, cells, trust>>

Tripwire ==
  /\ at = "tripwire"
  /\ IF Clean(cells[Group], running[Group]) THEN Conclude("applied") ELSE Goto("checkout")
  /\ OnlySeam /\ UNCHANGED <<code, trust, env>>

\* Mutant: the file is checked out of the HEAD the merge made.
CheckoutHead ==
  /\ at = "checkout"
  /\ disk' = [disk EXCEPT ![Group] = Version(Group, head)]
  /\ at' = "reswap" /\ prior' = IF prior = HeadRef THEN head ELSE prior
  /\ OnlySeam /\ UNCHANGED <<head, running, cells, job, before, outcome, trust, env>>

(* git checkout of the roll-back's commit, of the group's file only.  The   *)
(* word HEAD means the commit that the merge brought.                       *)
CheckoutPrior ==
  LET commit == IF prior = HeadRef THEN head ELSE prior
  IN  /\ at = "checkout"
      /\ disk' = [disk EXCEPT ![Group] = Version(Group, commit)]
      /\ at' = "reswap" /\ prior' = commit
      /\ OnlySeam /\ UNCHANGED <<head, running, cells, job, before, outcome, trust, env>>

Reswap ==
  /\ at = "reswap"
  /\ IF Refuses
       THEN Goto("idle") /\ UNCHANGED running
       ELSE Conclude("rolled_back") /\ Reload
  /\ OnlySeam /\ UNCHANGED <<head, disk, cells, trust, env>>

Record ==
  /\ at = "record"
  /\ status' = [status EXCEPT ![job] = outcome]
  /\ Goto(IF outcome = "applied" THEN "reset" ELSE "idle")
  /\ UNCHANGED <<code, fifo, fpCommit, trust, lock, fresh, mon, env>>

(* reset_trust_on_content_change: the hash is that of the source on disk.   *)
ResetTrust(g) ==
  trust' = IF trust[g] = disk[g] THEN trust ELSE [trust EXCEPT ![g] = NonTrusted]

Reset ==
  /\ at = "reset"
  /\ ResetTrust(Group)
  /\ Goto("idle")
  /\ OnlySeam /\ UNCHANGED <<code, env>>

(* The container starts again, as it was or launched anew: every group is   *)
(* imported from the tree.                                                  *)
Restart ==
  /\ Spend("restarts")
  /\ running' = disk
  /\ fpCommit' \in {fpCommit, NotSet, head}
  /\ Goto("idle")
  /\ UNCHANGED <<head, disk, cells, table, trust, lock, fresh, mon>>

(* Somebody else fast-forwards the live tree. *)
PullTree(c) ==
  /\ c > head /\ FfAllowed(c) /\ Spend("pulls")
  /\ FastForward(c)
  /\ UNCHANGED <<running, cells, table, seam, fpCommit, trust, lock, fresh, mon>>

-----------------------------------------------------------------------------
(* The agents. *)

With(m, step, streak, overrun) ==
  [step |-> step, group |-> m.group, streak |-> streak, code |-> m.code, overrun |-> overrun]
Run(a, step) == mon' = [mon EXCEPT ![a] = With(mon[a], step, mon[a].streak, mon[a].overrun)]
Beside == UNCHANGED <<code, table, seam, fpCommit>>

(* claim: a free or released lock, or one whose heartbeat timed out.  The   *)
(* agent's process imports the tree's source when it starts.                *)
ClaimLock(a, g) ==
  /\ mon[a] = Off
  /\ lock[g] = NoAgent \/ ~fresh[g]
  /\ lock' = [lock EXCEPT ![g] = a] /\ fresh' = [fresh EXCEPT ![g] = TRUE]
  /\ mon' = [mon EXCEPT ![a] =
       [step |-> "cycle", group |-> g, streak |-> 0, code |-> disk[g], overrun |-> FALSE]]
  /\ Beside /\ UNCHANGED <<trust, env>>

(* The heartbeat touches the agent's own active lock; nobody reads its      *)
(* answer.  *)
Heartbeat(a) ==
  fresh' = IF lock[mon[a].group] = a THEN [fresh EXCEPT ![mon[a].group] = TRUE] ELSE fresh

(* A monitor cycle that compares; one with nothing to compare only beats.   *)
Cycle(a) ==
  LET g == mon[a].group
      streak == IF Clean(cells[g], mon[a].code) THEN mon[a].streak + 1 ELSE 0
  IN  /\ mon[a].step = "cycle"
      /\ Heartbeat(a)
      /\ mon' = [mon EXCEPT ![a] =
           With(mon[a], IF streak = Stable THEN "grant" ELSE "cycle", streak, mon[a].overrun)]
      /\ Beside /\ UNCHANGED <<trust, lock, env>>

IdleCycle(a) ==
  /\ mon[a].step = "cycle" /\ ~fresh[mon[a].group]
  /\ Heartbeat(a)
  /\ Beside /\ UNCHANGED <<trust, lock, mon, env>>

\* Mutant: the grant overwrites a trusted row.
GrantAnyway(a) ==
  /\ mon[a].step = "grant"
  /\ trust' = [trust EXCEPT ![mon[a].group] = disk[mon[a].group]]
  /\ Run(a, "release")
  /\ Beside /\ UNCHANGED <<lock, fresh, env>>

(* The grant takes the hash of the source on disk, and leaves a row that is *)
(* TRUSTED already alone. *)
Grant(a) ==
  LET g == mon[a].group
  IN  /\ mon[a].step = "grant"
      /\ trust' = IF trust[g] = NonTrusted THEN [trust EXCEPT ![g] = disk[g]] ELSE trust
      /\ Run(a, "release")
      /\ Beside /\ UNCHANGED <<lock, fresh, env>>

\* Mutant: the release does not ask whose lock it is.
UnlockedAnyway(a) == lock' = [lock EXCEPT ![mon[a].group] = NoAgent]

Unlocked(a) == lock' = [g \in Groups |-> IF g = mon[a].group /\ lock[g] = a THEN NoAgent ELSE lock[g]]

Release(a) ==
  /\ mon[a].step = "release"
  /\ Unlocked(a)
  /\ Run(a, "reset")
  /\ Beside /\ UNCHANGED <<trust, fresh, env>>

ResetAfterCertify(a) ==
  /\ mon[a].step = "reset"
  /\ ResetTrust(mon[a].group)
  /\ mon' = [mon EXCEPT ![a] = Off]
  /\ Beside /\ UNCHANGED <<lock, fresh, env>>

(* max_cycles without a grant. *)
GiveUp(a) ==
  /\ mon[a].step = "cycle"
  /\ Unlocked(a)
  /\ mon' = [mon EXCEPT ![a] = Off]
  /\ Beside /\ UNCHANGED <<trust, fresh, env>>

(* An agent is stuck in a materialisation, or dead, past the timeout. *)
Stall(g) ==
  /\ lock[g] # NoAgent /\ fresh[g] /\ Spend("stalls")
  /\ fresh' = [fresh EXCEPT ![g] = FALSE]
  /\ LET m == mon[lock[g]] IN mon' = [mon EXCEPT ![lock[g]] = With(m, m.step, m.streak, TRUE)]
  /\ Beside /\ UNCHANGED <<trust, lock>>

ReclaimStale(g) ==
  /\ lock[g] # NoAgent /\ ~fresh[g]
  /\ lock' = [lock EXCEPT ![g] = NoAgent]
  /\ Beside /\ UNCHANGED <<trust, fresh, mon, env>>

-----------------------------------------------------------------------------
SeamStep ==
  \/ ClaimNext \/ Gate \/ Merge \/ MergeFails \/ Swap \/ SwapRefused
  \/ Tripwire \/ CheckoutPrior \/ Reswap \/ Record \/ Reset

AgentStep(a) ==
  \/ \E g \in Groups : ClaimLock(a, g)
  \/ Cycle(a) \/ IdleCycle(a) \/ Grant(a) \/ Release(a) \/ ResetAfterCertify(a) \/ GiveUp(a)

Next ==
  \/ Minute \/ SeamStep \/ Unexpected \/ SwapHalfDone \/ Restart
  \/ \E c \in Commits : Enqueue(c) \/ PullTree(c)
  \/ \E a \in Agents : AgentStep(a)
  \/ \E g \in Groups : Stall(g) \/ ReclaimStale(g)

Spec == Init /\ [][Next]_vars

(* Minutes keep coming while the market is open, and the seam runs to its   *)
(* end inside the capture loop. *)
FairSpec == Spec /\ WF_vars(Minute) /\ WF_vars(SeamStep)
-----------------------------------------------------------------------------
(* Properties. *)

Steps == {"idle", "claim", "gate", "merge", "swap", "tripwire", "checkout", "reswap", "record", "reset"}
Outcomes == {"none", "applied", "rolled_back", "escalated"}

(* Every variable keeps its domain; the queue holds the queued jobs. *)
TypeOK ==
  /\ head \in Versions
  /\ disk \in [Groups -> Versions] /\ running \in [Groups -> Versions]
  /\ cells \in [Groups -> Versions]
  /\ status \in [Commits -> {"none", "queued", "applying", "applied", "rolled_back", "escalated"}]
  /\ fifo \in Seq(Commits) /\ \A i \in 1..Len(fifo) : status[fifo[i]] = "queued"
  /\ at \in Steps /\ job \in Versions /\ before \in Versions
  /\ prior \in Versions \cup {HeadRef} /\ fpCommit \in Versions \cup {NotSet}
  /\ outcome \in Outcomes
  /\ trust \in [Groups -> Versions \cup {NonTrusted}]
  /\ lock \in [Groups -> Agents \cup {NoAgent}] /\ fresh \in [Groups -> BOOLEAN]
  /\ mon \in [Agents -> [step : {"off", "cycle", "grant", "release", "reset"},
                         group : Groups \cup {NoAgent}, streak : 0..Stable,
                         code : Versions, overrun : BOOLEAN]]
  /\ env \in [DOMAIN Bounds -> Nat]

(* A job reported rolled back, to a commit that does not hold it, is out of *)
(* the running code: its group runs what that commit held, whatever else    *)
(* moves the tree, fails or restarts meanwhile.                             *)
RollbackRestores ==
  at = "record" /\ outcome = "rolled_back" /\ prior < job => running[Group] = Version(Group, prior)

(* A job is reported applied only if its commit is in the code that runs,   *)
(* in whatever order jobs come and whoever else moves the tree, unless an   *)
(* earlier job of the group was rolled back or never concluded: that left   *)
(* the group's file behind HEAD, and a merge that finds the commit in HEAD  *)
(* does not bring it back.                                                  *)
LeftBehind(g) == \E c \in Commits \ {job} : Owner[c] = g /\ status[c] \in {"applying", "rolled_back"}
AppliedIsRunning ==
  at = "record" /\ outcome = "applied" => running[Group] >= job \/ LeftBehind(Group)

(* An agent whose heartbeat never came too late holds its group's lock      *)
(* until it gives it back, whatever overtaken owners of the lock do.        *)
LeaseIsHeld ==
  \A a \in Agents :
    mon[a].step \in {"cycle", "grant", "release"} /\ ~mon[a].overrun => lock[mon[a].group] = a

(* A trusted group is never re-granted on other code without a reset.       *)
GrantIsPermanent ==
  [][\A g \in Groups : trust[g] # NonTrusted => trust'[g] \in {trust[g], NonTrusted}]_vars

(* Every queued job is concluded or left applying, at hand no longer; and   *)
(* it takes an exception or a restart to leave one, each one job at most,   *)
(* or a roll-back onto another feature set.                                 *)
Stranded == {c \in Commits : status[c] = "applying" /\ (at \in {"idle", "claim"} \/ job # c)}
Failures == MaxFaults - env["faults"] + MaxRestarts - env["restarts"]
JobsResolve ==
  /\ \A c \in Commits :
       status[c] = "queued" ~>
         c \in Stranded \/ status[c] \in {"applied", "rolled_back", "escalated"}
  /\ [][Stranded' # Stranded => Failures' > Failures \/ (at = "reswap" /\ Refuses)]_vars

-----------------------------------------------------------------------------
(* What the comments and the design promise, and the code does not keep.    *)

(* After a roll-back production is back to what it ran: "the old code is    *)
(* back".  The tree's HEAD need not be what the group runs.                 *)
RolledBackIsRestored ==
  at = "record" /\ outcome = "rolled_back" => running[Group] = before

(* A trusted group runs the code its trust was earned on.  The hash is that *)
(* of the file, which another group's merge may have moved.                 *)
TrustFollowsRunning ==
  at = "idle" => \A g \in Groups : trust[g] \in {NonTrusted, running[g]}

(* A fix that mends the group is not rolled back.  The tripwire compares    *)
(* cells the old code emitted.                                              *)
RightFixIsKept ==
  at = "record" /\ outcome = "rolled_back" => ~Clean(job, job)
===============================================================================
