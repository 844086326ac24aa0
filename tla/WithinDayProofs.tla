--------------------------- MODULE WithinDayProofs ---------------------------
(* Theorems about WithinDay, for every set of groups and agents, every       *)
(* number of commits and owner of each, and every number of exceptions,      *)
(* restarts, pulls and stalls: a roll-back takes the job's code out, a job    *)
(* reported applied runs unless an earlier one left its group behind, a lease *)
(* that is kept alive is held, and a grant is never overwritten.             *)
EXTENDS WithinDay, FiniteSetTheorems, WellFoundedInduction, TLAPS

LEMMA ConstantFacts ==
  /\ NCommits \in Nat /\ Stable \in Nat /\ Stable > 0
  /\ Owner \in [Commits -> Groups] /\ NoAgent \notin Agents
  /\ Bounds \in [DOMAIN Bounds -> Nat]
BY WithinDayConstants DEF WithinDayConstants, Bounds

LEMMA SpendType ==
  ASSUME NEW D, env \in [D -> Nat], NEW what, Spend(what)
  PROVE  env' \in [D -> Nat]
<1>1. env[what] > 0 /\ env' = [env EXCEPT ![what] = env[what] - 1]
  BY DEF Spend
<1>2. what \in D => env[what] - 1 \in Nat
  BY <1>1, SMT
<1> QED
  BY ONLY env \in [D -> Nat], <1>1, <1>2, Zenon

-----------------------------------------------------------------------------
(* A group's version in a commit is the last of its own commits there.       *)

\* A non-empty set of commits has a last one: the ranges that end at c are
\* well-founded under strict inclusion.
LEMMA Last ==
  ASSUME NEW c \in Nat, NEW O, O \subseteq 1..c, O # {}
  PROVE  \E v \in O : \A w \in O : w <= v
<1> DEFINE After == {(v + 1)..c : v \in O}
           R == StrictSubsetOrdering(1..c)
<1>1. After # {} /\ After \subseteq FiniteSubsetsOf(1..c)
  <2>1. IsFiniteSet(1..c)
    BY FS_Interval
  <2>2. \A v \in O : (v + 1)..c \subseteq 1..c
    BY SMT
  <2>3. After # {}
    OBVIOUS
  <2> QED
    BY <2>1, <2>2, <2>3, FS_Subset DEF FiniteSubsetsOf
<1>2. PICK A \in After : \A B \in After : <<B, A>> \notin R
  <2> HIDE DEF After, R
  <2>1. IsWellFoundedOn(R, FiniteSubsetsOf(1..c))
    BY FS_StrictSubsetOrderingWellFounded DEF R
  <2> QED
    BY <1>1, <2>1, WFMin
<1>3. PICK v \in O : A = (v + 1)..c
  OBVIOUS
<1>4. ASSUME NEW w \in O, v < w PROVE FALSE
  <2>1. (w + 1)..c \subseteq A /\ (w + 1)..c # A
    BY <1>3, <1>4
  <2>2. (w + 1)..c \in After /\ A \in SUBSET (1..c) /\ (w + 1)..c \in SUBSET (1..c)
    BY <1>3, <1>4, SMT
  <2> QED
    BY <1>2, <2>1, <2>2 DEF StrictSubsetOrdering
<1> QED
  BY <1>4

LEMMA VersionProperties ==
  ASSUME NEW g \in Groups, NEW c \in Versions
  PROVE  /\ Version(g, c) \in Versions /\ Version(g, c) <= c
         /\ \A v \in 1..c : Owner[v] = g => v <= Version(g, c)
<1>1. c \in Nat /\ Own(g, c) \subseteq 1..c
  BY ConstantFacts DEF Versions, Own
<1>2. CASE Own(g, c) = {}
  BY <1>1, <1>2, ConstantFacts DEF Version, Versions, Own
<1>3. CASE Own(g, c) # {}
  <2>1. \E v \in Own(g, c) : \A w \in Own(g, c) : w <= v
    BY <1>1, <1>3, Last
  <2>2. Version(g, c) \in Own(g, c) /\ \A w \in Own(g, c) : w <= Version(g, c)
    BY <1>3, <2>1 DEF Version
  <2> QED
    BY <1>1, <2>2, ConstantFacts DEF Own, Versions
<1> QED
  BY <1>2, <1>3

-----------------------------------------------------------------------------
(* Type correctness.  The queue holds each job once, and the job at work is  *)
(* not on it.                                                                *)

Working == {"gate", "merge", "swap", "tripwire", "checkout", "reswap", "record"}
Statuses == {"none", "queued", "applying", "applied", "rolled_back", "escalated"}
QueueOK ==
  /\ status \in [Commits -> Statuses]
  /\ fifo \in Seq(Commits)
  /\ \A i \in 1..Len(fifo) : status[fifo[i]] = "queued"
  /\ \A i, k \in 1..Len(fifo) : fifo[i] = fifo[k] => i = k
  /\ at \in Steps /\ job \in Versions
  /\ at \in Working \cup {"reset"} => job \in Commits
  /\ at \in Working => status[job] = "applying"
  /\ outcome \in Outcomes
CodeOK ==
  /\ head \in Versions /\ before \in Versions
  /\ prior \in Versions \cup {HeadRef} /\ fpCommit \in Versions \cup {NotSet}
  /\ disk \in [Groups -> Versions] /\ running \in [Groups -> Versions]
  /\ cells \in [Groups -> Versions]
  /\ trust \in [Groups -> Versions \cup {NonTrusted}]
Runs == [step : {"off", "cycle", "grant", "release", "reset"},
         group : Groups \cup {NoAgent}, streak : 0..Stable, code : Versions, overrun : BOOLEAN]
AgentsOK ==
  /\ lock \in [Groups -> Agents \cup {NoAgent}] /\ fresh \in [Groups -> BOOLEAN]
  /\ mon \in [Agents -> Runs]
  /\ \A a \in Agents : mon[a].step = "cycle" => mon[a].streak # Stable
EnvOK == env \in [DOMAIN Bounds -> Nat]
Typed == QueueOK /\ CodeOK /\ AgentsOK /\ EnvOK

LEMMA TypedTypeOK == Typed => TypeOK
BY DEF Typed, QueueOK, CodeOK, AgentsOK, EnvOK, TypeOK, Statuses, Runs

LEMMA InitTyped == Init => Typed
<1> SUFFICES ASSUME Init PROVE Typed
  OBVIOUS
<1>1. 0 \in Versions
  BY ConstantFacts DEF Versions
<1>2. QueueOK
  BY <1>1 DEF Init, QueueOK, Statuses, Steps, Working, Outcomes
<1>3. CodeOK
  BY <1>1 DEF Init, CodeOK, NotSet
<1>4. AgentsOK
  BY <1>1, ConstantFacts DEF Init, AgentsOK, Runs, Off
<1> QED
  BY <1>2, <1>3, <1>4, ConstantFacts DEF Init, Typed, EnvOK

LEMMA NextQueueOK == Typed /\ [Next]_vars => QueueOK'
<1> SUFFICES ASSUME Typed, [Next]_vars PROVE QueueOK'
  OBVIOUS
<1> USE DEF Typed, QueueOK, table, seam, Working, Goto, OnlySeam
<1>1. ASSUME NEW c \in Commits, Enqueue(c) PROVE QueueOK'
  <2>1. fifo' \in Seq(Commits) /\ Len(fifo') = Len(fifo) + 1 /\ fifo'[Len(fifo) + 1] = c
        /\ \A i \in 1..Len(fifo) : fifo'[i] = fifo[i]
    BY <1>1 DEF Enqueue
  <2>2. \A i \in 1..Len(fifo) : fifo[i] \in Commits /\ fifo[i] # c
    BY <1>1 DEF Enqueue
  <2>3. status' \in [Commits -> Statuses] /\ status'[c] = "queued"
        /\ \A b \in Commits \ {c} : status'[b] = status[b]
    BY <1>1 DEF Enqueue, Statuses
  <2>4. \A i \in 1..Len(fifo') : i \in 1..Len(fifo) \/ i = Len(fifo) + 1
    BY <2>1
  <2>5. UNCHANGED seam /\ status[c] = "none"
    BY <1>1 DEF Enqueue
  <2>6. \A i \in 1..Len(fifo') : status'[fifo'[i]] = "queued"
    BY <2>1, <2>2, <2>3, <2>4
  <2>7. \A i, k \in 1..Len(fifo') : fifo'[i] = fifo'[k] => i = k
    BY <2>1, <2>2, <2>4
  <2> QED
    BY <2>1, <2>3, <2>5, <2>6, <2>7
<1>2. CASE Minute
  BY <1>2 DEF Minute, Steps
<1>3. CASE ClaimNext
  <2>1. CASE fifo = <<>>
    BY <1>3, <2>1 DEF ClaimNext, Steps
  <2>2. CASE fifo # <<>>
    <3>1. /\ Head(fifo) \in Commits /\ Head(fifo) = fifo[1]
          /\ fifo' = Tail(fifo) /\ Tail(fifo) \in Seq(Commits) /\ Len(Tail(fifo)) = Len(fifo) - 1
          /\ \A i \in 1..Len(Tail(fifo)) : Tail(fifo)[i] = fifo[i + 1]
      BY <1>3, <2>2 DEF ClaimNext
    <3>2. job' = Head(fifo) /\ at' = "gate" /\ outcome' = outcome
          /\ status' = [status EXCEPT ![Head(fifo)] = "applying"]
      BY <1>3, <2>2 DEF ClaimNext
    <3>3. \A i \in 1..Len(fifo') : i + 1 \in 1..Len(fifo) /\ fifo'[i] = fifo[i + 1] /\ fifo[i + 1] # fifo[1]
      BY <3>1
    <3>4. status' \in [Commits -> Statuses] /\ status'[job'] = "applying"
          /\ \A b \in Commits : b # Head(fifo) => status'[b] = status[b]
      BY <3>1, <3>2 DEF Statuses
    <3>5. \A i \in 1..Len(fifo') : status'[fifo'[i]] = "queued"
      BY <3>1, <3>3, <3>4
    <3>6. \A i, k \in 1..Len(fifo') : fifo'[i] = fifo'[k] => i = k
      BY <3>1, <3>3
    <3> QED
      BY <3>1, <3>2, <3>4, <3>5, <3>6, ConstantFacts DEF Steps, Commits, Versions
  <2> QED
    BY <2>1, <2>2
<1>4. CASE Gate \/ Merge \/ MergeFails \/ Swap \/ SwapRefused \/ Tripwire \/ CheckoutPrior \/ Reswap
  BY <1>4 DEF Gate, Merge, MergeFails, Swap, SwapRefused, Tripwire, CheckoutPrior, Reswap, Conclude, Steps, Outcomes
<1>5. CASE Record
  <2>1. status' \in [Commits -> Statuses]
    BY <1>5 DEF Record, Statuses, Outcomes
  <2>2. \A i \in 1..Len(fifo) : fifo[i] \in Commits /\ fifo[i] # job
    BY <1>5 DEF Record
  <2> QED
    BY <1>5, <2>1, <2>2 DEF Record, Steps
<1>6. CASE Reset \/ Unexpected \/ SwapHalfDone \/ Restart
  BY <1>6 DEF Reset, Unexpected, SwapHalfDone, Restart, Conclude, Steps, Outcomes
<1>7. ASSUME NEW c \in Commits, PullTree(c) PROVE QueueOK'
  BY <1>7 DEF PullTree
<1>8. ASSUME NEW a \in Agents, AgentStep(a) PROVE QueueOK'
  BY <1>8 DEF AgentStep, ClaimLock, Cycle, IdleCycle, Grant, Release, ResetAfterCertify, GiveUp, Beside
<1>9. ASSUME NEW g \in Groups, Stall(g) \/ ReclaimStale(g) PROVE QueueOK'
  BY <1>9 DEF Stall, ReclaimStale, Beside
<1>10. CASE UNCHANGED vars
  BY <1>10 DEF vars
<1> QED
  BY <1>1, <1>2, <1>3, <1>4, <1>5, <1>6, <1>7, <1>8, <1>9, <1>10 DEF Next, SeamStep

LEMMA FfProperties ==
  ASSUME Typed, NEW c \in Versions, FastForward(c)
  PROVE  head' \in Versions /\ disk' \in [Groups -> Versions]
BY VersionProperties DEF Typed, CodeOK, FastForward

LEMMA NextCodeOK == Typed /\ [Next]_vars => CodeOK'
<1> SUFFICES ASSUME Typed, [Next]_vars PROVE CodeOK'
  OBVIOUS
<1> USE DEF Typed, CodeOK, code, seam, Goto, OnlySeam
<1>1. ASSUME NEW c \in Commits, Enqueue(c) PROVE CodeOK'
  BY <1>1 DEF Enqueue
<1>2. CASE Minute
  BY <1>2 DEF Minute, RollbackTargets
<1>3. CASE ClaimNext
  <2>1. CASE fifo = <<>>
    BY <1>3, <2>1 DEF ClaimNext
  <2>2. CASE fifo # <<>>
    <3>1. Owner[Head(fifo)] \in Groups
      BY <2>2, ConstantFacts DEF QueueOK
    <3> QED
      BY <1>3, <2>2, <3>1 DEF ClaimNext
  <2> QED
    BY <2>1, <2>2
<1>4. CASE Gate \/ MergeFails \/ Swap \/ SwapRefused \/ Tripwire \/ Reswap
  BY <1>4 DEF Gate, MergeFails, Swap, SwapRefused, Tripwire, Reswap, Reload, Conclude
<1>5. CASE Merge
  <2>1. CASE job <= head
    BY <1>5, <2>1 DEF Merge
  <2>2. CASE ~(job <= head)
    BY <1>5, <2>2, FfProperties DEF Merge, QueueOK
  <2> QED
    BY <2>1, <2>2
<1>6. CASE CheckoutPrior
  <2>1. PICK commit \in Versions :
          /\ disk' = [disk EXCEPT ![Group] = Version(Group, commit)]
          /\ prior' = commit /\ UNCHANGED <<head, running, cells, before, fpCommit, trust>>
    BY <1>6 DEF CheckoutPrior
  <2>2. Version(Group, commit) \in Versions
    BY <1>6, VersionProperties, ConstantFacts DEF CheckoutPrior, QueueOK, Working, Group
  <2> QED
    BY <2>1, <2>2
<1>7. CASE Record
  BY <1>7 DEF Record
<1>8. CASE Reset \/ Unexpected \/ SwapHalfDone \/ Restart
  BY <1>8 DEF Reset, ResetTrust, Unexpected, SwapHalfDone, Conclude, Reload, Restart, NonTrusted, NotSet
<1>9. ASSUME NEW c \in Commits, PullTree(c) PROVE CodeOK'
  <2>1. c \in Versions
    BY ConstantFacts DEF Commits, Versions
  <2> QED
    BY <1>9, <2>1, FfProperties DEF PullTree
<1>10. ASSUME NEW a \in Agents, AgentStep(a) PROVE CodeOK'
  BY <1>10 DEF AgentStep, ClaimLock, Cycle, IdleCycle, Grant, Release, ResetAfterCertify, ResetTrust, GiveUp, Beside, NonTrusted
<1>11. ASSUME NEW g \in Groups, Stall(g) \/ ReclaimStale(g) PROVE CodeOK'
  BY <1>11 DEF Stall, ReclaimStale, Beside
<1>12. CASE UNCHANGED vars
  BY <1>12 DEF vars
<1> QED
  BY <1>1, <1>2, <1>3, <1>4, <1>5, <1>6, <1>7, <1>8, <1>9, <1>10, <1>11, <1>12 DEF Next, SeamStep

LEMMA AgentsStepOK ==
  ASSUME Typed, NEW a \in Agents, AgentStep(a)
  PROVE  AgentsOK'
<1> USE DEF AgentsOK, Runs
<1>1. Typed /\ AgentsOK /\ mon[a] \in Runs
  BY DEF Typed
<1>2. ASSUME NEW g \in Groups, ClaimLock(a, g) PROVE AgentsOK'
  <2>1. disk[g] \in Versions
    BY <1>1 DEF Typed, CodeOK
  <2> QED
    BY <1>1, <1>2, <2>1, ConstantFacts DEF ClaimLock
<1>3. CASE Cycle(a)
  <2> DEFINE streak == IF Clean(cells[mon[a].group], mon[a].code) THEN mon[a].streak + 1 ELSE 0
             step == IF streak = Stable THEN "grant" ELSE "cycle"
  <2>1. streak \in 0..Stable
    BY <1>1, <1>3, ConstantFacts DEF Cycle
  <2>2. mon' = [mon EXCEPT ![a] = With(mon[a], step, streak, mon[a].overrun)] /\ lock' = lock
    BY <1>3 DEF Cycle
  <2> HIDE DEF streak
  <2>3. With(mon[a], step, streak, mon[a].overrun) \in Runs
    BY <1>1, <2>1 DEF With
  <2>4. fresh' \in [Groups -> BOOLEAN]
    BY <1>1, <1>3 DEF Cycle, Heartbeat
  <2> QED
    BY <1>1, <2>2, <2>3, <2>4 DEF With
<1>4. CASE IdleCycle(a)
  BY <1>1, <1>4 DEF IdleCycle, Heartbeat
<1>5. CASE Grant(a)
  BY <1>1, <1>5 DEF Grant, Run, With
<1>6. CASE Release(a)
  BY <1>1, <1>6 DEF Release, Unlocked, Run, With
<1>7. CASE ResetAfterCertify(a)
  BY <1>1, <1>7, ConstantFacts, Typed DEF ResetAfterCertify, Off, Typed, CodeOK, Versions
<1>8. CASE GiveUp(a)
  BY <1>1, <1>8, ConstantFacts DEF GiveUp, Unlocked, Off, Versions
<1> QED
  BY <1>2, <1>3, <1>4, <1>5, <1>6, <1>7, <1>8 DEF AgentStep

LEMMA NextAgentsOK == Typed /\ [Next]_vars => AgentsOK'
<1> SUFFICES ASSUME Typed, [Next]_vars PROVE AgentsOK'
  OBVIOUS
<1> USE DEF AgentsOK, Typed
<1>1. ASSUME NEW a \in Agents, AgentStep(a) PROVE AgentsOK'
  BY <1>1, AgentsStepOK
<1>2. ASSUME NEW g \in Groups, Stall(g) PROVE AgentsOK'
  <2>1. lock[g] \in Agents /\ mon[lock[g]] \in Runs
    BY <1>2 DEF Stall
  <2>2. With(mon[lock[g]], mon[lock[g]].step, mon[lock[g]].streak, TRUE) \in Runs
    BY <2>1 DEF Runs, With
  <2>3. mon' = [mon EXCEPT ![lock[g]] = With(mon[lock[g]], mon[lock[g]].step, mon[lock[g]].streak, TRUE)]
        /\ lock' = lock /\ fresh' \in [Groups -> BOOLEAN]
    BY <1>2 DEF Stall
  <2> QED
    BY <2>1, <2>2, <2>3 DEF With
<1>3. ASSUME NEW g \in Groups, ReclaimStale(g) PROVE AgentsOK'
  BY <1>3 DEF ReclaimStale
<1>4. CASE UNCHANGED <<lock, fresh, mon>>
  BY <1>4
<1>5. ASSUME NEW c \in Commits, Enqueue(c) \/ PullTree(c) PROVE UNCHANGED <<lock, fresh, mon>>
  BY <1>5 DEF Enqueue, PullTree
<1>6. CASE Minute \/ SeamStep \/ Unexpected \/ SwapHalfDone \/ Restart \/ UNCHANGED vars
  <2>1. UNCHANGED <<lock, fresh, mon>>
    BY <1>6 DEF vars, Minute, SeamStep, Unexpected, SwapHalfDone, Restart, OnlySeam, ClaimNext,
         Gate, Merge, MergeFails, Swap, SwapRefused, Tripwire, CheckoutPrior, Reswap, Record, Reset
  <2> QED
    BY <1>4, <2>1
<1> QED
  BY <1>1, <1>2, <1>3, <1>4, <1>5, <1>6 DEF Next

LEMMA NextEnvOK == Typed /\ [Next]_vars => EnvOK'
<1> SUFFICES ASSUME EnvOK, [Next]_vars PROVE EnvOK'
  BY DEF Typed
<1> DEFINE Spending == Spend("faults") \/ Spend("restarts") \/ Spend("pulls") \/ Spend("stalls")
<1>1. CASE Spending
  BY <1>1, SpendType DEF EnvOK
<1>2. CASE UNCHANGED env
  BY <1>2 DEF EnvOK
<1>3. Unexpected \/ SwapHalfDone \/ Restart => Spending
  BY DEF Unexpected, SwapHalfDone, Restart
<1>4. ASSUME NEW c \in Commits, PullTree(c) PROVE Spending
  BY <1>4 DEF PullTree
<1>5. ASSUME NEW g \in Groups, Stall(g) PROVE Spending
  BY <1>5 DEF Stall
<1>6. ASSUME NEW c \in Commits, Enqueue(c) PROVE UNCHANGED env
  BY <1>6 DEF Enqueue
<1>7. ASSUME NEW g \in Groups, ReclaimStale(g) PROVE UNCHANGED env
  BY <1>7 DEF ReclaimStale
<1>8. ASSUME NEW a \in Agents, AgentStep(a) PROVE UNCHANGED env
  BY <1>8 DEF AgentStep, ClaimLock, Cycle, IdleCycle, Grant, Release, ResetAfterCertify, GiveUp
<1>9. CASE Minute \/ SeamStep \/ UNCHANGED vars
  <2>1. UNCHANGED env
    BY <1>9 DEF vars, Minute, SeamStep, ClaimNext,
         Gate, Merge, MergeFails, Swap, SwapRefused, Tripwire, CheckoutPrior, Reswap, Record, Reset
  <2> QED
    BY <1>2, <2>1
<1> QED
  BY <1>1, <1>2, <1>3, <1>4, <1>5, <1>6, <1>7, <1>8, <1>9 DEF Next

LEMMA AlwaysTyped == Spec => []Typed
<1>1. Typed /\ [Next]_vars => Typed'
  BY NextQueueOK, NextCodeOK, NextAgentsOK, NextEnvOK DEF Typed
<1> QED
  BY <1>1, InitTyped, PTL DEF Spec

\* Type correctness: among it, that the queue holds queued jobs only, which
\* takes that it holds each once, whatever fails with a job at work.
THEOREM TypeCorrect == Spec => []TypeOK
BY AlwaysTyped, TypedTypeOK, PTL

-----------------------------------------------------------------------------
(* A roll-back takes the job's code out.  Between the checkout and the reload *)
(* nobody can bring the group's file back: HEAD has the job's commit, the     *)
(* file is older, so neither HEAD's nor a later commit's, and git refuses to  *)
(* overwrite it.                                                              *)

LEMMA PullKeepsOld ==
  ASSUME Typed, at \in Working, job <= head, disk[Group] < job, NEW c \in Commits, PullTree(c)
  PROVE  disk'[Group] = disk[Group]
<1>1. job \in Commits /\ Group \in Groups /\ Owner[job] = Group
  BY ConstantFacts DEF Typed, QueueOK, Group
<1>2. c \in Versions /\ head \in Versions /\ job \in 1..head /\ job \in 1..c
  BY <1>1, ConstantFacts DEF Typed, CodeOK, Commits, Versions, PullTree
<1>3. job <= Version(Group, head) /\ job <= Version(Group, c)
  BY <1>1, <1>2, VersionProperties
<1>4. disk[Group] \in Nat /\ Version(Group, c) \in Nat /\ Version(Group, head) \in Nat /\ job \in Nat
  BY <1>1, <1>2, VersionProperties DEF Typed, CodeOK, Versions, Commits
<1>5. disk[Group] # Version(Group, head) /\ disk[Group] # Version(Group, c)
  BY <1>3, <1>4
<1>6. Version(Group, c) = Version(Group, head)
  BY <1>1, <1>5 DEF PullTree, FfAllowed
<1> QED
  BY <1>1, <1>6 DEF PullTree, FastForward

RolledBack ==
  /\ at \in {"swap", "tripwire", "checkout", "reswap"} => job <= head
  /\ at = "reswap" => prior \in Versions
  /\ at = "reswap" /\ prior < job => disk[Group] = Version(Group, prior)
  /\ at = "record" /\ outcome = "rolled_back" /\ prior < job => running[Group] = Version(Group, prior)

LEMMA NextRolledBack == Typed /\ RolledBack /\ [Next]_vars => RolledBack'
<1> SUFFICES ASSUME Typed, RolledBack, [Next]_vars PROVE RolledBack'
  OBVIOUS
<1> USE DEF RolledBack, Group, code, seam, Goto, OnlySeam, Conclude
<1>1. head \in Int /\ prior \in Int /\ job \in Int
  BY ConstantFacts DEF Typed, CodeOK, QueueOK, Versions, HeadRef
<1>2. ASSUME NEW c \in Commits, Enqueue(c) PROVE RolledBack'
  BY <1>2 DEF Enqueue
<1>3. CASE Minute \/ ClaimNext
  BY <1>3 DEF Minute, ClaimNext
<1>4. CASE Gate \/ MergeFails \/ SwapRefused
  BY <1>4 DEF Gate, MergeFails, SwapRefused
<1>5. CASE Merge
  BY <1>1, <1>5 DEF Merge, FastForward
<1>6. CASE Swap \/ Tripwire
  BY <1>6 DEF Swap, Tripwire
<1>7. CASE CheckoutPrior
  <2>1. Owner[job] \in Groups
    BY <1>7, ConstantFacts DEF CheckoutPrior, Typed, QueueOK, Working
  <2>2. prior' \in Versions /\ disk' = [disk EXCEPT ![Owner[job]] = Version(Owner[job], prior')]
    BY <1>7 DEF CheckoutPrior, Typed, CodeOK
  <2>3. at' = "reswap" /\ UNCHANGED <<head, job>>
    BY <1>7 DEF CheckoutPrior
  <2> QED
    BY <1>7, <2>1, <2>2, <2>3 DEF CheckoutPrior, Typed, CodeOK
<1>8. CASE Reswap
  <2>1. Owner[job] \in Groups
    BY <1>8, ConstantFacts DEF Reswap, Typed, QueueOK, Working
  <2> QED
    BY <1>8, <2>1 DEF Reswap, Reload, Typed, CodeOK
<1>9. CASE Record \/ Reset \/ Unexpected \/ SwapHalfDone \/ Restart
  BY <1>9 DEF Record, Reset, Unexpected, SwapHalfDone, Restart
<1>10. ASSUME NEW c \in Commits, PullTree(c) PROVE RolledBack'
  <2>1. head' = c /\ head <= c /\ running' = running /\ UNCHANGED seam
    BY <1>1, <1>10 DEF PullTree, FastForward, Commits
  <2>2. at = "reswap" /\ prior < job => disk'[Group] = disk[Group]
    <3> SUFFICES ASSUME at = "reswap", prior < job PROVE disk'[Group] = disk[Group]
      OBVIOUS
    <3>1. prior \in Versions /\ Group \in Groups
      BY ConstantFacts DEF Typed, QueueOK, Working
    <3>2. Version(Group, prior) <= prior /\ Version(Group, prior) \in Nat
      BY <3>1, VersionProperties DEF Versions
    <3>3. disk[Group] < job
      BY <1>1, <3>2
    <3> QED
      BY <1>10, <3>3, PullKeepsOld DEF Working
  <2> QED
    BY <1>1, <2>1, <2>2 DEF Commits
<1>11. ASSUME NEW a \in Agents, AgentStep(a) PROVE RolledBack'
  BY <1>11 DEF AgentStep, ClaimLock, Cycle, IdleCycle, Grant, Release, ResetAfterCertify, GiveUp, Beside
<1>12. ASSUME NEW g \in Groups, Stall(g) \/ ReclaimStale(g) PROVE RolledBack'
  BY <1>12 DEF Stall, ReclaimStale, Beside
<1>13. CASE UNCHANGED vars
  BY <1>13 DEF vars
<1> QED
  BY <1>2, <1>3, <1>4, <1>5, <1>6, <1>7, <1>8, <1>9, <1>10, <1>11, <1>12, <1>13 DEF Next, SeamStep

\* A job reported rolled back to a commit that does not hold it left its
\* group on what that commit held, wherever the commit came from and whoever
\* else moves the tree meanwhile.
THEOREM RollbacksRestore == Spec => []RollbackRestores
<1>1. Init => RolledBack
  BY DEF Init, RolledBack
<1>2. RolledBack => RollbackRestores
  BY DEF RolledBack, RollbackRestores
<1> QED
  BY <1>1, <1>2, AlwaysTyped, NextRolledBack, PTL DEF Spec

-----------------------------------------------------------------------------
(* A job reported applied runs.  After the merge HEAD holds its commit; a     *)
(* file that does not was left behind HEAD by the checkout of another job of  *)
(* the group, which has not been concluded otherwise since.                   *)

Checked == {"gate", "merge", "swap", "tripwire", "checkout"}
Behind(g) ==
  \E c \in Commits :
    /\ Owner[c] = g /\ status[c] \in {"applying", "rolled_back"}
    /\ at \in Checked \/ (at = "record" /\ outcome # "rolled_back") => c # job
Merged == at = "tripwire" \/ (at = "record" /\ outcome = "applied")
AppliedInv ==
  /\ \A g \in Groups : disk[g] # Version(g, head) => Behind(g)
  /\ Merged => job <= head /\ (running[Group] >= job \/ disk[Group] < job)

\* A group's file stays behind whoever moves HEAD on.
LEMMA MoveKeepsBehind ==
  ASSUME Typed, AppliedInv, NEW c \in Versions, FastForward(c),
         NEW g \in Groups, disk'[g] # Version(g, head')
  PROVE  Behind(g)
BY VersionProperties DEF AppliedInv, FastForward, Typed, CodeOK

LEMMA NextApplied ==
  ASSUME Typed, RolledBack, AppliedInv, [Next]_vars
  PROVE  AppliedInv'
<1> USE DEF AppliedInv, Merged
<1>1. ASSUME NEW c \in Commits, Enqueue(c) PROVE AppliedInv'
  <2>1. \A g \in Groups : Behind(g) => Behind(g)'
    BY <1>1 DEF Enqueue, Behind, seam, Typed, QueueOK
  <2> QED
    BY <1>1, <2>1 DEF Enqueue, code, seam, Group
<1>2. CASE Minute
  <2>1. \A g \in Groups : Behind(g) => Behind(g)'
    BY <1>2 DEF Minute, Behind, table, Checked
  <2> QED
    BY <1>2, <2>1 DEF Minute
<1>3. CASE ClaimNext
  <2>1. CASE fifo = <<>>
    <3>1. \A g \in Groups : Behind(g) => Behind(g)'
      BY <1>3, <2>1 DEF ClaimNext, Behind, table, Checked
    <3> QED
      BY <1>3, <2>1, <3>1 DEF ClaimNext, code
  <2>2. CASE fifo # <<>>
    <3>1. Head(fifo) \in Commits /\ status[Head(fifo)] = "queued"
      BY <2>2 DEF Typed, QueueOK
    <3>2. at' = "gate" /\ job' = Head(fifo) /\ status' = [status EXCEPT ![Head(fifo)] = "applying"]
          /\ UNCHANGED <<head, disk>>
      BY <1>3, <2>2 DEF ClaimNext, code
    <3>3. \A g \in Groups : Behind(g) => Behind(g)'
      BY <3>1, <3>2 DEF Behind, Typed, QueueOK
    <3> QED
      BY <3>2, <3>3
  <2> QED
    BY <2>1, <2>2
<1>4. CASE Gate \/ MergeFails \/ SwapRefused
  <2>1. UNCHANGED <<head, disk, job, status>> /\ at' \in {"merge", "record"}
        /\ (at' = "record" => outcome' = "escalated") /\ at \in Checked
    BY <1>4 DEF Gate, MergeFails, SwapRefused, Goto, Conclude, OnlySeam, table, code, Checked
  <2>2. \A g \in Groups : Behind(g) => Behind(g)'
    BY <2>1 DEF Behind
  <2> QED
    BY <2>1, <2>2
<1>5. CASE Merge
  <2>1. job \in Versions /\ at = "merge" /\ at' = "swap" /\ UNCHANGED <<job, outcome, status>>
    BY <1>5 DEF Merge, Typed, QueueOK, Goto, OnlySeam, table
  <2>2. \A g \in Groups : Behind(g) => Behind(g)'
    BY <2>1 DEF Behind, Checked
  <2>3. \A g \in Groups : disk'[g] # Version(g, head') => Behind(g)
    <3>1. CASE job <= head
      BY <1>5, <3>1 DEF Merge
    <3>2. CASE ~(job <= head)
      BY <1>5, <2>1, <3>2, MoveKeepsBehind DEF Merge
    <3> QED
      BY <3>1, <3>2
  <2> QED
    BY <2>1, <2>2, <2>3
<1>6. CASE Swap
  <2>1. at = "swap" /\ at' = "tripwire" /\ UNCHANGED <<head, disk, job, outcome, status>> /\ job <= head
    BY <1>6 DEF Swap, Goto, OnlySeam, table, RolledBack
  <2>2. \A g \in Groups : Behind(g) => Behind(g)'
    BY <2>1 DEF Behind, Checked
  <2>3. Group \in Groups /\ running'[Group] = disk[Group]
    BY <1>6, ConstantFacts DEF Swap, Reload, Typed, QueueOK, CodeOK, Working, Group
  <2>4. disk[Group] \in Int /\ job \in Int
    BY <2>3, ConstantFacts DEF Typed, QueueOK, CodeOK, Versions
  <2> QED
    BY <2>1, <2>2, <2>3, <2>4 DEF Group
<1>7. CASE Tripwire
  <2>1. at = "tripwire" /\ UNCHANGED <<head, disk, running, job, status>>
        /\ (at' = "checkout" \/ (at' = "record" /\ outcome' = "applied"))
    BY <1>7 DEF Tripwire, Goto, Conclude, OnlySeam, table, code
  <2>2. \A g \in Groups : Behind(g) => Behind(g)'
    BY <2>1 DEF Behind, Checked
  <2> QED
    BY <2>1, <2>2 DEF Group
<1>8. CASE CheckoutPrior
  <2>1. /\ at' = "reswap" /\ UNCHANGED <<head, job, status>> /\ status[job] = "applying" /\ job \in Commits
        /\ \A g \in Groups \ {Group} : disk'[g] = disk[g]
    BY <1>8 DEF CheckoutPrior, OnlySeam, table, Typed, QueueOK, CodeOK, Working
  <2>2. \A g \in Groups : Behind(g) \/ g = Owner[job] => Behind(g)'
    BY <2>1 DEF Behind, Checked
  <2>3. \A g \in Groups : disk'[g] # Version(g, head') => Behind(g)'
    BY <2>1, <2>2 DEF Group
  <2> QED
    BY <2>1, <2>3
<1>9. CASE Reswap \/ Reset \/ Unexpected \/ Restart \/ SwapHalfDone
  <2>1. /\ UNCHANGED <<head, disk, status, job>>
        /\ \/ at' = "idle"
           \/ at' = "record" /\ outcome' = "rolled_back"
           \/ at = "swap" /\ at' = "record" /\ outcome' = "escalated"
    BY <1>9 DEF Reswap, Reset, Unexpected, Restart, SwapHalfDone, Goto, Conclude, OnlySeam, table, code
  <2>2. \A g \in Groups : Behind(g) => Behind(g)'
    BY <2>1 DEF Behind, Checked
  <2> QED
    BY <2>1, <2>2
<1>10. CASE Record
  <2>1. /\ at = "record" /\ at' \in {"idle", "reset"} /\ UNCHANGED <<head, disk, job>>
        /\ status' = [status EXCEPT ![job] = outcome] /\ job \in Commits
    BY <1>10 DEF Record, Goto, code, Typed, QueueOK, Working
  <2>2. \A g \in Groups : Behind(g) => Behind(g)'
    BY <2>1 DEF Behind, Checked, Typed, QueueOK
  <2> QED
    BY <2>1, <2>2
<1>11. ASSUME NEW c \in Commits, PullTree(c) PROVE AppliedInv'
  <2>1. c \in Versions /\ head < c /\ head' = c /\ FastForward(c) /\ UNCHANGED <<running, status, seam>>
    BY <1>11, ConstantFacts DEF PullTree, FastForward, Commits, Versions, table
  <2>2. \A g \in Groups : Behind(g) => Behind(g)'
    BY <2>1 DEF Behind, seam
  <2>3. \A g \in Groups : disk'[g] # Version(g, head') => Behind(g)
    BY <2>1, MoveKeepsBehind
  <2>4. Merged => at \in Working
    BY DEF Working
  <2>5. Merged /\ disk[Group] < job => disk'[Group] = disk[Group]
    BY <1>11, <2>4, PullKeepsOld
  <2>6. job \in Int /\ head \in Int /\ c \in Int
    BY <2>1, ConstantFacts DEF Typed, QueueOK, CodeOK, Versions
  <2> QED
    BY <2>1, <2>2, <2>3, <2>5, <2>6 DEF seam, Group
<1>12. ASSUME NEW a \in Agents, AgentStep(a) PROVE UNCHANGED <<code, table, seam>>
  BY <1>12 DEF AgentStep, ClaimLock, Cycle, IdleCycle, Grant, Release, ResetAfterCertify, GiveUp, Beside
<1>13. ASSUME NEW g \in Groups, Stall(g) \/ ReclaimStale(g) PROVE UNCHANGED <<code, table, seam>>
  BY <1>13 DEF Stall, ReclaimStale, Beside
<1>14. CASE UNCHANGED <<code, table, seam>>
  BY <1>14 DEF code, table, seam, Group, Behind
<1>15. CASE UNCHANGED vars
  BY <1>14, <1>15 DEF vars
<1> QED
  BY <1>1, <1>2, <1>3, <1>4, <1>5, <1>6, <1>7, <1>8, <1>9, <1>10, <1>11, <1>12, <1>13, <1>14, <1>15
  DEF Next, SeamStep

\* In whatever order commits are enqueued, whoever else moves the tree, however
\* often merges and reloads fail, exceptions end a job or the process restarts:
\* a job is reported applied only with its commit in the code that runs, unless
\* another job of the group was rolled back or never concluded.
THEOREM AppliedJobsRun == Spec => []AppliedIsRunning
<1>1. Init => RolledBack /\ AppliedInv
  <2> SUFFICES ASSUME Init PROVE RolledBack /\ AppliedInv
    OBVIOUS
  <2>1. \A g \in Groups : Version(g, 0) \in Versions /\ Version(g, 0) <= 0
    BY VersionProperties, ConstantFacts DEF Versions
  <2>2. \A g \in Groups : Version(g, 0) = 0
    BY <2>1 DEF Versions
  <2> QED
    BY <2>2 DEF Init, RolledBack, AppliedInv, Merged
<1>2. Typed /\ RolledBack /\ AppliedInv /\ [Next]_vars => RolledBack' /\ AppliedInv'
  BY NextRolledBack, NextApplied
<1>3. Typed /\ AppliedInv => AppliedIsRunning
  <2> SUFFICES ASSUME Typed, AppliedInv, at = "record", outcome = "applied", ~(running[Group] >= job)
               PROVE  LeftBehind(Group)
    BY DEF AppliedIsRunning
  <2>1. job \in Commits /\ Group \in Groups /\ Owner[job] = Group /\ job <= head /\ disk[Group] < job
    BY ConstantFacts DEF AppliedInv, Merged, Typed, QueueOK, Working, Group
  <2>2. head \in Versions /\ job \in 1..head
    BY <2>1, ConstantFacts DEF Typed, CodeOK, Commits, Versions
  <2>3. job <= Version(Group, head) /\ Version(Group, head) \in Int /\ disk[Group] \in Int /\ job \in Int
    BY <2>1, <2>2, VersionProperties, ConstantFacts DEF Typed, CodeOK, Versions, Commits
  <2>4. Behind(Group)
    BY <2>1, <2>3 DEF AppliedInv
  <2> QED
    BY <2>4 DEF Behind, LeftBehind
<1> QED
  BY <1>1, <1>2, <1>3, AlwaysTyped, PTL DEF Spec

-----------------------------------------------------------------------------
(* A lease that is kept alive is held: nobody takes a lock whose heartbeat is *)
(* fresh, and an overtaken owner releases a lock only if it is its own.       *)

Alive(a) == mon[a].step \in {"cycle", "grant", "release"}
Held ==
  \A a \in Agents : Alive(a) =>
    /\ mon[a].group \in Groups
    /\ ~mon[a].overrun => lock[mon[a].group] = a /\ fresh[mon[a].group]

LEMMA AgentHeld ==
  ASSUME Typed, Held, NEW a \in Agents, AgentStep(a)
  PROVE  Held'
<1> SUFFICES ASSUME NEW b \in Agents, Alive(b)'
             PROVE  /\ mon'[b].group \in Groups
                    /\ ~mon'[b].overrun => lock'[mon'[b].group] = b /\ fresh'[mon'[b].group]
  BY DEF Held
<1> USE DEF Typed, AgentsOK, Held, Alive
<1>1. ASSUME NEW g \in Groups, ClaimLock(a, g)
      PROVE  mon'[b].group \in Groups /\ (~mon'[b].overrun => lock'[mon'[b].group] = b /\ fresh'[mon'[b].group])
  <2>1. CASE b = a
    BY <1>1, <2>1 DEF ClaimLock
  <2>2. CASE b # a
    <3>1. mon'[b] = mon[b]
      BY <1>1, <2>2 DEF ClaimLock
    <3>2. ~mon[b].overrun => mon[b].group # g
      BY <1>1, <3>1, ConstantFacts DEF ClaimLock
    <3> QED
      BY <1>1, <3>1, <3>2 DEF ClaimLock
  <2> QED
    BY <2>1, <2>2
<1>2. CASE Cycle(a)
  <2>1. mon'[b].group = mon[b].group /\ mon'[b].overrun = mon[b].overrun /\ Alive(b) /\ lock' = lock
    BY <1>2 DEF Cycle, With
  <2>2. \A g \in Groups : fresh[g] => fresh'[g]
    BY <1>2 DEF Cycle, Heartbeat
  <2> QED
    BY <2>1, <2>2
<1>3. CASE IdleCycle(a)
  BY <1>3 DEF IdleCycle, Heartbeat
<1>4. CASE Grant(a)
  BY <1>4 DEF Grant, Run, With
<1>5. CASE Release(a) \/ GiveUp(a)
  <2>1. b # a /\ mon'[b] = mon[b] /\ fresh' = fresh
    BY <1>5 DEF Release, GiveUp, Run, With, Off
  <2>2. \A g \in Groups : lock[g] = b => lock'[g] = b
    BY <1>5, <2>1 DEF Release, GiveUp, Unlocked
  <2> QED
    BY <2>1, <2>2
<1>6. CASE ResetAfterCertify(a)
  BY <1>6 DEF ResetAfterCertify, Off
<1> QED
  BY <1>1, <1>2, <1>3, <1>4, <1>5, <1>6 DEF AgentStep

LEMMA NextHeld == Typed /\ Held /\ [Next]_vars => Held'
<1> SUFFICES ASSUME Typed, Held, [Next]_vars PROVE Held'
  OBVIOUS
<1>1. ASSUME NEW a \in Agents, AgentStep(a) PROVE Held'
  BY <1>1, AgentHeld
<1>2. ASSUME NEW g \in Groups, Stall(g) PROVE Held'
  <2> SUFFICES ASSUME NEW b \in Agents, Alive(b)'
               PROVE  /\ mon'[b].group \in Groups
                      /\ ~mon'[b].overrun => lock'[mon'[b].group] = b /\ fresh'[mon'[b].group]
    BY DEF Held
  <2> USE DEF Typed, AgentsOK
  <2>1. CASE b = lock[g]
    BY <1>2, <2>1 DEF Stall, With, Alive, Held
  <2>2. CASE b # lock[g]
    <3>1. mon'[b] = mon[b] /\ lock' = lock /\ \A h \in Groups \ {g} : fresh'[h] = fresh[h]
      BY <1>2, <2>2 DEF Stall
    <3> QED
      BY <2>2, <3>1 DEF Alive, Held
  <2> QED
    BY <2>1, <2>2
<1>3. ASSUME NEW g \in Groups, ReclaimStale(g) PROVE Held'
  BY <1>3 DEF ReclaimStale, Held, Alive, Typed, AgentsOK
<1>4. CASE UNCHANGED <<lock, fresh, mon>>
  BY <1>4 DEF Held, Alive
<1>5. ASSUME NEW c \in Commits, Enqueue(c) \/ PullTree(c) PROVE UNCHANGED <<lock, fresh, mon>>
  BY <1>5 DEF Enqueue, PullTree
<1>6. CASE Minute \/ SeamStep \/ Unexpected \/ SwapHalfDone \/ Restart \/ UNCHANGED vars
  <2>1. UNCHANGED <<lock, fresh, mon>>
    BY <1>6 DEF vars, Minute, SeamStep, Unexpected, SwapHalfDone, Restart, OnlySeam, ClaimNext,
         Gate, Merge, MergeFails, Swap, SwapRefused, Tripwire, CheckoutPrior, Reswap, Record, Reset
  <2> QED
    BY <1>4, <2>1
<1> QED
  BY <1>1, <1>2, <1>3, <1>4, <1>5, <1>6 DEF Next

\* An agent that was never too late with a heartbeat holds its group's lock
\* until it gives it back.
THEOREM LeasesHold == Spec => []LeaseIsHeld
<1>1. Init => Held
  BY DEF Init, Held, Alive, Off
<1>2. Held => LeaseIsHeld
  BY DEF Held, Alive, LeaseIsHeld
<1> QED
  BY <1>1, <1>2, AlwaysTyped, NextHeld, PTL DEF Spec

-----------------------------------------------------------------------------
\* No step grants a trusted group on other code: the code it was granted on
\* stands until a reset takes it away.
THEOREM GrantsArePermanent == Spec => GrantIsPermanent
<1>1. ASSUME Typed, [Next]_vars, NEW g \in Groups, trust[g] # NonTrusted
      PROVE  trust'[g] \in {trust[g], NonTrusted}
  <2> USE <1>1 DEF Typed, CodeOK
  <2>1. CASE Reset
    BY <2>1 DEF Reset, ResetTrust
  <2>2. ASSUME NEW a \in Agents, AgentStep(a) PROVE trust'[g] \in {trust[g], NonTrusted}
    BY <2>2 DEF AgentStep, ClaimLock, Cycle, IdleCycle, Grant, Release, ResetAfterCertify, ResetTrust, GiveUp
  <2>3. ASSUME NEW h \in Groups, Stall(h) \/ ReclaimStale(h) PROVE trust' = trust
    BY <2>3 DEF Stall, ReclaimStale
  <2>4. ASSUME NEW c \in Commits, Enqueue(c) \/ PullTree(c) PROVE trust' = trust
    BY <2>4 DEF Enqueue, PullTree
  <2>5. CASE Minute \/ ClaimNext \/ Gate \/ Merge \/ MergeFails \/ Swap \/ SwapRefused \/ Tripwire
             \/ CheckoutPrior \/ Reswap \/ Record \/ Unexpected \/ SwapHalfDone \/ Restart \/ UNCHANGED vars
    <3>1. trust' = trust
      BY <2>5 DEF vars, Minute, Unexpected, SwapHalfDone, Restart, ClaimNext,
           Gate, Merge, MergeFails, Swap, SwapRefused, Tripwire, CheckoutPrior, Reswap, Record
    <3> QED
      BY <3>1
  <2> QED
    BY <2>1, <2>2, <2>3, <2>4, <2>5 DEF Next, SeamStep
<1>2. Typed /\ [Next]_vars => [\A g \in Groups : trust[g] # NonTrusted => trust'[g] \in {trust[g], NonTrusted}]_vars
  BY <1>1
<1> QED
  BY <1>2, AlwaysTyped, PTL DEF Spec, GrantIsPermanent
=============================================================================
