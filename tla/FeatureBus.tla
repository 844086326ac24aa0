------------------------------ MODULE FeatureBus -------------------------------
(***************************************************************************)
(* The feature bus.  The feature-computer queues each minute's vectors for  *)
(* a thread that publishes the schema of its release, then a frame per      *)
(* symbol to that symbol's Redis stream.  A strategy reads the streams of   *)
(* its symbols from "$", resolves each frame's schema by the fingerprint in *)
(* it, and reads its feature by name; a gate compares the versions strategy *)
(* contracts pin with those of the release to be deployed.                  *)
(*                                                                          *)
(* quantlib/bus/{publisher,consumer,registry,codec,schema,view,compat}.py,  *)
(* quantlib/features/bus_hook.py, ops/bus_compat_gate.py, and the loop of   *)
(* the containers that call them.  One step per Redis command.  A release   *)
(* of the feature-computer stands for its schema and fingerprint, a frame   *)
(* for the release that made it; a strategy uses one feature.               *)
(***************************************************************************)
EXTENDS Integers, Sequences, FiniteSets

CONSTANTS
  Readers, Streams,
  Releases, First,  \* of the feature-computer, and the one that runs at first
  Offers,           \* the version of a reader's feature in each release
  Absent,           \* the version of a feature that is not there
  Pin,              \* the version a reader's contract pins, by the release its image is of
  Images,           \* the releases the readers' images are of
  NoContract,
  MaxLen,           \* frames a stream keeps
  MaxFetchErrors,   \* bound on Redis errors of schema look-ups
  MaxRelaunches,    \* bound on restarts of the feature-computer
  MaxFaults         \* bound on errors of the publisher and crashes of readers

ASSUME FeatureBusConstants ==
  /\ First \in Releases
  /\ Offers \in [Releases -> [Readers -> STRING]]
  /\ Pin \in [Releases -> [Readers -> STRING]]
  /\ Images \subseteq Releases /\ NoContract \notin Releases
  /\ Absent \in STRING /\ \A r \in Readers : Offers[First][r] = Pin[First][r]
  /\ \A v \in Releases, r \in Readers : Pin[v][r] # Absent
  /\ MaxLen \in Nat \ {0}
  /\ {MaxFetchErrors, MaxRelaunches, MaxFaults} \subseteq Nat

VARIABLES
  stream,     \* the frames each stream keeps, oldest first
  keys,       \* the releases whose schema is in Redis
  contracts,  \* the release of the image whose contract is there, by reader
  release,    \* the feature-computer's
  confirmed,  \* the publisher's _schema_published
  left,       \* streams this minute has yet to reach
  thread,     \* the hook's thread
  approved,   \* the releases the gate was green for
  unchecked,  \* history: releases and readers the gate has not compared
  at,         \* where each reader is
  reads,      \* the streams it holds a cursor of, not "$"
  late,       \* frames of them published since its last XREAD
  batch,      \* the answer of that XREAD, still to be decoded
  got,        \* the views decoded from it
  cache,      \* its registry's releases
  env         \* what is left of the bounds

redis == <<stream, keys, contracts>>
fc == <<release, confirmed, left, thread>>
reader == <<at, reads, late, batch, got, cache>>
gate == <<approved, unchecked>>
vars == <<redis, fc, gate, reader, env>>

Bounds == [fetch |-> MaxFetchErrors, relaunches |-> MaxRelaunches, faults |-> MaxFaults]
Spend(what) == env[what] > 0 /\ env' = [env EXCEPT ![what] = @ - 1]

NoFrames == [s \in Streams |-> <<>>]
NoneLate == [s \in Streams |-> 0]
AtMost(n, m) == IF n < m THEN n ELSE m
Keep(seq) == SubSeq(seq, Len(seq) - AtMost(Len(seq), MaxLen) + 1, Len(seq))

Init ==
  /\ stream = NoFrames /\ keys = {} /\ contracts = [r \in Readers |-> NoContract]
  /\ release = First /\ confirmed = FALSE /\ left = {} /\ thread = "idle"
  /\ approved = {} /\ unchecked = {}
  /\ at = [r \in Readers |-> "down"] /\ reads = [r \in Readers |-> {}]
  /\ late = [r \in Readers |-> NoneLate]
  /\ batch = [r \in Readers |-> NoFrames] /\ got = batch
  /\ cache = [r \in Readers |-> {}]
  /\ env = Bounds

-----------------------------------------------------------------------------
(* The feature-computer. *)

OnlyThread == UNCHANGED <<contracts, release, gate>>

(* The thread takes a minute from its queue (one the queue had no room for  *)
(* is never taken) and has its schema published first.                      *)
EnsureSchemaPublished ==
  /\ thread = "idle"
  /\ IF confirmed THEN UNCHANGED keys ELSE keys' = keys \cup {release}
  /\ confirmed' = TRUE /\ thread' = "add" /\ left' = Streams
  /\ OnlyThread /\ UNCHANGED <<stream, reader, env>>

(* XADD appends, trims, and serves a reader blocked on the stream at once:  *)
(* its XREAD answers with this frame alone.                                 *)
Publish(s) ==
  LET Woken == {r \in Readers : at[r] = "blocked"}
  IN  /\ thread = "add" /\ s \in left
      /\ stream' = [stream EXCEPT ![s] = Keep(Append(@, release))]
      /\ left' = left \ {s}
      /\ thread' = IF left = {s} THEN "idle" ELSE "add"
      /\ at' = [r \in Readers |-> IF r \in Woken THEN "decode" ELSE at[r]]
      /\ reads' = [r \in Readers |-> IF r \in Woken THEN reads[r] \cup {s} ELSE reads[r]]
      /\ batch' = [r \in Readers |-> IF r \in Woken THEN [NoFrames EXCEPT ![s] = <<release>>] ELSE batch[r]]
      /\ late' = [r \in Readers |->
           IF r \notin Woken /\ s \in reads[r] THEN [late[r] EXCEPT ![s] = AtMost(@ + 1, MaxLen)] ELSE late[r]]
      /\ OnlyThread /\ UNCHANGED <<keys, confirmed, got, cache, env>>

Calls == thread = "add" \/ ~confirmed

\* Mutant: the error of the SET is swallowed and the frames follow.
EmitAnyway ==
  /\ Calls /\ Spend("faults")
  /\ IF thread = "idle" THEN thread' = "add" /\ left' = Streams ELSE thread' = "idle" /\ left' = {}
  /\ OnlyThread /\ UNCHANGED <<stream, keys, confirmed, reader>>

(* A Redis error loses what the minute had left to publish; the SET may     *)
(* have landed without its confirmation. *)
PublishFails ==
  /\ Calls /\ Spend("faults")
  /\ keys' \in IF thread = "idle" THEN {keys, keys \cup {release}} ELSE {keys}
  /\ thread' = "idle" /\ left' = {}
  /\ OnlyThread /\ UNCHANGED <<stream, confirmed, reader>>

(* The version a reader's contract pins: at first, the one it was deployed   *)
(* with beside the first release.                                           *)
Pinned(r) == Pin[IF contracts[r] = NoContract THEN First ELSE contracts[r]][r]

\* Mutant: the contract is a list of names.
SameNames(v, r) == Offers[v][r] # Absent

(* Each contract, read live: its feature, and at the version it pins. *)
Compatible(v, r) == Offers[v][r] # Absent /\ Offers[v][r] = Pinned(r)

Gate(v) ==
  /\ \A r \in Readers : contracts[r] # NoContract /\ Compatible(v, r)
  /\ approved' = {v}
  /\ unchecked' = unchecked \ ({v} \X Readers)
  /\ UNCHANGED <<redis, fc, reader, env>>

(* The feature-computer starts again, on its release or on another: nothing *)
(* in the relaunch asks for the gate, and it may be one it never saw.       *)
Relaunch(v) ==
  /\ Spend("relaunches")
  /\ release' = v /\ confirmed' = FALSE /\ left' = {} /\ thread' = "idle"
  /\ approved' = {}
  /\ unchecked' = unchecked \cup (({v} \ (approved \cup {release})) \X Readers)
  /\ UNCHANGED <<redis, reader>>

-----------------------------------------------------------------------------
(* A strategy container. *)

Served == UNCHANGED <<stream, keys, fc, approved>>
Idle == Served /\ UNCHANGED unchecked
GoTo(r, step) == at' = [at EXCEPT ![r] = step]

(* It publishes its contract, its cursors are "$" and its registry knows    *)
(* the release its image was built from, which may be another one than last *)
(* time: the first is the one deployed beside the first release.  Nothing   *)
(* compares a changed contract with the release that runs.                  *)
Start(r, v) ==
  /\ at[r] = "down" /\ (contracts[r] = NoContract => v = First)
  /\ GoTo(r, "ready")
  /\ contracts' = [contracts EXCEPT ![r] = v]
  /\ unchecked' = IF Pin[v][r] = Pinned(r) THEN unchecked ELSE unchecked \cup (Releases \X {r})
  /\ cache' = [cache EXCEPT ![r] = {v}]
  /\ Served /\ UNCHANGED <<reads, late, batch, got, env>>

\* Mutant: the answer does not move the cursors.
PollAgain(r) ==
  /\ at[r] = "ready"
  /\ GoTo(r, IF late[r] = NoneLate THEN "blocked" ELSE "decode")
  /\ batch' = [batch EXCEPT ![r] =
       [s \in Streams |-> SubSeq(stream[s], Len(stream[s]) - late[r][s] + 1, Len(stream[s]))]]
  /\ got' = [got EXCEPT ![r] = NoFrames]
  /\ Idle /\ UNCHANGED <<contracts, reads, late, cache, env>>

(* XREAD: "$" is resolved now, so a stream without a cursor answers only    *)
(* while this call blocks.                                                  *)
Poll(r) ==
  /\ at[r] = "ready"
  /\ GoTo(r, IF late[r] = NoneLate THEN "blocked" ELSE "decode")
  /\ batch' = [batch EXCEPT ![r] =
       [s \in Streams |-> SubSeq(stream[s], Len(stream[s]) - late[r][s] + 1, Len(stream[s]))]]
  /\ late' = [late EXCEPT ![r] = NoneLate]
  /\ got' = [got EXCEPT ![r] = NoFrames]
  /\ Idle /\ UNCHANGED <<contracts, reads, cache, env>>

PollTimesOut(r) ==
  /\ at[r] = "blocked"
  /\ GoTo(r, "ready")
  /\ Idle /\ UNCHANGED <<contracts, reads, late, batch, got, cache, env>>

(* The cursor is moved, then the frame's schema is resolved: from the       *)
(* cache, or from Redis with retries.                                       *)
Next1(r, s) == at[r] = "decode" /\ batch[r][s] # <<>>
Frame(r, s) == Head(batch[r][s])
Rest(r, s) == [batch[r] EXCEPT ![s] = Tail(@)]

Decode(r, s) ==
  /\ Next1(r, s) /\ Frame(r, s) \in cache[r] \cup keys
  /\ cache' = [cache EXCEPT ![r] = @ \cup {Frame(r, s)}]
  /\ got' = [got EXCEPT ![r][s] = Append(@, Frame(r, s))]
  /\ batch' = [batch EXCEPT ![r] = Rest(r, s)]
  /\ Idle /\ UNCHANGED <<contracts, at, reads, late, env>>

(* A Redis error leaves the poll: what it had decoded is lost with the      *)
(* frame the cursor has passed; the frames behind it are read again.        *)
FetchFails(r, s) ==
  /\ Next1(r, s) /\ Frame(r, s) \notin cache[r] /\ Spend("fetch")
  /\ GoTo(r, "ready")
  /\ late' = [late EXCEPT ![r] = [q \in Streams |-> AtMost(Len(Rest(r, s)[q]) + late[r][q], MaxLen)]]
  /\ batch' = [batch EXCEPT ![r] = NoFrames]
  /\ got' = [got EXCEPT ![r] = NoFrames]
  /\ Idle /\ UNCHANGED <<contracts, reads, cache>>

Dies(r) ==
  /\ GoTo(r, "down")
  /\ reads' = [reads EXCEPT ![r] = {}] /\ late' = [late EXCEPT ![r] = NoneLate]
  /\ batch' = [batch EXCEPT ![r] = NoFrames] /\ got' = [got EXCEPT ![r] = NoFrames]
  /\ cache' = [cache EXCEPT ![r] = {}]
  /\ Idle /\ UNCHANGED contracts

Crash(r) == at[r] # "down" /\ Spend("faults") /\ Dies(r)

(* The poll returns its views, and the loop decides on them: one without the *)
(* feature raises MissingFeature, which ends the process.                   *)
Decides(r) == at[r] = "decode" /\ batch[r] = NoFrames
Readable(r) == \A s \in Streams : \A i \in 1..Len(got[r][s]) : Offers[got[r][s][i]][r] # Absent

Return(r) ==
  /\ Decides(r) /\ Readable(r)
  /\ GoTo(r, "ready")
  /\ Idle /\ UNCHANGED <<contracts, reads, late, batch, got, cache, env>>

FeatureMissing(r) == Decides(r) /\ ~Readable(r) /\ Dies(r) /\ UNCHANGED env

-----------------------------------------------------------------------------
Thread == EnsureSchemaPublished \/ \E s \in Streams : Publish(s)

Loop(r) ==
  \/ \E v \in Images : Start(r, v)
  \/ Poll(r) \/ PollTimesOut(r) \/ Return(r) \/ FeatureMissing(r)
  \/ \E s \in Streams : Decode(r, s)

Next ==
  \/ Thread \/ PublishFails
  \/ \E v \in Releases : Gate(v) \/ Relaunch(v)
  \/ \E r \in Readers : Loop(r) \/ Crash(r) \/ \E s \in Streams : FetchFails(r, s)

Spec == Init /\ [][Next]_vars

(* A container's loop never stops, and neither does the hook's thread. *)
FairSpec ==
  /\ Spec
  /\ WF_vars(Thread)
  /\ \A r \in Readers : WF_vars(Loop(r))
-----------------------------------------------------------------------------
(* Properties. *)

Frames == UNION {{stream[s][i] : i \in 1..Len(stream[s])} : s \in Streams}
InHand(r) == UNION {{q[s][i] : i \in 1..Len(q[s])} : s \in Streams, q \in {batch[r], got[r]}}

(* Every variable keeps its domain and its bound. *)
TypeOK ==
  /\ stream \in [Streams -> Seq(Releases)] /\ \A s \in Streams : Len(stream[s]) <= MaxLen
  /\ keys \subseteq Releases /\ contracts \in [Readers -> Releases \cup {NoContract}]
  /\ approved \subseteq Releases /\ unchecked \subseteq Releases \X Readers
  /\ release \in Releases /\ confirmed \in BOOLEAN
  /\ left \subseteq Streams
  /\ thread \in {"idle", "add"}
  /\ at \in [Readers -> {"down", "ready", "blocked", "decode"}]
  /\ reads \in [Readers -> SUBSET Streams] /\ cache \in [Readers -> SUBSET Releases]
  /\ late \in [Readers -> [Streams -> 0..MaxLen]]
  /\ batch \in [Readers -> [Streams -> Seq(Releases)]]
  /\ got \in [Readers -> [Streams -> Seq(Releases)]]
  /\ env \in [DOMAIN Bounds -> Nat]

(* Publish-then-emit: no reader meets a frame it cannot resolve, whatever   *)
(* fails or restarts in between; so UnknownSchema, which no container       *)
(* catches, is never raised. *)
FramesResolve ==
  /\ Frames \subseteq keys
  /\ \A r \in Readers : InHand(r) \subseteq keys

(* What a strategy has in hand is its feature at the version its contract    *)
(* pins, though it asks for it by name, unless the release it comes from was *)
(* started without a green gate, or the contract has changed and no gate    *)
(* compared them since: nothing else brings it another version, whatever    *)
(* frames of releases before are still in the streams.                      *)
CertifiedValues ==
  \A r \in Readers : \A v \in InHand(r) : Offers[v][r] = Pinned(r) \/ <<v, r>> \in unchecked

(* The bus is the feed FrameFeed promises. *)
Backlog(r, s) == late[r][s] + Len(batch[r][s]) + (IF at[r] = "decode" THEN Len(got[r][s]) ELSE 0)
Owed == [r \in Readers |-> [s \in Streams |-> IF s \in reads[r] THEN Backlog(r, s) ELSE -1]]
Given == [r \in Readers |-> [s \in Streams |-> IF at[r] = "ready" THEN Len(got[r][s]) ELSE 0]]

Abstract == INSTANCE FrameFeed WITH
  Kept <- MaxLen, owed <- Owed, given <- Given, errors <- env.fetch

ImplementsFeed == Abstract!Feed

-----------------------------------------------------------------------------
(* What the consumer says of itself, and the code does not keep.  A reader  *)
(* starts at "$", "only frames published after it connects": it should then *)
(* be served each of its streams once it is served at all.                  *)
StreamsAreServed ==
  \A r \in Readers, s \in Streams :
    <>[](at[r] # "down") /\ []<>(got[r] # NoFrames) => <>(s \in reads[r])
===============================================================================
