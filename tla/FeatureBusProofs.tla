--------------------------- MODULE FeatureBusProofs ---------------------------
(* Theorems about FeatureBus, for every set of readers, streams and          *)
(* releases, every trim and every number of errors, relaunches and crashes:  *)
(* every frame a reader has in hand can be resolved, and carries its feature *)
(* at the version its contract pins, unless no gate has compared the two.    *)
EXTENDS FeatureBus, SequenceTheorems, TLAPS

LEMMA ConstantFacts ==
  /\ First \in Releases /\ MaxLen \in Nat /\ MaxLen > 0
  /\ Images \subseteq Releases /\ Pin \in [Releases -> [Readers -> STRING]]
  /\ Bounds \in [DOMAIN Bounds -> Nat]
  /\ NoContract \notin Releases
  /\ \A r \in Readers : Offers[First][r] = Pin[First][r]
  /\ \A v \in Releases, r \in Readers : Pin[v][r] # Absent
BY FeatureBusConstants DEF FeatureBusConstants, Bounds

LEMMA KeepProperties ==
  ASSUME NEW S, NEW q \in Seq(S)
  PROVE  Keep(q) \in Seq(S) /\ Len(Keep(q)) = AtMost(Len(q), MaxLen)
<1>1. Len(q) \in Nat /\ AtMost(Len(q), MaxLen) \in 0..Len(q)
  BY ConstantFacts, LenProperties DEF AtMost
<1> DEFINE m == Len(q) - AtMost(Len(q), MaxLen) + 1
<1>2. m \in 1..(Len(q) + 1) /\ m \in Int /\ Len(q) \in Int
  BY <1>1
<1>3. \A i \in m..Len(q) : q[i] \in S
  BY <1>2, ElementOfSeq
<1> HIDE DEF m
<1>4. /\ SubSeq(q, m, Len(q)) \in Seq(S)
      /\ Len(SubSeq(q, m, Len(q))) = IF m <= Len(q) THEN Len(q) - m + 1 ELSE 0
  BY <1>2, <1>3, SubSeqProperties
<1> QED
  BY <1>1, <1>2, <1>4 DEF Keep, m

LEMMA LastProperties ==
  ASSUME NEW S, NEW q \in Seq(S), NEW n \in 0..Len(q)
  PROVE  /\ SubSeq(q, Len(q) - n + 1, Len(q)) \in Seq(S)
         /\ Len(SubSeq(q, Len(q) - n + 1, Len(q))) = n
<1> DEFINE m == Len(q) - n + 1
<1>1. Len(q) \in Nat /\ m \in Int /\ m \in 1..(Len(q) + 1)
  BY LenProperties
<1>2. \A i \in m..Len(q) : q[i] \in S
  BY <1>1, ElementOfSeq
<1> HIDE DEF m
<1>3. /\ SubSeq(q, m, Len(q)) \in Seq(S)
      /\ Len(SubSeq(q, m, Len(q))) = IF m <= Len(q) THEN Len(q) - m + 1 ELSE 0
  BY <1>1, <1>2, SubSeqProperties
<1> QED
  BY <1>1, <1>3 DEF m

\* A batch that shrinks, or a cursor that falls one frame behind.
LEMMA Shifted ==
  /\ \A a, b, c, d \in Nat : a + b <= c /\ d <= b + 1 => a + d <= c + 1
  /\ \A a, b, c \in Nat : a + b <= c /\ a > 0 => (a - 1) + b <= c
  /\ \A a, b, c, d, e \in Nat : a + b <= c /\ d <= e + b /\ e <= a => d <= c
OBVIOUS

-----------------------------------------------------------------------------
(* What streams, batches and readings hold, of a set of releases, and that a *)
(* reader is never later than its stream can make up for.                    *)

Seqs(S) == [Streams -> Seq(S)]
Hold(S) == stream \in Seqs(S) /\ batch \in [Readers -> Seqs(S)] /\ got \in [Readers -> Seqs(S)]
Shapes ==
  /\ at \in [Readers -> {"down", "ready", "blocked", "decode"}]
  /\ late \in [Readers -> [Streams -> 0..MaxLen]]
Backed ==
  /\ \A s \in Streams : Len(stream[s]) <= MaxLen
  /\ \A r \in Readers, s \in Streams :
       Len(batch[r][s]) + late[r][s] <= Len(stream[s]) \/ Len(stream[s]) = MaxLen
  /\ \A r \in Readers : at[r] = "blocked" => late[r] = NoneLate

LEMMA NoFramesIn == ASSUME NEW S PROVE NoFrames \in Seqs(S)
BY EmptySeq DEF NoFrames, Seqs

LEMMA PublishHold ==
  ASSUME NEW S, Hold(S), Shapes, release \in S, NEW s \in Streams, Publish(s)
  PROVE  Hold(S)'
<1> DEFINE Woken == {r \in Readers : at[r] = "blocked"}
<1>1. Append(stream[s], release) \in Seq(S)
  BY DEF Hold, Seqs
<1>2. Keep(Append(stream[s], release)) \in Seq(S)
  BY <1>1, KeepProperties
<1>3. stream' \in Seqs(S)
  BY <1>2 DEF Publish, Hold, Seqs
<1>4. [NoFrames EXCEPT ![s] = <<release>>] \in Seqs(S)
  BY NoFramesIn DEF Seqs
<1>5. batch' \in [Readers -> Seqs(S)]
  BY <1>4 DEF Publish, Hold
<1> QED
  BY <1>3, <1>5 DEF Publish, Hold

LEMMA PollHold ==
  ASSUME NEW S, Hold(S), Shapes, Backed, NEW r \in Readers, Poll(r)
  PROVE  Hold(S)'
<1>1. ASSUME NEW s \in Streams
      PROVE  SubSeq(stream[s], Len(stream[s]) - late[r][s] + 1, Len(stream[s])) \in Seq(S)
  <2>1. stream[s] \in Seq(S) /\ batch[r][s] \in Seq(S) /\ late[r][s] \in 0..MaxLen
    BY DEF Hold, Seqs, Shapes
  <2>2. Len(stream[s]) \in Nat /\ Len(batch[r][s]) \in Nat
    BY <2>1, LenProperties
  <2>3. Len(batch[r][s]) + late[r][s] <= Len(stream[s]) \/ Len(stream[s]) = MaxLen
    BY DEF Backed
  <2>4. late[r][s] \in 0..Len(stream[s])
    BY <2>1, <2>2, <2>3, ConstantFacts
  <2> QED
    BY <2>1, <2>4, LastProperties
<1>2. batch' \in [Readers -> Seqs(S)]
  BY <1>1 DEF Poll, Hold, Seqs
<1> QED
  BY <1>2, NoFramesIn DEF Poll, Idle, Served, Hold

LEMMA DecodeHold ==
  ASSUME NEW S, Hold(S), NEW r \in Readers, NEW s \in Streams, Decode(r, s)
  PROVE  Hold(S)'
<1>1. batch[r][s] \in Seq(S) /\ got[r][s] \in Seq(S) /\ batch[r][s] # <<>>
  BY DEF Hold, Seqs, Decode, Next1
<1>2. Head(batch[r][s]) \in S /\ Tail(batch[r][s]) \in Seq(S)
  BY <1>1, HeadTailProperties
<1>3. Rest(r, s) \in Seqs(S)
  BY <1>2 DEF Rest, Hold, Seqs
<1>4. Append(got[r][s], Frame(r, s)) \in Seq(S)
  BY <1>1, <1>2 DEF Frame
<1>5. batch' \in [Readers -> Seqs(S)]
  BY <1>3 DEF Decode, Hold
<1>6. got' \in [Readers -> Seqs(S)]
  BY <1>4 DEF Decode, Hold, Seqs
<1> QED
  BY <1>5, <1>6 DEF Decode, Idle, Served, Hold

LEMMA NextHold ==
  ASSUME NEW S, Hold(S), Shapes, Backed, thread = "add" => release \in S, [Next]_vars
  PROVE  Hold(S)'
<1> USE NoFramesIn DEF redis, fc, gate, reader, Served
<1>1. CASE EnsureSchemaPublished \/ PublishFails
  BY <1>1 DEF EnsureSchemaPublished, PublishFails, OnlyThread, Hold
<1>2. ASSUME NEW s \in Streams, Publish(s) PROVE Hold(S)'
  BY <1>2, PublishHold DEF Publish
<1>3. ASSUME NEW v \in Releases, Gate(v) \/ Relaunch(v) PROVE Hold(S)'
  BY <1>3 DEF Gate, Relaunch, Hold
<1>4. ASSUME NEW r \in Readers, Poll(r) PROVE Hold(S)'
  BY <1>4, PollHold
<1>5. ASSUME NEW r \in Readers, (\E v \in Images : Start(r, v)) \/ PollTimesOut(r) \/ Return(r) PROVE Hold(S)'
  BY <1>5 DEF Start, PollTimesOut, Return, Idle, Served, Hold
<1>6. ASSUME NEW r \in Readers, NEW s \in Streams, Decode(r, s) PROVE Hold(S)'
  BY <1>6, DecodeHold
<1>7. ASSUME NEW r \in Readers, NEW s \in Streams, FetchFails(r, s) PROVE Hold(S)'
  BY <1>7 DEF FetchFails, Idle, Served, Hold
<1>8. ASSUME NEW r \in Readers, Crash(r) \/ FeatureMissing(r) PROVE Hold(S)'
  BY <1>8 DEF Crash, FeatureMissing, Dies, Idle, Served, Hold
<1>9. CASE UNCHANGED vars
  BY <1>9 DEF vars, Hold
<1> QED
  BY <1>1, <1>2, <1>3, <1>4, <1>5, <1>6, <1>7, <1>8, <1>9 DEF Next, Thread, Loop

-----------------------------------------------------------------------------
(* Type correctness.                                                       *)

Domains ==
  /\ keys \subseteq Releases /\ contracts \in [Readers -> Releases \cup {NoContract}]
  /\ approved \subseteq Releases /\ unchecked \subseteq Releases \X Readers
  /\ release \in Releases /\ confirmed \in BOOLEAN
  /\ left \subseteq Streams /\ thread \in {"idle", "add"}
  /\ reads \in [Readers -> SUBSET Streams] /\ cache \in [Readers -> SUBSET Releases]
  /\ env \in [DOMAIN Bounds -> Nat]
Typed == Hold(Releases) /\ Shapes /\ Backed /\ Domains

LEMMA TypedTypeOK == Typed => TypeOK
BY DEF Typed, Hold, Seqs, Shapes, Backed, Domains, TypeOK

LEMMA InitTyped == Init => Typed
<1> SUFFICES ASSUME Init PROVE Typed
  OBVIOUS
<1>1. Hold(Releases)
  BY NoFramesIn DEF Init, Hold
<1>2. Shapes /\ Backed
  BY ConstantFacts DEF Init, Shapes, Backed, NoFrames, NoneLate
<1>3. Domains
  BY ConstantFacts DEF Init, Domains
<1> QED
  BY <1>1, <1>2, <1>3 DEF Typed

LEMMA SpendType ==
  ASSUME NEW D, env \in [D -> Nat], NEW what, Spend(what)
  PROVE  env' \in [D -> Nat]
<1>1. env[what] > 0 /\ env' = [env EXCEPT ![what] = env[what] - 1]
  BY DEF Spend
<1>2. what \in D => env[what] - 1 \in Nat
  BY <1>1, SMT
<1> QED
  BY ONLY env \in [D -> Nat], <1>1, <1>2, Zenon

LEMMA NextDomains == Typed /\ [Next]_vars => Domains'
<1> SUFFICES ASSUME Typed, [Next]_vars PROVE Domains'
  OBVIOUS
<1> USE ConstantFacts DEF Typed, Domains, redis, fc, gate, reader, Served
<1>1. CASE EnsureSchemaPublished
  BY <1>1 DEF EnsureSchemaPublished, OnlyThread
<1>2. CASE PublishFails
  BY <1>2, SpendType DEF PublishFails, OnlyThread
<1>3. ASSUME NEW s \in Streams, Publish(s) PROVE Domains'
  BY <1>3 DEF Publish, OnlyThread
<1>4. ASSUME NEW v \in Releases, Gate(v) PROVE Domains'
  BY <1>4 DEF Gate
<1>5. ASSUME NEW v \in Releases, Relaunch(v) PROVE Domains'
  BY <1>5, SpendType DEF Relaunch
<1>6. ASSUME NEW r \in Readers, (\E v \in Images : Start(r, v)) \/ Poll(r) \/ PollTimesOut(r) \/ Return(r)
      PROVE  Domains'
  <2>1. ASSUME NEW v \in Images, Start(r, v) PROVE Domains'
    <3>1. v \in Releases
      OBVIOUS
    <3>2. /\ contracts' \in [Readers -> Releases \cup {NoContract}] /\ cache' \in [Readers -> SUBSET Releases]
          /\ unchecked' \subseteq Releases \X Readers
      BY <2>1, <3>1 DEF Start
    <3> QED
      BY <2>1, <3>2 DEF Start
  <2>2. CASE Poll(r) \/ PollTimesOut(r) \/ Return(r)
    BY <2>2 DEF Poll, PollTimesOut, Return, Idle, Served
  <2> QED
    BY <1>6, <2>1, <2>2
<1>7. ASSUME NEW r \in Readers, NEW s \in Streams, Decode(r, s) PROVE Domains'
  <2>1. Frame(r, s) \in Releases
    <3>1. batch[r][s] \in Seq(Releases) /\ batch[r][s] # <<>>
      BY <1>7 DEF Decode, Next1, Hold, Seqs
    <3> QED
      BY <3>1, HeadTailProperties DEF Frame
  <2> QED
    BY <1>7, <2>1 DEF Decode, Idle, Served
<1>8. ASSUME NEW r \in Readers, NEW s \in Streams, FetchFails(r, s) PROVE Domains'
  BY <1>8, SpendType DEF FetchFails, Idle, Served
<1>9. ASSUME NEW r \in Readers, Crash(r) \/ FeatureMissing(r) PROVE Domains'
  BY <1>9, SpendType DEF Crash, FeatureMissing, Dies, Idle, Served
<1>10. CASE UNCHANGED vars
  BY <1>10 DEF vars
<1> QED
  BY <1>1, <1>2, <1>3, <1>4, <1>5, <1>6, <1>7, <1>8, <1>9, <1>10 DEF Next, Thread, Loop

LEMMA PublishBacked ==
  ASSUME Typed, NEW s \in Streams, Publish(s)
  PROVE  Shapes' /\ Backed'
<1> DEFINE Woken == {r \in Readers : at[r] = "blocked"}
<1>1. stream[s] \in Seq(Releases) /\ release \in Releases
  BY DEF Typed, Domains, Hold, Seqs
<1>2. Len(stream[s]) \in Nat /\ Len(stream[s]) <= MaxLen
  BY <1>1, LenProperties DEF Typed, Backed
<1>3. Append(stream[s], release) \in Seq(Releases) /\ Len(Append(stream[s], release)) = Len(stream[s]) + 1
  BY <1>1
<1>4. Len(stream'[s]) = AtMost(Len(stream[s]) + 1, MaxLen)
  BY <1>3, KeepProperties DEF Publish, Typed, Hold, Seqs
<1>5. \A q \in Streams \ {s} : stream'[q] = stream[q]
  BY DEF Publish, Typed, Hold, Seqs
<1>6. Shapes'
  BY ConstantFacts DEF Publish, Typed, Shapes, AtMost
<1>7. \A q \in Streams : Len(stream'[q]) <= MaxLen
  BY <1>2, <1>4, <1>5, ConstantFacts DEF Typed, Backed, AtMost
<1>8. ASSUME NEW r \in Readers, NEW q \in Streams
      PROVE  Len(batch'[r][q]) + late'[r][q] <= Len(stream'[q]) \/ Len(stream'[q]) = MaxLen
  <2>1. Len(batch[r][q]) \in Nat /\ late[r][q] \in 0..MaxLen /\ Len(stream[q]) \in Nat
    BY LenProperties DEF Typed, Hold, Seqs, Shapes
  <2>2. Len(batch[r][q]) + late[r][q] <= Len(stream[q]) \/ Len(stream[q]) = MaxLen
    BY DEF Typed, Backed
  <2>3. CASE r \in Woken
    <3>1. late'[r] = NoneLate
      BY <2>3 DEF Publish, Typed, Backed, Shapes
    <3>2. batch'[r] = [NoFrames EXCEPT ![s] = <<release>>]
      BY <2>3 DEF Publish
    <3>3. Len(batch'[r][q]) = IF q = s THEN 1 ELSE 0
      BY <3>2 DEF NoFrames
    <3> QED
      BY <1>2, <1>4, <1>5, <2>1, <3>1, <3>3, ConstantFacts DEF NoneLate, AtMost
  <2>4. CASE r \notin Woken
    <3>1. batch'[r] = batch[r]
      BY <2>4 DEF Publish
    <3>2. late'[r][q] = IF q = s /\ s \in reads[r] THEN AtMost(late[r][q] + 1, MaxLen) ELSE late[r][q]
      BY <2>4 DEF Publish, Typed, Shapes
    <3>3. CASE q = s
      <4>1. Len(batch[r][s]) + late[r][s] <= Len(stream[s]) \/ Len(stream[s]) = MaxLen
        BY <2>2, <3>3
      <4>2. late'[r][s] <= late[r][s] + 1 /\ late'[r][s] \in Nat
        BY <2>1, <3>2, <3>3, ConstantFacts DEF AtMost
      <4>3. Len(batch[r][s]) \in Nat /\ late[r][s] \in Nat /\ batch'[r][s] = batch[r][s]
        BY <2>1, <3>1, <3>3
      <4>4. CASE Len(stream[s]) = MaxLen
        BY <1>4, <3>3, <4>4, ConstantFacts DEF AtMost
      <4>5. CASE Len(stream[s]) # MaxLen
        <5>1. Len(stream'[s]) = Len(stream[s]) + 1
          BY <1>2, <1>4, <4>5, ConstantFacts DEF AtMost
        <5>2. Len(batch[r][s]) + late'[r][s] <= Len(stream[s]) + 1
          BY ONLY <1>2, <4>1, <4>2, <4>3, <4>5, Shifted
        <5> QED
          BY ONLY <3>3, <4>3, <5>1, <5>2
      <4> QED
        BY <4>4, <4>5
    <3>4. CASE q # s
      BY <1>5, <2>2, <3>1, <3>2, <3>4
    <3> QED
      BY <3>3, <3>4
  <2> QED
    BY <2>3, <2>4
<1>9. \A r \in Readers : at'[r] # "blocked"
  BY DEF Publish
<1> QED
  BY <1>6, <1>7, <1>8, <1>9 DEF Backed

LEMMA PollLengths ==
  ASSUME Typed, NEW r \in Readers, Poll(r), NEW s \in Streams
  PROVE  Len(batch'[r][s]) = late[r][s]
<1>1. stream[s] \in Seq(Releases) /\ batch[r][s] \in Seq(Releases) /\ late[r][s] \in 0..MaxLen
  BY DEF Typed, Hold, Seqs, Shapes
<1>2. Len(stream[s]) \in Nat /\ Len(batch[r][s]) \in Nat
  BY <1>1, LenProperties
<1>3. Len(batch[r][s]) + late[r][s] <= Len(stream[s]) \/ Len(stream[s]) = MaxLen
  BY DEF Typed, Backed
<1>4. late[r][s] \in 0..Len(stream[s])
  BY <1>1, <1>2, <1>3, ConstantFacts
<1>5. batch'[r][s] = SubSeq(stream[s], Len(stream[s]) - late[r][s] + 1, Len(stream[s]))
  BY DEF Poll, Typed, Hold
<1>6. Len(SubSeq(stream[s], Len(stream[s]) - late[r][s] + 1, Len(stream[s]))) = late[r][s]
  BY ONLY <1>1, <1>4, LastProperties
<1> QED
  BY ONLY <1>5, <1>6

LEMMA PollBacked ==
  ASSUME Typed, NEW r \in Readers, Poll(r)
  PROVE  Shapes' /\ Backed'
<1>1. Shapes'
  BY ConstantFacts DEF Poll, GoTo, Typed, Shapes, NoneLate
<1>2. \A s \in Streams : Len(batch'[r][s]) = late[r][s]
  BY PollLengths
<1>3. late'[r] = NoneLate /\ \A q \in Readers \ {r} : late'[q] = late[q] /\ batch'[q] = batch[q] /\ at'[q] = at[q]
  BY DEF Poll, GoTo, Typed, Shapes, Hold
<1>4. ASSUME NEW q \in Readers, NEW s \in Streams
      PROVE  Len(batch'[q][s]) + late'[q][s] <= Len(stream'[s]) \/ Len(stream'[s]) = MaxLen
  <2>1. Len(batch[q][s]) \in Nat /\ late[q][s] \in 0..MaxLen /\ Len(stream[s]) \in Nat
    BY LenProperties DEF Typed, Hold, Seqs, Shapes
  <2>2. stream' = stream
    BY DEF Poll, Idle, Served
  <2>3. CASE q = r
    BY <1>2, <1>3, <2>1, <2>2, <2>3 DEF Typed, Backed, NoneLate
  <2>4. CASE q # r
    BY <1>3, <2>2, <2>4 DEF Typed, Backed
  <2> QED
    BY <2>3, <2>4
<1> QED
  BY <1>1, <1>3, <1>4 DEF Backed, Typed, Poll, Idle, Served

LEMMA DecodeBacked ==
  ASSUME Typed, NEW r \in Readers, NEW s \in Streams, Decode(r, s)
  PROVE  Shapes' /\ Backed'
<1>1. batch[r][s] \in Seq(Releases) /\ batch[r][s] # <<>>
  BY DEF Decode, Next1, Typed, Hold, Seqs
<1>2. Len(Tail(batch[r][s])) = Len(batch[r][s]) - 1 /\ Len(batch[r][s]) \in Nat
  BY <1>1, HeadTailProperties, LenProperties
<1>3. \A q \in Readers, p \in Streams :
        batch'[q][p] = IF q = r /\ p = s THEN Tail(batch[r][s]) ELSE batch[q][p]
  BY DEF Decode, Rest, Typed, Hold, Seqs
<1>4. UNCHANGED <<stream, late, at>>
  BY DEF Decode, Idle, Served
<1>5. late[r][s] \in Nat /\ Len(stream[s]) \in Nat
  BY LenProperties DEF Typed, Hold, Seqs, Shapes
<1>6. ASSUME NEW q \in Readers, NEW p \in Streams
      PROVE  Len(batch'[q][p]) + late[q][p] <= Len(stream[p]) \/ Len(stream[p]) = MaxLen
  <2>1. Len(batch[q][p]) + late[q][p] <= Len(stream[p]) \/ Len(stream[p]) = MaxLen
    BY DEF Typed, Backed
  <2>2. CASE q = r /\ p = s
    <3>1. batch'[r][s] = Tail(batch[r][s])
      BY <1>3
    <3>2. Len(Tail(batch[r][s])) + late[r][s] <= Len(stream[s]) \/ Len(stream[s]) = MaxLen
      BY ONLY <1>2, <1>5, <2>1, <2>2, Shifted
    <3> QED
      BY ONLY <2>2, <3>1, <3>2
  <2>3. CASE ~(q = r /\ p = s)
    BY <1>3, <2>1, <2>3
  <2> QED
    BY <2>2, <2>3
<1> QED
  BY <1>4, <1>6 DEF Typed, Shapes, Backed

LEMMA FetchFailsBacked ==
  ASSUME Typed, NEW r \in Readers, NEW s \in Streams, FetchFails(r, s)
  PROVE  Shapes' /\ Backed'
<1>1. batch[r][s] \in Seq(Releases) /\ batch[r][s] # <<>>
  BY DEF FetchFails, Next1, Typed, Hold, Seqs
<1>2. Tail(batch[r][s]) \in Seq(Releases) /\ Len(Tail(batch[r][s])) = Len(batch[r][s]) - 1
  BY <1>1, HeadTailProperties
<1>3. ASSUME NEW p \in Streams
      PROVE  /\ Len(Rest(r, s)[p]) \in 0..Len(batch[r][p])
             /\ late[r][p] \in 0..MaxLen /\ Len(stream[p]) \in Nat /\ Len(batch[r][p]) \in Nat
  <2>1. Len(batch[r][p]) \in Nat /\ late[r][p] \in 0..MaxLen /\ Len(stream[p]) \in Nat
    BY LenProperties DEF Typed, Hold, Seqs, Shapes
  <2>2. Rest(r, s)[p] = IF p = s THEN Tail(batch[r][s]) ELSE batch[r][p]
    BY DEF Rest, Typed, Hold, Seqs
  <2>3. Len(Tail(batch[r][s])) \in Nat
    BY <1>2, LenProperties
  <2> QED
    BY <1>2, <2>1, <2>2, <2>3
<1>4. UNCHANGED stream /\ at' = [at EXCEPT ![r] = "ready"]
  BY DEF FetchFails, GoTo, Idle, Served
<1>5. \A q \in Readers \ {r} : late'[q] = late[q] /\ batch'[q] = batch[q]
  BY DEF FetchFails, Typed, Shapes, Hold
<1>6. \A p \in Streams : late'[r][p] = AtMost(Len(Rest(r, s)[p]) + late[r][p], MaxLen)
  BY DEF FetchFails, Typed, Shapes
<1>7. batch'[r] = NoFrames
  BY DEF FetchFails, Typed, Hold
<1>8. late' \in [Readers -> [Streams -> 0..MaxLen]]
  <2>1. [p \in Streams |-> AtMost(Len(Rest(r, s)[p]) + late[r][p], MaxLen)] \in [Streams -> 0..MaxLen]
    BY <1>3, ConstantFacts DEF AtMost
  <2> QED
    BY <2>1 DEF FetchFails, Typed, Shapes
<1>9. ASSUME NEW p \in Streams
      PROVE  Len(batch'[r][p]) + late'[r][p] <= Len(stream[p]) \/ Len(stream[p]) = MaxLen
  <2>1. Len(batch[r][p]) + late[r][p] <= Len(stream[p]) \/ Len(stream[p]) = MaxLen
    BY DEF Typed, Backed
  <2>2. Len(batch'[r][p]) = 0
    BY <1>7 DEF NoFrames
  <2>3. late'[r][p] <= Len(Rest(r, s)[p]) + late[r][p] /\ late'[r][p] \in Nat
    BY <1>3, <1>6, ConstantFacts DEF AtMost
  <2>4. Len(Rest(r, s)[p]) <= Len(batch[r][p]) /\ Len(Rest(r, s)[p]) \in Nat
    BY <1>3
  <2>5. CASE Len(stream[p]) # MaxLen
    <3>1. Len(batch[r][p]) \in Nat /\ late[r][p] \in Nat /\ Len(stream[p]) \in Nat
      BY <1>3
    <3>2. late'[r][p] <= Len(stream[p])
      BY ONLY <2>1, <2>3, <2>4, <2>5, <3>1, Shifted
    <3> QED
      BY ONLY <2>2, <2>3, <3>2
  <2> QED
    BY <2>5
<1>10. \A q \in Readers : at'[q] = "blocked" => late'[q] = NoneLate
  BY <1>4, <1>5 DEF Typed, Backed, Shapes
<1>11. \A q \in Readers, p \in Streams :
         Len(batch'[q][p]) + late'[q][p] <= Len(stream[p]) \/ Len(stream[p]) = MaxLen
  BY <1>5, <1>9 DEF Typed, Backed
<1> QED
  BY <1>4, <1>8, <1>10, <1>11 DEF Typed, Shapes, Backed

LEMMA NextBacked == Typed /\ [Next]_vars => Shapes' /\ Backed'
<1> SUFFICES ASSUME Typed, [Next]_vars PROVE Shapes' /\ Backed'
  OBVIOUS
<1> USE DEF redis, fc, gate, reader, Served
<1>1. CASE EnsureSchemaPublished \/ PublishFails
  BY <1>1 DEF EnsureSchemaPublished, PublishFails, OnlyThread, Typed, Shapes, Backed
<1>2. ASSUME NEW s \in Streams, Publish(s) PROVE Shapes' /\ Backed'
  BY <1>2, PublishBacked
<1>3. ASSUME NEW v \in Releases, Gate(v) \/ Relaunch(v) PROVE Shapes' /\ Backed'
  BY <1>3 DEF Gate, Relaunch, Typed, Shapes, Backed
<1>4. ASSUME NEW r \in Readers, Poll(r) PROVE Shapes' /\ Backed'
  BY <1>4, PollBacked
<1>5. ASSUME NEW r \in Readers, (\E v \in Images : Start(r, v)) \/ PollTimesOut(r) \/ Return(r)
      PROVE  Shapes' /\ Backed'
  BY <1>5 DEF Start, PollTimesOut, Return, GoTo, Idle, Served, Typed, Shapes, Backed
<1>6. ASSUME NEW r \in Readers, NEW s \in Streams, Decode(r, s) PROVE Shapes' /\ Backed'
  BY <1>6, DecodeBacked
<1>7. ASSUME NEW r \in Readers, NEW s \in Streams, FetchFails(r, s) PROVE Shapes' /\ Backed'
  BY <1>7, FetchFailsBacked
<1>8. ASSUME NEW r \in Readers, Crash(r) \/ FeatureMissing(r) PROVE Shapes' /\ Backed'
  <2>1. \A s \in Streams : Len(NoFrames[s]) = 0 /\ NoneLate[s] = 0 /\ Len(stream[s]) \in Nat
    BY LenProperties DEF NoFrames, NoneLate, Typed, Hold, Seqs
  <2>2. NoneLate \in [Streams -> 0..MaxLen]
    BY ConstantFacts DEF NoneLate
  <2> QED
    <3>1. Dies(r)
      BY <1>8 DEF Crash, FeatureMissing
    <3> QED
      BY <2>1, <2>2, <3>1 DEF Dies, GoTo, Idle, Typed, Hold, Shapes, Backed
<1>9. CASE UNCHANGED vars
  BY <1>9 DEF vars, Typed, Shapes, Backed
<1> QED
  BY <1>1, <1>2, <1>3, <1>4, <1>5, <1>6, <1>7, <1>8, <1>9 DEF Next, Thread, Loop

LEMMA NextTyped == Typed /\ [Next]_vars => Typed'
<1> SUFFICES ASSUME Typed, [Next]_vars PROVE Typed'
  OBVIOUS
<1>1. Hold(Releases)'
  BY NextHold DEF Typed, Domains
<1> QED
  BY <1>1, NextDomains, NextBacked DEF Typed

LEMMA AlwaysTyped == Spec => []Typed
BY InitTyped, NextTyped, PTL DEF Spec

\* Type correctness: among it, that no cursor is ever more frames behind than
\* its stream keeps, so that a reading finds what it is owed.
THEOREM TypeCorrect == Spec => []TypeOK
BY AlwaysTyped, TypedTypeOK, PTL

-----------------------------------------------------------------------------
(* Every frame can be resolved: while the thread emits, the schema of the    *)
(* release it runs is in Redis, whether it was confirmed this minute or in   *)
(* an earlier one, and no schema is ever removed.                            *)

Emits == (confirmed \/ thread = "add") => release \in keys
Resolvable == Hold(keys) /\ Emits

LEMMA Grows ==
  ASSUME NEW S, NEW T, S \subseteq T, Hold(S)
  PROVE  Hold(T)
<1>1. Seq(S) \subseteq Seq(T)
  BY SeqMonotonic
<1>2. Seqs(S) \subseteq Seqs(T)
  BY <1>1 DEF Seqs
<1> QED
  BY <1>2 DEF Hold

LEMMA NextKeys == Typed /\ Emits /\ [Next]_vars => keys \subseteq keys' /\ Emits'
<1> SUFFICES ASSUME Typed, Emits, [Next]_vars PROVE keys \subseteq keys' /\ Emits'
  OBVIOUS
<1> USE DEF Emits, redis, fc, gate, reader, Served
<1>1. CASE EnsureSchemaPublished
  BY <1>1 DEF EnsureSchemaPublished, OnlyThread
<1>2. CASE PublishFails
  BY <1>2 DEF PublishFails, OnlyThread
<1>3. ASSUME NEW s \in Streams, Publish(s) PROVE keys \subseteq keys' /\ Emits'
  BY <1>3 DEF Publish, OnlyThread
<1>4. ASSUME NEW v \in Releases, Gate(v) PROVE keys \subseteq keys' /\ Emits'
  BY <1>4 DEF Gate
<1>5. ASSUME NEW v \in Releases, Relaunch(v) PROVE keys \subseteq keys' /\ Emits'
  BY <1>5 DEF Relaunch
<1>6. ASSUME NEW r \in Readers, Loop(r) PROVE keys \subseteq keys' /\ Emits'
  BY <1>6 DEF Loop, Start, Poll, PollTimesOut, Return, FeatureMissing, Dies, Decode, Idle, Served
<1>7. ASSUME NEW r \in Readers, NEW s \in Streams, FetchFails(r, s) PROVE keys \subseteq keys' /\ Emits'
  BY <1>7 DEF FetchFails, Idle, Served
<1>8. ASSUME NEW r \in Readers, Crash(r) PROVE keys \subseteq keys' /\ Emits'
  BY <1>8 DEF Crash, Dies, Idle, Served
<1>9. CASE UNCHANGED vars
  BY <1>9 DEF vars
<1> QED
  BY <1>1, <1>2, <1>3, <1>4, <1>5, <1>6, <1>7, <1>8, <1>9 DEF Next, Thread

LEMMA NextResolvable == Typed /\ Resolvable /\ [Next]_vars => Resolvable'
<1> SUFFICES ASSUME Typed, Resolvable, [Next]_vars PROVE Resolvable'
  OBVIOUS
<1>1. keys \subseteq keys' /\ Emits'
  BY NextKeys DEF Resolvable
<1>2. PICK S : S = keys'
  OBVIOUS
<1>3. Hold(S) /\ (thread = "add" => release \in S)
  BY <1>1, <1>2, Grows DEF Resolvable, Emits
<1>4. Hold(S)'
  BY <1>3, NextHold DEF Typed
<1>5. Hold(keys)'
  BY <1>2, <1>4 DEF Hold, Seqs
<1> QED
  BY <1>1, <1>5 DEF Resolvable

LEMMA HeldFramesResolve == Resolvable => FramesResolve
<1> SUFFICES ASSUME Resolvable PROVE FramesResolve
  OBVIOUS
<1>1. \A q \in Seq(keys) : \A i \in 1..Len(q) : q[i] \in keys
  BY ElementOfSeq
<1>2. Frames \subseteq keys
  BY <1>1 DEF Frames, Resolvable, Hold, Seqs
<1>3. ASSUME NEW r \in Readers, NEW v \in InHand(r) PROVE v \in keys
  <2>1. PICK q \in {batch[r], got[r]}, s \in Streams : v \in {q[s][i] : i \in 1..Len(q[s])}
    BY DEF InHand
  <2>2. q[s] \in Seq(keys)
    BY DEF Resolvable, Hold, Seqs
  <2> QED
    BY <1>1, <2>1, <2>2
<1> QED
  BY <1>2, <1>3, Zenon DEF FramesResolve

\* No frame is in a stream or in hand whose schema a reader could fail to
\* find, whatever fails, is trimmed, or restarts.
THEOREM NoOrphanFrames == Spec => []FramesResolve
<1>1. Init => Resolvable
  BY NoFramesIn DEF Init, Resolvable, Hold, Emits
<1> QED
  BY <1>1, AlwaysTyped, NextResolvable, HeldFramesResolve, PTL DEF Spec

-----------------------------------------------------------------------------
(* Every value is certified: a release that runs, one the gate was green     *)
(* for, and one whose frames are in a stream or in hand, offers each reader   *)
(* the version its contract pins, or no gate has compared the two.  So a      *)
(* frame may stay where it is whatever happens to the gate and the contracts. *)

Fits(v, r) == Compatible(v, r) \/ <<v, r>> \in unchecked
Good == {v \in Releases : \A r \in Readers : Fits(v, r)}
Certified == Hold(Good) /\ release \in Good /\ approved \subseteq Good

\* The gate ends the exemption of the release it is green for; a changed
\* contract begins one.
LEMMA StaysGood == Typed /\ [Next]_vars => Good \subseteq Good'
<1> SUFFICES ASSUME Typed, [Next]_vars, NEW v \in Releases, NEW r \in Readers, Fits(v, r)
             PROVE  Fits(v, r)'
  BY DEF Good
<1> USE DEF Fits, Compatible, Pinned, redis, fc, gate, reader, Served
<1>1. CASE EnsureSchemaPublished \/ PublishFails \/ \E s \in Streams : Publish(s)
  BY <1>1 DEF EnsureSchemaPublished, PublishFails, Publish, OnlyThread
<1>2. ASSUME NEW w \in Releases, Gate(w) PROVE Fits(v, r)'
  BY <1>2 DEF Gate
<1>3. ASSUME NEW w \in Releases, Relaunch(w) PROVE Fits(v, r)'
  BY <1>3 DEF Relaunch
<1>4. ASSUME NEW q \in Readers, NEW w \in Images, Start(q, w) PROVE Fits(v, r)'
  <2>1. w \in Releases /\ w # NoContract /\ contracts \in [Readers -> Releases \cup {NoContract}]
    BY ConstantFacts DEF Typed, Domains
  <2>2. /\ contracts' = [contracts EXCEPT ![q] = w]
        /\ unchecked' = IF Pin[w][q] = Pinned(q) THEN unchecked ELSE unchecked \cup (Releases \X {q})
    BY <1>4 DEF Start
  <2>3. CASE r # q
    BY <2>1, <2>2, <2>3
  <2>4. CASE r = q /\ Pin[w][q] # Pinned(q)
    BY <2>2, <2>4
  <2>5. CASE r = q /\ Pin[w][q] = Pinned(q)
    <3>1. Pinned(r)' = Pinned(r)
      BY <2>1, <2>2, <2>5
    <3> QED
      BY <2>2, <2>5, <3>1
  <2> QED
    BY <2>3, <2>4, <2>5
<1>5. ASSUME NEW q \in Readers, Poll(q) \/ PollTimesOut(q) \/ Return(q) \/ FeatureMissing(q) \/ Crash(q)
      PROVE  Fits(v, r)'
  BY <1>5 DEF Poll, PollTimesOut, Return, FeatureMissing, Crash, Dies, Idle, Served
<1>6. ASSUME NEW q \in Readers, NEW s \in Streams, Decode(q, s) \/ FetchFails(q, s) PROVE Fits(v, r)'
  BY <1>6 DEF Decode, FetchFails, Idle, Served
<1>7. CASE UNCHANGED vars
  BY <1>7 DEF vars
<1> QED
  BY <1>1, <1>2, <1>3, <1>4, <1>5, <1>6, <1>7 DEF Next, Thread, Loop

\* What runs next, and what may.
LEMMA RunsGood ==
  ASSUME Typed, Certified, [Next]_vars PROVE release' \in Good' /\ approved' \subseteq Good'
<1>1. Good \subseteq Good'
  BY StaysGood
<1> USE <1>1 DEF Certified, redis, fc, gate, reader, Served
<1>2. ASSUME NEW v \in Releases, Gate(v) PROVE release' \in Good' /\ approved' \subseteq Good'
  <2>1. v \in Good
    BY <1>2 DEF Gate, Good, Fits
  <2> QED
    BY <1>2, <2>1 DEF Gate
<1>3. ASSUME NEW v \in Releases, Relaunch(v) PROVE release' \in Good' /\ approved' \subseteq Good'
  <2>1. approved' = {} /\ release' = v
    BY <1>3 DEF Relaunch
  <2>2. CASE v \in approved \cup {release}
    BY <2>1, <2>2
  <2>3. CASE v \notin approved \cup {release}
    <3>1. \A r \in Readers : <<v, r>> \in unchecked'
      BY <1>3, <2>3 DEF Relaunch
    <3>2. v \in Good'
      BY <3>1 DEF Good, Fits
    <3> QED
      BY <2>1, <3>2
  <2> QED
    BY <2>2, <2>3
<1>4. CASE Thread \/ PublishFails
  BY <1>4 DEF Thread, EnsureSchemaPublished, Publish, PublishFails, OnlyThread
<1>5. ASSUME NEW r \in Readers, Loop(r) PROVE release' \in Good' /\ approved' \subseteq Good'
  BY <1>5 DEF Loop, Start, Poll, PollTimesOut, Return, FeatureMissing, Dies, Decode, Idle, Served
<1>6. ASSUME NEW r \in Readers, NEW s \in Streams, FetchFails(r, s)
      PROVE  release' \in Good' /\ approved' \subseteq Good'
  BY <1>6 DEF FetchFails, Idle, Served
<1>7. ASSUME NEW r \in Readers, Crash(r) PROVE release' \in Good' /\ approved' \subseteq Good'
  BY <1>7 DEF Crash, Dies, Idle, Served
<1>8. CASE UNCHANGED vars
  BY <1>8 DEF vars
<1> QED
  BY <1>2, <1>3, <1>4, <1>5, <1>6, <1>7, <1>8 DEF Next

LEMMA NextCertified == Typed /\ Certified /\ [Next]_vars => Certified'
<1> SUFFICES ASSUME Typed, Certified, [Next]_vars PROVE Certified'
  OBVIOUS
<1>1. PICK S : S = Good'
  OBVIOUS
<1>2. Hold(S) /\ release \in S
  BY <1>1, StaysGood, Grows DEF Certified
<1>3. Hold(S)'
  BY <1>2, NextHold DEF Typed
<1>4. Hold(Good)'
  BY <1>1, <1>3 DEF Hold, Seqs
<1> QED
  BY <1>4, RunsGood DEF Certified

LEMMA HeldValuesCertified == Certified => CertifiedValues
<1> SUFFICES ASSUME Certified, NEW r \in Readers, NEW v \in InHand(r) PROVE Fits(v, r)
  BY DEF CertifiedValues, Fits, Compatible
<1>1. \A q \in Seq(Good) : \A i \in 1..Len(q) : q[i] \in Good
  BY ElementOfSeq
<1>2. v \in Good
  <2>1. PICK q \in {batch[r], got[r]}, s \in Streams : v \in {q[s][i] : i \in 1..Len(q[s])}
    BY DEF InHand
  <2>2. q[s] \in Seq(Good)
    BY DEF Certified, Hold, Seqs
  <2> QED
    BY <1>1, <2>1, <2>2
<1> QED
  BY <1>2 DEF Good

\* A strategy has no value of another version than its contract pins, though
\* it reads it by name, but of a release that was started past the gate
\* (nightly_relaunch.sh) or that was compared with an earlier contract.
THEOREM OnlyCertified == Spec => []CertifiedValues
<1>1. Init => Certified
  BY NoFramesIn, ConstantFacts DEF Init, Certified, Hold, Good, Fits, Compatible, Pinned
<1> QED
  BY <1>1, AlwaysTyped, NextCertified, HeldValuesCertified, PTL DEF Spec

-----------------------------------------------------------------------------
(* The bus implements the feed, for every set of readers, streams and         *)
(* releases: each of its steps is a step of FrameFeed, or none.  What a        *)
(* reader is owed lies, in the end of the stream it is late by, in the batch   *)
(* it has read, and, until the poll returns, in the views it has decoded.      *)

(* Where the frames are: none is in hand but between a poll's answer and its  *)
(* return, none of a stream without a cursor, and never more than a poll's.   *)
QuietAt(r) ==
  \A s \in Streams :
    /\ at[r] # "decode" => Len(batch[r][s]) = 0
    /\ at[r] \in {"down", "blocked"} => Len(got[r][s]) = 0
    /\ s \notin reads[r] => late[r][s] = 0 /\ Len(batch[r][s]) = 0 /\ Len(got[r][s]) = 0
    /\ at[r] = "decode" => Len(batch[r][s]) + Len(got[r][s]) <= MaxLen
Quiet == \A r \in Readers : QuietAt(r)

\* A frame decoded, and the first one caught.
LEMMA Moved ==
  /\ \A a, b, c \in Nat : a + b <= c => (a - 1) + (b + 1) <= c
  /\ \A c \in Nat : c > 0 => 1 + 0 <= c /\ 0 + 0 <= c
OBVIOUS

LEMMA Numbers ==
  ASSUME Typed, NEW r \in Readers, NEW s \in Streams
  PROVE  /\ late[r][s] \in 0..MaxLen /\ late[r][s] \in Nat
         /\ Len(batch[r][s]) \in Nat /\ Len(got[r][s]) \in Nat
BY LenProperties, ConstantFacts DEF Typed, Hold, Seqs, Shapes

Same(r) ==
  at'[r] = at[r] /\ reads'[r] = reads[r] /\ late'[r] = late[r] /\ batch'[r] = batch[r] /\ got'[r] = got[r]

\* What each step of a reader's makes of the numbers.
LEMMA PublishNumbers ==
  ASSUME Typed, Quiet, NEW s \in Streams, Publish(s), NEW r \in Readers
  PROVE  /\ at[r] = "blocked" =>
              /\ at'[r] = "decode" /\ reads'[r] = reads[r] \cup {s} /\ got'[r] = got[r]
              /\ \A q \in Streams : late[r][q] = 0 /\ late'[r][q] = 0 /\ Len(batch'[r][q]) = IF q = s THEN 1 ELSE 0
         /\ at[r] # "blocked" =>
              /\ at'[r] = at[r] /\ reads'[r] = reads[r] /\ batch'[r] = batch[r] /\ got'[r] = got[r]
              /\ \A q \in Streams : late'[r][q] =
                   IF q = s /\ s \in reads[r] THEN AtMost(late[r][q] + 1, MaxLen) ELSE late[r][q]
<1>1. CASE at[r] = "blocked"
  <2>1. late[r] = NoneLate /\ late'[r] = NoneLate
    BY <1>1 DEF Publish, Typed, Backed
  <2>2. batch'[r] = [NoFrames EXCEPT ![s] = <<release>>]
    BY <1>1 DEF Publish
  <2>3. \A q \in Streams : Len(batch'[r][q]) = IF q = s THEN 1 ELSE 0
    BY <2>2 DEF NoFrames
  <2> QED
    BY <1>1, <2>1, <2>3 DEF Publish, NoneLate
<1>2. CASE at[r] # "blocked"
  BY <1>2 DEF Publish, Typed, Shapes
<1> QED
  BY <1>1, <1>2

LEMMA PollNumbers ==
  ASSUME Typed, Quiet, NEW r \in Readers, Poll(r)
  PROVE  /\ at[r] = "ready" /\ reads' = reads /\ \A q \in Readers \ {r} : Same(q)
         /\ \A s \in Streams : late'[r][s] = 0 /\ Len(batch'[r][s]) = late[r][s] /\ Len(got'[r][s]) = 0
         /\ at'[r] \in {"blocked", "decode"} /\ (at'[r] = "blocked" => \A s \in Streams : late[r][s] = 0)
<1>1. \A s \in Streams : Len(batch'[r][s]) = late[r][s]
  BY PollLengths
<1>2. late'[r] = NoneLate /\ got'[r] = NoFrames
  BY DEF Poll, Typed, Shapes, Hold
<1>3. \A q \in Readers \ {r} : Same(q)
  BY DEF Poll, GoTo, Typed, Shapes, Hold, Same
<1>4. at[r] = "ready" /\ at'[r] = IF late[r] = NoneLate THEN "blocked" ELSE "decode"
  BY DEF Poll, GoTo, Typed, Shapes
<1>5. \A s \in Streams : Len(got'[r][s]) = 0
  BY <1>2 DEF NoFrames
<1>6. \A s \in Streams : late'[r][s] = 0
  BY <1>2 DEF NoneLate
<1>7. at'[r] = "blocked" => \A s \in Streams : late[r][s] = 0
  BY <1>4 DEF NoneLate
<1>8. reads' = reads
  BY DEF Poll
<1> QED
  BY ONLY <1>1, <1>3, <1>4, <1>5, <1>6, <1>7, <1>8

LEMMA DecodeNumbers ==
  ASSUME Typed, Quiet, NEW r \in Readers, NEW s \in Streams, Decode(r, s)
  PROVE  /\ at[r] = "decode" /\ UNCHANGED <<at, reads, late>> /\ \A q \in Readers \ {r} : Same(q)
         /\ s \in reads[r] /\ Len(batch[r][s]) > 0
         /\ \A q \in Streams :
              /\ Len(batch'[r][q]) = IF q = s THEN Len(batch[r][q]) - 1 ELSE Len(batch[r][q])
              /\ Len(got'[r][q]) = IF q = s THEN Len(got[r][q]) + 1 ELSE Len(got[r][q])
<1>1. batch[r][s] \in Seq(Releases) /\ batch[r][s] # <<>> /\ got[r][s] \in Seq(Releases)
  BY DEF Decode, Next1, Typed, Hold, Seqs
<1>2. Head(batch[r][s]) \in Releases /\ Len(Tail(batch[r][s])) = Len(batch[r][s]) - 1
      /\ Len(batch[r][s]) \in Nat /\ Len(batch[r][s]) > 0
  BY <1>1, HeadTailProperties, EmptySeq
<1>3. Len(Append(got[r][s], Frame(r, s))) = Len(got[r][s]) + 1
  BY <1>1, <1>2 DEF Frame
<1>4. \A q \in Streams :
        /\ batch'[r][q] = IF q = s THEN Tail(batch[r][s]) ELSE batch[r][q]
        /\ got'[r][q] = IF q = s THEN Append(got[r][s], Frame(r, s)) ELSE got[r][q]
  BY DEF Decode, Rest, Typed, Hold, Seqs
<1>5. \A q \in Readers \ {r} : Same(q)
  BY DEF Decode, Typed, Hold, Same
<1>6. s \notin reads[r] => Len(batch[r][s]) = 0
  BY DEF Quiet, QuietAt
<1>7. s \in reads[r]
  BY <1>2, <1>6
<1>8. \A q \in Streams :
        /\ Len(batch'[r][q]) = IF q = s THEN Len(batch[r][q]) - 1 ELSE Len(batch[r][q])
        /\ Len(got'[r][q]) = IF q = s THEN Len(got[r][q]) + 1 ELSE Len(got[r][q])
  BY ONLY <1>2, <1>3, <1>4
<1>9. at[r] = "decode" /\ UNCHANGED <<at, reads, late>>
  BY DEF Decode, Next1
<1> QED
  BY ONLY <1>2, <1>5, <1>7, <1>8, <1>9

LEMMA FetchFailsNumbers ==
  ASSUME Typed, Quiet, NEW r \in Readers, NEW s \in Streams, FetchFails(r, s)
  PROVE  /\ at[r] = "decode" /\ at'[r] = "ready" /\ reads' = reads /\ \A q \in Readers \ {r} : Same(q)
         /\ \A q \in Streams : Len(batch'[r][q]) = 0 /\ Len(got'[r][q]) = 0
         /\ \A q \in Streams : \E n \in 0..Len(batch[r][q]) : late'[r][q] = AtMost(n + late[r][q], MaxLen)
<1>1. batch[r][s] \in Seq(Releases) /\ batch[r][s] # <<>>
  BY DEF FetchFails, Next1, Typed, Hold, Seqs
<1>2. Tail(batch[r][s]) \in Seq(Releases) /\ Len(Tail(batch[r][s])) = Len(batch[r][s]) - 1
  BY <1>1, HeadTailProperties
<1>3. ASSUME NEW q \in Streams PROVE Len(Rest(r, s)[q]) \in 0..Len(batch[r][q])
  <2>1. Rest(r, s)[q] = IF q = s THEN Tail(batch[r][s]) ELSE batch[r][q]
    BY DEF Rest, Typed, Hold, Seqs
  <2>2. Len(Tail(batch[r][s])) \in Nat /\ Len(batch[r][q]) \in Nat
    BY <1>2, LenProperties, Numbers
  <2> QED
    BY <1>2, <2>1, <2>2
<1>4. \A q \in Streams : late'[r][q] = AtMost(Len(Rest(r, s)[q]) + late[r][q], MaxLen)
  BY DEF FetchFails, Typed, Shapes
<1>5. batch'[r] = NoFrames /\ got'[r] = NoFrames /\ at'[r] = "ready" /\ at[r] = "decode" /\ reads' = reads
  BY DEF FetchFails, Next1, GoTo, Typed, Hold, Shapes
<1>6. \A q \in Readers \ {r} : Same(q)
  BY DEF FetchFails, GoTo, Typed, Hold, Shapes, Same
<1>7. \A q \in Streams : \E n \in 0..Len(batch[r][q]) : late'[r][q] = AtMost(n + late[r][q], MaxLen)
  BY <1>3, <1>4
<1> QED
  BY <1>5, <1>6, <1>7 DEF NoFrames

LEMMA CrashNumbers ==
  ASSUME Typed, NEW r \in Readers, Crash(r) \/ FeatureMissing(r)
  PROVE  /\ at'[r] = "down" /\ reads'[r] = {} /\ \A q \in Readers \ {r} : Same(q)
         /\ \A q \in Streams : late'[r][q] = 0 /\ Len(batch'[r][q]) = 0 /\ Len(got'[r][q]) = 0
<1>1. late'[r] = NoneLate /\ batch'[r] = NoFrames /\ got'[r] = NoFrames
  BY DEF Crash, FeatureMissing, Dies, Typed, Hold, Shapes
<1>2. at'[r] = "down" /\ reads'[r] = {} /\ \A q \in Readers \ {r} : Same(q)
  BY DEF Crash, FeatureMissing, Dies, GoTo, Typed, Domains, Hold, Shapes, Same
<1> QED
  BY <1>1, <1>2 DEF NoneLate, NoFrames

LEMMA LoopNumbers ==
  ASSUME Typed, NEW r \in Readers, (\E v \in Images : Start(r, v)) \/ PollTimesOut(r) \/ Return(r)
  PROVE  /\ at'[r] = "ready" /\ UNCHANGED <<reads, late, batch, got, env>>
         /\ \A q \in Readers \ {r} : Same(q)
         /\ at[r] \in {"down", "blocked", "decode"}
         /\ at[r] = "decode" => \A s \in Streams : Len(batch[r][s]) = 0
<1>1. UNCHANGED <<reads, late, batch, got, env>>
  BY DEF Start, PollTimesOut, Return, Idle, Served
<1>2. at' = [at EXCEPT ![r] = "ready"]
  BY DEF Start, PollTimesOut, Return, GoTo
<1>3. at[r] \in {"down", "blocked", "decode"} /\ (at[r] = "decode" => batch[r] = NoFrames)
  BY DEF Start, PollTimesOut, Return, Decides
<1>4. at[r] = "decode" => \A s \in Streams : Len(batch[r][s]) = 0
  BY <1>3 DEF NoFrames
<1> QED
  BY <1>1, <1>2, <1>3, <1>4 DEF Typed, Shapes, Same

LEMMA SameQuiet == ASSUME NEW r \in Readers, QuietAt(r), Same(r) PROVE QuietAt(r)'
BY DEF QuietAt, Same

Elsewhere == EnsureSchemaPublished \/ PublishFails \/ \E v \in Releases : Gate(v) \/ Relaunch(v)

LEMMA ElsewhereNumbers ==
  ASSUME Typed, Elsewhere \/ UNCHANGED vars
  PROVE  (\A r \in Readers : Same(r)) /\ env'.fetch = env.fetch
<1>1. UNCHANGED <<at, reads, late, batch, got>>
  BY DEF Elsewhere, EnsureSchemaPublished, PublishFails, Gate, Relaunch, vars, reader, OnlyThread
<1>2. UNCHANGED env \/ Spend("faults") \/ Spend("relaunches")
  BY DEF Elsewhere, EnsureSchemaPublished, PublishFails, Gate, Relaunch, vars, reader
<1>3. env'.fetch = env.fetch
  BY <1>2 DEF Spend, Typed, Domains, Bounds
<1> QED
  BY <1>1, <1>3 DEF Same

LEMMA InitQuiet == Init => Quiet
<1> SUFFICES ASSUME Init, NEW r \in Readers PROVE QuietAt(r)
  BY DEF Quiet
<1>1. \A s \in Streams : late[r][s] = 0 /\ Len(batch[r][s]) = 0 /\ Len(got[r][s]) = 0
  BY DEF Init, NoneLate, NoFrames
<1>2. at[r] = "down"
  BY DEF Init
<1> QED
  BY <1>1, <1>2 DEF QuietAt

LEMMA PublishQuiet ==
  ASSUME Typed, Quiet, NEW s \in Streams, Publish(s), NEW r \in Readers PROVE QuietAt(r)'
<1>1. CASE at[r] = "blocked"
  <2>1. /\ at'[r] = "decode" /\ reads'[r] = reads[r] \cup {s} /\ got'[r] = got[r]
        /\ \A q \in Streams : late'[r][q] = 0 /\ Len(batch'[r][q]) = IF q = s THEN 1 ELSE 0
    BY <1>1, PublishNumbers
  <2>2. \A q \in Streams : Len(got[r][q]) = 0
    BY <1>1 DEF Quiet, QuietAt
  <2>3. \A q \in Streams : Len(got'[r][q]) = 0 /\ late'[r][q] = 0 /\ (q = s \/ Len(batch'[r][q]) = 0)
    BY <2>1, <2>2
  <2>4. ASSUME NEW q \in Streams PROVE Len(batch'[r][q]) + Len(got'[r][q]) <= MaxLen
    <3>1. Len(got'[r][q]) = 0 /\ (Len(batch'[r][q]) = 1 \/ Len(batch'[r][q]) = 0)
      BY <2>1, <2>3
    <3>2. 1 + 0 <= MaxLen /\ 0 + 0 <= MaxLen
      BY Moved, ConstantFacts
    <3> QED
      BY ONLY <3>1, <3>2
  <2>5. s \in reads'[r] /\ at'[r] = "decode"
    BY <2>1
  <2> QED
    BY ONLY <2>3, <2>4, <2>5 DEF QuietAt
<1>2. CASE at[r] # "blocked"
  <2>1. /\ at'[r] = at[r] /\ reads'[r] = reads[r] /\ batch'[r] = batch[r] /\ got'[r] = got[r]
        /\ \A q \in Streams : late'[r][q] = late[r][q] \/ q \in reads[r]
    BY <1>2, PublishNumbers
  <2> QED
    BY <2>1 DEF Quiet, QuietAt
<1> QED
  BY <1>1, <1>2

LEMMA FetchFailsQuiet ==
  ASSUME Typed, Quiet, NEW r \in Readers, NEW s \in Streams, FetchFails(r, s) PROVE QuietAt(r)'
<1> SUFFICES ASSUME NEW q \in Streams, q \notin reads'[r] PROVE late'[r][q] = 0
  BY FetchFailsNumbers DEF QuietAt
<1>1. late[r][q] = 0 /\ Len(batch[r][q]) = 0
  BY FetchFailsNumbers DEF Quiet, QuietAt
<1>2. PICK n \in 0..Len(batch[r][q]) : late'[r][q] = AtMost(n + late[r][q], MaxLen)
  BY FetchFailsNumbers
<1> QED
  BY <1>1, <1>2, ConstantFacts DEF AtMost

LEMMA NextQuiet == ASSUME Typed, Quiet, [Next]_vars PROVE Quiet'
<1>1. CASE \E s \in Streams : Publish(s)
  BY <1>1, PublishQuiet DEF Quiet
<1>2. CASE Elsewhere \/ UNCHANGED vars
  BY <1>2, ElsewhereNumbers, SameQuiet DEF Quiet
<1>3. ASSUME NEW r \in Readers, Loop(r) \/ Crash(r) \/ \E s \in Streams : FetchFails(r, s)
      PROVE  Quiet'
  <2>1. CASE (\E v \in Images : Start(r, v)) \/ PollTimesOut(r) \/ Return(r)
    <3>1. QuietAt(r)'
      BY <2>1, LoopNumbers DEF Quiet, QuietAt
    <3> QED
      BY <2>1, <3>1, LoopNumbers, SameQuiet DEF Quiet
  <2>2. CASE Poll(r)
    <3>1. ASSUME NEW s \in Streams
          PROVE  /\ at'[r] # "decode" => Len(batch'[r][s]) = 0
                 /\ Len(got'[r][s]) = 0 /\ late'[r][s] = 0
                 /\ s \notin reads'[r] => Len(batch'[r][s]) = 0
                 /\ Len(batch'[r][s]) + Len(got'[r][s]) <= MaxLen
      <4>1. /\ reads' = reads /\ late'[r][s] = 0 /\ Len(batch'[r][s]) = late[r][s] /\ Len(got'[r][s]) = 0
            /\ at'[r] \in {"blocked", "decode"} /\ (at'[r] = "blocked" => late[r][s] = 0)
        BY <2>2, PollNumbers
      <4>2. s \notin reads[r] => late[r][s] = 0
        BY DEF Quiet, QuietAt
      <4>3. late[r][s] \in 0..MaxLen
        BY Numbers
      <4> QED
        BY <4>1, <4>2, <4>3, ConstantFacts
    <3>2. QuietAt(r)'
      BY <3>1 DEF QuietAt
    <3>3. \A q \in Readers \ {r} : Same(q)
      BY <2>2, PollNumbers
    <3> QED
      BY <3>2, <3>3, SameQuiet DEF Quiet
  <2>3. ASSUME NEW s \in Streams, Decode(r, s) PROVE Quiet'
    <3>1. ASSUME NEW q \in Streams
          PROVE  /\ q \notin reads[r] => late[r][q] = 0 /\ Len(batch'[r][q]) = 0 /\ Len(got'[r][q]) = 0
                 /\ Len(batch'[r][q]) + Len(got'[r][q]) <= MaxLen
      <4>1. /\ at[r] = "decode" /\ s \in reads[r]
            /\ Len(batch'[r][q]) = IF q = s THEN Len(batch[r][q]) - 1 ELSE Len(batch[r][q])
            /\ Len(got'[r][q]) = IF q = s THEN Len(got[r][q]) + 1 ELSE Len(got[r][q])
        BY <2>3, DecodeNumbers
      <4>2. Len(batch[r][q]) \in Nat /\ Len(got[r][q]) \in Nat
        BY Numbers
      <4>3. /\ q \notin reads[r] => late[r][q] = 0 /\ Len(batch[r][q]) = 0 /\ Len(got[r][q]) = 0
            /\ Len(batch[r][q]) + Len(got[r][q]) <= MaxLen
        BY <4>1 DEF Quiet, QuietAt
      <4>4. CASE q = s
        <5>1. Len(batch'[r][q]) = Len(batch[r][q]) - 1 /\ Len(got'[r][q]) = Len(got[r][q]) + 1
          BY ONLY <4>1, <4>4
        <5>2. q \in reads[r] /\ Len(batch[r][q]) + Len(got[r][q]) <= MaxLen
          BY ONLY <4>1, <4>3, <4>4
        <5>3. MaxLen \in Nat
          BY ConstantFacts
        <5>4. (Len(batch[r][q]) - 1) + (Len(got[r][q]) + 1) <= MaxLen
          BY ONLY <4>2, <5>2, <5>3, Moved
        <5> QED
          BY <4>3, <5>1, <5>2, <5>4
      <4>5. CASE q # s
        BY ONLY <4>1, <4>2, <4>3, <4>5
      <4> QED
        BY <4>4, <4>5
    <3>2. at[r] = "decode" /\ UNCHANGED <<at, reads, late>>
      BY <2>3, DecodeNumbers
    <3>3. QuietAt(r)'
      BY <3>1, <3>2 DEF QuietAt
    <3>4. \A q \in Readers \ {r} : Same(q)
      BY <2>3, DecodeNumbers
    <3> QED
      BY <3>3, <3>4, SameQuiet DEF Quiet
  <2>4. ASSUME NEW s \in Streams, FetchFails(r, s) PROVE Quiet'
    BY <2>4, FetchFailsQuiet, FetchFailsNumbers, SameQuiet DEF Quiet
  <2>5. CASE Crash(r) \/ FeatureMissing(r)
    <3>1. QuietAt(r)'
      BY <2>5, CrashNumbers DEF QuietAt
    <3> QED
      BY <2>5, <3>1, CrashNumbers, SameQuiet DEF Quiet
  <2> QED
    BY <1>3, <2>1, <2>2, <2>3, <2>4, <2>5 DEF Loop
<1> QED
  BY <1>1, <1>2, <1>3 DEF Next, Thread, Elsewhere

-----------------------------------------------------------------------------
(* The mapping, row by row. *)

LEMMA Rows ==
  /\ Owed = [r \in Readers |-> Owed[r]] /\ Given = [r \in Readers |-> Given[r]]
  /\ Owed' = [r \in Readers |-> Owed'[r]] /\ Given' = [r \in Readers |-> Given'[r]]
  /\ \A r \in Readers :
       /\ Owed[r] = [s \in Streams |-> Owed[r][s]] /\ Given[r] = [s \in Streams |-> Given[r][s]]
       /\ Owed'[r] = [s \in Streams |-> Owed'[r][s]] /\ Given'[r] = [s \in Streams |-> Given'[r][s]]
BY DEF Owed, Given

LEMMA Entries ==
  ASSUME NEW r \in Readers, NEW s \in Streams
  PROVE  /\ Owed[r][s] = IF s \in reads[r] THEN Backlog(r, s) ELSE -1
         /\ Owed'[r][s] = IF s \in reads'[r] THEN Backlog(r, s)' ELSE -1
         /\ Given[r][s] = IF at[r] = "ready" THEN Len(got[r][s]) ELSE 0
         /\ Given'[r][s] = IF at'[r] = "ready" THEN Len(got'[r][s]) ELSE 0
BY DEF Owed, Given

LEMMA SameRow ==
  ASSUME NEW r \in Readers, Same(r) PROVE Owed'[r] = Owed[r] /\ Given'[r] = Given[r]
BY DEF Same, Owed, Given, Backlog

\* One reader's rows, and nobody else's.
LEMMA RowUpdate ==
  ASSUME NEW r \in Readers, \A q \in Readers \ {r} : Same(q)
  PROVE  Owed' = [Owed EXCEPT ![r] = Owed'[r]] /\ Given' = [Given EXCEPT ![r] = Given'[r]]
<1>1. \A q \in Readers \ {r} : Owed'[q] = Owed[q] /\ Given'[q] = Given[q]
  BY SameRow
<1> QED
  BY <1>1, Rows

LEMMA NothingMoves ==
  ASSUME NEW r \in Readers, \A q \in Readers \ {r} : Same(q),
         \A s \in Streams : Owed'[r][s] = Owed[r][s] /\ Given'[r][s] = Given[r][s]
  PROVE  Owed' = Owed /\ Given' = Given
<1>1. Owed'[r] = Owed[r] /\ Given'[r] = Given[r]
  BY Rows
<1>2. \A q \in Readers : Owed'[q] = Owed[q] /\ Given'[q] = Given[q]
  BY <1>1, SameRow
<1> QED
  BY <1>2, Rows

Stutter == Owed' = Owed /\ Given' = Given /\ env'.fetch = env.fetch

LEMMA ElsewhereMaps == ASSUME Typed, Elsewhere \/ UNCHANGED vars PROVE Stutter
<1>1. \A q \in Readers : Owed'[q] = Owed[q] /\ Given'[q] = Given[q]
  BY ElsewhereNumbers, SameRow
<1> QED
  BY <1>1, Rows, ElsewhereNumbers DEF Stutter

LEMMA InitMaps == Init => Abstract!Init
<1> SUFFICES ASSUME Init PROVE Abstract!Init
  OBVIOUS
<1>1. ASSUME NEW r \in Readers, NEW s \in Streams PROVE Owed[r][s] = -1 /\ Given[r][s] = 0
  BY Entries DEF Init
<1>2. Owed = [r \in Readers |-> Abstract!Apart] /\ Given = [r \in Readers |-> Abstract!None]
  BY <1>1, Rows DEF Abstract!Apart, Abstract!Waiting, Abstract!None
<1>3. env.fetch \in Nat
  BY FeatureBusConstants DEF FeatureBusConstants, Init, Bounds
<1> QED
  BY <1>2, <1>3 DEF Abstract!Init

\* Owed one more, or no more than the stream keeps.
LEMMA OneMore ==
  ASSUME NEW l \in 0..MaxLen, NEW b \in Nat, NEW m \in Nat
  PROVE  AtMost(l + 1, MaxLen) + b + m \in Abstract!Owing(l + b + m)
<1>1. MaxLen \in Nat /\ l + b + m \in Nat /\ l + b + m # Abstract!Waiting
  BY ConstantFacts DEF Abstract!Waiting
<1>2. AtMost(l + 1, MaxLen) = IF l = MaxLen THEN l ELSE l + 1
  BY <1>1 DEF AtMost
<1>3. CASE l + b + m >= MaxLen
  <2>1. Abstract!Owing(l + b + m) = {l + b + m, l + b + m + 1}
    BY ONLY <1>1, <1>3 DEF Abstract!Owing
  <2> QED
    BY ONLY <1>2, <2>1, <1>1
<1>4. CASE ~(l + b + m >= MaxLen)
  <2>1. Abstract!Owing(l + b + m) = {l + b + m + 1}
    BY ONLY <1>1, <1>4 DEF Abstract!Owing
  <2>2. l # MaxLen
    BY <1>1, <1>4
  <2> QED
    BY ONLY <1>2, <2>1, <2>2, <1>1
<1> QED
  BY <1>3, <1>4

(* A frame is published: whoever reads the stream is owed it.  One blocked    *)
(* on it has it in its batch already.                                         *)
LEMMA PublishMaps ==
  ASSUME Typed, Quiet, NEW s \in Streams, Publish(s) PROVE Abstract!Publish(s)
<1>1. ASSUME NEW r \in Readers
      PROVE  /\ Owed'[r][s] \in Abstract!Owing(Owed[r][s])
             /\ \A q \in Streams \ {s} : Owed'[r][q] = Owed[r][q]
             /\ \A q \in Streams : Given'[r][q] = Given[r][q]
  <2>1. MaxLen \in Nat /\ MaxLen > 0
    BY ConstantFacts
  <2>2. CASE at[r] = "blocked"
    <3>1. /\ at'[r] = "decode" /\ reads'[r] = reads[r] \cup {s} /\ got'[r] = got[r]
          /\ \A q \in Streams : late[r][q] = 0 /\ late'[r][q] = 0 /\ Len(batch'[r][q]) = IF q = s THEN 1 ELSE 0
      BY <2>2, PublishNumbers
    <3>2. \A q \in Streams : Len(got[r][q]) = 0 /\ Len(batch[r][q]) = 0
      BY <2>2 DEF Quiet, QuietAt
    <3>3. \A q \in Streams : Given'[r][q] = Given[r][q]
      BY <2>2, <3>1, Entries
    <3>4. Owed[r][s] \in {0, -1} /\ Owed'[r][s] = 1
      BY <2>2, <3>1, <3>2, Entries DEF Backlog
    <3>5. Owed'[r][s] \in Abstract!Owing(Owed[r][s])
      BY <2>1, <3>4 DEF Abstract!Owing, Abstract!Waiting
    <3>6. ASSUME NEW q \in Streams \ {s} PROVE Owed'[r][q] = Owed[r][q]
      <4>1. late'[r][q] = 0 /\ Len(batch'[r][q]) = 0 /\ Len(got'[r][q]) = 0
        BY <3>1, <3>2
      <4>2. late[r][q] = 0 /\ Len(batch[r][q]) = 0
        BY <3>1, <3>2
      <4>3. Backlog(r, q)' = 0
        BY ONLY <4>1 DEF Backlog
      <4>4. Backlog(r, q) = 0
        BY ONLY <4>2, <2>2 DEF Backlog
      <4> QED
        BY <3>1, <4>3, <4>4, Entries
    <3> QED
      BY <3>3, <3>5, <3>6
  <2>3. CASE at[r] # "blocked"
    <3>1. /\ at'[r] = at[r] /\ reads'[r] = reads[r] /\ batch'[r] = batch[r] /\ got'[r] = got[r]
          /\ \A q \in Streams : late'[r][q] =
               IF q = s /\ s \in reads[r] THEN AtMost(late[r][q] + 1, MaxLen) ELSE late[r][q]
      BY <2>3, PublishNumbers
    <3>2. \A q \in Streams : Given'[r][q] = Given[r][q]
      BY <3>1, Entries
    <3>3. \A q \in Streams \ {s} : Owed'[r][q] = Owed[r][q]
      BY <3>1, Entries DEF Backlog
    <3>4. CASE s \notin reads[r]
      <4>1. Owed[r][s] = -1 /\ Owed'[r][s] = -1
        BY <3>1, <3>4, Entries
      <4> QED
        BY <3>2, <3>3, <4>1 DEF Abstract!Owing, Abstract!Waiting
    <3>5. CASE s \in reads[r]
      <4> DEFINE more == IF at[r] = "decode" THEN Len(got[r][s]) ELSE 0
      <4>1. more \in Nat /\ Len(batch[r][s]) \in Nat /\ late[r][s] \in 0..MaxLen
        BY Numbers
      <4>2. Owed[r][s] = late[r][s] + Len(batch[r][s]) + more
        BY <3>5, Entries DEF Backlog
      <4>3. Owed'[r][s] = AtMost(late[r][s] + 1, MaxLen) + Len(batch[r][s]) + more
        BY <3>1, <3>5, Entries DEF Backlog
      <4> HIDE DEF more
      <4>4. Owed'[r][s] \in Abstract!Owing(Owed[r][s])
        BY ONLY <4>1, <4>2, <4>3, OneMore
      <4> QED
        BY <3>2, <3>3, <4>4
    <3> QED
      BY <3>4, <3>5
  <2> QED
    BY <2>2, <2>3
<1>2. Given' = Given
  <2>1. \A r \in Readers : Given'[r] = Given[r]
    BY <1>1, Rows
  <2> QED
    BY <2>1, Rows
<1>3. \A r \in Readers : Owed'[r] = [Owed[r] EXCEPT ![s] = Owed'[r][s]]
  BY <1>1, Rows
<1>4. env' = env /\ DOMAIN Owed' = Readers
  BY Rows DEF Publish
<1> QED
  BY <1>1, <1>2, <1>3, <1>4 DEF Abstract!Publish

(* A start and a poll that times out move nothing: the reader has nothing in  *)
(* hand.                                                                      *)
LEMMA LoopMaps ==
  ASSUME Typed, Quiet, NEW r \in Readers, (\E v \in Images : Start(r, v)) \/ PollTimesOut(r) PROVE Stutter
<1>1. /\ at'[r] = "ready" /\ UNCHANGED <<reads, late, batch, got, env>>
      /\ \A q \in Readers \ {r} : Same(q)
  BY LoopNumbers
<1>2. at[r] \in {"down", "blocked"}
  BY DEF Start, PollTimesOut
<1>3. ASSUME NEW s \in Streams PROVE Owed'[r][s] = Owed[r][s] /\ Given'[r][s] = Given[r][s]
  <2>1. Len(got[r][s]) = 0
    BY <1>2 DEF Quiet, QuietAt
  <2>2. Backlog(r, s)' = Backlog(r, s)
    BY <1>1, <1>2 DEF Backlog
  <2>3. Given[r][s] = 0 /\ Given'[r][s] = 0
    BY <1>1, <1>2, <2>1, Entries
  <2> QED
    BY <1>1, <2>2, <2>3, Entries
<1> QED
  BY <1>1, <1>3, NothingMoves DEF Stutter

(* A poll forgets the last views; what it read is still to be given. *)
LEMMA PollMaps == ASSUME Typed, Quiet, NEW r \in Readers, Poll(r) PROVE Abstract!Forget(r)
<1>1. /\ at[r] = "ready" /\ reads' = reads /\ \A q \in Readers \ {r} : Same(q)
      /\ at'[r] \in {"blocked", "decode"}
  BY PollNumbers
<1>2. ASSUME NEW s \in Streams PROVE Owed'[r][s] = Owed[r][s] /\ Given'[r][s] = 0
  <2>1. late'[r][s] = 0 /\ Len(batch'[r][s]) = late[r][s] /\ Len(got'[r][s]) = 0
    BY PollNumbers
  <2>2. Len(batch[r][s]) = 0 /\ late[r][s] \in Nat
    BY <1>1, Numbers DEF Quiet, QuietAt
  <2>3. Backlog(r, s)' = late[r][s]
    BY ONLY <2>1, <2>2 DEF Backlog
  <2>4. Backlog(r, s) = late[r][s]
    BY ONLY <1>1, <2>2 DEF Backlog
  <2> QED
    BY <1>1, <2>3, <2>4, Entries
<1>3. Owed'[r] = Owed[r] /\ Given'[r] = Abstract!None
  BY <1>2, Rows DEF Abstract!None
<1>4. Owed' = Owed /\ Given' = [Given EXCEPT ![r] = Abstract!None] /\ env' = env
  <2>1. Owed' = [Owed EXCEPT ![r] = Owed[r]] /\ Given' = [Given EXCEPT ![r] = Abstract!None]
    BY <1>1, <1>3, RowUpdate
  <2>2. Owed' = Owed
    BY ONLY <2>1, Rows
  <2> QED
    BY <2>1, <2>2 DEF Poll
<1> QED
  BY <1>4 DEF Abstract!Forget

(* Decoding moves a frame from the batch to the views. *)
LEMMA DecodeMaps ==
  ASSUME Typed, Quiet, NEW r \in Readers, NEW s \in Streams, Decode(r, s) PROVE Stutter
<1>1. at[r] = "decode" /\ UNCHANGED <<at, reads, late>> /\ \A q \in Readers \ {r} : Same(q)
  BY DecodeNumbers
<1>2. ASSUME NEW q \in Streams PROVE Owed'[r][q] = Owed[r][q] /\ Given'[r][q] = Given[r][q]
  <2>1. /\ Len(batch'[r][q]) = IF q = s THEN Len(batch[r][q]) - 1 ELSE Len(batch[r][q])
        /\ Len(got'[r][q]) = IF q = s THEN Len(got[r][q]) + 1 ELSE Len(got[r][q])
    BY DecodeNumbers
  <2>2. Len(batch[r][q]) \in Nat /\ Len(got[r][q]) \in Nat /\ late[r][q] \in Nat
    BY Numbers
  <2>3. Backlog(r, q) = late[r][q] + Len(batch[r][q]) + Len(got[r][q])
    BY <1>1 DEF Backlog
  <2>4. Backlog(r, q)' = late[r][q] + Len(batch'[r][q]) + Len(got'[r][q])
    BY <1>1 DEF Backlog
  <2>5. Backlog(r, q)' = Backlog(r, q)
    <3>1. CASE q # s
      BY <2>1, <2>3, <2>4, <3>1
    <3>2. CASE q = s
      <4>1. Len(batch'[r][q]) = Len(batch[r][q]) - 1 /\ Len(got'[r][q]) = Len(got[r][q]) + 1
        BY ONLY <2>1, <3>2
      <4>2. late[r][q] + (Len(batch[r][q]) - 1) + (Len(got[r][q]) + 1) = late[r][q] + Len(batch[r][q]) + Len(got[r][q])
        <5> DEFINE a == late[r][q]
                   b == Len(batch[r][q])
                   c == Len(got[r][q])
        <5>1. a \in Nat /\ b \in Nat /\ c \in Nat
          BY ONLY <2>2
        <5> HIDE DEF a, b, c
        <5>2. a + (b - 1) + (c + 1) = a + b + c
          BY ONLY <5>1
        <5> QED
          BY ONLY <5>2 DEF a, b, c
      <4> QED
        BY ONLY <2>3, <2>4, <4>1, <4>2
    <3> QED
      BY <3>1, <3>2
  <2> QED
    BY <1>1, <2>5, Entries
<1>3. env' = env
  BY DEF Decode
<1> QED
  BY <1>1, <1>2, <1>3, NothingMoves DEF Stutter

(* The poll that returns gives what it has decoded, if it has anything. *)
LEMMA ReturnMaps ==
  ASSUME Typed, Quiet, NEW r \in Readers, Return(r) PROVE Stutter \/ Abstract!Give(r)
<1> DEFINE k == [s \in Streams |-> Len(got[r][s])]
<1>1. /\ at'[r] = "ready" /\ at[r] = "decode" /\ UNCHANGED <<reads, late, batch, got, env>>
      /\ \A q \in Readers \ {r} : Same(q)
      /\ \A s \in Streams : Len(batch[r][s]) = 0
  BY LoopNumbers DEF Return, Decides
<1>2. ASSUME NEW s \in Streams
      PROVE  /\ k[s] \in 0..MaxLen /\ (k[s] > 0 => k[s] <= Owed[r][s]) /\ Owed[r][s] \in Int
             /\ Owed'[r][s] = Owed[r][s] - k[s] /\ Given'[r][s] = k[s] /\ Given[r][s] = 0
  <2>1. k[s] = Len(got[r][s]) /\ k[s] \in Nat /\ late[r][s] \in Nat /\ Len(batch[r][s]) = 0
    BY <1>1, Numbers
  <2>2. k[s] <= MaxLen /\ (s \notin reads[r] => k[s] = 0)
    <3>1. /\ Len(batch[r][s]) + Len(got[r][s]) <= MaxLen
          /\ s \notin reads[r] => Len(got[r][s]) = 0
      BY <1>1 DEF Quiet, QuietAt
    <3> QED
      BY <2>1, <3>1
  <2>3. Given'[r][s] = k[s] /\ Given[r][s] = 0
    BY <1>1, <2>1, Entries
  <2>4. Backlog(r, s) = late[r][s] + k[s] /\ Backlog(r, s)' = late[r][s]
    BY <1>1, <2>1 DEF Backlog
  <2>5. CASE s \in reads[r]
    <3>1. Owed[r][s] = late[r][s] + k[s] /\ Owed'[r][s] = late[r][s]
      BY <1>1, <2>4, <2>5, Entries
    <3> HIDE DEF k
    <3> QED
      BY <2>1, <2>2, <2>3, <3>1, ConstantFacts
  <2>6. CASE s \notin reads[r]
    BY <1>1, <2>1, <2>2, <2>3, <2>6, Entries, ConstantFacts
  <2> QED
    BY <2>5, <2>6
<1>3. k \in [Streams -> 0..MaxLen]
  BY <1>2
<1> HIDE DEF k
<1>4. CASE k = Abstract!None
  <2>1. \A s \in Streams : k[s] = 0
    BY <1>4 DEF Abstract!None
  <2>2. \A s \in Streams : Owed'[r][s] = Owed[r][s] /\ Given'[r][s] = Given[r][s]
    BY <1>2, <2>1
  <2> QED
    BY <1>1, <2>2, NothingMoves DEF Stutter
<1>5. CASE k # Abstract!None
  <2>1. Owed'[r] = [s \in Streams |-> Owed[r][s] - k[s]]
    BY <1>2, Rows
  <2>2. Given'[r] = k
    BY <1>2, <1>3, Rows
  <2>3. /\ Owed' = [Owed EXCEPT ![r] = [s \in Streams |-> Owed[r][s] - k[s]]]
        /\ Given' = [Given EXCEPT ![r] = k]
    BY <1>1, <2>1, <2>2, RowUpdate
  <2> QED
    BY <1>1, <1>2, <1>3, <1>5, <2>3 DEF Abstract!Give
<1> QED
  BY <1>4, <1>5

LEMMA Skipped ==
  ASSUME NEW m \in Nat, NEW l \in 0..m, NEW b \in Nat, NEW g \in Nat, b + g <= m, NEW n \in 0..(l + b)
  PROVE  /\ (l + b + g) - n \in 0..(2 * m) /\ (l + b + g) - n <= l + b + g
         /\ n = (l + b + g) - ((l + b + g) - n)
OBVIOUS

(* A failed look-up skips the frame the cursor has passed, the views decoded  *)
(* before it, and what the stream trims of the rest.                          *)
LEMMA FetchFailsMaps ==
  ASSUME Typed, Quiet, NEW r \in Readers, NEW s \in Streams, FetchFails(r, s) PROVE Abstract!Skip(r)
<1>1. at[r] = "decode" /\ at'[r] = "ready" /\ reads' = reads /\ \A q \in Readers \ {r} : Same(q)
  BY FetchFailsNumbers
<1> DEFINE k == [q \in Streams |-> Owed[r][q] - Owed'[r][q]]
<1>2. ASSUME NEW q \in Streams
      PROVE  /\ k[q] \in 0..(2 * MaxLen) /\ (k[q] > 0 => k[q] <= Owed[r][q])
             /\ Owed'[r][q] = Owed[r][q] - k[q] /\ Given'[r][q] = 0 /\ Given[r][q] = 0
  <2>1. PICK n \in 0..Len(batch[r][q]) : late'[r][q] = AtMost(n + late[r][q], MaxLen)
    BY FetchFailsNumbers
  <2>2. Len(batch'[r][q]) = 0 /\ Len(got'[r][q]) = 0
    BY FetchFailsNumbers
  <2>3. /\ Len(batch[r][q]) \in Nat /\ Len(got[r][q]) \in Nat
        /\ late[r][q] \in 0..MaxLen /\ MaxLen \in Nat
    BY Numbers, ConstantFacts
  <2>4. Len(batch[r][q]) + Len(got[r][q]) <= MaxLen
    BY <1>1 DEF Quiet, QuietAt
  <2>5. Backlog(r, q) = late[r][q] + Len(batch[r][q]) + Len(got[r][q])
    BY <1>1 DEF Backlog
  <2>6. late'[r][q] \in 0..(late[r][q] + Len(batch[r][q]))
    <3> DEFINE b == Len(batch[r][q])
               l == late[r][q]
    <3>1. n \in 0..b /\ b \in Nat /\ l \in 0..MaxLen /\ MaxLen \in Nat /\ late'[r][q] = AtMost(n + l, MaxLen)
      BY ONLY <2>1, <2>3
    <3> HIDE DEF b, l
    <3>2. AtMost(n + l, MaxLen) \in 0..(l + b)
      BY ONLY <3>1 DEF AtMost
    <3> QED
      BY ONLY <3>1, <3>2 DEF b, l
  <2>7. Backlog(r, q)' = late'[r][q]
    BY <1>1, <2>2, <2>6, <2>3 DEF Backlog
  <2>8. Given'[r][q] = 0 /\ Given[r][q] = 0
    BY <1>1, <2>2, Entries
  <2>9. CASE q \in reads[r]
    <3>1. Owed[r][q] = late[r][q] + Len(batch[r][q]) + Len(got[r][q]) /\ Owed'[r][q] = late'[r][q]
      BY <1>1, <2>5, <2>7, <2>9, Entries
    <3>2. k[q] = Owed[r][q] - Owed'[r][q]
      OBVIOUS
    <3> HIDE DEF k
    <3>3. /\ Owed[r][q] - Owed'[r][q] \in 0..(2 * MaxLen) /\ Owed[r][q] - Owed'[r][q] <= Owed[r][q]
          /\ Owed'[r][q] = Owed[r][q] - (Owed[r][q] - Owed'[r][q])
      <4> DEFINE b == Len(batch[r][q])
                 g == Len(got[r][q])
                 l == late[r][q]
                 n2 == late'[r][q]
      <4>1. /\ b \in Nat /\ g \in Nat /\ l \in 0..MaxLen /\ MaxLen \in Nat
            /\ b + g <= MaxLen /\ n2 \in 0..(l + b)
        BY ONLY <2>3, <2>4, <2>6
      <4>2. Owed[r][q] = l + b + g /\ Owed'[r][q] = n2
        BY ONLY <3>1
      <4> HIDE DEF b, g, l, n2
      <4> QED
        BY ONLY <4>1, <4>2, Skipped
    <3> QED
      BY ONLY <2>8, <3>2, <3>3
  <2>10. CASE q \notin reads[r]
    <3>1. Owed[r][q] = -1 /\ Owed'[r][q] = -1
      BY <1>1, <2>10, Entries
    <3> QED
      BY <2>3, <2>8, <3>1
  <2> QED
    BY <2>9, <2>10
<1>3. k \in [Streams -> 0..(2 * MaxLen)]
  BY <1>2
<1> HIDE DEF k
<1>4. Owed'[r] = [q \in Streams |-> Owed[r][q] - k[q]]
  BY <1>2, Rows
<1>5. Given'[r] = Given[r]
  BY <1>2, Rows
<1>6. Owed' = [Owed EXCEPT ![r] = [q \in Streams |-> Owed[r][q] - k[q]]] /\ Given' = Given
  BY <1>1, <1>4, <1>5, RowUpdate, Rows
<1>7. env.fetch \in Nat /\ env.fetch > 0 /\ env'.fetch = env.fetch - 1
  BY DEF FetchFails, Spend, Typed, Domains, Bounds
<1> QED
  BY <1>2, <1>3, <1>6, <1>7 DEF Abstract!Skip

LEMMA CrashMaps ==
  ASSUME Typed, NEW r \in Readers, Crash(r) \/ FeatureMissing(r) PROVE Abstract!Restart(r)
<1>1. \A s \in Streams : Owed'[r][s] = -1 /\ Given'[r][s] = 0
  BY CrashNumbers, Entries
<1>2. Owed'[r] = Abstract!Apart /\ Given'[r] = Abstract!None
  BY <1>1, Rows DEF Abstract!Apart, Abstract!None, Abstract!Waiting
<1>3. Owed' = [Owed EXCEPT ![r] = Abstract!Apart] /\ Given' = [Given EXCEPT ![r] = Abstract!None]
  BY <1>2, CrashNumbers, RowUpdate
<1>4. env'.fetch = env.fetch
  BY DEF Crash, FeatureMissing, Spend, Typed, Domains, Bounds
<1> QED
  BY <1>3, <1>4 DEF Abstract!Restart

LEMMA StepMaps ==
  ASSUME Typed, Quiet, [Next]_vars PROVE [Abstract!Next]_(Abstract!vars)
<1>1. Stutter => UNCHANGED Abstract!vars
  BY DEF Stutter, Abstract!vars
<1>2. CASE \E s \in Streams : Publish(s)
  BY <1>2, PublishMaps DEF Abstract!Next
<1>3. CASE Elsewhere \/ UNCHANGED vars
  BY <1>1, <1>3, ElsewhereMaps
<1>4. ASSUME NEW r \in Readers, Loop(r) \/ Crash(r) \/ \E s \in Streams : FetchFails(r, s)
      PROVE  [Abstract!Next]_(Abstract!vars)
  <2>1. CASE (\E v \in Images : Start(r, v)) \/ PollTimesOut(r)
    BY <1>1, <2>1, LoopMaps
  <2>2. CASE Poll(r)
    BY <2>2, PollMaps DEF Abstract!Next
  <2>3. CASE Return(r)
    BY <1>1, <2>3, ReturnMaps DEF Abstract!Next
  <2>4. CASE \E s \in Streams : Decode(r, s)
    BY <1>1, <2>4, DecodeMaps
  <2>5. CASE \E s \in Streams : FetchFails(r, s)
    BY <2>5, FetchFailsMaps DEF Abstract!Next
  <2>6. CASE Crash(r) \/ FeatureMissing(r)
    BY <2>6, CrashMaps DEF Abstract!Next
  <2> QED
    BY <1>4, <2>1, <2>2, <2>3, <2>4, <2>5, <2>6 DEF Loop
<1> QED
  BY <1>2, <1>3, <1>4 DEF Next, Thread, Elsewhere

(* The bus keeps the feed's promise, whatever it is given to run on: from the *)
(* first frame it catches a reader is given every frame of a stream, in turn  *)
(* and once, unless it falls MaxLen behind or its schema look-up fails        *)
(* (publisher.py's XADD with a maxlen, consumer.py's poll).  That what it is  *)
(* owed it is given in the end is model-checked (ImplementsFeed).             *)
THEOREM FeedIsKept == Spec => Abstract!Init /\ [][Abstract!Next]_(Abstract!vars)
<1>1. Init => Typed /\ Quiet
  BY InitTyped, InitQuiet
<1>2. Typed /\ Quiet /\ [Next]_vars => Typed' /\ Quiet'
  BY NextTyped, NextQuiet
<1>3. Typed /\ Quiet /\ [Next]_vars => [Abstract!Next]_(Abstract!vars)
  BY StepMaps
<1> QED
  BY <1>1, <1>2, <1>3, InitMaps, PTL DEF Spec
=============================================================================
