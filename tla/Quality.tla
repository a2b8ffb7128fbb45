------------------------------ MODULE Quality ------------------------------
(***************************************************************************)
(* The quality chart of a hostname (quality.go): the probe results of the  *)
(* last day are sorted into segments of equal length, and a curve is drawn *)
(* through the segments.                                                   *)
(*                                                                         *)
(* A result carries the time its probe began and is stored when its round  *)
(* ends, so that rounds that overlap store their results out of order and  *)
(* more than one in a second.                                              *)
(***************************************************************************)
EXTENDS Integers, Sequences, FiniteSetsExt

CONSTANTS
  ChartWidth,       \* seconds of a segment
  ChartBuckets,     \* segments of the chart
  ProbeInterval,    \* configured interval between rounds
  RoundLength,      \* the longest a result waits to be stored
  Latencies,        \* response times that occur, in milliseconds
  MaxSamples,       \* bound: results stored
  MaxChartSeconds   \* bound: seconds that pass

ASSUME QualityAssumption ==
  /\ ChartWidth \in Nat \ {0} /\ ChartBuckets \in Nat \ {0}
  /\ ProbeInterval \in Nat /\ RoundLength \in Nat /\ Latencies \subseteq Nat

VARIABLES chartNow, samples  \* samples: the table, the id of a row is its index
chartVars == <<chartNow, samples>>

SampleKinds == [class : {"ok"}, ms : Latencies] \cup [class : {"failed", "excluded"}, ms : {0}]

QualityInit == chartNow = ChartWidth * ChartBuckets /\ samples = <<>>

ChartSecond ==
  /\ chartNow < MaxChartSeconds
  /\ chartNow' = chartNow + 1
  /\ UNCHANGED samples

\* AddProbeResults of a round that began its probe up to RoundLength ago.
SampleStored(outcome, age) ==
  /\ Len(samples) < MaxSamples
  /\ samples' = Append(samples, [at |-> chartNow - age, class |-> outcome.class, ms |-> outcome.ms])
  /\ UNCHANGED chartNow

QualityNext ==
  \/ ChartSecond
  \/ \E o \in SampleKinds, age \in 0..RoundLength : SampleStored(o, age)

QualitySpec == QualityInit /\ [][QualityNext]_chartVars

-----------------------------------------------------------------------------
(* ProbeHistory and the loop of buildQuality. *)

Since == chartNow - ChartWidth * ChartBuckets
MaxGap == ProbeInterval + ProbeInterval \div 2

\* The results of (Since, chartNow], and the order of their query.
InChart == {i \in DOMAIN samples : samples[i].at > Since /\ samples[i].at <= chartNow}
SampleEarlier(i, j) == samples[i].at < samples[j].at \/ (samples[i].at = samples[j].at /\ i < j)

\* The n-th of them has n - 1 earlier ones.
ProbeHistory ==
  [n \in 1..Cardinality(InChart) |->
     samples[CHOOSE i \in InChart : Cardinality({j \in InChart : SampleEarlier(j, i)}) = n - 1]]

\* A result exactly at the end belongs to the last segment.
BucketOf(r) == Min({(r.at - Since) \div ChartWidth, ChartBuckets - 1})

\* Mutation of Paired: results that do not follow each other are paired.
PairedAcross(before, r) == r.class = "ok" /\ before.class = "ok" /\ r.at - before.at <= MaxGap

\* Two results in a row that count for the variation.
Paired(before, r) ==
  r.class = "ok" /\ before.class = "ok" /\ r.at - before.at > 0 /\ r.at - before.at <= MaxGap

\* An unmeasured gap to the result before breaks a segment's curve, unless it
\* lies before the segment's first response.
GapBreaks(before, r, count) == before.class = "ok" /\ ~Paired(before, r) /\ count > 1

NoBucket == [count |-> 0, failures |-> 0, excluded |-> 0, pairs |-> 0, variation |-> 0,
             first |-> 0, last |-> 0, broken |-> FALSE]
NoSample == [at |-> 0, class |-> "none", ms |-> 0]

Distance(m, n) == IF m > n THEN m - n ELSE n - m

\* One result added to its segment.
Added(b, before, r) ==
  CASE r.class = "ok" ->
         [b EXCEPT !.count = @ + 1, !.last = r.at,
                   !.first = IF b.count = 0 THEN r.at ELSE @,
                   !.pairs = IF Paired(before, r) THEN @ + 1 ELSE @,
                   !.variation = IF Paired(before, r) THEN @ + Distance(r.ms, before.ms) ELSE @,
                   !.broken = @ \/ GapBreaks(before, r, b.count + 1)]
    [] r.class = "failed" -> [b EXCEPT !.failures = @ + 1, !.broken = TRUE]
    [] r.class = "excluded" -> [b EXCEPT !.excluded = @ + 1, !.broken = TRUE]

\* One turn of the loop: the segments, and the last result as the loop remembers
\* it, which forgets one that is no response.
Accumulate(acc, r) ==
  [buckets |-> [acc.buckets EXCEPT ![BucketOf(r)] = Added(@, acc.previous, r)],
   previous |-> IF r.class = "ok" THEN [at |-> r.at, class |-> r.class, ms |-> r.ms] ELSE NoSample]

ChartSegments == 0..(ChartBuckets - 1)

BuildQuality ==
  LET rows == ProbeHistory
      turn[n \in 0..Len(rows)] ==
        IF n = 0 THEN [buckets |-> [i \in ChartSegments |-> NoBucket], previous |-> NoSample]
        ELSE Accumulate(turn[n - 1], rows[n])
  IN turn[Len(rows)].buckets

-----------------------------------------------------------------------------
(* qualityGeometry: which segments the curves connect. *)

Empty(b) == b.count + b.failures + b.excluded = 0

\* Mutation of Connects: a broken segment before is not looked at.
ConnectsBroken(before, b) == before.count > 0 /\ ~b.broken /\ b.first - before.last <= MaxGap

\* The segment before was drawn and the two join without a gap.
Connects(before, b) ==
  before.count > 0 /\ ~before.broken /\ ~b.broken /\ b.first - before.last <= MaxGap

\* Drawn on from the segment before, which an empty one is not.
LatencyJoined ==
  {i \in 1..(ChartBuckets - 1) :
     BuildQuality[i].count > 0 /\ Connects(BuildQuality[i - 1], BuildQuality[i])}
VariationJoined ==
  {i \in LatencyJoined : BuildQuality[i].pairs > 0 /\ BuildQuality[i - 1].pairs > 0}

-----------------------------------------------------------------------------
QualityTypeOK ==
  /\ chartNow \in Nat /\ Len(samples) <= MaxSamples
  /\ \A i \in DOMAIN samples : samples[i].at \in 0..chartNow

\* A figure of all the segments.
InAll(figure) == MapThenSumSet(LAMBDA i : figure[i], ChartSegments)

\* Every result of the window is counted once, in the segment of its time, and
\* the variation is that of the responses that follow each other without a
\* failure and without a longer gap between them, as often as there are such.
QualityAddsUp ==
  LET rows == ProbeHistory
      chart == BuildQuality
      Of(class) == Cardinality({n \in DOMAIN rows : rows[n].class = class})
      Neighbours == {n \in 2..Len(rows) : rows[n].class = "ok" /\ rows[n - 1].class = "ok"
                       /\ rows[n].at # rows[n - 1].at /\ rows[n].at - rows[n - 1].at <= MaxGap}
      steps == [n \in Neighbours |-> Distance(rows[n].ms, rows[n - 1].ms)]
  IN /\ Len(rows) = Cardinality(InChart)
     /\ InAll([i \in ChartSegments |-> chart[i].count]) = Of("ok")
     /\ InAll([i \in ChartSegments |-> chart[i].failures]) = Of("failed")
     /\ InAll([i \in ChartSegments |-> chart[i].excluded]) = Of("excluded")
     /\ InAll([i \in ChartSegments |-> chart[i].pairs]) = Cardinality(Neighbours)
     /\ InAll([i \in ChartSegments |-> chart[i].variation]) = MapThenSumSet(LAMBDA n : steps[n], Neighbours)

\* No curve is drawn through a failure or a gap: between the responses of two
\* joined segments, and within them, every result is a response and none waits
\* longer for the next than one and a half intervals.
CurveHidesNothing ==
  LET rows == ProbeHistory
  IN \A j \in LatencyJoined :
       LET drawn == {n \in DOMAIN rows : BucketOf(rows[n]) \in {j - 1, j}}
       IN \A n \in drawn :
            /\ rows[n].class = "ok"
            /\ n - 1 \in drawn => rows[n].at - rows[n - 1].at <= MaxGap
=============================================================================
