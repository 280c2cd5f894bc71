--------------------------- MODULE StoragePredictor -------------------------
(***************************************************************************)
(* StoragePredictor (analytics/predictor.py) and the requests that reach   *)
(* it (api/routes/analytics.py): samples of the used capacity and records  *)
(* of block accesses come in, forecasts, temperatures, tiering advice and  *)
(* a health score are computed from them.                                  *)
(*                                                                         *)
(* Requests do not suspend between reading and using this state, so each   *)
(* is one step; those that only compute are operators.  Python's floats    *)
(* are exact quotients here, kept as numerator and denominator.            *)
(***************************************************************************)
EXTENDS Integers, Sequences, FiniteSets, FiniteSetsExt

CONSTANTS
  Vols, Offsets,         \* volumes, and the offsets of their blocks
  MaxTime, MaxCalls,     \* bounds on the clock and on requests recorded
  MAX_HISTORY_POINTS,
  TEMP_HOT_THRESHOLD, TEMP_WARM_THRESHOLD, TEMP_COLD_THRESHOLD,
  DAY,                   \* clock units in a day
  Capacity, UsedLevels,  \* bytes of flash, and how many may be in use
  MAX_ENDURANCE,         \* erases a flash block is good for
  VarianceUnit,          \* wear variance that costs one point of health
  Drives,                \* flash statistics the health score is checked on
  Absent                 \* Python's None

ASSUME PredictorAssumption ==
  /\ {MaxTime, MaxCalls, Capacity} \subseteq Nat
  /\ {MAX_HISTORY_POINTS, DAY, MAX_ENDURANCE, VarianceUnit} \subseteq Nat \ {0}
  /\ UsedLevels \subseteq 0 .. Capacity
  /\ {TEMP_HOT_THRESHOLD, TEMP_WARM_THRESHOLD, TEMP_COLD_THRESHOLD} \subseteq Nat
  /\ 0 < TEMP_HOT_THRESHOLD /\ TEMP_HOT_THRESHOLD < TEMP_WARM_THRESHOLD
  /\ TEMP_WARM_THRESHOLD < TEMP_COLD_THRESHOLD
  /\ Offsets # {} /\ Absent \notin Int
  /\ \A d \in Drives :
       /\ d \in [erases : Seq(Nat), bad : Nat, utilization : Nat, runs : Nat, reclaimed : Nat]
       /\ d.erases # <<>>

VARIABLES
  clock,      \* time.time()
  history,    \* _capacity_history
  access,     \* _access_records
  tiers,      \* _volume_tiers
  live,       \* the volumes the controller lists
  calls       \* requests recorded so far

predictorVars == <<clock, history, access, tiers, live, calls>>

Tiers == {"nvme", "ssd", "hdd", "archive"}
Sample == [at : 0 .. MaxTime, bytes : UsedLevels]
AccessRecord == [last : 0 .. MaxTime, count : 1 .. MaxCalls]

PredictorTypeOK ==
  /\ clock \in 0 .. MaxTime /\ calls \in 0 .. MaxCalls
  /\ history \in Seq(Sample) /\ Len(history) <= MAX_HISTORY_POINTS
  /\ access \in [Vols \X Offsets -> AccessRecord \cup {Absent}]
  /\ tiers \in [Vols -> Tiers \cup {Absent}]
  /\ live \subseteq Vols

PredictorInit ==
  /\ clock = 0 /\ calls = 0
  /\ history = <<>>
  /\ access = [r \in Vols \X Offsets |-> Absent]
  /\ tiers = [v \in Vols |-> Absent]
  /\ live = Vols

-----------------------------------------------------------------------------
(* get_capacity_forecast.  The line through the samples of h is            *)
(* y = m * x + b with m = num / den and b = (sumY - m * sumX) / n; it is   *)
(* flat when all samples have the same time.                               *)
Sums(s) ==
  LET sum[i \in 0 .. Len(s)] == IF i = 0 THEN 0 ELSE sum[i - 1] + s[i]
  IN  sum
SumOf(s) == Sums(s)[Len(s)]

(* Mutant: the product of the sums is subtracted from the plain sum.       *)
MutFit(h) ==
  LET sumX == SumOf([i \in DOMAIN h |-> h[i].at])
      sumY == SumOf([i \in DOMAIN h |-> h[i].bytes])
      denominator == Len(h) * SumOf([i \in DOMAIN h |-> h[i].at * h[i].at]) - sumX * sumX
  IN  [n |-> Len(h), sumX |-> sumX, sumY |-> sumY,
       num |-> IF denominator = 0 THEN 0
               ELSE SumOf([i \in DOMAIN h |-> h[i].at * h[i].bytes]) - sumX * sumY,
       den |-> IF denominator = 0 THEN 1 ELSE denominator]

Fit(h) ==
  LET sumX == SumOf([i \in DOMAIN h |-> h[i].at])
      sumY == SumOf([i \in DOMAIN h |-> h[i].bytes])
      denominator == Len(h) * SumOf([i \in DOMAIN h |-> h[i].at * h[i].at]) - sumX * sumX
  IN  [n |-> Len(h), sumX |-> sumX, sumY |-> sumY,
       num |-> IF denominator = 0 THEN 0
               ELSE Len(h) * SumOf([i \in DOMAIN h |-> h[i].at * h[i].bytes]) - sumX * sumY,
       den |-> IF denominator = 0 THEN 1 ELSE denominator]

(* intercept + slope * t on the line f, times f.n * f.den.                 *)
LineTimes(f, t) == f.sumY * f.den - f.num * f.sumX + f.n * f.num * t

(* int(a / b) of Python for b > 0: the fraction is cut off.                *)
Truncate(a, b) == IF a >= 0 THEN a \div b ELSE -((-a) \div b)

Predict(f, used, days) ==
  IF f.n < 2 THEN used
  ELSE LET predicted == Truncate(LineTimes(f, clock + days * DAY), f.n * f.den)
       IN  Max({used, Min({predicted, Capacity})})

(* Absent when usage does not grow; growth of less than a byte a day counts  *)
(* as one.                                                                 *)
DaysUntil(f, used, percent) ==
  LET target == (Capacity * percent) \div 100
  IN  IF f.n < 2 \/ f.num <= 0 THEN Absent
      ELSE IF used >= target THEN 0
      ELSE ((target - used) * f.den) \div Max({f.num * DAY, f.den})

(* A residual and a deviation from the mean, times f.n * f.den and f.n.    *)
ResidualTimes(f, x) == x.bytes * f.n * f.den - LineTimes(f, x.at)
DeviationTimes(f, x) == x.bytes * f.n - f.sumY

(* R-squared, 1 - ss_res / ss_tot, as num / den; zero for constant usage.  *)
Confidence(h, f) ==
  LET res == SumOf([i \in DOMAIN h |-> ResidualTimes(f, h[i]) * ResidualTimes(f, h[i])])
      tot == f.den * f.den
               * SumOf([i \in DOMAIN h |-> DeviationTimes(f, h[i]) * DeviationTimes(f, h[i])])
  IN  IF f.n < 2 \/ tot = 0 THEN [num |-> 0, den |-> 1]
      ELSE [num |-> Max({0, tot - res}), den |-> tot]

-----------------------------------------------------------------------------
(* get_data_temperature.                                                   *)
Temperatures == <<"frozen", "cold", "warm", "hot">>
Warmth(temperature) == CHOOSE i \in DOMAIN Temperatures : Temperatures[i] = temperature

Classify(last) ==
  LET age == clock - last
  IN  IF age <= TEMP_HOT_THRESHOLD THEN "hot"
      ELSE IF age <= TEMP_WARM_THRESHOLD THEN "warm"
      ELSE IF age <= TEMP_COLD_THRESHOLD THEN "cold"
      ELSE "frozen"

Recorded(v) == {o \in Offsets : access[<<v, o>>] # Absent}

BlockTemperature(v, o) ==
  IF access[<<v, o>>] = Absent THEN "frozen" ELSE Classify(access[<<v, o>>].last)

(* Mutant: the block that was left alone longest decides.                  *)
MutVolumeTemperature(v) ==
  IF Recorded(v) = {} THEN "frozen"
  ELSE Classify(Min({access[<<v, o>>].last : o \in Recorded(v)}))

VolumeTemperature(v) ==
  IF Recorded(v) = {} THEN "frozen"
  ELSE Classify(Max({access[<<v, o>>].last : o \in Recorded(v)}))

(* hot_blocks of get_volume_analytics.  The code reads the clock again     *)
(* after it has the temperature; both readings fall into one instant here. *)
HotBlocks(v) == {o \in Recorded(v) : clock - access[<<v, o>>].last <= TEMP_HOT_THRESHOLD}

-----------------------------------------------------------------------------
(* get_tiering_recommendations.                                            *)
CurrentTier(v) == IF tiers[v] = Absent THEN "nvme" ELSE tiers[v]

TierFor(temperature) ==
  CASE temperature = "hot" -> "nvme"
    [] temperature = "warm" -> "ssd"
    [] temperature = "cold" -> "hdd"
    [] temperature = "frozen" -> "archive"

(* tier_cost_factors, in twentieths.                                       *)
Cost(t) == CASE t = "nvme" -> 20 [] t = "ssd" -> 10 [] t = "hdd" -> 4 [] t = "archive" -> 1

Savings(from, to, used) ==
  IF Cost(to) < Cost(from) THEN (used * (Cost(from) - Cost(to))) \div Cost(from) ELSE 0

(* The order Python's < has on the names of the tiers.                     *)
NameOrder == <<"archive", "hdd", "nvme", "ssd">>
NameBefore(a, b) ==
  \E i, j \in DOMAIN NameOrder : i < j /\ NameOrder[i] = a /\ NameOrder[j] = b

Recommendations ==
  LET To(v) == TierFor(VolumeTemperature(v))
  IN  {[vol |-> v, from |-> CurrentTier(v), to |-> To(v),
        reason |-> IF NameBefore(To(v), CurrentTier(v)) THEN "faster" ELSE "cheaper"] :
         v \in {w \in live : To(w) # CurrentTier(w)}}

-----------------------------------------------------------------------------
(* get_drive_health for the statistics d of a flash drive: erases of each  *)
(* block, bad blocks, utilization in percent, GC runs and blocks reclaimed *)
(* by them.  Points of the score are counted in units of 1 / Points(d).    *)
Blocks(d) == Len(d.erases)
Erased(d) == SumOf(d.erases)
Points(d) == Blocks(d) * Blocks(d) * Blocks(d) * MAX_ENDURANCE * VarianceUnit

WearPenalty(d) == 100 * Erased(d) * Blocks(d) * Blocks(d) * VarianceUnit
BadBlockPenalty(d) == 20 * d.bad * Blocks(d) * Blocks(d) * MAX_ENDURANCE * VarianceUnit
Variance(d) ==
  LET Deviation(e) == e * Blocks(d) - Erased(d)
  IN  SumOf([i \in DOMAIN d.erases |-> Deviation(d.erases[i]) * Deviation(d.erases[i])])
VariancePenalty(d) == Min({10 * Points(d), Variance(d) * MAX_ENDURANCE})

(* Mutant: bad blocks are credited.                                        *)
MutScore(d) ==
  Max({0, 100 * Points(d) - WearPenalty(d) + BadBlockPenalty(d) - VariancePenalty(d)})

Score(d) ==
  Max({0, 100 * Points(d) - WearPenalty(d) - BadBlockPenalty(d) - VariancePenalty(d)})

Status(d) ==
  IF Score(d) >= 80 * Points(d) THEN "healthy"
  ELSE IF Score(d) >= 50 * Points(d) THEN "warning"
  ELSE "critical"

Advice(d) ==
  (IF Status(d) = "warning" THEN {"plan replacement"} ELSE {})
    \cup (IF Status(d) = "warning" /\ Variance(d) * MAX_ENDURANCE > Points(d)
          THEN {"review leveling"} ELSE {})
    \cup (IF Status(d) = "critical" THEN {"replace now", "migrate"} ELSE {})
    \cup (IF d.bad > 0 THEN {"bad blocks"} ELSE {})
    \cup (IF d.utilization > 90 THEN {"expand"} ELSE {})

(* Days to the end of life, from the blocks a GC run reclaims.             *)
EndOfLife(d) ==
  LET worst == Max({d.erases[i] : i \in DOMAIN d.erases})
  IN  IF Erased(d) = 0 \/ worst >= MAX_ENDURANCE \/ d.runs = 0 \/ d.reclaimed = 0 THEN Absent
      ELSE ((MAX_ENDURANCE - worst) * d.runs) \div d.reclaimed

-----------------------------------------------------------------------------
RecordCapacitySample(bytes) ==
  /\ calls < MaxCalls /\ calls' = calls + 1
  /\ history' = LET h == Append(history, [at |-> clock, bytes |-> bytes])
                IN  SubSeq(h, Max({1, Len(h) - MAX_HISTORY_POINTS + 1}), Len(h))
  /\ UNCHANGED <<clock, access, tiers, live>>

(* The route asks for no volume: one that is gone is recorded like another.*)
RecordAccess(v, o) ==
  /\ calls < MaxCalls /\ calls' = calls + 1
  /\ access' = [access EXCEPT ![<<v, o>>] =
                  [last |-> clock, count |-> IF @ = Absent THEN 1 ELSE @.count + 1]]
  /\ UNCHANGED <<clock, history, tiers, live>>

SetVolumeTier(v, t) ==
  /\ v \in live
  /\ calls < MaxCalls /\ calls' = calls + 1
  /\ tiers' = [tiers EXCEPT ![v] = t]
  /\ UNCHANGED <<clock, history, access, live>>

(* A volume is deleted; the predictor is not told.                         *)
VolumeGone(v) ==
  /\ v \in live /\ live' = live \ {v}
  /\ UNCHANGED <<clock, history, access, tiers, calls>>

Tick ==
  /\ clock < MaxTime /\ clock' = clock + 1
  /\ UNCHANGED <<history, access, tiers, live, calls>>

PredictorNext ==
  \/ \E bytes \in UsedLevels : RecordCapacitySample(bytes)
  \/ \E v \in Vols, o \in Offsets : RecordAccess(v, o)
  \/ \E v \in Vols, t \in Tiers : SetVolumeTier(v, t)
  \/ \E v \in Vols : VolumeGone(v)
  \/ Tick

PredictorSpec == PredictorInit /\ [][PredictorNext]_predictorVars

-----------------------------------------------------------------------------
(* The forecast is the least-squares line of a history that the trimming   *)
(* keeps bounded: residuals sum to zero, also weighted by time, and the    *)
(* line is flat for samples of one instant.  It is certain exactly when    *)
(* usage changed and every sample lies on one line.  Whatever is in use    *)
(* now, predictions lie between it and the capacity, rise or fall with the *)
(* days ahead as the slope says, and a higher threshold is never reached   *)
(* earlier.                                                                *)
ForecastSound ==
  LET f == Fit(history)
      c == Confidence(history, f)
      Collinear == \A i, j, k \in DOMAIN history :
        LET a == history[i] b == history[j] e == history[k]
        IN  (b.at - a.at) * (e.bytes - a.bytes) = (e.at - a.at) * (b.bytes - a.bytes)
      Steady == \A i, j \in DOMAIN history : history[i].bytes = history[j].bytes
      Instant == \A i, j \in DOMAIN history : history[i].at = history[j].at
  IN  /\ PredictorTypeOK
      /\ SumOf([i \in DOMAIN history |-> ResidualTimes(f, history[i])]) = 0
      /\ SumOf([i \in DOMAIN history |-> history[i].at * ResidualTimes(f, history[i])]) = 0
      /\ Instant => f.num = 0
      /\ c.num = c.den <=> Collinear /\ ~Steady /\ ~Instant
      /\ \A u \in UsedLevels :
           LET p7 == Predict(f, u, 7)
               p30 == Predict(f, u, 30)
               p90 == Predict(f, u, 90)
               d80 == DaysUntil(f, u, 80)
               d90 == DaysUntil(f, u, 90)
               d99 == DaysUntil(f, u, 99)
           IN  /\ {p7, p30, p90} \subseteq u .. Capacity
               /\ d80 # Absent => p7 <= p30 /\ p30 <= p90 /\ d80 <= d90 /\ d90 <= d99
               /\ d80 = Absent => p7 >= p30 /\ p30 >= p90 /\ d90 = Absent /\ d99 = Absent

(* What is derived from the access records agrees: a volume is as warm as  *)
(* the warmest of its blocks, and hot just when analytics counts hot       *)
(* blocks in it; it is advised just when its tier is not the one for its   *)
(* temperature; savings are between nothing and what the volume uses.      *)
TieringSound ==
  /\ \A v \in Vols :
       /\ \A o \in Offsets : Warmth(BlockTemperature(v, o)) <= Warmth(VolumeTemperature(v))
       /\ \E o \in Offsets : BlockTemperature(v, o) = VolumeTemperature(v)
       /\ VolumeTemperature(v) = "hot" <=> HotBlocks(v) # {}
  /\ \A v \in live : TierFor(VolumeTemperature(v)) # CurrentTier(v) <=>
                       \E r \in Recommendations : r.vol = v /\ r.from = CurrentTier(v)
  /\ \A r \in Recommendations, u \in UsedLevels :
       0 <= Savings(r.from, r.to, u) /\ Savings(r.from, r.to, u) <= u

(* A bad block, or a round of erases of all blocks, never raises the       *)
(* health score; the score stays in range; a drive that is not healthy     *)
(* comes with advice, and one with a known end of life is not worn out.    *)
HealthFallsWithWear ==
  calls = 0 /\ clock = 0 =>
    \A d \in Drives :
      LET worn == [d EXCEPT !.erases = [i \in DOMAIN d.erases |-> d.erases[i] + 1]]
          bad == [d EXCEPT !.bad = @ + 1]
      IN  /\ Score(worn) <= Score(d) /\ Score(bad) <= Score(d)
          /\ Score(d) <= 100 * Points(d)
          /\ Status(d) # "healthy" => Advice(d) # {}
          /\ EndOfLife(d) # Absent => EndOfLife(d) >= 0 /\ EndOfLife(worn) \in
                                       {Absent} \cup 0 .. EndOfLife(d)
=============================================================================
