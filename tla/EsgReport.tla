----------------------------- MODULE EsgReport -----------------------------
(***************************************************************************)
(* What the figures about energy are computed from the ledger of events by *)
(* src/server/esg.py, a report in three tiers, and by compute_ab_summary   *)
(* of src/server/server.py, the comparison of the two scheduling modes.    *)
(*                                                                         *)
(* Events are a function of their ids in the ledger; a selection of them   *)
(* is its restriction.  An event is [ts, type, node, old, new, stamp,      *)
(* job]: type is "threshold_changed", with the thresholds old and new, or  *)
(* "job_completed", with a job; stamp is threshold_at_time.  A job is      *)
(* [ok, source, mode, energy, tokens, estimated, dt, hours, hot, cool,     *)
(* clock, util, ms, peak].  A missing value is None.                       *)
(*                                                                         *)
(* Numbers are integers.  Energies are in J; dt is in degrees C; a fan's   *)
(* speed is in tenths of its maximum, so that the saving of a fan comes in *)
(* thousandths of its power.  A quotient is a pair, a factor a percentage. *)
(***************************************************************************)
EXTENDS Integers, Sequences, FiniteSetsExt

CONSTANTS
    None,     \* a value that is missing
    Config    \* esg_config.json, flattened, over DEFAULTS

ASSUME ConfigAssumption ==
    /\ Config.show <= Config.sure
    /\ {Config.threshold, Config.fan, Config.fanFactor, Config.cooling,
        Config.weather, Config.reference, Config.base} \subseteq Nat
    /\ Config.clockRatio \in 1 .. 100

Modes == {"thermal_aware", "round_robin"}

-----------------------------------------------------------------------------
(* Faulty: take the events by id in place of time. *)
BeforeById(events, i, j) == i < j

(* ORDER BY ts ASC, id ASC; the sort of compute_report is stable too. *)
Before(events, i, j) ==
    \/ events[i].ts < events[j].ts
    \/ events[i].ts = events[j].ts /\ i < j

Earliest(events, ids) == CHOOSE i \in ids : \A j \in ids \ {i} : Before(events, i, j)
Latest(events, ids) == CHOOSE i \in ids : \A j \in ids \ {i} : Before(events, j, i)

_filter_events(events, from, to) ==
    Restrict(events, {i \in DOMAIN events : /\ from = None \/ events[i].ts >= from
                                            /\ to = None \/ events[i].ts <= to})

Changes(events) == {i \in DOMAIN events : events[i].type = "threshold_changed"}

(* The threshold to begin with, when the first change does not tell it. *)
FirstThreshold(events) ==
    LET stamped == {i \in DOMAIN events : events[i].stamp # None}
    IN  IF stamped = {} THEN Config.threshold ELSE events[Earliest(events, stamped)].stamp

(* A span ends with the next change, or with the last event. *)
Until(events, i) ==
    LET next == {j \in Changes(events) : Before(events, i, j)}
    IN  IF next = {} THEN events[Latest(events, DOMAIN events)].ts
                     ELSE events[Earliest(events, next)].ts

(* The spans of one threshold, each named by the change that begins it; 0  *)
(* is the one before the first change, if any event is that early.         *)
Start(events) == events[Earliest(events, DOMAIN events)].ts
FirstChange(events) == events[Earliest(events, Changes(events))]
SpanNames(events) ==
    Changes(events) \cup
        {c \in {0} : /\ DOMAIN events # {}
                     /\ Changes(events) = {} \/ FirstChange(events).ts > Start(events)}
_split_threshold_segments(events) ==
    [c \in SpanNames(events) |->
        IF c # 0
          THEN [threshold |-> events[c].new, from |-> events[c].ts, to |-> Until(events, c)]
        ELSE IF Changes(events) = {}
          THEN [threshold |-> FirstThreshold(events), from |-> Start(events),
                to |-> events[Latest(events, DOMAIN events)].ts]
        ELSE [threshold |-> IF FirstChange(events).old = None
                              THEN FirstThreshold(events) ELSE FirstChange(events).old,
              from |-> Start(events), to |-> FirstChange(events).ts]]

(* The events of a span: both of its ends belong to it. *)
Chunk(events, span) ==
    Restrict(events, {i \in DOMAIN events : events[i].ts >= span.from /\ events[i].ts <= span.to})

-----------------------------------------------------------------------------
_confidence(samples) ==
    CASE samples < Config.show -> "too few"
      [] samples \in Config.show .. Config.sure - 1 -> "preliminary"
      [] samples >= Config.sure -> "ok"

(* Jobs are a function of the ids of their events. *)
Measured(jobs) ==
    {i \in DOMAIN jobs : /\ ~jobs[i].estimated /\ jobs[i].energy # None
                         /\ jobs[i].tokens # None /\ jobs[i].tokens > 0}
EnergyOf(jobs) == SumFunction([i \in Measured(jobs) |-> jobs[i].energy])

(* Faulty: divide by jobs in place of tokens. *)
j_per_job(jobs) ==
    IF Measured(jobs) = {} THEN None ELSE <<EnergyOf(jobs), Cardinality(Measured(jobs))>>

_j_per_token(jobs) ==
    IF Measured(jobs) = {}
      THEN None
      ELSE <<EnergyOf(jobs), SumFunction([i \in Measured(jobs) |-> jobs[i].tokens])>>

(* By how much b is below a, as a quotient of a; both are quotients. *)
Saving(a, b) == <<a[1] * b[2] - b[1] * a[2], a[1] * b[2]>>

_is_throttled(j) ==
    /\ j.clock # None
    /\ j.util # None
    /\ j.util > 70
    /\ j.clock * 100 < Config.base * Config.clockRatio

(* A hundred times the interpolated percentile of the latencies. *)
_percentile(jobs, p) ==
    LET timed == {i \in DOMAIN jobs : jobs[i].ms # None}
        Place(i) == 1 + Cardinality({j \in timed : \/ jobs[j].ms < jobs[i].ms
                                                   \/ jobs[j].ms = jobs[i].ms /\ j < i})
        nth(k) == jobs[CHOOSE i \in timed : Place(i) = k].ms
        at  == (Cardinality(timed) - 1) * p
        low == 1 + (at \div 100)
    IN  IF timed = {} THEN None
        ELSE IF (at % 100) = 0 THEN 100 * nth(low)
        ELSE nth(low) * (100 - (at % 100)) + nth(low + 1) * (at % 100)

OfMode(jobs, mode) == Restrict(jobs, {i \in DOMAIN jobs : jobs[i].mode = mode})

(* The first tier: jobs whose energy a sensor measured, and only those. *)
Tier1(sensor) ==
    LET baseline == _j_per_token(OfMode(sensor, "round_robin"))
        aware    == _j_per_token(OfMode(sensor, "thermal_aware"))
        samples  == Cardinality(Measured(sensor))
        slow(mode) == {i \in DOMAIN OfMode(sensor, mode) : _is_throttled(sensor[i])}
        throttled(mode) ==
            SumFunction([i \in slow(mode) |-> IF sensor[i].ms = None THEN 0 ELSE sensor[i].ms])
    IN  [j_per_token |-> _j_per_token(sensor),
         baseline    |-> baseline,
         improvement |-> IF samples >= Config.show /\ baseline # None /\ aware # None
                              /\ baseline[1] > 0
                           THEN Saving(baseline, aware) ELSE None,
         throttle_avoided |-> IF \E i \in DOMAIN sensor : sensor[i].clock # None
                                THEN throttled("round_robin") - throttled("thermal_aware")
                                ELSE None,
         median      |-> _percentile(sensor, 50),
         p95         |-> _percentile(sensor, 95),
         median_base |-> _percentile(OfMode(sensor, "round_robin"), 50),
         samples     |-> samples,
         confidence  |-> _confidence(samples)]

(* Wh times a thousand: of leaks avoided, and of fans that ran slower. *)
_tier2_leakage_kwh(jobs) ==
    SumFunction([i \in {j \in DOMAIN jobs : jobs[j].dt # None /\ jobs[j].hours # None} |->
                    1000 * jobs[i].dt * Config.leakage * jobs[i].hours])
FanRows(jobs) ==
    {i \in DOMAIN jobs : jobs[i].hot # None /\ jobs[i].cool # None /\ jobs[i].hours # None}
_fan_kwh_saved(jobs) ==
    LET clip(rpm) == Min({Max({rpm, 0}), 10})
        power(rpm) == Config.fan * clip(rpm) * clip(rpm) * clip(rpm)
    IN  SumFunction([i \in FanRows(jobs) |->
                        Max({0, power(jobs[i].hot) - power(jobs[i].cool)}) * jobs[i].hours])

(* In ten thousandths: the base, corrected for the weather. *)
cooling_factor ==
    IF Config.outdoor = None
      THEN 100 * Config.cooling
      ELSE Config.cooling * (100 + Config.weather * Max({0, Config.outdoor - Config.reference}))

(* The second tier: derived from the jobs that a sensor or a model covers. *)
Tier2(jobs) ==
    LET leakage == IF Config.leakage = None THEN 0 ELSE _tier2_leakage_kwh(jobs)
        fan     == IF FanRows(jobs) # {} /\ Config.fan > 0
                     THEN _fan_kwh_saved(jobs) ELSE leakage * Config.fanFactor
    IN  [leakage |-> leakage, fan |-> fan, cooling |-> (leakage + fan) * cooling_factor]

(* The third tier: both figures, apart from each other, per node and time  *)
(* of all completed jobs.  Scale, prices and CO2 are constant factors.     *)
Tier3(times, names, measured, derived) ==
    LET nodes == Max({1, Cardinality(Range(names))})
        span  == IF Cardinality(DOMAIN times) >= 2
                   THEN Max({1, Max(Range(times)) - Min(Range(times))}) ELSE 1
    IN  [nodes |-> nodes, span |-> span,
         measured |-> <<measured, nodes * span>>,
         derived  |-> <<derived, nodes * span>>]

(* Faulty: count what has no source as measured. *)
sensor_jobs_and_unknown(jobs) == Restrict(jobs, {i \in DOMAIN jobs : jobs[i].source # "model"})
sensor_jobs(jobs) == Restrict(jobs, {i \in DOMAIN jobs : jobs[i].source = "sensor"})

covered_jobs(jobs) == Restrict(jobs, {i \in DOMAIN jobs : jobs[i].source \in {"sensor", "model"}})

Completed(events) ==
    {i \in DOMAIN events : events[i].type = "job_completed" /\ events[i].job.ok}
_compute_tiers(events) ==
    LET jobs  == [i \in Completed(events) |-> events[i].job]
        tier2 == Tier2(covered_jobs(jobs))
    IN  [tier1 |-> Tier1(sensor_jobs(jobs)),
         tier2 |-> tier2,
         tier3 |-> Tier3([i \in Completed(events) |-> events[i].ts],
                         [i \in Completed(events) |-> events[i].node],
                         EnergyOf(sensor_jobs(jobs)),
                         10000 * (tier2.leakage + tier2.fan) + tier2.cooling)]

(* The report: the tiers of the latest span on top, all spans below. *)
LatestSpan(events) == IF Changes(events) = {} THEN 0 ELSE Latest(events, Changes(events))
compute_report(events, from, to) ==
    LET filtered == _filter_events(events, from, to)
        spans    == _split_threshold_segments(filtered)
        reports  == [c \in DOMAIN spans |-> _compute_tiers(Chunk(filtered, spans[c]))]
    IN  [top |-> IF DOMAIN spans = {} THEN _compute_tiers(<<>>) ELSE reports[LatestSpan(filtered)],
         segments |-> IF Cardinality(DOMAIN spans) >= 2 THEN reports ELSE <<>>]

-----------------------------------------------------------------------------
(* The A/B summary: every completed job with a mode, whatever its status   *)
(* and the source of its energy, over the whole ledger.                    *)
JobsOf(events, mode) ==
    {i \in DOMAIN events : events[i].type = "job_completed" /\ events[i].job.mode = mode}
AbStats(events, mode) ==
    LET of     == JobsOf(events, mode)
        energy == SumFunction([i \in of |-> IF events[i].job.energy = None
                                              THEN 0 ELSE events[i].job.energy])
        tokens == SumFunction([i \in of |-> IF events[i].job.tokens = None
                                              THEN 0 ELSE Max({0, events[i].job.tokens})])
        peaks  == {events[i].job.peak : i \in of} \ {None}
    IN  [total_jobs |-> Cardinality(of),
         max_temp   |-> IF peaks = {} THEN None ELSE Max(peaks),
         per_token  |-> IF tokens > 0 /\ energy > 0 THEN <<energy, tokens>> ELSE None]
compute_ab_summary(events) ==
    LET ta == AbStats(events, "thermal_aware")
        rr == AbStats(events, "round_robin")
    IN  [stats |-> [mode \in Modes |-> AbStats(events, mode)],
         savings |-> IF ta.per_token # None /\ rr.per_token # None
                       THEN Saving(rr.per_token, ta.per_token) ELSE None,
         cooler |-> IF ta.max_temp # None /\ rr.max_temp # None
                      THEN rr.max_temp - ta.max_temp ELSE None]
=============================================================================
