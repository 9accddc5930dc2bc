-------------------------------- MODULE Report --------------------------------
(***************************************************************************)
(* From a load test to its report.  The generator collects one sample per  *)
(* request and sums a phase up (stats.go, summary.go); the collector of    *)
(* scripts/loadtest.sh stamps docker's CPU rows; loadreport lines the two  *)
(* up by time and puts them in one report (input.go, report.go).           *)
(*                                                                         *)
(* Within one instant the order of samples is the order they are merged    *)
(* in.  Times are in instants, latencies and loads in units of their own.  *)
(* The clock is the generator's, in the VM; the collector stamps its rows  *)
(* with the host's, which drifts.                                          *)
(***************************************************************************)
EXTENDS Percentile, SequencesExt, FiniteSetsExt

CONSTANTS
    Plans,        \* the phases a run may have, in order
    N,            \* containers docker prints a reading of, in order
    Loads,        \* what one may show
    Latencies,    \* of a request that gets an answer or a reset
    Timeout,      \* what a request that times out has for latency
    Lags,         \* how long after its slot an open-loop request goes out
    Warmup, Duration,
    Drift,        \* how far the host's clock may be from the generator's
    MaxEvents,    \* CPU readings, samples of a phase and of earlier windows, together
    MaxCounts,    \* how many values RanksAreNearest takes the ranks of
    MaxTime,
    None

Outcomes == {"ok", "other", "timeout", "reset", "unsent"}

ASSUME ReportAssumption ==
    /\ \A plan \in Plans : plan \in Seq({"limiter", "compute", "health"}) /\ plan # <<>>
    /\ N \in Nat \ {0} /\ Loads \subseteq Nat /\ Lags \subseteq Nat
    /\ Timeout \in Nat /\ \A l \in Latencies : l \in 0 .. Timeout
    /\ {Warmup, Duration, Drift, MaxTime} \subseteq Nat
    /\ {MaxEvents, MaxCounts} \subseteq 0 .. Largest

VARIABLES
    clock, stage,
    plan,      \* the phases still to run, the running one first
    open,      \* is it an open-loop run?
    began,     \* of the running phase
    samples,   \* of the running phase
    phases,    \* the summaries of those that are over: the -json file
    rows,      \* the collector's CSV, and of which reading a row is, which is not in the file
    readings,  \* history: docker's readings, when they were taken and what they add up to
    skipped,   \* history: has a row been dropped?
    report

vars == <<clock, stage, plan, open, began, samples, phases, rows, readings, skipped, report>>

-----------------------------------------------------------------------------
(* A phase in numbers.                                                     *)

Percentages == {500, 950, 990, 999}

\* Latencies are a function on the samples they are of; sorting is left to percentile.
Stats(values) ==
    LET n == Cardinality(DOMAIN values)
    IN  [n    |-> n,
         at   |-> [p \in Percentages |-> percentile(values, p)],
         min  |-> IF n = 0 THEN 0 ELSE Min(Range(values)),
         max  |-> IF n = 0 THEN 0 ELSE Max(Range(values)),
         mean |-> IF n = 0 THEN 0 ELSE SumFunction(values) \div n]

\* Faulty variant: the drain is counted, and a phase cut short in its warmup has a window
\* that ends before it starts.
MeasuredUnclamped == IF open THEN clock - began - Warmup ELSE Duration

\* The length of the window: what there was of it in the open loop, the whole of it in the
\* closed one.
Measured ==
    IF open THEN Max({0, Min({Duration, clock - began - Warmup})}) ELSE Duration

WindowStart == began + Warmup
WindowEnd   == WindowStart + Measured

InWindow(s)  == WindowStart <= s.at /\ s.at < WindowEnd

\* The outcomes with an answer, and those with a latency.
answered == {"ok", "other"}
timed    == Outcomes \ {"unsent"}

windowed(outcomes) ==
    {i \in DOMAIN samples : InWindow(samples[i]) /\ samples[i].outcome \in outcomes}

\* Never negative, and zero in the closed loop.
schedLag(s) == IF s.lag > 0 THEN s.lag ELSE 0

\* Faulty variant: the lag is taken off.
CorrectedBackwards(s) == s.latency - schedLag(s)

Corrected(s) == s.latency + schedLag(s)

\* Faulty variant: the failures are taken from all samples, the total from the window.
CountAnywhere(outcomes) == Cardinality({i \in DOMAIN samples : samples[i].outcome \in outcomes})
Count(outcomes) == Cardinality(windowed(outcomes))

latencies(outcomes) == [i \in windowed(outcomes) |-> samples[i].latency]

allLatencies == latencies(timed)

correctedLatencies == [i \in windowed(timed) |-> Corrected(samples[i])]

Censored(values) == DOMAIN values # {} /\ 100 * Max(Range(values)) >= 98 * Timeout

summarize ==
    LET total     == Count(Outcomes)
        transport == Count(Outcomes \ answered)
        accepted  == Count({"ok"})
    IN  [name |-> Head(plan), from |-> WindowStart, to |-> WindowEnd,
         total |-> total, accepted |-> accepted, transport |-> transport,
         nonOK |-> total - transport - accepted, failed |-> total - accepted,
         all |-> Stats(allLatencies), acc |-> Stats(latencies({"ok"})),
         corrected |-> Stats(correctedLatencies), censored |-> Censored(allLatencies)]

-----------------------------------------------------------------------------
(* The generator.                                                          *)

Init ==
    /\ clock = 0 /\ stage = "phase" /\ plan \in Plans /\ began = 0
    /\ open \in BOOLEAN /\ (open => Head(plan) # "limiter")
    /\ samples = <<>> /\ phases = <<>> /\ rows = <<>> /\ readings = <<>>
    /\ skipped = FALSE /\ report = None

\* (Bound: MaxEvents, before the collector is stopped.)
Room == Len(samples) + SumFunction([i \in DOMAIN phases |-> phases[i].total]) + Len(readings)
           < MaxEvents

Tick ==
    /\ stage \in {"phase", "between"} /\ clock < MaxTime
    /\ clock' = clock + 1
    /\ UNCHANGED <<stage, plan, open, began, samples, phases, rows, readings, skipped, report>>

\* A request, entered at the instant it is sent and with all that comes of it; the phase is
\* not over before.
Record ==
    /\ stage = "phase" /\ Room
    /\ \E outcome \in Outcomes, latency \in Latencies \cup {0, Timeout}, lag \in Lags \cup {0} :
         /\ outcome \in {"ok", "other", "reset"} => latency \in Latencies
         /\ outcome = "timeout" => latency = Timeout
         /\ outcome = "unsent" => latency = 0 /\ open
         /\ ~ open => lag = 0
         /\ samples' = Append(samples, [at |-> clock, outcome |-> outcome,
                                        latency |-> latency, lag |-> lag])
    /\ UNCHANGED <<clock, stage, plan, open, began, phases, rows, readings, skipped, report>>

\* The phase's time is over, or a signal or the monitor ends it.
EndPhase ==
    /\ stage = "phase"
    /\ phases' = Append(phases, summarize)
    /\ samples' = <<>>
    /\ \/ clock >= began + Warmup + Duration /\ Len(plan) > 1
          /\ plan' = Tail(plan) /\ stage' = "between"
       \/ stage' = "done" /\ plan' = <<>>
    /\ UNCHANGED <<clock, open, began, rows, readings, skipped, report>>

\* After the cooldown the compute phase, unless a signal came.
NextPhase ==
    /\ stage = "between"
    /\ \/ stage' = "phase" /\ began' = clock /\ UNCHANGED plan
       \/ stage' = "done" /\ plan' = <<>> /\ UNCHANGED began
    /\ UNCHANGED <<clock, open, samples, phases, rows, readings, skipped, report>>

\* A signal while the accounts are seeded: the compute phase is not run, and the file has
\* no phase.
NoPhase ==
    /\ stage = "phase" /\ Head(plan) = "compute" /\ phases = <<>> /\ samples = <<>>
    /\ stage' = "done" /\ plan' = <<>>
    /\ UNCHANGED <<clock, open, began, samples, phases, rows, readings, skipped, report>>

\* The accounts could not be seeded, or the file not be written: the script stops there.
GeneratorFails ==
    /\ \/ stage = "phase" /\ clock = 0 /\ samples = <<>>
       \/ stage = "done"
    /\ stage' = "failed"
    /\ UNCHANGED <<clock, plan, open, began, samples, phases, rows, readings, skipped, report>>

-----------------------------------------------------------------------------
(* The collector.                                                          *)

\* One timestamp for every N rows of the file, taken when the first of them is read.
Stamp(i, host) ==
    IF \E j \in Len(rows) + 1 .. i : (j - 1) % N = 0 THEN host ELSE rows[Len(rows)].at

\* The file with the rows that pass the grep.
Stamped(shown, loads, host) ==
    rows \o [i \in DOMAIN shown |->
               [at |-> Stamp(Len(rows) + i, host), container |-> shown[i], cpu |-> loads[i],
                reading |-> Len(readings) + 1]]

\* A reading of the first upTo containers, in order; `date` is off by the drift.  docker
\* prints "--" for one it has no figure of, and the grep drops the row.
Reading(upTo) ==
    \E n \in 0 .. upTo, host \in clock - Drift .. clock + Drift :
    \E shown \in [1 .. n -> 1 .. upTo], loads \in [1 .. n -> Loads] :
      LET file == Stamped(shown, loads, host)
          new  == DOMAIN file \ DOMAIN rows
      IN  /\ \A i, j \in 1 .. n : i < j => shown[i] < shown[j]
          /\ rows' = file
          /\ readings' = Append(readings, [at |-> clock,
                                           total |-> SumFunction([i \in new |-> file[i].cpu])])
          /\ skipped' = (skipped \/ n < upTo)

\* A reading while the generator runs.
Collect ==
    /\ stage \in {"phase", "between"} /\ Room
    /\ Reading(N)
    /\ UNCHANGED <<clock, stage, plan, open, began, samples, phases, report>>

\* cleanup kills the collector, perhaps in the middle of a reading.
StopCollector ==
    /\ stage = "done"
    /\ stage' = "collected"
    /\ \/ UNCHANGED <<rows, readings, skipped>>
       \/ rows # <<>> /\ \E upTo \in 1 .. N - 1 : Reading(upTo)
    /\ UNCHANGED <<clock, plan, open, began, samples, phases, report>>

-----------------------------------------------------------------------------
(* loadreport.                                                             *)

headline ==
    LET capacity == {i \in DOMAIN phases : phases[i].name \in {"compute", "health"}}
    IN  IF capacity # {} THEN phases[Min(capacity)] ELSE phases[Len(phases)]

\* Rows are sets of places in the file.
CpuOf(s) == [i \in s |-> rows[i].cpu]
TakenBy(s, c) == {i \in s : rows[i].container = c}
At(s, t) == SumFunction(CpuOf({i \in s : rows[i].at = t}))
Times(s) == {rows[i].at : i \in s}

Container(s, c) ==
    LET cpu == CpuOf(TakenBy(s, c))
    IN  [n |-> Cardinality(DOMAIN cpu), sum |-> SumFunction(cpu), peak |-> Max({0} \cup Range(cpu))]

\* Faulty variant: the sum of the containers' peaks (input.go:150-154 says why not).
PeakOfPeaks(s) == SumFunction([c \in 1 .. N |-> Max({0} \cup Range(CpuOf(TakenBy(s, c))))])

CombinedPeak(s) == Max({0} \cup {At(s, t) : t \in Times(s)})

\* Within the window if three rows are, else all there are.
aggregate(from, to) ==
    LET in      == {i \in DOMAIN rows : from <= rows[i].at /\ rows[i].at <= to}
        aligned == Cardinality(in) >= 3
        counted == IF aligned THEN in ELSE DOMAIN rows
    IN  [windowed |-> aligned, counted |-> counted, polls |-> Cardinality(Times(counted)),
         containers |-> [c \in {rows[i].container : i \in counted} |-> Container(counted, c)],
         combinedSum |-> SumFunction(CpuOf(counted)), combinedPeak |-> CombinedPeak(counted)]

\* Without a row there is a report without its saturation.
LoadReport ==
    /\ stage = "collected" /\ phases # <<>>
    /\ stage' = "reported"
    /\ report' = [phase |-> headline,
                  cpu |-> IF rows = <<>> THEN None ELSE aggregate(headline.from, headline.to)]
    /\ UNCHANGED <<clock, plan, open, began, samples, phases, rows, readings, skipped>>

NoReport ==
    /\ stage = "collected" /\ phases = <<>>
    /\ stage' = "failed"
    /\ UNCHANGED <<clock, plan, open, began, samples, phases, rows, readings, skipped, report>>

Generator == Record \/ EndPhase \/ NoPhase \/ NextPhase \/ GeneratorFails
Script    == Collect \/ StopCollector \/ LoadReport \/ NoReport

Next == Tick \/ Generator \/ Script

Spec == Init /\ [][Next]_vars

-----------------------------------------------------------------------------
TypeOK ==
    /\ clock \in 0 .. MaxTime /\ began \in 0 .. clock /\ open \in BOOLEAN /\ skipped \in BOOLEAN
    /\ stage \in {"phase", "between", "done", "collected", "reported", "failed"}
    /\ \A s \in ToSet(samples) : s \in [at : 0 .. clock, outcome : Outcomes,
                                        latency : 0 .. Timeout, lag : Lags \cup {0}]
    /\ \A p \in ToSet(phases) : /\ p.name \in {"limiter", "compute", "health"}
                                /\ p.to \in p.from .. p.from + Duration
                                /\ {p.total, p.accepted, p.transport, p.nonOK} \subseteq Nat
    /\ \A r \in ToSet(rows) : r \in [at : 0 - Drift .. clock + Drift, container : 1 .. N, cpu : Loads,
                                     reading : DOMAIN readings]
    /\ \A r \in ToSet(readings) : r \in [at : 0 .. clock, total : Nat]
    /\ report # None => report.phase \in ToSet(phases)

\* A phase's figures are about one set of samples, the window's: what was accepted, what
\* got another answer and what got none are all there is; the latencies are of all but the
\* slots never sent (stats.go:170-175); and where a request timed out the tail is said to
\* be cut off (summary.go:145-149).
SummaryAddsUp ==
    stage = "phase" =>
      /\ summarize.nonOK = Count({"other"})
      /\ summarize.failed = summarize.transport + summarize.nonOK
      /\ summarize.all.n = summarize.total - Count({"unsent"})
      /\ summarize.acc.n = summarize.accepted
      /\ Count({"timeout"}) > 0 => summarize.censored

\* Neither waiting nor time-outs make a percentile better (stats.go:151-158, 177-183): the
\* time a request waited for its slot never lowers one, and requests that time out do not
\* either.  (One that fails fast does.)
NothingFlatters ==
    stage = "phase" =>
      LET others == latencies(timed \ {"timeout"})
      IN  \A p \in Percentages :
            /\ summarize.corrected.at[p] >= summarize.all.at[p]
            /\ summarize.all.at[p] >= percentile(others, p)

\* The saturation in a report is that of the capacity phase if there was one, and of
\* readings that were taken (input.go:150-166, report.go:249-263).  Unless docker had no
\* figure for some container: labelled as the window's it is of readings taken in the
\* window, give or take the drift; the combined peak is what the readings of one stamp add
\* up to, which were taken within twice the drift, and not below any counted one; and
\* nothing is counted more often than it was read, nor an average taken over more.
CpuFiguresWereRead ==
    report # None /\ report.cpu # None =>
      LET cpu   == report.cpu
          p     == report.phase
          taken == {rows[i].reading : i \in cpu.counted}
          Bearing(t) == {rows[i].reading : i \in {j \in cpu.counted : rows[j].at = t}}
      IN  /\ p.name = "limiter" => \A q \in ToSet(phases) : q.name = "limiter"
          /\ ~ cpu.windowed => cpu.counted = DOMAIN rows
          /\ ~ skipped =>
               /\ cpu.windowed => \A k \in taken : readings[k].at \in p.from - Drift .. p.to + Drift
               /\ \E t \in Times(cpu.counted) :
                    cpu.combinedPeak = SumFunction([k \in Bearing(t) |-> readings[k].total])
               /\ \A t \in Times(cpu.counted) : \A k, l \in Bearing(t) :
                    readings[k].at - readings[l].at <= 2 * Drift
               /\ \A k \in taken : readings[k].total <= cpu.combinedPeak
               /\ cpu.polls <= Cardinality(taken)
               /\ \A c \in DOMAIN cpu.containers : cpu.containers[c].n <= Cardinality(taken)

\* The percentile of any number of values is the nearest rank (stats.go:213-217), for the
\* percentages of the summary and of the confidence interval (timing.go), except that 99.9
\* of a multiple of 1000 of them may be the next one.  No state is involved: TLC need not
\* look at every one.
RanksAreNearest ==
    clock = 0 /\ samples = <<>> /\ rows = <<>> =>
      \A p \in InUse, n \in 1 .. MaxCounts : NearestOrNext(p, n)
=============================================================================
