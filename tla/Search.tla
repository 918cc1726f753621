------------------------------- MODULE Search -------------------------------
(***************************************************************************)
(* The capacity search (services/perf.py run_capacity) and the SLO it      *)
(* judges each step by (perf/slo.py).  The load is doubled until a step    *)
(* breaches the SLO, then the gap is bisected twice.  What a step measures *)
(* is any summary: a workspace need not be the slower the more users it    *)
(* has, and a load generator may measure nothing.                          *)
(***************************************************************************)
EXTENDS Integers, FiniteSets, Sequences

CONSTANTS Starts, Maxima,  \* the requests' start and max
          Latencies,       \* values of p95, and the bound of the SLO among them
          Rates,           \* values of rps
          MaxP95, MinRps,  \* the SLO
          NotMeasured      \* a metric that is missing from the summary

NoStep == 0      \* None: no step has passed, or failed, yet

VARIABLES
  start, max,    \* the request
  phase,          \* "double", "bisect", "done" or "refused"
  n,             \* users of the next step
  lo, hi,        \* the gap that is bisected
  lastPass, firstFail,
  tries,         \* bisections left
  steps          \* what was measured, in order

vars == <<start, max, phase, n, lo, hi, lastPass, firstFail, tries, steps>>

Init ==
  /\ start \in Starts /\ max \in Maxima
  /\ phase = IF start < 1 \/ max < start THEN "refused" ELSE "double"
  /\ n = start /\ lo = 0 /\ hi = 0
  /\ lastPass = NoStep /\ firstFail = NoStep /\ tries = 2 /\ steps = << >>

Summaries == [p95 : Latencies \cup {NotMeasured}, rps : Rates \cup {NotMeasured}]

\* Mutant of Holds: a metric that is missing counts as 0.
HoldsUnmeasured(s) ==
  /\ s.p95 = NotMeasured \/ s.p95 <= MaxP95
  /\ s.rps # NotMeasured /\ s.rps >= MinRps

\* evaluate: a metric that was not measured meets no rule.
Holds(s) ==
  /\ s.p95 # NotMeasured /\ s.p95 <= MaxP95
  /\ s.rps # NotMeasured /\ s.rps >= MinRps

RunStep(users, s) == steps' = Append(steps, [vus |-> users, ok |-> Holds(s), summary |-> s])

\* The bisection begins if some step passed and one failed.
Bisect(pass, fail) ==
  IF pass # NoStep /\ fail # NoStep
  THEN phase' = "bisect" /\ lo' = pass /\ hi' = fail
  ELSE phase' = "done" /\ UNCHANGED <<lo, hi>>

Double ==
  /\ phase = "double" /\ n <= max
  /\ \E s \in Summaries :
       /\ RunStep(n, s)
       /\ IF Holds(s)
          THEN lastPass' = n /\ n' = 2 * n /\ UNCHANGED <<firstFail, phase, lo, hi>>
          ELSE firstFail' = n /\ Bisect(lastPass, n) /\ UNCHANGED <<lastPass, n>>
  /\ UNCHANGED <<start, max, tries>>

EndDoubling ==
  /\ phase = "double" /\ n > max
  /\ Bisect(lastPass, firstFail)
  /\ UNCHANGED <<start, max, n, lastPass, firstFail, tries, steps>>

Halve ==
  LET mid == (lo + hi) \div 2 IN
  /\ phase = "bisect"
  /\ IF tries = 0 \/ mid <= lo \/ mid >= hi
     THEN phase' = "done" /\ UNCHANGED <<lo, hi, lastPass, firstFail, tries, steps>>
     ELSE /\ \E s \in Summaries :
               /\ RunStep(mid, s)
               /\ IF Holds(s) THEN lo' = mid /\ lastPass' = mid /\ UNCHANGED <<hi, firstFail>>
                  ELSE hi' = mid /\ firstFail' = mid /\ UNCHANGED <<lo, lastPass>>
          /\ tries' = tries - 1 /\ UNCHANGED phase
  /\ UNCHANGED <<start, max, n>>

\* The reason given is that of the first row with the load the search broke at.
Breach == steps[CHOOSE i \in 1..Len(steps) :
                  steps[i].vus = firstFail /\ \A j \in 1..(i - 1) : steps[j].vus # firstFail]

Done == phase \in {"done", "refused"} /\ UNCHANGED vars

Next == Double \/ EndDoubling \/ Halve \/ Done

Spec == Init /\ [][Next]_vars

-----------------------------------------------------------------------------
TypeOK ==
  /\ start \in Starts /\ max \in Maxima
  /\ phase \in {"double", "bisect", "done", "refused"}
  /\ n \in Nat /\ lo \in 0..max /\ hi \in 0..max
  /\ lastPass \in 0..max /\ firstFail \in 0..max
  /\ tries \in 0..2

Measured(users, ok) == \E i \in 1..Len(steps) :
  steps[i].vus = users /\ (/\ steps[i].summary.p95 \in Latencies /\ steps[i].summary.p95 <= MaxP95
                           /\ steps[i].summary.rps \in Rates /\ steps[i].summary.rps >= MinRps) = ok

\* "~n concurrent VUs (holds at n, breaks at m)" was measured at both, n below
\* m and neither above the maximum; no step in between is left out of the
\* verdict, and the reason is that of a step that failed at m; the gap is about
\* a quarter of the load it was doubled from (run_capacity).
CapacityWasMeasured ==
  phase = "done" =>
    /\ lastPass # NoStep => lastPass <= max /\ Measured(lastPass, TRUE)
    /\ firstFail # NoStep => firstFail <= max /\ Measured(firstFail, FALSE) /\ ~Breach.ok
    /\ lastPass # NoStep /\ firstFail # NoStep =>
         /\ lastPass < firstFail
         /\ \A i \in 1..Len(steps) : ~(lastPass < steps[i].vus /\ steps[i].vus < firstFail)
         /\ 4 * (firstFail - lastPass) <= lastPass + 3
=============================================================================
