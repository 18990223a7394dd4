-------------------------------- MODULE Usage -------------------------------
(***************************************************************************)
(* The usage counters of an organisation: after every request the          *)
(* middleware counts it in a total, in the bucket of the minute and in a   *)
(* breakdown by endpoint and status, and looks at no error.  On Badger     *)
(* each increment is a transaction that reads and writes, and one that     *)
(* conflicts with another is dropped; on Postgres it is an upsert, the     *)
(* total and the bucket being two.  The clock counts minutes.              *)
(***************************************************************************)
EXTENDS Platform, FiniteSets

CONSTANTS
    Client,    \* requests in flight
    MaxServed, \* requests altogether
    Hour       \* minutes in a wider bucket

ASSUME UsageAssumption == IsFiniteSet(Client) /\ MaxServed \in Nat /\ Hour \in Nat \ {0}

VARIABLES
    served,    \* requests answered
    total,     \* the counter api_requests
    series,    \* series[m]: its bucket of minute m
    breakdown, \* breakdown[s]: requests of one endpoint answered with s
    counting,  \* counting[q]: what the middleware is at after a request
    missed     \* increments that failed, by counter

usageVars == <<served, total, series, breakdown, counting, missed>>

Answers == {200, 500}
Uncounted == [step |-> "idle", status |-> 200, minute |-> 0, seen |-> 0]

UsageInit ==
    /\ served = 0 /\ total = 0
    /\ series = [m \in Time |-> 0]
    /\ breakdown = [s \in Answers |-> 0]
    /\ counting = [q \in Client |-> Uncounted]
    /\ missed = [total |-> 0, series |-> 0, breakdown |-> 0]

CountingAt(q, step) ==
    part = "usage" /\ counting[q].step = step /\ UNCHANGED platformVars
Lose(counters) ==
    missed' = [c \in DOMAIN missed |-> IF c \in counters THEN missed[c] + 1 ELSE missed[c]]
GoTo(q, step) ==
    counting' = [counting EXCEPT ![q] = IF step = "idle" THEN Uncounted
                                        ELSE [@ EXCEPT !.step = step, !.seen = 0]]

-----------------------------------------------------------------------------
(* orgMetricsMiddleware: the handler has answered.                         *)
OrgMetricsMiddleware(q, status) ==
    /\ CountingAt(q, "idle") /\ served < MaxServed
    /\ served' = served + 1
    /\ counting' = [counting EXCEPT ![q].step = "total", ![q].status = status]
    /\ UNCHANGED <<total, series, breakdown, missed>>

(* Badger: the transaction reads the total and the bucket ...              *)
BeginIncrement(q) ==
    /\ CountingAt(q, "total") /\ backend = "badger"
    /\ counting' = [counting EXCEPT ![q].step = "commit", ![q].minute = clock, ![q].seen = total]
    /\ UNCHANGED <<served, total, series, breakdown, missed>>

(* Mutant: the read is not part of the transaction.                        *)
IncrementUnchecked(q) ==
    /\ CountingAt(q, "commit")
    /\ total' = counting[q].seen + 1
    /\ series' = [series EXCEPT ![counting[q].minute] = @ + 1]
    /\ GoTo(q, "breakdown")
    /\ UNCHANGED <<served, breakdown, missed>>

(* ... and commits both, unless another one has committed since.           *)
IncrementOrgMetric(q) ==
    /\ CountingAt(q, "commit")
    /\ \/ /\ total = counting[q].seen
          /\ total' = counting[q].seen + 1
          /\ series' = [series EXCEPT ![counting[q].minute] = @ + 1]
          /\ UNCHANGED missed
       \/ /\ total # counting[q].seen
          /\ Lose({"total", "series"})
          /\ UNCHANGED <<total, series>>
    /\ GoTo(q, "breakdown")
    /\ UNCHANGED <<served, breakdown>>

(* Postgres: if the first upsert fails the second is not tried.            *)
IncrementOrgMetricPG(q) ==
    /\ CountingAt(q, "total") /\ backend = "postgres"
    /\ \/ /\ total' = total + 1
          /\ counting' = [counting EXCEPT ![q].step = "series", ![q].minute = clock]
          /\ UNCHANGED missed
       \/ /\ Lose({"total", "series"})
          /\ GoTo(q, "breakdown")
          /\ UNCHANGED total
    /\ UNCHANGED <<served, series, breakdown>>

IncrementSeriesPG(q) ==
    /\ CountingAt(q, "series")
    /\ \/ series' = [series EXCEPT ![counting[q].minute] = @ + 1] /\ UNCHANGED missed
       \/ Lose({"series"}) /\ UNCHANGED series
    /\ GoTo(q, "breakdown")
    /\ UNCHANGED <<served, total, breakdown>>

BeginBreakdown(q) ==
    /\ CountingAt(q, "breakdown") /\ backend = "badger"
    /\ counting' = [counting EXCEPT ![q].step = "commitBreakdown",
                                    ![q].seen = breakdown[counting[q].status]]
    /\ UNCHANGED <<served, total, series, breakdown, missed>>

IncOrgRequestBreakdown(q) ==
    LET s == counting[q].status
    IN  /\ CountingAt(q, "commitBreakdown")
        /\ \/ /\ breakdown[s] = counting[q].seen
              /\ breakdown' = [breakdown EXCEPT ![s] = counting[q].seen + 1]
              /\ UNCHANGED missed
           \/ /\ breakdown[s] # counting[q].seen
              /\ Lose({"breakdown"})
              /\ UNCHANGED breakdown
        /\ GoTo(q, "idle")
        /\ UNCHANGED <<served, total, series>>

IncOrgRequestBreakdownPG(q) ==
    /\ CountingAt(q, "breakdown") /\ backend = "postgres"
    /\ \/ breakdown' = [breakdown EXCEPT ![counting[q].status] = @ + 1] /\ UNCHANGED missed
       \/ Lose({"breakdown"}) /\ UNCHANGED breakdown
    /\ GoTo(q, "idle")
    /\ UNCHANGED <<served, total, series>>

UsageNext ==
    \E q \in Client :
        \/ \E status \in Answers : OrgMetricsMiddleware(q, status)
        \/ BeginIncrement(q)
        \/ IncrementOrgMetric(q)
        \/ IncrementOrgMetricPG(q)
        \/ IncrementSeriesPG(q)
        \/ BeginBreakdown(q)
        \/ IncOrgRequestBreakdown(q)
        \/ IncOrgRequestBreakdownPG(q)

UsageSpec ==
    PlatformInit /\ UsageInit
        /\ [][UsageNext \/ (Tick /\ UNCHANGED usageVars)]_<<platformVars, usageVars>>

-----------------------------------------------------------------------------
(* What the console shows.                                                 *)

(* The point of bucket b: both ends of the window belong to it.            *)
GetOrgMetricTimeseries(from, to, width, b) ==
    Total([m \in Time |-> IF from <= m /\ m <= to /\ m \div width = b THEN series[m] ELSE 0])

HandleGetUsageTimeseries(from, to, width) ==
    GetOrgMetricTimeseries(from, to, width, 0)
        + Total([b \in Time |-> GetOrgMetricTimeseries(from, to, width, b)])

GetOrgUsage == total

GetOrgUsageBreakdown == breakdown[200] + breakdown[500]

Waiting(steps) == Cardinality({q \in Client : counting[q].step \in steps})

(* A request is counted once in every counter, or in none when its write   *)
(* failed or conflicted: however requests overlap, none is counted twice   *)
(* and none disappears unnoticed by the store.  The series says the same   *)
(* at every width of its buckets, whatever minute an increment falls in.   *)
CountsAccounted ==
    part = "usage" =>
        /\ GetOrgUsage + missed.total + Waiting({"total", "commit"}) = served
        /\ \A width \in {1, Hour} :
              HandleGetUsageTimeseries(1, clock, width) + missed.series
                + Waiting({"total", "commit", "series"}) = served
        /\ GetOrgUsageBreakdown + missed.breakdown
             + Waiting({"total", "commit", "series", "breakdown", "commitBreakdown"}) = served
=============================================================================
