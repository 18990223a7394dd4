--------------------------- MODULE ServiceProofs ----------------------------
(***************************************************************************)
(* Proofs about what stands before and beside the handlers of the API, for *)
(* any number of requests, exports and journal entries: the slots and      *)
(* records of the middleware, its rate limit and counters, and the jobs.   *)
(***************************************************************************)
EXTENDS Gateway, ExportJobs, Usage, RecursionLemmas

(* The middleware: the slots for writes are neither leaked nor exceeded,   *)
(* and tries with one Idempotency-Key that do not run at once run once.    *)
Busy(q) == tries[q].phase \in {"missed", "inside", "answered"}
Ran(q) == tries[q].phase = "answered" /\ PersistIdempotencyResponse(tries[q].status)

SlotsInv ==
    /\ DOMAIN tries = Try
    /\ IsFiniteSet(Inside)
    /\ slots = Cardinality(Inside) /\ slots <= MaxWrites

(* Runs beyond the first were lost before: when there is no record or a    *)
(* try is at work, every answer so far was, but for the one that is about  *)
(* to be recorded.  Clients have one answer for each run at most.          *)
OnceInv ==
    /\ runs \in Nat /\ lapses \in Nat /\ IsFiniteSet(answers)
    /\ record # NoRecord => record.status \in answers
    /\ ~runRace =>
         /\ \A p, q \in Try : Busy(p) /\ Busy(q) => p = q
         /\ runs <= 1 + lapses
         /\ record = NoRecord \/ (\E q \in Try : Busy(q))
               => (\E q \in Try : Ran(q)) \/ runs <= lapses
         /\ Cardinality(answers) <= runs
         /\ (\E q \in Try : Ran(q)) => Cardinality(answers) < runs

GatewayInv == SlotsInv /\ OnceInv

gNext == GatewayNext \/ (Tick /\ UNCHANGED gatewayVars)
gVars == <<platformVars, gatewayVars>>

-----------------------------------------------------------------------------
(* A request that neither enters nor leaves a handler.                     *)
LEMMA SlotsKept ==
    ASSUME SlotsInv, UNCHANGED slots, DOMAIN tries' = Try,
           \A q \in Try : tries'[q].phase = "inside" <=> tries[q].phase = "inside"
    PROVE  SlotsInv'
<1>1. Inside' = Inside
  BY DEF Inside
<1> QED
  BY <1>1 DEF SlotsInv

LEMMA SlotTaken ==
    ASSUME SlotsInv, NEW q \in Try, TakeSlot(q) PROVE SlotsInv'
<1>1. /\ tries' = [tries EXCEPT ![q].phase = "inside"] /\ tries[q].phase = "missed"
      /\ slots' = slots + 1 /\ slots < MaxWrites
  BY DEF TakeSlot, AtPhase
<1>2. Inside' = Inside \cup {q} /\ q \notin Inside /\ DOMAIN tries' = Try
  BY <1>1 DEF Inside, SlotsInv
<1>3. IsFiniteSet(Inside \cup {q}) /\ Cardinality(Inside \cup {q}) = Cardinality(Inside) + 1
  BY <1>2, FS_AddElement DEF SlotsInv
<1>4. Cardinality(Inside) \in Nat
  BY FS_CardinalityType DEF SlotsInv
<1> QED
  BY <1>1, <1>2, <1>3, <1>4, GatewayAssumption DEF SlotsInv

LEMMA SlotReturned ==
    ASSUME SlotsInv, NEW q \in Try, tries[q].phase = "inside", ReleaseSlot,
           DOMAIN tries' = Try, tries'[q].phase # "inside",
           \A p \in Try \ {q} : tries'[p] = tries[p]
    PROVE  SlotsInv'
<1>1. Inside' = Inside \ {q} /\ q \in Inside
  BY DEF Inside
<1>2. IsFiniteSet(Inside \ {q}) /\ Cardinality(Inside \ {q}) = Cardinality(Inside) - 1
  BY <1>1, FS_RemoveElement DEF SlotsInv
<1>3. Cardinality(Inside) \in Nat
  BY FS_CardinalityType DEF SlotsInv
<1> QED
  BY <1>1, <1>2, <1>3, GatewayAssumption DEF SlotsInv, ReleaseSlot

(* A step that leaves the record, the answers and the busy requests alone. *)
LEMMA OnceKept ==
    ASSUME OnceInv, UNCHANGED <<record, answers, runs, runRace, lapses>>,
           \A q \in Try : Busy(q)' => tries'[q] = tries[q],
           \A q \in Try : Ran(q) => tries'[q] = tries[q]
    PROVE  OnceInv'
<1>1. \A q \in Try : /\ Busy(q)' => Busy(q)
                     /\ Ran(q)' <=> Ran(q)
  BY DEF Busy, Ran, PersistIdempotencyResponse
<1> QED
  BY <1>1 DEF OnceInv, Busy

(* A step after which no try is at work.                                   *)
LEMMA OnceSettled ==
    ASSUME runs' \in Nat, lapses' \in Nat, IsFiniteSet(answers'),
           record' # NoRecord => record'.status \in answers',
           ~runRace' => /\ \A q \in Try : ~Busy(q)' /\ ~Ran(q)'
                        /\ runs' <= 1 + lapses' /\ Cardinality(answers') <= runs'
                        /\ record' = NoRecord => runs' <= lapses'
    PROVE  OnceInv'
BY DEF OnceInv

LEMMA GatewayInvInit == GatewayInit => GatewayInv
<1> SUFFICES ASSUME GatewayInit PROVE GatewayInv
  OBVIOUS
<1>1. \A q \in Try : tries[q].phase = "idle"
  BY DEF GatewayInit, NoTry
<1>2. Inside = {}
  BY <1>1 DEF Inside
<1>3. SlotsInv
  BY <1>2, FS_EmptySet, GatewayAssumption DEF GatewayInit, SlotsInv
<1>4. OnceInv
  BY <1>1, FS_EmptySet DEF GatewayInit, OnceInv, Busy, Ran
<1> QED
  BY <1>3, <1>4 DEF GatewayInv

LEMMA GatewayInvStep == GatewayInv /\ [gNext]_gVars => GatewayInv'
<1> SUFFICES ASSUME GatewayInv, [gNext]_gVars PROVE GatewayInv'
  OBVIOUS
<1>0. SlotsInv /\ OnceInv /\ DOMAIN tries = Try
  BY DEF GatewayInv, SlotsInv
<1> USE DEF GatewayInv
<1>1. ASSUME NEW q \in Try,
             \/ ReadRateLimit(q) \/ FailClosed(q) \/ Admit(q) \/ Refuse(q) \/ ServeRead(q)
      PROVE  GatewayInv'
  <2> DEFINE Passing ==
                /\ DOMAIN tries' = Try /\ \A p \in Try \ {q} : tries'[p] = tries[p]
                /\ tries[q].phase \in {"idle", "rate", "admitted"}
                /\ tries'[q].phase \in {"idle", "rate", "admitted"}
                /\ UNCHANGED <<slots, record, answers, runs, runRace, lapses>>
  <2>a. ASSUME ReadRateLimit(q) PROVE Passing
    BY <1>0, <2>a DEF ReadRateLimit, AtPhase
  <2>e. ASSUME FailClosed(q) PROVE Passing
    BY <1>0, <2>e DEF FailClosed, AtPhase
  <2>b. ASSUME Admit(q) PROVE Passing
    BY <1>0, <2>b DEF Admit, AdmitWith, AtPhase, NoTry
  <2>c. ASSUME Refuse(q) PROVE Passing
    BY <1>0, <2>c DEF Refuse, AtPhase, EndTry, NoTry
  <2>d. ASSUME ServeRead(q) PROVE Passing
    BY <1>0, <2>d DEF ServeRead, AtPhase, EndTry, NoTry
  <2>1. Passing
    BY <1>1, <2>a, <2>b, <2>c, <2>d, <2>e
  <2>2. SlotsInv'
    BY <1>0, <2>1, SlotsKept
  <2>3. OnceInv'
    BY <1>0, <2>1, OnceKept DEF Busy, Ran
  <2> QED
    BY <2>2, <2>3
<1>2. ASSUME NEW q \in Try, Replay(q) PROVE GatewayInv'
  <2>1. /\ DOMAIN tries' = Try /\ \A p \in Try \ {q} : tries'[p] = tries[p]
        /\ tries[q].phase = "admitted" /\ tries'[q].phase = "idle"
        /\ UNCHANGED <<slots, record, runs, runRace, lapses>>
        /\ record # NoRecord /\ answers' = answers \cup {record.status}
    BY <1>0, <1>2 DEF Replay, AtPhase, EndTry, NoTry, GetIdempotency, Replayable
  <2>2. SlotsInv'
    BY <1>0, <2>1, SlotsKept
  <2>3. OnceInv'
    <3>1. answers' = answers
      BY <1>0, <2>1 DEF OnceInv
    <3> QED
      BY <1>0, <2>1, <3>1, OnceKept DEF Busy, Ran
  <2> QED
    BY <2>2, <2>3
<1>3. ASSUME NEW q \in Try, Miss(q) PROVE GatewayInv'
  <2>1. /\ DOMAIN tries' = Try /\ \A p \in Try \ {q} : tries'[p] = tries[p]
        /\ tries[q].phase = "admitted" /\ tries'[q].phase = "missed"
        /\ UNCHANGED <<slots, answers, runs>> /\ record' \in {NoRecord, record}
        /\ lapses' = IF record = NoRecord THEN lapses ELSE lapses + 1
        /\ runRace' = (runRace \/ \E p \in Try \ {q} : Busy(p))
    BY <1>0, <1>3 DEF Miss, AtPhase, Others, Busy
  <2>2. SlotsInv'
    BY <1>0, <2>1, SlotsKept
  <2>3. ASSUME ~runRace'
        PROVE  /\ ~runRace /\ \A p \in Try : ~Busy(p) /\ ~Ran(p)
               /\ \A p \in Try \ {q} : ~Busy(p)'
               /\ \A p \in Try : ~Ran(p)'
    BY <2>1, <2>3 DEF Busy, Ran
  <2>4. runs \in Nat /\ lapses \in Nat
    BY <1>0 DEF OnceInv
  <2>5. ASSUME ~runRace' PROVE runs' <= lapses'
    BY <1>0, <2>1, <2>3, <2>4, <2>5 DEF OnceInv
  <2>6. OnceInv'
    BY <1>0, <2>1, <2>3, <2>4, <2>5 DEF OnceInv
  <2> QED
    BY <2>2, <2>6
<1>4. ASSUME NEW q \in Try, TakeSlot(q) PROVE GatewayInv'
  <2>1. /\ DOMAIN tries' = Try /\ \A p \in Try \ {q} : tries'[p] = tries[p]
        /\ tries[q].phase = "missed" /\ tries'[q].phase = "inside"
        /\ UNCHANGED <<record, answers, runs, runRace, lapses>>
    BY <1>0, <1>4 DEF TakeSlot, AtPhase
  <2>2. OnceInv'
    BY <1>0, <2>1 DEF OnceInv, Busy, Ran
  <2> QED
    BY <1>0, <1>4, <2>2, SlotTaken
<1>5. ASSUME NEW q \in Try, Backpressure(q) PROVE GatewayInv'
  <2>1. /\ DOMAIN tries' = Try /\ \A p \in Try \ {q} : tries'[p] = tries[p]
        /\ tries[q].phase = "missed" /\ tries'[q].phase = "answered"
        /\ tries'[q].status = "unavailable"
        /\ UNCHANGED <<slots, record, answers, runs, runRace, lapses>>
    BY <1>0, <1>5 DEF Backpressure, AtPhase
  <2>2. SlotsInv'
    BY <1>0, <2>1, SlotsKept
  <2>3. OnceInv'
    BY <1>0, <2>1 DEF OnceInv, Busy, Ran, PersistIdempotencyResponse
  <2> QED
    BY <2>2, <2>3
<1>6. ASSUME NEW q \in Try, NEW status \in {"ok", "rejected", "error"}, RunHandler(q, status)
      PROVE  GatewayInv'
  <2>1. /\ DOMAIN tries' = Try /\ \A p \in Try \ {q} : tries'[p] = tries[p]
        /\ tries[q].phase = "inside" /\ tries'[q].phase = "answered"
        /\ tries'[q].status = status
        /\ UNCHANGED <<record, answers, runRace, lapses>> /\ ReleaseSlot
        /\ runs' = IF PersistIdempotencyResponse(status) THEN runs + 1 ELSE runs
    BY <1>0, <1>6 DEF RunHandler, AtPhase
  <2>2. SlotsInv'
    BY <1>0, <2>1, SlotReturned
  <2>3. ASSUME ~runRace'
        PROVE  runs <= lapses /\ \A p \in Try : ~Ran(p) /\ (p # q => ~Busy(p))
    BY <1>0, <2>1, <2>3 DEF OnceInv, Busy, Ran
  <2>4. \A p \in Try : Ran(p)' => (p = q /\ PersistIdempotencyResponse(status)) \/ Ran(p)
    BY <2>1 DEF Ran, PersistIdempotencyResponse
  <2>5. \A p \in Try : Busy(p)' <=> Busy(p)
    BY <2>1 DEF Busy
  <2>6. PersistIdempotencyResponse(status) => Ran(q)'
    BY <2>1 DEF Ran, PersistIdempotencyResponse
  <2>7. runs \in Nat /\ lapses \in Nat /\ Cardinality(answers) \in Nat
    BY <1>0, FS_CardinalityType DEF OnceInv
  <2>8. OnceInv'
    BY <1>0, <2>1, <2>3, <2>4, <2>5, <2>6, <2>7 DEF OnceInv
  <2> QED
    BY <2>2, <2>8
<1>7. ASSUME NEW q \in Try, Panic(q) PROVE GatewayInv'
  <2>1. /\ DOMAIN tries' = Try /\ \A p \in Try \ {q} : tries'[p] = tries[p]
        /\ tries[q].phase = "inside" /\ tries'[q].phase = "idle"
        /\ UNCHANGED <<record, answers, runs, runRace, lapses>> /\ ReleaseSlot
    BY <1>0, <1>7 DEF Panic, AtPhase, EndTry, NoTry
  <2>2. SlotsInv'
    BY <1>0, <2>1, SlotReturned
  <2>3. OnceInv'
    BY <1>0, <2>1, OnceKept DEF Busy, Ran
  <2> QED
    BY <2>2, <2>3
<1>8. ASSUME NEW q \in Try, SaveIdempotency(q) PROVE GatewayInv'
  <2> DEFINE s == tries[q].status
  <2>1. /\ DOMAIN tries' = Try /\ \A p \in Try \ {q} : tries'[p] = tries[p]
        /\ tries[q].phase = "answered" /\ tries'[q].phase = "idle"
        /\ UNCHANGED <<slots, runs, runRace>>
    BY <1>0, <1>8 DEF SaveIdempotency, AtPhase, EndTry, NoTry
  <2>2. SlotsInv'
    BY <1>0, <2>1, SlotsKept
  <2>3. /\ runs \in Nat /\ lapses \in Nat /\ IsFiniteSet(answers)
        /\ Cardinality(answers) \in Nat
    BY <1>0, FS_CardinalityType DEF OnceInv
  <2>4. ASSUME ~runRace
        PROVE  /\ runs <= 1 + lapses /\ Cardinality(answers) <= runs
               /\ Ran(q) => Cardinality(answers) < runs
               /\ ~Ran(q) => runs <= lapses
               /\ \A p \in Try : ~Busy(p)' /\ ~Ran(p)'
    BY <1>0, <2>1, <2>4 DEF OnceInv, Busy, Ran
  <2>5. ASSUME Ran(q), answers' = answers \cup {s},
               \/ record'.status = s /\ UNCHANGED lapses
               \/ UNCHANGED record /\ lapses' = lapses + 1
        PROVE  OnceInv'
    <3>1. IsFiniteSet(answers') /\ Cardinality(answers') <= Cardinality(answers) + 1
      BY <2>3, <2>5, FS_AddElement
    <3>2. Cardinality(answers') \in Nat
      BY <3>1, FS_CardinalityType
    <3>3. lapses' \in Nat /\ runs' \in Nat /\ (record' # NoRecord => record'.status \in answers')
      BY <1>0, <2>1, <2>3, <2>5 DEF OnceInv
    <3>4. ASSUME ~runRace'
          PROVE  /\ runs' <= 1 + lapses' /\ Cardinality(answers') <= runs'
                 /\ \A p \in Try : ~Busy(p)' /\ ~Ran(p)'
                 /\ record' = NoRecord => runs' <= lapses'
      <4>1. record'.status = s /\ UNCHANGED lapses => record' # NoRecord
        BY <2>5 DEF Ran, PersistIdempotencyResponse, NoRecord
      <4> QED
        BY <2>1, <2>3, <2>4, <2>5, <3>1, <3>2, <3>4, <4>1
    <3> QED
      BY <3>1, <3>3, <3>4, OnceSettled
  <2>6. ASSUME ~Ran(q), UNCHANGED <<record, lapses, answers>> PROVE OnceInv'
    <3>1. record' # NoRecord => record'.status \in answers'
      BY <1>0, <2>6 DEF OnceInv
    <3>2. ASSUME ~runRace'
          PROVE  /\ \A p \in Try : ~Busy(p)' /\ ~Ran(p)'
                 /\ runs' <= 1 + lapses' /\ Cardinality(answers') <= runs' /\ runs' <= lapses'
      BY <2>1, <2>3, <2>4, <2>6, <3>2
    <3> QED
      BY <2>1, <2>3, <2>6, <3>1, <3>2, OnceSettled
  <2>7. OnceInv'
    BY <1>8, <2>1, <2>5, <2>6 DEF SaveIdempotency, Ran
  <2> QED
    BY <2>2, <2>7
<1>9. CASE UNCHANGED gatewayVars
  BY <1>0, <1>9, SlotsKept, OnceKept DEF gatewayVars
<1> QED
  BY <1>1, <1>2, <1>3, <1>4, <1>5, <1>6, <1>7, <1>8, <1>9 DEF gNext, gVars, GatewayNext

LEMMA GatewayInvariant == GatewaySpec => []GatewayInv
<1>1. PlatformInit /\ GatewayInit => GatewayInv
  BY GatewayInvInit
<1> QED
  BY <1>1, GatewayInvStep, PTL DEF GatewaySpec, gNext, gVars

-----------------------------------------------------------------------------
(* writeLimitMiddleware gives every slot back, also when the handler       *)
(* panics, and never takes one too many.                                   *)
THEOREM NoSlotLeaks == GatewaySpec => []SlotsExact
<1>1. GatewayInv => SlotsExact
  BY DEF GatewayInv, SlotsInv, SlotsExact
<1> QED
  BY <1>1, GatewayInvariant, PTL

(* idempotencyMiddleware: tries that do not run at once run the handler to *)
(* a recordable answer once, and once more for each record that could not  *)
(* be saved or was not found; clients get no more answers than that.       *)
THEOREM TriesRunOnce == GatewaySpec => []RunsOnce
<1>1. GatewayInv => RunsOnce
  <2> SUFFICES ASSUME GatewayInv, ~runRace
               PROVE  runs <= 1 + lapses /\ Cardinality(answers) <= 1 + lapses
    BY DEF RunsOnce
  <2> QED
    BY FS_CardinalityType DEF GatewayInv, OnceInv
<1> QED
  BY <1>1, GatewayInvariant, PTL

-----------------------------------------------------------------------------
(* The rate limit.  How many requests a list holds is a sum by recursion   *)
(* over the instants.                                                      *)

Counts == [Time -> Nat]

SumsUpTo(s, k, f) ==
    /\ f \in [0 .. k -> Nat]
    /\ f[0] = 0
    /\ \A n \in 1 .. k : f[n] = f[n - 1] + s[n]

LEMMA SumExists ==
    ASSUME NEW s \in Counts, NEW k \in 0 .. MaxTime
    PROVE  \E f : SumsUpTo(s, k, f)
<1> DEFINE T == {m \in 0 .. MaxTime : \E f : SumsUpTo(s, m, f)}
<1>0. MaxTime \in Nat
  BY MaxTimeAssumption
<1>1. 0 \in T
  <2>1. SumsUpTo(s, 0, [n \in 0 .. 0 |-> 0])
    BY DEF SumsUpTo
  <2> QED
    BY <1>0, <2>1
<1>2. ASSUME NEW m \in 1 .. MaxTime, m - 1 \in T PROVE m \in T
  <2>1. PICK f : SumsUpTo(s, m - 1, f)
    BY <1>2
  <2> DEFINE g == [n \in 0 .. m |-> IF n = m THEN f[m - 1] + s[m] ELSE f[n]]
  <2>2. /\ f \in [0 .. m - 1 -> Nat] /\ f[0] = 0
        /\ \A n \in 1 .. m - 1 : f[n] = f[n - 1] + s[n]
        /\ m \in Nat \ {0} /\ s[m] \in Nat
    BY <1>0, <2>1 DEF SumsUpTo, Counts, Time
  <2>3. g \in [0 .. m -> Nat] /\ g[0] = 0
    BY <2>2
  <2>4. ASSUME NEW n \in 1 .. m PROVE g[n] = g[n - 1] + s[n]
    <3>1. g[m] = f[m - 1] + s[m] /\ g[m - 1] = f[m - 1]
      BY <2>2
    <3>2. n # m => g[n] = f[n] /\ g[n - 1] = f[n - 1] /\ n \in 1 .. m - 1
      BY <2>2
    <3> HIDE DEF g
    <3> QED
      BY <2>2, <3>1, <3>2
  <2>5. SumsUpTo(s, m, g)
    <3> HIDE DEF g
    <3> QED
      BY <2>3, <2>4 DEF SumsUpTo
  <2>6. m \in 0 .. MaxTime
    BY <1>0
  <2> QED
    BY <2>5, <2>6
<1>3. \A n \in 0 .. MaxTime : n \in T
  <2> HIDE DEF T
  <2> QED
    BY <1>0, <1>1, <1>2, Climb
<1> QED
  BY <1>3

LEMMA TotalIs ==
    ASSUME NEW s \in Counts, NEW f, SumsUpTo(s, MaxTime, f)
    PROVE  Total(s) = f[MaxTime] /\ Total(s) \in Nat
<1> DEFINE k == MaxTime
<1>1. k \in Nat
  BY MaxTimeAssumption
<1>2. f \in [0 .. k -> Nat] /\ f[0] = 0 /\ \A n \in 1 .. k : f[n] = f[n - 1] + s[n]
  BY DEF SumsUpTo
<1> HIDE DEF k
<1>3. f = [n \in 0 .. k |-> IF n = 0 THEN 0 ELSE f[n - 1] + s[n]]
  <2>1. \A n \in 0 .. k : f[n] = IF n = 0 THEN 0 ELSE f[n - 1] + s[n]
    BY <1>1, <1>2
  <2> QED
    BY <1>2, <2>1
<1> DEFINE upTo[n \in 0 .. k] == IF n = 0 THEN 0 ELSE upTo[n - 1] + s[n]
<1>4. upTo = [n \in 0 .. k |-> IF n = 0 THEN 0 ELSE upTo[n - 1] + s[n]]
  BY <1>3
<1>5. Total(s) = upTo[k]
  BY DEF Total, k
<1> HIDE DEF upTo
<1>6. upTo[0] = 0 /\ \A n \in 1 .. k : upTo[n] = upTo[n - 1] + s[n]
  BY <1>1, <1>4
<1> DEFINE T == {n \in 0 .. k : upTo[n] = f[n]}
<1>7. 0 \in T
  BY <1>1, <1>2, <1>6
<1>8. \A n \in 1 .. k : n - 1 \in T => n \in T
  BY <1>1, <1>2, <1>6
<1>9. \A n \in 0 .. k : n \in T
  <2> HIDE DEF T
  <2> QED
    BY <1>1, <1>7, <1>8, Climb
<1>10. k \in 0 .. k
  BY <1>1
<1> QED
  BY <1>2, <1>5, <1>9, <1>10 DEF k

LEMMA TotalNat == ASSUME NEW s \in Counts PROVE Total(s) \in Nat
<1>1. MaxTime \in 0 .. MaxTime
  BY MaxTimeAssumption
<1> QED
  BY <1>1, SumExists, TotalIs

LEMMA TotalOfNone == Total(NoStamps) = 0 /\ NoStamps \in Counts
<1>1. MaxTime \in Nat /\ NoStamps \in Counts
  BY MaxTimeAssumption DEF NoStamps, Counts
<1> DEFINE f == [n \in 0 .. MaxTime |-> 0]
<1>2. SumsUpTo(NoStamps, MaxTime, f)
  BY <1>1 DEF SumsUpTo, NoStamps, Time
<1>3. f[MaxTime] = 0
  BY <1>1
<1> HIDE DEF f
<1> QED
  BY <1>1, <1>2, <1>3, TotalIs

(* A list that counts more sums to more.                                   *)
LEMMA TotalMonotone ==
    ASSUME NEW s \in Counts, NEW r \in Counts, \A u \in Time : s[u] <= r[u]
    PROVE  /\ Total(s) <= Total(r)
           /\ (\E u \in Time : s[u] < r[u]) => Total(s) < Total(r)
<1>0. MaxTime \in Nat /\ MaxTime \in 0 .. MaxTime
  BY MaxTimeAssumption
<1>1. PICK f : SumsUpTo(s, MaxTime, f)
  BY <1>0, SumExists
<1>2. PICK g : SumsUpTo(r, MaxTime, g)
  BY <1>0, SumExists
<1>3. /\ f \in [0 .. MaxTime -> Nat] /\ f[0] = 0
      /\ \A n \in 1 .. MaxTime : f[n] = f[n - 1] + s[n]
      /\ g \in [0 .. MaxTime -> Nat] /\ g[0] = 0
      /\ \A n \in 1 .. MaxTime : g[n] = g[n - 1] + r[n]
      /\ \A n \in 1 .. MaxTime : s[n] \in Nat /\ r[n] \in Nat /\ s[n] <= r[n]
  BY <1>1, <1>2 DEF SumsUpTo, Counts, Time
<1> DEFINE T == {n \in 0 .. MaxTime : /\ f[n] <= g[n]
                                      /\ (\E u \in 1 .. n : s[u] < r[u]) => f[n] < g[n]}
<1>4. 0 \in T
  BY <1>0, <1>3
<1>5. ASSUME NEW n \in 1 .. MaxTime, n - 1 \in T PROVE n \in T
  <2>1. /\ n \in 0 .. MaxTime /\ n - 1 \in 0 .. MaxTime
        /\ f[n - 1] \in Nat /\ g[n - 1] \in Nat /\ f[n - 1] <= g[n - 1]
        /\ (\E u \in 1 .. n - 1 : s[u] < r[u]) => f[n - 1] < g[n - 1]
    BY <1>0, <1>3, <1>5
  <2>2. f[n] <= g[n]
    BY <1>3, <2>1
  <2>3. ASSUME NEW u \in 1 .. n, s[u] < r[u] PROVE f[n] < g[n]
    <3>1. CASE u = n
      BY <1>3, <2>1, <2>3, <3>1
    <3>2. CASE u # n
      <4>1. u \in 1 .. n - 1
        BY <3>2
      <4>2. f[n - 1] < g[n - 1]
        BY <2>1, <2>3, <4>1
      <4> QED
        BY <1>3, <2>1, <4>2
    <3> QED
      BY <3>1, <3>2
  <2> QED
    BY <2>1, <2>2, <2>3
<1>6. \A n \in 0 .. MaxTime : n \in T
  <2> HIDE DEF T
  <2> QED
    BY <1>0, <1>4, <1>5, Climb
<1>7. f[MaxTime] <= g[MaxTime] /\ ((\E u \in Time : s[u] < r[u]) => f[MaxTime] < g[MaxTime])
  BY <1>0, <1>6 DEF Time
<1>8. Total(s) = f[MaxTime] /\ Total(r) = g[MaxTime]
  BY <1>1, <1>2, TotalIs
<1> QED
  BY <1>7, <1>8

(* One request more counts one more.                                       *)
LEMMA TotalOneMore ==
    ASSUME NEW s \in Counts, NEW t \in Time
    PROVE  LET r == [s EXCEPT ![t] = @ + 1]
           IN  r \in Counts /\ Total(r) = Total(s) + 1
<1> DEFINE r == [s EXCEPT ![t] = @ + 1]
<1>0. MaxTime \in Nat /\ MaxTime \in 0 .. MaxTime /\ t \in 1 .. MaxTime
  BY MaxTimeAssumption DEF Time
<1>1. /\ r \in Counts
      /\ \A n \in 1 .. MaxTime : /\ s[n] \in Nat
                                 /\ r[n] = IF n = t THEN s[n] + 1 ELSE s[n]
  BY <1>0 DEF Counts, Time
<1>2. PICK f : SumsUpTo(s, MaxTime, f)
  BY <1>0, SumExists
<1>3. /\ f \in [0 .. MaxTime -> Nat] /\ f[0] = 0
      /\ \A n \in 1 .. MaxTime : f[n] = f[n - 1] + s[n]
  BY <1>2 DEF SumsUpTo
<1> DEFINE g == [n \in 0 .. MaxTime |-> IF n < t THEN f[n] ELSE f[n] + 1]
<1> HIDE DEF r
<1>4. g \in [0 .. MaxTime -> Nat] /\ g[0] = 0 /\ g[MaxTime] = f[MaxTime] + 1
  BY <1>0, <1>3
<1>5. ASSUME NEW n \in 1 .. MaxTime PROVE g[n] = g[n - 1] + r[n]
  <2>1. n \in 0 .. MaxTime /\ n - 1 \in 0 .. MaxTime /\ n \in Int
    BY <1>0
  <2>2. /\ g[n] = (IF n < t THEN f[n] ELSE f[n] + 1) /\ f[n - 1] \in Nat
        /\ g[n - 1] = (IF n - 1 < t THEN f[n - 1] ELSE f[n - 1] + 1)
    BY <1>3, <2>1
  <2>3. /\ f[n] = f[n - 1] + s[n] /\ s[n] \in Nat
        /\ r[n] = IF n = t THEN s[n] + 1 ELSE s[n]
    BY <1>1, <1>3
  <2>4. (n - 1 < t) <=> (n < t \/ n = t)
    BY <1>0, <2>1
  <2> HIDE DEF g
  <2>5. CASE n < t
    BY <1>0, <2>2, <2>3, <2>4, <2>5
  <2>6. CASE n = t
    BY <2>2, <2>3, <2>4, <2>6
  <2>7. CASE ~ (n < t) /\ n # t
    BY <2>2, <2>3, <2>4, <2>7
  <2> QED
    BY <2>5, <2>6, <2>7
<1>6. SumsUpTo(r, MaxTime, g)
  <2> HIDE DEF g
  <2> QED
    BY <1>4, <1>5 DEF SumsUpTo
<1>7. Total(r) = g[MaxTime] /\ Total(s) = f[MaxTime]
  <2> HIDE DEF g
  <2> QED
    BY <1>1, <1>2, <1>6, TotalIs
<1>8. r \in Counts /\ Total(r) = Total(s) + 1
  BY <1>1, <1>4, <1>7
<1> QED
  BY <1>8 DEF r

LEMMA ValidList ==
    ASSUME NEW list \in Counts, NEW now
    PROVE  /\ Valid(list, now) \in Counts
           /\ \A u \in Time : /\ Valid(list, now)[u] = IF u + config.window > now /\ u <= now
                                                       THEN list[u] ELSE 0
                              /\ Valid(list, now)[u] <= list[u]
  BY DEF Valid, Counts

-----------------------------------------------------------------------------
(* What a check of the limit has seen, and what was admitted.              *)

AtRate(q) == tries[q].phase = "rate"

TryType == [phase : {"idle", "rate", "admitted", "missed", "inside", "answered"}, now : Nat,
            limit : Nat, seen : Counts,
            status : {"none", "ok", "rejected", "error", "unavailable"}]

(* The admitted requests that were counted.                                *)
Counted == [u \in Time |-> admitted[u] - uncounted[u]]

RateTypeOK ==
    /\ clock \in Time
    /\ config.limit \in Nat \ {0} /\ config.window \in Nat \ {0} /\ config.base \in 1 .. config.limit
    /\ stamps \in Counts /\ admitted \in Counts /\ stampsAt \in 0 .. clock
    /\ uncounted \in Counts
    /\ \A u \in Time : uncounted[u] <= admitted[u] /\ (u > clock => admitted[u] = 0)
    /\ refusal.retryAt \in Nat /\ refusal.admissions \in Nat
    /\ tries \in [Try -> TryType]
    /\ \A q \in Try : AtRate(q) => /\ tries[q].now \in 1 .. clock
                                  /\ tries[q].limit \in 1 .. config.limit

(* No list counts a request that was not admitted.                         *)
ListsAdmitted ==
    \A u \in Time : /\ stamps[u] <= admitted[u]
                    /\ \A q \in Try : AtRate(q) => tries[q].seen[u] <= admitted[u]

(* While checks do not overlap a check works on the saved list, unless     *)
(* Redis has forgotten it, and no list exceeds the limit.                  *)
OneCheck ==
    ~rateRace =>
        /\ \A p, q \in Try : AtRate(p) /\ AtRate(q) => p = q
        /\ \A q \in Try : AtRate(q) => tries[q].seen \in {NoStamps, stamps}
        /\ Total(stamps) <= config.limit

(* The saved list was whole at time k, when the last request was counted.  *)
WholeAt(k) ==
    /\ k <= stampsAt
    /\ \A u \in Time : /\ u > k => Counted[u] = 0
                       /\ u + config.window > k => stamps[u] = Counted[u]

(* Then a check sees every request counted in its window, and no window    *)
(* has more of them than the limit.                                        *)
WindowsInv ==
    ~rateRace /\ (shared = "redis" => config.window <= RateTTL) =>
        /\ \E k \in 0 .. clock : WholeAt(k)
        /\ \A q \in Try : AtRate(q) =>
              /\ Valid(tries[q].seen, tries[q].now) = Valid(Counted, tries[q].now)
              /\ \A u \in Time : u > tries[q].now => Counted[u] = 0
        /\ \A t \in Time : Total(Valid(Counted, t)) <= config.limit

(* After a refusal, and until the next admission, the list still has the   *)
(* request whose leaving the window was promised, or has none that stays.  *)
PromiseInv ==
    ~rateRace =>
        /\ refusal.admissions <= Total(admitted)
        /\ refusal.admissions = Total(admitted) /\ refusal.retryAt <= MaxTime =>
              \/ \E e \in Time : stamps[e] > 0 /\ e + config.window <= refusal.retryAt
              \/ \A u \in Time : stamps[u] > 0 => u + config.window <= refusal.retryAt

RateInv == RateTypeOK /\ ListsAdmitted /\ OneCheck /\ WindowsInv /\ PromiseInv

LEMMA RateInitially == PlatformInit /\ GatewayInit => RateInv
<1> SUFFICES ASSUME PlatformInit, GatewayInit PROVE RateInv
  OBVIOUS
<1>1. MaxTime \in Nat \ {0} /\ clock = 1 /\ clock \in Time
  BY MaxTimeAssumption DEF PlatformInit, Time
<1>2. /\ stamps = NoStamps /\ admitted = NoStamps /\ uncounted = NoStamps /\ stampsAt = 0
      /\ Total(NoStamps) = 0 /\ NoStamps \in Counts
      /\ \A u \in Time : NoStamps[u] = 0
      /\ refusal.retryAt = MaxTime + 1 /\ refusal.admissions = 0
  BY TotalOfNone DEF GatewayInit, NoStamps
<1>3. /\ config.limit \in Nat \ {0} /\ config.window \in Nat \ {0}
      /\ config.base \in 1 .. config.limit
  <2>1. PICK s \in {0, 1}, p \in {"free", "pro"}, w \in Windows :
               config = EffectiveRateLimitConfig(s, p, w)
    BY DEF GatewayInit
  <2>2. /\ config.window = w /\ config.base \in Nat \ {0}
        /\ config.base = IF s > 0 THEN s ELSE DefaultLimit
        /\ config.limit = IF p = "pro" /\ config.base < ProLimit THEN ProLimit ELSE config.base
    BY <2>1, GatewayAssumption DEF EffectiveRateLimitConfig
  <2> QED
    BY <2>2, GatewayAssumption
<1>4. /\ \A q \in Try : ~AtRate(q)
      /\ tries \in [Try -> TryType]
  <2>1. NoTry.phase = "idle" /\ NoTry \in TryType
    BY <1>2 DEF NoTry, TryType
  <2> QED
    BY <2>1 DEF GatewayInit, AtRate
<1>5. RateTypeOK
  <2>1. \A u \in Time : uncounted[u] <= admitted[u] /\ (u > clock => admitted[u] = 0)
    BY <1>2
  <2>2. stampsAt \in 0 .. clock /\ refusal.retryAt \in Nat /\ refusal.admissions \in Nat
    BY <1>1, <1>2
  <2>3. stamps \in Counts /\ admitted \in Counts /\ uncounted \in Counts
    BY <1>2
  <2> QED
    BY <1>1, <1>3, <1>4, <2>1, <2>2, <2>3 DEF RateTypeOK
<1>6. ListsAdmitted /\ OneCheck
  BY <1>2, <1>3, <1>4 DEF ListsAdmitted, OneCheck
<1>7. WindowsInv
  <2>0. Counted = NoStamps
    BY <1>2 DEF Counted, NoStamps
  <2>1. WholeAt(0)
    BY <1>2, <2>0 DEF WholeAt
  <2>2. ASSUME NEW t \in Time PROVE Total(Valid(Counted, t)) <= config.limit
    <3>1. Valid(NoStamps, t) = NoStamps
      BY <1>2 DEF Valid, NoStamps
    <3> QED
      BY <1>2, <1>3, <2>0, <3>1
  <2>3. 0 \in 0 .. clock
    BY <1>1
  <2> QED
    BY <1>4, <2>1, <2>2, <2>3 DEF WindowsInv
<1>8. PromiseInv
  BY <1>1, <1>2 DEF PromiseInv
<1> QED
  BY <1>5, <1>6, <1>7, <1>8 DEF RateInv

(* A step that neither checks nor admits.                                  *)
LEMMA RateKept ==
    ASSUME RateInv,
           UNCHANGED <<shared, config, stamps, stampsAt, admitted, uncounted, refusal, rateRace>>,
           clock' \in Time, clock <= clock', tries' \in [Try -> TryType],
           \A q \in Try : AtRate(q)' => tries'[q] = tries[q]
    PROVE  RateInv'
<1> USE DEF RateInv
<1>1. \A q \in Try : AtRate(q)' => AtRate(q) /\ tries'[q] = tries[q]
  BY DEF AtRate
<1>2. clock \in Nat /\ clock' \in Nat /\ MaxTime \in Nat
  BY MaxTimeAssumption DEF RateTypeOK, Time
<1>0. Counted' = Counted
  BY DEF Counted
<1>3. RateTypeOK'
  BY <1>1, <1>2 DEF RateTypeOK, Time
<1>4. ListsAdmitted'
  BY <1>1 DEF ListsAdmitted
<1>5. OneCheck'
  BY <1>1 DEF OneCheck
<1>6. WindowsInv'
  <2> SUFFICES ASSUME WindowsInv, ~rateRace, shared = "redis" => config.window <= RateTTL
               PROVE  /\ \E k \in 0 .. clock' : WholeAt(k)'
                      /\ \A q \in Try : AtRate(q)' =>
                            /\ Valid(tries[q].seen, tries[q].now)' = Valid(Counted, tries[q].now)'
                            /\ \A u \in Time : u > tries'[q].now => Counted'[u] = 0
                      /\ \A t \in Time : Total(Valid(Counted, t))' <= config'.limit
    BY DEF WindowsInv
  <2>1. PICK k \in 0 .. clock : WholeAt(k)
    BY DEF WindowsInv
  <2>2. k \in 0 .. clock' /\ WholeAt(k)'
    BY <1>0, <1>2, <2>1 DEF WholeAt
  <2>3. \A q \in Try : AtRate(q)' =>
            /\ Valid(tries[q].seen, tries[q].now)' = Valid(Counted, tries[q].now)'
            /\ \A u \in Time : u > tries'[q].now => Counted'[u] = 0
    BY <1>0, <1>1 DEF WindowsInv, Valid
  <2>4. \A t \in Time : Total(Valid(Counted, t))' <= config'.limit
    <3>1. \A t \in Time : Valid(Counted, t)' = Valid(Counted, t)
      BY <1>0 DEF Valid
    <3> QED
      BY <3>1 DEF WindowsInv
  <2> QED
    BY <2>2, <2>3, <2>4
<1>7. PromiseInv'
  BY DEF PromiseInv, Total
<1> QED
  BY <1>3, <1>4, <1>5, <1>6, <1>7

LEMMA ReadStep == ASSUME RateInv, NEW q \in Try, ReadRateLimit(q) PROVE RateInv'
<1> USE DEF RateInv
<1>1. /\ UNCHANGED <<clock, shared, config, stamps, stampsAt, admitted, uncounted, refusal>>
      /\ \E limit \in {config.limit, config.base} :
           tries' = [tries EXCEPT ![q].phase = "rate", ![q].now = clock, ![q].limit = limit,
                                  ![q].seen = GetRateLimit]
      /\ rateRace' = (rateRace \/ Others(q, {"rate"}))
  BY DEF ReadRateLimit, AtPhase, platformVars
<1>2. /\ clock \in Time /\ clock \in 1 .. MaxTime /\ MaxTime \in Nat
      /\ stamps \in Counts /\ admitted \in Counts /\ stampsAt \in 0 .. clock
      /\ config.limit \in Nat \ {0} /\ config.base \in 1 .. config.limit
      /\ uncounted \in Counts /\ \A u \in Time : u > clock => admitted[u] = 0
      /\ config.window \in Nat \ {0} /\ RateTTL \in Nat
  BY MaxTimeAssumption, GatewayAssumption DEF RateTypeOK, Time
<1>3. /\ GetRateLimit \in {NoStamps, stamps} /\ GetRateLimit \in Counts
      /\ \A u \in Time : GetRateLimit[u] <= admitted[u]
  <2>1. \A u \in Time : NoStamps[u] = 0 /\ admitted[u] \in Nat
    BY <1>2 DEF NoStamps, Counts
  <2>2. \A u \in Time : stamps[u] <= admitted[u]
    BY DEF ListsAdmitted
  <2>3. stamps \in Counts /\ NoStamps \in Counts /\ \A u \in Time : NoStamps[u] <= admitted[u]
    BY <1>2, <2>1, TotalOfNone
  <2>4. GetRateLimit = stamps \/ GetRateLimit = NoStamps
    BY DEF GetRateLimit
  <2> QED
    BY <2>2, <2>3, <2>4
<1>4. /\ tries' \in [Try -> TryType]
      /\ tries'[q].phase = "rate" /\ tries'[q].now = clock /\ tries'[q].seen = GetRateLimit
      /\ tries'[q].limit \in 1 .. config.limit
      /\ \A p \in Try \ {q} : tries'[p] = tries[p]
  <2>1. tries[q] \in TryType /\ tries \in [Try -> TryType]
    BY DEF RateTypeOK
  <2>0. PICK limit \in {config.limit, config.base} :
               tries' = [tries EXCEPT ![q].phase = "rate", ![q].now = clock, ![q].limit = limit,
                                      ![q].seen = GetRateLimit]
    BY <1>1
  <2> DEFINE r == [tries[q] EXCEPT !.phase = "rate", !.now = clock, !.limit = limit,
                                   !.seen = GetRateLimit]
  <2>2. r \in TryType /\ r.phase = "rate" /\ r.now = clock /\ r.seen = GetRateLimit /\ r.limit = limit
    <3>1. clock \in Nat /\ limit \in Nat
      BY <1>2
    <3> QED
      BY <1>3, <2>1, <3>1 DEF TryType
  <2>3. tries' = [tries EXCEPT ![q] = r]
    BY <2>0, <2>1
  <2>4. limit \in 1 .. config.limit
    BY <1>2
  <2> HIDE DEF r
  <2> QED
    BY <2>1, <2>2, <2>3, <2>4
<1>5. RateTypeOK'
  <2>1. \A p \in Try : AtRate(p)' => tries'[p].now \in 1 .. clock' /\ tries'[p].limit \in 1 .. config'.limit
    BY <1>1, <1>2, <1>4 DEF RateTypeOK, AtRate
  <2> QED
    BY <1>1, <1>4, <2>1 DEF RateTypeOK
<1>6. ListsAdmitted'
  BY <1>1, <1>3, <1>4 DEF ListsAdmitted, AtRate
<1>7. ~rateRace' => ~rateRace /\ \A p \in Try : AtRate(p)' => p = q
  BY <1>1, <1>4 DEF Others, AtRate
<1>8. OneCheck'
  BY <1>1, <1>3, <1>4, <1>7 DEF OneCheck
<1> DEFINE C == Counted
<1>a. Counted' = Counted /\ C \in [Time -> Int] /\ \A u \in Time : u > clock => C[u] = 0
  <2>1. \A u \in Time : admitted[u] \in Nat /\ uncounted[u] \in Nat /\ uncounted[u] <= admitted[u]
    BY <1>2 DEF RateTypeOK, Counts
  <2> QED
    BY <1>1, <1>2, <2>1 DEF Counted
<1>9. WindowsInv'
  <2> SUFFICES ASSUME ~rateRace', shared = "redis" => config.window <= RateTTL
               PROVE  /\ \E k \in 0 .. clock' : WholeAt(k)'
                      /\ \A p \in Try : AtRate(p)' =>
                            /\ Valid(tries[p].seen, tries[p].now)' = Valid(Counted, tries[p].now)'
                            /\ \A u \in Time : u > tries'[p].now => Counted'[u] = 0
                      /\ \A t \in Time : Total(Valid(Counted, t))' <= config'.limit
    BY <1>1 DEF WindowsInv
  <2>1. PICK k \in 0 .. clock : WholeAt(k)
    BY <1>7 DEF WindowsInv
  <2>2. WholeAt(k)' /\ k \in 0 .. clock'
    BY <1>1, <1>a, <2>1 DEF WholeAt
  <2>3. \A u \in Time : u > clock => Counted[u] = 0
    BY <1>a
  <2>4. ASSUME NEW u \in Time, u + config.window > clock PROVE GetRateLimit[u] = Counted[u]
    <3>1. CASE GetRateLimit = stamps
      BY <1>2, <2>1, <2>4, <3>1 DEF WholeAt, Time
    <3>2. CASE GetRateLimit # stamps
      <4>1. GetRateLimit = NoStamps /\ shared = "redis" /\ clock - stampsAt >= RateTTL
        BY <3>2 DEF GetRateLimit
      <4>2. u > k
        BY <1>2, <2>1, <2>4, <4>1 DEF WholeAt, Time
      <4> QED
        BY <2>1, <4>1, <4>2 DEF WholeAt, NoStamps
    <3> QED
      BY <3>1, <3>2
  <2>5. Valid(GetRateLimit, clock) = Valid(Counted, clock)
    BY <2>4 DEF Valid
  <2>6. \A p \in Try : AtRate(p)' =>
            /\ Valid(tries[p].seen, tries[p].now)' = Valid(Counted, tries[p].now)'
            /\ \A u \in Time : u > tries'[p].now => Counted'[u] = 0
    <3>1. Valid(tries[q].seen, tries[q].now)' = Valid(Counted, tries[q].now)'
      BY <1>1, <1>4, <1>a, <2>5 DEF Valid
    <3> QED
      BY <1>1, <1>4, <1>7, <1>a, <2>3, <3>1
  <2>7. \A t \in Time : Total(Valid(Counted, t))' <= config'.limit
    <3>1. \A t \in Time : Valid(Counted, t)' = Valid(Counted, t)
      BY <1>1, <1>a DEF Valid
    <3> QED
      BY <1>1, <1>7, <3>1 DEF WindowsInv
  <2> QED
    BY <2>2, <2>6, <2>7
<1>10. PromiseInv'
  BY <1>1, <1>7 DEF PromiseInv, Total
<1> QED
  BY <1>5, <1>6, <1>8, <1>9, <1>10

LEMMA RefuseStep == ASSUME RateInv, NEW q \in Try, Refuse(q) PROVE RateInv'
<1> USE DEF RateInv
<1> DEFINE valid == Valid(tries[q].seen, tries[q].now)
           earliest == Min({t \in Time : valid[t] > 0})
<1>1. /\ UNCHANGED <<clock, shared, config, stamps, stampsAt, admitted, uncounted, rateRace>>
      /\ refusal' = [retryAt |-> Max({earliest + config.window, clock + 1}),
                     admissions |-> Total(admitted)]
      /\ tries' = [tries EXCEPT ![q] = NoTry]
      /\ AtRate(q) /\ Total(valid) >= tries[q].limit
  BY DEF Refuse, AtPhase, platformVars, EndTry, AtRate
<1>2. /\ clock \in Nat /\ MaxTime \in Nat /\ tries[q].seen \in Counts
      /\ config.window \in Nat /\ tries[q].limit \in Nat \ {0}
      /\ stamps \in Counts /\ admitted \in Counts
  BY <1>1, MaxTimeAssumption DEF RateTypeOK, Time, TryType
<1>3. /\ valid \in Counts /\ \A u \in Time : valid[u] <= tries[q].seen[u]
  BY <1>2, ValidList
<1> HIDE DEF valid
<1>4. earliest \in Time /\ valid[earliest] > 0
  <2> DEFINE E == {t \in Time : valid[t] > 0}
  <2>1. E # {}
    <3> SUFFICES ASSUME E = {} PROVE FALSE
      OBVIOUS
    <3>1. \A u \in Time : valid[u] = 0
      BY <1>3 DEF Counts
    <3>2. valid = NoStamps
      BY <1>3, <3>1 DEF Counts, NoStamps
    <3> QED
      BY <1>1, <1>2, <3>2, TotalOfNone
  <2>2. E \in SUBSET Nat
    BY DEF Time
  <2>3. \E m \in E : \A n \in E : m <= n
    <3> HIDE DEF E
    <3> QED
      BY <2>1, <2>2, LeastNatural
  <2>4. Min(E) \in E
    <3> HIDE DEF E
    <3> QED
      BY <2>3 DEF Min
  <2> QED
    BY <2>4
<1> HIDE DEF earliest
<1>5. refusal'.admissions = Total(admitted) /\ Total(admitted) \in Nat
  BY <1>1, <1>2, TotalNat
<1>6. refusal'.retryAt \in Nat /\ earliest + config.window <= refusal'.retryAt
  <2> DEFINE a == earliest + config.window
             b == clock + 1
  <2>1. a \in Nat /\ b \in Nat
    BY <1>2, <1>4 DEF Time
  <2>2. refusal'.retryAt = Max({a, b})
    BY <1>1
  <2> HIDE DEF a, b
  <2>3. \E x \in {a, b} : \A y \in {a, b} : x >= y
    BY <2>1
  <2>4. Max({a, b}) \in {a, b} /\ Max({a, b}) >= a
    BY <2>3 DEF Max
  <2> QED
    BY <2>1, <2>2, <2>4 DEF a
<1>7. /\ tries' \in [Try -> TryType] /\ ~AtRate(q)'
      /\ \A p \in Try : AtRate(p)' => AtRate(p) /\ tries'[p] = tries[p]
  <2>1. NoTry.phase = "idle" /\ NoTry \in TryType
    BY TotalOfNone DEF NoTry, TryType
  <2> QED
    BY <1>1, <2>1 DEF RateTypeOK, AtRate
<1>8. RateTypeOK'
  BY <1>1, <1>5, <1>6, <1>7 DEF RateTypeOK
<1>9. ListsAdmitted'
  BY <1>1, <1>7 DEF ListsAdmitted
<1>10. OneCheck'
  BY <1>1, <1>7 DEF OneCheck
<1>a. Counted' = Counted
  BY <1>1 DEF Counted
<1>11. WindowsInv'
  <2> SUFFICES ASSUME ~rateRace, shared = "redis" => config.window <= RateTTL
               PROVE  /\ \E k \in 0 .. clock' : WholeAt(k)'
                      /\ \A p \in Try : AtRate(p)' =>
                            /\ Valid(tries[p].seen, tries[p].now)' = Valid(Counted, tries[p].now)'
                            /\ \A u \in Time : u > tries'[p].now => Counted'[u] = 0
                      /\ \A t \in Time : Total(Valid(Counted, t))' <= config'.limit
    BY <1>1 DEF WindowsInv
  <2>1. \E k \in 0 .. clock' : WholeAt(k)'
    BY <1>1, <1>a DEF WindowsInv, WholeAt
  <2>2. \A p \in Try : AtRate(p)' =>
            /\ Valid(tries[p].seen, tries[p].now)' = Valid(Counted, tries[p].now)'
            /\ \A u \in Time : u > tries'[p].now => Counted'[u] = 0
    BY <1>1, <1>7, <1>a DEF WindowsInv, Valid
  <2>3. \A t \in Time : Total(Valid(Counted, t))' <= config'.limit
    <3>1. \A t \in Time : Valid(Counted, t)' = Valid(Counted, t)
      BY <1>1, <1>a DEF Valid
    <3> QED
      BY <1>1, <3>1 DEF WindowsInv
  <2> QED
    BY <2>1, <2>2, <2>3
<1>12. PromiseInv'
  <2> SUFFICES ASSUME ~rateRace
               PROVE  /\ refusal'.admissions <= Total(admitted)'
                      /\ \E e \in Time : stamps[e] > 0 /\ e + config.window <= refusal'.retryAt
    BY <1>1 DEF PromiseInv
  <2>1. Total(admitted)' = Total(admitted)
    BY <1>1 DEF Total
  <2>2. tries[q].seen = stamps
    <3>1. tries[q].seen # NoStamps
      BY <1>2, <1>3, <1>4 DEF NoStamps, Counts
    <3> QED
      BY <1>1, <3>1 DEF OneCheck
  <2>3. stamps[earliest] > 0
    BY <1>2, <1>3, <1>4, <2>2 DEF Counts
  <2> QED
    BY <1>4, <1>5, <1>6, <2>1, <2>3
<1> QED
  BY <1>8, <1>9, <1>10, <1>11, <1>12

(* A store error refuses for a whole window, by whose end every request    *)
(* of the list has left it.                                                *)
LEMMA FailStep == ASSUME RateInv, NEW q \in Try, FailClosed(q) PROVE RateInv'
<1> USE DEF RateInv
<1>1. /\ UNCHANGED <<clock, shared, config, stamps, stampsAt, tries, admitted, uncounted, rateRace>>
      /\ refusal' = [retryAt |-> clock + config.window, admissions |-> Total(admitted)]
  BY DEF FailClosed, AtPhase, platformVars
<1>2. /\ clock \in Nat /\ config.window \in Nat /\ stamps \in Counts /\ admitted \in Counts
      /\ \A u \in Time : stamps[u] <= admitted[u] /\ (u > clock => admitted[u] = 0)
  BY DEF RateTypeOK, ListsAdmitted, Time
<1>3. refusal'.retryAt \in Nat /\ refusal'.admissions = Total(admitted) /\ Total(admitted) \in Nat
  BY <1>1, <1>2, TotalNat
<1>4. Counted' = Counted
  BY <1>1 DEF Counted
<1>5. RateTypeOK' /\ ListsAdmitted' /\ OneCheck'
  BY <1>1, <1>3 DEF RateTypeOK, ListsAdmitted, OneCheck, AtRate
<1>6. WindowsInv'
  <2>1. \A k : WholeAt(k)' <=> WholeAt(k)
    BY <1>1, <1>4 DEF WholeAt
  <2>2. \A t : Valid(Counted, t)' = Valid(Counted, t)
    BY <1>1, <1>4 DEF Valid
  <2>3. \A p \in Try : /\ AtRate(p)' <=> AtRate(p)
                       /\ Valid(tries[p].seen, tries[p].now)' = Valid(tries[p].seen, tries[p].now)
                       /\ Valid(Counted, tries[p].now)' = Valid(Counted, tries[p].now)
    BY <1>1, <1>4 DEF Valid, AtRate
  <2> QED
    BY <1>1, <1>4, <2>1, <2>2, <2>3 DEF WindowsInv
<1>7. PromiseInv'
  <2>1. \A u \in Time : stamps[u] > 0 => u + config.window <= clock + config.window
    BY <1>2 DEF Time, Counts
  <2>2. Total(admitted)' = Total(admitted)
    BY <1>1 DEF Total
  <2> QED
    BY <1>1, <1>3, <2>1, <2>2 DEF PromiseInv
<1> QED
  BY <1>5, <1>6, <1>7

LEMMA AdmitStep == ASSUME RateInv, NEW q \in Try, Admit(q) PROVE RateInv'
<1> USE DEF RateInv
<1>0. PICK n : n = tries[q].now
  OBVIOUS
<1>1. PICK valid : valid = Valid(tries[q].seen, n)
  OBVIOUS
<1> DEFINE Saved == stamps' = [valid EXCEPT ![n] = @ + 1] /\ stampsAt' = clock /\ UNCHANGED uncounted
           Unsaved == uncounted' = [uncounted EXCEPT ![n] = @ + 1] /\ UNCHANGED <<stamps, stampsAt>>
<1>2. /\ UNCHANGED <<clock, shared, config, refusal, rateRace>>
      /\ Saved \/ Unsaved
      /\ admitted' = [admitted EXCEPT ![n] = @ + 1]
      /\ tries' = [tries EXCEPT ![q] = [NoTry EXCEPT !.phase = "admitted"]]
      /\ AtRate(q) /\ Total(valid) < tries[q].limit
  BY <1>0, <1>1 DEF Admit, AdmitWith, AtPhase, platformVars, AtRate
<1>3. /\ clock \in Nat /\ MaxTime \in Nat /\ clock <= MaxTime
      /\ n \in Time /\ n \in Nat /\ n <= clock
      /\ tries[q].seen \in Counts /\ stamps \in Counts /\ admitted \in Counts /\ uncounted \in Counts
      /\ config.window \in Nat \ {0} /\ config.limit \in Nat /\ tries[q].limit \in 1 .. config.limit
  BY <1>0, <1>2, MaxTimeAssumption DEF RateTypeOK, Time, TryType
<1>4. /\ valid \in Counts /\ \A u \in Time : valid[u] <= tries[q].seen[u]
  BY <1>1, <1>3, ValidList
<1>5. /\ Saved => stamps' \in Counts /\ Total(stamps') = Total(valid) + 1
      /\ Unsaved => uncounted' \in Counts
      /\ admitted' \in Counts /\ Total(admitted') = Total(admitted) + 1
      /\ Total(valid) \in Nat /\ Total(admitted) \in Nat
  BY <1>2, <1>3, <1>4, TotalOneMore, TotalNat
<1>6. \A u \in Time :
         /\ valid[u] \in Nat /\ admitted[u] \in Nat /\ uncounted[u] \in Nat /\ stamps[u] \in Nat
         /\ u \in Nat /\ uncounted[u] <= admitted[u] /\ (u > clock => admitted[u] = 0)
         /\ Saved => stamps'[u] = IF u = n THEN valid[u] + 1 ELSE valid[u]
         /\ Unsaved => uncounted'[u] = IF u = n THEN uncounted[u] + 1 ELSE uncounted[u]
         /\ admitted'[u] = IF u = n THEN admitted[u] + 1 ELSE admitted[u]
  <2>1. \A u \in Time : u \in Nat /\ uncounted[u] <= admitted[u] /\ (u > clock => admitted[u] = 0)
    BY DEF RateTypeOK, Time
  <2>2. \A u \in Time : /\ valid[u] \in Nat /\ admitted[u] \in Nat
                        /\ uncounted[u] \in Nat /\ stamps[u] \in Nat
    BY <1>3, <1>4 DEF Counts
  <2>3. ASSUME NEW u \in Time
        PROVE  /\ Saved => stamps'[u] = IF u = n THEN valid[u] + 1 ELSE valid[u]
               /\ Unsaved => uncounted'[u] = IF u = n THEN uncounted[u] + 1 ELSE uncounted[u]
               /\ admitted'[u] = IF u = n THEN admitted[u] + 1 ELSE admitted[u]
    BY <1>2, <1>3, <1>4 DEF Counts
  <2> HIDE DEF Saved, Unsaved
  <2> QED
    BY <2>1, <2>2, <2>3
<1> HIDE DEF Saved, Unsaved
<1>7. /\ tries' \in [Try -> TryType] /\ ~AtRate(q)'
      /\ \A p \in Try : AtRate(p)' => AtRate(p) /\ p # q /\ tries'[p] = tries[p]
  <2>1. tries[q] \in TryType /\ tries \in [Try -> TryType]
    BY DEF RateTypeOK
  <2> DEFINE r == [NoTry EXCEPT !.phase = "admitted"]
  <2>2. r \in TryType /\ r.phase = "admitted"
    BY <2>1, TotalOfNone DEF TryType, NoTry
  <2>3. tries' = [tries EXCEPT ![q] = r]
    BY <1>2, <2>1
  <2> HIDE DEF r
  <2> QED
    BY <2>1, <2>2, <2>3 DEF AtRate
<1>8. RateTypeOK'
  <2>1. stampsAt' \in 0 .. clock' /\ stamps' \in Counts /\ uncounted' \in Counts
    <3>1. stampsAt \in 0 .. clock
      BY DEF RateTypeOK
    <3> QED
      BY <1>2, <1>3, <1>5, <3>1 DEF Saved, Unsaved
  <2>2. \A u \in Time : uncounted'[u] <= admitted'[u] /\ (u > clock' => admitted'[u] = 0)
    BY <1>2, <1>3, <1>6 DEF Saved, Unsaved
  <2>3. \A p \in Try : AtRate(p)' => /\ tries'[p].now \in 1 .. clock'
                                    /\ tries'[p].limit \in 1 .. config'.limit
    BY <1>2, <1>7 DEF RateTypeOK
  <2> QED
    BY <1>2, <1>5, <1>7, <2>1, <2>2, <2>3 DEF RateTypeOK
<1>9. ListsAdmitted'
  <2> SUFFICES ASSUME NEW u \in Time
               PROVE  /\ stamps'[u] <= admitted'[u]
                      /\ \A p \in Try : AtRate(p)' => tries'[p].seen[u] <= admitted'[u]
    BY DEF ListsAdmitted
  <2>1. /\ tries[q].seen[u] \in Nat /\ tries[q].seen[u] <= admitted[u]
        /\ valid[u] <= tries[q].seen[u] /\ stamps[u] <= admitted[u]
    BY <1>2, <1>3, <1>4 DEF ListsAdmitted, Counts
  <2>2. stamps'[u] <= admitted'[u]
    BY <1>2, <1>6, <2>1 DEF Unsaved
  <2>3. ASSUME NEW p \in Try, AtRate(p)' PROVE tries'[p].seen[u] <= admitted'[u]
    <3>1. AtRate(p) /\ tries'[p] = tries[p] /\ tries[p].seen[u] \in Nat
      BY <1>7, <2>3 DEF RateTypeOK, TryType, Counts
    <3>2. tries[p].seen[u] <= admitted[u]
      BY <3>1 DEF ListsAdmitted
    <3> QED
      BY <1>6, <3>1, <3>2
  <2> QED
    BY <2>2, <2>3
<1>10. ~rateRace => \A p \in Try : ~AtRate(p)'
  BY <1>2, <1>7 DEF OneCheck
<1>11. OneCheck'
  <2>1. ~rateRace => Total(stamps') <= config.limit
    BY <1>2, <1>3, <1>5 DEF OneCheck, Unsaved
  <2>2. Total(stamps)' = Total(stamps')
    BY DEF Total
  <2> QED
    BY <1>2, <1>10, <2>1, <2>2 DEF OneCheck
<1> DEFINE C == Counted
<1>a. C \in Counts /\ \A u \in Time : C[u] = admitted[u] - uncounted[u]
  <2>1. \A u \in Time : admitted[u] - uncounted[u] \in Nat
    BY <1>6
  <2> QED
    BY <2>1 DEF Counted, Counts
<1>b. Counted' \in Counts /\ \A u \in Time : Counted'[u] = admitted'[u] - uncounted'[u]
  <2>1. \A u \in Time : admitted'[u] - uncounted'[u] \in Nat
    BY <1>2, <1>6 DEF Saved
  <2> QED
    BY <2>1 DEF Counted, Counts
<1>12. WindowsInv'
  <2> SUFFICES ASSUME ~rateRace, shared = "redis" => config.window <= RateTTL
               PROVE  /\ \E k \in 0 .. clock' : WholeAt(k)'
                      /\ \A t \in Time : Total(Valid(Counted, t))' <= config'.limit
    BY <1>2, <1>10 DEF WindowsInv
  <2>1. /\ valid = Valid(Counted, n)
        /\ \A u \in Time : u > n => Counted[u] = 0
    BY <1>0, <1>1, <1>2 DEF WindowsInv
  <2>2. \A u \in Time : valid[u] = IF u + config.window > n /\ u <= n THEN C[u] ELSE 0
    BY <1>3, <1>a, <2>1, ValidList
  <2>3. CASE Unsaved
    <3>1. Counted' = Counted
      <4>1. \A u \in Time : Counted'[u] = C[u]
        BY <1>6, <1>a, <1>b, <2>3
      <4> QED
        BY <1>a, <1>b, <4>1 DEF Counts
    <3>2. \E k \in 0 .. clock' : WholeAt(k)'
      BY <1>2, <2>3, <3>1 DEF WindowsInv, WholeAt, Unsaved
    <3>3. \A t \in Time : Total(Valid(Counted, t))' <= config'.limit
      <4>1. \A t \in Time : Valid(Counted, t)' = Valid(Counted, t)
        BY <1>2, <3>1 DEF Valid
      <4> QED
        BY <1>2, <4>1 DEF WindowsInv
    <3> QED
      BY <3>2, <3>3
  <2>4. CASE Saved
    <3>a. \A u \in Time : Counted'[u] = IF u = n THEN C[u] + 1 ELSE C[u]
      BY <1>6, <1>a, <1>b, <2>4 DEF Saved
    <3>b. \A u \in Time : /\ u > n => Counted'[u] = 0
                          /\ u + config'.window > n => stamps'[u] = Counted'[u]
      BY <1>2, <1>3, <1>6, <2>1, <2>2, <2>4, <3>a
    <3>1. WholeAt(n)' /\ n \in 0 .. clock'
      BY <1>2, <1>3, <2>4, <3>b DEF WholeAt, Saved
    <3>2. ASSUME NEW t \in Time PROVE Total(Valid(Counted, t))' <= config'.limit
      <4>1. PICK now : now = Valid(Counted, t)'
        OBVIOUS
      <4>2. /\ now \in Counts
            /\ \A u \in Time : now[u] = IF u + config.window > t /\ u <= t THEN Counted'[u] ELSE 0
        BY <1>2, <1>b, <4>1 DEF Valid, Counts
      <4>3. CASE t < n
        <5>1. PICK old : old = Valid(Counted, t)
          OBVIOUS
        <5>2. /\ old \in Counts
              /\ \A u \in Time : old[u] = IF u + config.window > t /\ u <= t THEN C[u] ELSE 0
          BY <1>a, <5>1 DEF Valid, Counts
        <5>3. \A u \in Time : now[u] = old[u]
          BY <1>3, <1>6, <3>a, <4>2, <4>3, <5>2
        <5>4. now = old
          BY <4>2, <5>2, <5>3 DEF Counts
        <5>5. Total(old) <= config.limit
          BY <5>1 DEF WindowsInv
        <5> QED
          BY <1>2, <4>1, <5>4, <5>5
      <4>4. CASE ~ (t < n)
        <5>1. t \in Nat
          BY <1>6
        <5>2. stamps' \in Counts /\ Total(stamps') <= config.limit
          BY <1>2, <1>3, <1>5, <2>4
        <5>3. ASSUME NEW u \in Time PROVE now[u] <= stamps'[u]
          <6>1. n \in Nat /\ u \in Nat /\ config.window \in Nat /\ stamps'[u] \in Nat
            BY <1>3, <1>6, <5>2 DEF Counts
          <6>2. u + config.window > t => u + config.window > n
            BY <4>4, <5>1, <6>1
          <6> QED
            BY <1>2, <3>b, <4>2, <6>1, <6>2
        <5>4. Total(now) <= Total(stamps')
          BY <4>2, <5>3, <5>2, TotalMonotone
        <5>5. Total(now) <= config.limit
          BY <1>3, <4>2, <5>2, <5>4, TotalNat
        <5> QED
          BY <1>2, <4>1, <5>5
      <4> QED
        BY <4>3, <4>4
    <3> QED
      BY <3>1, <3>2
  <2> QED
    BY <1>2, <2>3, <2>4
<1>13. PromiseInv'
  <2> SUFFICES ASSUME ~rateRace
               PROVE  refusal'.admissions <= Total(admitted)' /\ refusal'.admissions # Total(admitted)'
    BY <1>2 DEF PromiseInv
  <2>1. refusal.admissions <= Total(admitted) /\ refusal.admissions \in Nat
    BY DEF PromiseInv, RateTypeOK
  <2> QED
    BY <1>2, <1>5, <2>1
<1> QED
  BY <1>8, <1>9, <1>11, <1>12, <1>13

LEMMA RateStep == RateInv /\ [gNext]_gVars => RateInv'
<1> SUFFICES ASSUME RateInv, [gNext]_gVars PROVE RateInv'
  OBVIOUS
<1>0. tries \in [Try -> TryType] /\ clock \in Time /\ clock \in Nat /\ MaxTime \in Nat
  BY MaxTimeAssumption DEF RateInv, RateTypeOK, Time
<1>1. ASSUME NEW q \in Try,
             \/ ServeRead(q) \/ Replay(q) \/ Miss(q) \/ TakeSlot(q) \/ Backpressure(q) \/ Panic(q)
             \/ SaveIdempotency(q) \/ \E status \in {"ok", "rejected", "error"} : RunHandler(q, status)
      PROVE  RateInv'
  <2>1. UNCHANGED <<clock, shared, config, stamps, stampsAt, admitted, uncounted, refusal, rateRace>>
    BY <1>1 DEF ServeRead, Replay, Miss, TakeSlot, Backpressure, Panic, SaveIdempotency, RunHandler,
       AtPhase, platformVars
  <2>2. \/ tries' = [tries EXCEPT ![q] = NoTry]
        \/ \E phase \in {"missed", "inside", "answered"} : tries' = [tries EXCEPT ![q].phase = phase]
        \/ \E status \in {"ok", "rejected", "error", "unavailable"} :
              tries' = [tries EXCEPT ![q].phase = "answered", ![q].status = status]
    BY <1>1 DEF ServeRead, Replay, Miss, TakeSlot, Backpressure, Panic, SaveIdempotency, RunHandler,
       EndTry
  <2>3. tries[q] \in TryType
    BY <1>0
  <2>4. \E r \in TryType : tries' = [tries EXCEPT ![q] = r] /\ r.phase # "rate"
    <3>1. CASE tries' = [tries EXCEPT ![q] = NoTry]
      <4>1. NoTry \in TryType /\ NoTry.phase = "idle"
        BY TotalOfNone DEF NoTry, TryType
      <4> QED
        BY <3>1, <4>1
    <3>2. ASSUME NEW phase \in {"missed", "inside", "answered"},
                 tries' = [tries EXCEPT ![q].phase = phase]
          PROVE  \E r \in TryType : tries' = [tries EXCEPT ![q] = r] /\ r.phase # "rate"
      <4>1. PICK r : r = [tries[q] EXCEPT !.phase = phase]
        OBVIOUS
      <4>2. r \in TryType /\ r.phase = phase
        BY <2>3, <4>1 DEF TryType
      <4>3. tries' = [tries EXCEPT ![q] = r]
        BY <3>2, <4>1
      <4>4. r.phase # "rate"
        BY <4>2
      <4> QED
        BY <4>2, <4>3, <4>4
    <3>3. ASSUME NEW status \in {"ok", "rejected", "error", "unavailable"},
                 tries' = [tries EXCEPT ![q].phase = "answered", ![q].status = status]
          PROVE  \E r \in TryType : tries' = [tries EXCEPT ![q] = r] /\ r.phase # "rate"
      <4>1. PICK r : r = [tries[q] EXCEPT !.phase = "answered", !.status = status]
        OBVIOUS
      <4>2. r \in TryType /\ r.phase = "answered"
        BY <2>3, <4>1 DEF TryType
      <4>3. tries' = [tries EXCEPT ![q] = r]
        BY <1>0, <2>3, <3>3, <4>1
      <4> QED
        BY <4>2, <4>3
    <3> QED
      BY <2>2, <3>1, <3>2, <3>3
  <2>5. tries' \in [Try -> TryType] /\ \A p \in Try : AtRate(p)' => tries'[p] = tries[p]
    BY <1>0, <2>4 DEF AtRate
  <2> QED
    BY <1>0, <2>1, <2>5, RateKept
<1>2. CASE Tick /\ UNCHANGED gatewayVars
  <2>1. clock' \in Time /\ clock <= clock'
    BY <1>0, <1>2 DEF Tick, Time
  <2> QED
    BY <1>0, <1>2, <2>1, RateKept DEF gatewayVars
<1>3. CASE UNCHANGED gVars
  BY <1>0, <1>3, RateKept DEF gVars, gatewayVars, platformVars
<1> QED
  BY <1>1, <1>2, <1>3, ReadStep, FailStep, RefuseStep, AdmitStep DEF gNext, GatewayNext

LEMMA RateInvariant == GatewaySpec => []RateInv
  BY RateInitially, RateStep, PTL DEF GatewaySpec, gNext, gVars

(* What is counted apart sums apart.                                       *)
LEMMA TotalSum ==
    ASSUME NEW s \in Counts, NEW r \in Counts, NEW both \in Counts,
           \A u \in Time : both[u] = s[u] + r[u]
    PROVE  Total(both) = Total(s) + Total(r)
<1>0. MaxTime \in Nat /\ MaxTime \in 0 .. MaxTime
  BY MaxTimeAssumption
<1>1. PICK f : SumsUpTo(s, MaxTime, f)
  BY <1>0, SumExists
<1>2. PICK g : SumsUpTo(r, MaxTime, g)
  BY <1>0, SumExists
<1>3. /\ f \in [0 .. MaxTime -> Nat] /\ f[0] = 0
      /\ \A n \in 1 .. MaxTime : f[n] = f[n - 1] + s[n]
      /\ g \in [0 .. MaxTime -> Nat] /\ g[0] = 0
      /\ \A n \in 1 .. MaxTime : g[n] = g[n - 1] + r[n]
      /\ \A n \in 1 .. MaxTime : s[n] \in Nat /\ r[n] \in Nat /\ both[n] = s[n] + r[n]
  BY <1>1, <1>2 DEF SumsUpTo, Counts, Time
<1> DEFINE h == [n \in 0 .. MaxTime |-> f[n] + g[n]]
<1>4. h \in [0 .. MaxTime -> Nat] /\ h[0] = 0 /\ h[MaxTime] = f[MaxTime] + g[MaxTime]
  BY <1>0, <1>3
<1>5. ASSUME NEW n \in 1 .. MaxTime PROVE h[n] = h[n - 1] + both[n]
  <2>1. n \in 0 .. MaxTime /\ n - 1 \in 0 .. MaxTime
    BY <1>0
  <2>2. h[n] = f[n] + g[n] /\ h[n - 1] = f[n - 1] + g[n - 1] /\ f[n - 1] \in Nat /\ g[n - 1] \in Nat
    BY <1>3, <2>1
  <2>3. f[n] = f[n - 1] + s[n] /\ g[n] = g[n - 1] + r[n] /\ both[n] = s[n] + r[n]
    BY <1>3
  <2>4. s[n] \in Nat /\ r[n] \in Nat
    BY <1>3
  <2> HIDE DEF h
  <2> QED
    BY <2>2, <2>3, <2>4
<1> HIDE DEF h
<1>6. SumsUpTo(both, MaxTime, h)
  BY <1>4, <1>5 DEF SumsUpTo
<1> QED
  BY <1>1, <1>2, <1>4, <1>6, TotalIs

(* checkRateLimit: requests whose checks do not overlap exceed the limit   *)
(* of the organisation, in whatever window, by no more than the requests   *)
(* of it whose list could not be saved, for every limit, window and number *)
(* of requests; in Redis as long as it keeps the list for a whole window.  *)
THEOREM RateLimitHolds == GatewaySpec => []WithinRate
<1>1. ASSUME RateInv, ~rateRace, shared = "redis" => config.window <= RateTTL, NEW t \in Time
      PROVE  Total(Valid(admitted, t)) <= config.limit + Total(Valid(uncounted, t))
  <2> DEFINE C == Counted
  <2>1. /\ admitted \in Counts /\ uncounted \in Counts /\ config.limit \in Nat
        /\ \A u \in Time : admitted[u] \in Nat /\ uncounted[u] \in Nat /\ uncounted[u] <= admitted[u]
    BY <1>1 DEF RateInv, RateTypeOK, Counts
  <2>2. C \in Counts /\ \A u \in Time : admitted[u] = C[u] + uncounted[u]
    <3>1. \A u \in Time : admitted[u] - uncounted[u] \in Nat
                          /\ admitted[u] = (admitted[u] - uncounted[u]) + uncounted[u]
      BY <2>1
    <3> QED
      BY <3>1 DEF Counted, Counts
  <2>3. Total(Valid(C, t)) <= config.limit
    BY <1>1 DEF RateInv, WindowsInv
  <2> HIDE DEF C
  <2>4. PICK c, a, b : c = Valid(C, t) /\ a = Valid(admitted, t) /\ b = Valid(uncounted, t)
    OBVIOUS
  <2>5. c \in Counts /\ a \in Counts /\ b \in Counts /\ \A u \in Time : a[u] = c[u] + b[u]
    BY <2>1, <2>2, <2>4 DEF Valid, Counts
  <2>6. Total(a) = Total(c) + Total(b) /\ Total(b) \in Nat /\ Total(c) \in Nat
    BY <2>5, TotalSum, TotalNat
  <2> QED
    BY <2>1, <2>3, <2>4, <2>6
<1>2. RateInv => WithinRate
  BY <1>1 DEF WithinRate
<1> QED
  BY <1>2, RateInvariant, PTL

(* However the checks overlap and saves fail, checkRateLimit turns away a  *)
(* request whose list it has read only when the window held as many        *)
(* admitted requests as the limit it applies: no list ever counts a        *)
(* request that was not admitted.                                          *)
THEOREM RefusalsDeserved == GatewaySpec => NoEarlyRefusal
<1>1. ASSUME RateInv, NEW q \in Try, Refuse(q)
      PROVE  Total(Valid(admitted, tries[q].now)) >= tries[q].limit
  <2> DEFINE s == Valid(tries[q].seen, tries[q].now)
             r == Valid(admitted, tries[q].now)
  <2>1. AtRate(q) /\ Total(s) >= tries[q].limit
    BY <1>1 DEF Refuse, AtPhase, AtRate
  <2>2. /\ tries[q].seen \in Counts /\ admitted \in Counts
        /\ \A u \in Time : tries[q].seen[u] <= admitted[u]
        /\ tries[q].limit \in Nat
    BY <1>1, <2>1 DEF RateInv, RateTypeOK, TryType, ListsAdmitted
  <2>3. s \in Counts /\ r \in Counts
    BY <2>2, ValidList
  <2>4. \A u \in Time : s[u] <= r[u]
    BY <2>2 DEF Valid
  <2> HIDE DEF s, r
  <2>5. Total(s) <= Total(r) /\ Total(s) \in Nat /\ Total(r) \in Nat
    BY <2>3, <2>4, TotalMonotone, TotalNat
  <2>6. Total(r) >= tries[q].limit
    BY <2>1, <2>2, <2>5
  <2> QED
    BY <2>6 DEF r
<1>2. ASSUME RateInv, [gNext]_gVars, NEW q \in Try, tries[q].phase = "rate", tries'[q].phase = "idle"
      PROVE  Refuse(q)
  <2>1. tries \in [Try -> TryType]
    BY <1>2 DEF RateInv, RateTypeOK
  <2>2. PICK p \in Try :
          \/ ReadRateLimit(p) \/ FailClosed(p) \/ Refuse(p) \/ Admit(p) \/ ServeRead(p) \/ Replay(p)
          \/ Miss(p) \/ TakeSlot(p) \/ Backpressure(p) \/ Panic(p) \/ SaveIdempotency(p)
          \/ \E status \in {"ok", "rejected", "error"} : RunHandler(p, status)
    BY <1>2 DEF gNext, GatewayNext, gVars, gatewayVars
  <2>3. Refuse(p) \/ Admit(p) \/ tries[p].phase # "rate"
    BY <2>2 DEF ReadRateLimit, FailClosed, ServeRead, Replay, Miss, TakeSlot, Backpressure, Panic,
       SaveIdempotency, RunHandler, AtPhase
  <2>4. \A t \in Try : t # p => tries'[t] = tries[t]
    BY <2>1, <2>2 DEF ReadRateLimit, FailClosed, Refuse, Admit, AdmitWith, ServeRead, Replay, Miss,
       TakeSlot, Backpressure, Panic, SaveIdempotency, RunHandler, EndTry
  <2>5. p = q
    BY <1>2, <2>4
  <2>6. ~Admit(q)
    BY <1>2, <2>1 DEF Admit, AdmitWith, NoTry
  <2> QED
    BY <1>2, <2>2, <2>3, <2>5, <2>6
<1>3. RateInv /\ [gNext]_gVars =>
        [\A q \in Try : tries[q].phase = "rate" /\ tries'[q].phase = "idle"
            => Total(Valid(admitted, tries[q].now)) >= tries[q].limit]_gatewayVars
  BY <1>1, <1>2
<1> QED
  BY <1>3, RateInvariant, PTL DEF NoEarlyRefusal, GatewaySpec, gNext, gVars

(* A client that comes back when the Retry-After of checkRateLimit says so *)
(* finds room, whether the window was full or the list could not be read,  *)
(* if nobody was admitted meanwhile and no two checks overlapped.          *)
THEOREM RetryAfterKept == GatewaySpec => []RetryAfterHonest
<1>1. ASSUME RateInv, ~rateRace, clock >= refusal.retryAt, Total(admitted) = refusal.admissions
      PROVE  Total(Valid(GetRateLimit, clock)) < config.limit
  <2>1. /\ clock \in Nat /\ clock <= MaxTime /\ MaxTime \in Nat /\ stamps \in Counts
        /\ refusal.retryAt \in Nat /\ config.limit \in Nat \ {0} /\ config.window \in Nat
        /\ \A u \in Time : u \in Nat /\ stamps[u] \in Nat
    BY <1>1, MaxTimeAssumption DEF RateInv, RateTypeOK, Time, Counts
  <2>2. CASE GetRateLimit # stamps
    <3>1. GetRateLimit = NoStamps
      BY <2>2 DEF GetRateLimit
    <3>2. Valid(NoStamps, clock) = NoStamps
      BY DEF Valid, NoStamps
    <3> QED
      BY <2>1, <3>1, <3>2, TotalOfNone
  <2>3. ASSUME GetRateLimit = stamps, NEW e \in Time, stamps[e] > 0, e + config.window <= refusal.retryAt
        PROVE  Total(Valid(GetRateLimit, clock)) < config.limit
    <3>1. /\ Valid(stamps, clock) \in Counts /\ Valid(stamps, clock)[e] = 0
          /\ \A u \in Time : Valid(stamps, clock)[u] <= stamps[u]
      <4>1. ~ (e + config.window > clock)
        BY <1>1, <2>1, <2>3
      <4> QED
        BY <2>1, <4>1, ValidList
    <3>2. Total(Valid(stamps, clock)) < Total(stamps)
      BY <2>1, <2>3, <3>1, TotalMonotone
    <3>3. Total(stamps) <= config.limit
      BY <1>1 DEF RateInv, OneCheck
    <3> QED
      BY <2>1, <2>3, <3>1, <3>2, <3>3, TotalNat
  <2>4. ASSUME GetRateLimit = stamps,
               \A u \in Time : stamps[u] > 0 => u + config.window <= refusal.retryAt
        PROVE  Total(Valid(GetRateLimit, clock)) < config.limit
    <3>1. \A u \in Time : u + config.window > clock => stamps[u] = 0
      BY <1>1, <2>1, <2>4
    <3>2. Valid(stamps, clock) = NoStamps
      BY <3>1 DEF Valid, NoStamps
    <3> QED
      BY <2>1, <2>4, <3>2, TotalOfNone
  <2>5. refusal.retryAt <= MaxTime
    BY <1>1, <2>1
  <2> QED
    BY <1>1, <2>2, <2>3, <2>4, <2>5 DEF RateInv, PromiseInv
<1>2. RateInv => RetryAfterHonest
  BY <1>1 DEF RetryAfterHonest
<1> QED
  BY <1>2, RateInvariant, PTL

-----------------------------------------------------------------------------
(* The exports: the chain head covers the rows, and the jobs implement the *)
(* life cycle a client may rely on.                                        *)
Statuses == {"none", "queued", "running", "done", "error"}
Steps == {"idle", "queued", "history", "head", "build", "ended", "delivered"}

ExportTypeOK ==
    /\ journal \in 0 .. MaxJournal
    /\ jobs \in [Export -> [status : Statuses, data : Data \cup {NoData}]]
    /\ worker \in [Export -> [step : Steps, rows : 0 .. MaxJournal, head : 0 .. NoHead]]

(* What a worker has read lies within the journal, the rows below the      *)
(* head.                                                                   *)
ReadsInv ==
    \A x \in Export :
        /\ worker[x].step = "head" => worker[x].rows <= journal
        /\ worker[x].step \in {"build", "delivered"} /\ worker[x].head # NoHead =>
              worker[x].rows <= worker[x].head /\ worker[x].head <= journal

(* How far the record of a job can be when its goroutine is at a step, and *)
(* that only a finished job has data.                                      *)
RecordInv ==
    \A x \in Export :
        /\ worker[x].step = "idle" => jobs[x].status = "none"
        /\ worker[x].step = "queued" => jobs[x].status = "queued"
        /\ worker[x].step \in {"history", "head", "build"} =>
              jobs[x].status \in {"none", "queued", "running"}
        /\ jobs[x].status # "done" => jobs[x].data = NoData
        /\ jobs[x].status = "done" =>
              /\ jobs[x].data \in Data
              /\ jobs[x].data.head # NoHead =>
                    jobs[x].data.rows <= jobs[x].data.head /\ jobs[x].data.head <= journal

ExportInv == ExportTypeOK /\ ReadsInv /\ RecordInv

xNext == ExportJobsNext \/ (Tick /\ UNCHANGED exportVars)
xVars == <<platformVars, exportVars>>

(* The data of a job that has not finished is not the data of any export.  *)
LEMMA DataTypes == NoData \notin Data /\ \A rows \in 0 .. MaxJournal, head \in 0 .. NoHead :
                                          [rows |-> rows, head |-> head] \in Data
  BY MaxJournalAssumption DEF NoData, Data

LEMMA ExportInvInit == ExportJobsInit => ExportInv
  BY MaxJournalAssumption
  DEF NoHead, ExportJobsInit, ExportInv, ExportTypeOK, ReadsInv, RecordInv, NoJob, Idle, Statuses, Steps

LEMMA ExportInvStep == ExportInv /\ [xNext]_xVars => ExportInv'
<1> SUFFICES ASSUME ExportInv, [xNext]_xVars PROVE ExportInv'
  OBVIOUS
<1> USE MaxJournalAssumption DEF NoHead, Data, ExportInv, ExportTypeOK, ReadsInv, RecordInv, Statuses, Steps
<1>1. CASE AppendEntry
  BY <1>1 DEF AppendEntry
<1>2. CASE Crash
  BY <1>2 DEF Crash, Idle
<1>3. ASSUME NEW x \in Export, HandleCreateExportJob(x) PROVE ExportInv'
  BY <1>3 DEF HandleCreateExportJob, Step, SaveExportJob
<1>4. ASSUME NEW x \in Export, AnswerCreate(x) PROVE ExportInv'
  BY <1>4 DEF AnswerCreate
<1>5. ASSUME NEW x \in Export, HandleExport(x) PROVE ExportInv'
  BY <1>5 DEF HandleExport, Step
<1>6. ASSUME NEW x \in Export, RunJob(x) PROVE ExportInv'
  <2>1. CASE SaveExportJob(x, "running")
    BY <1>6, <2>1 DEF RunJob, Step, SaveExportJob
  <2>2. CASE UNCHANGED jobs
    BY <1>6, <2>2 DEF RunJob, Step
  <2> QED
    BY <1>6, <2>1, <2>2 DEF RunJob, Ignored
<1>7. ASSUME NEW x \in Export, ReadHistory(x) PROVE ExportInv'
  <2>r. PICK rows \in {journal, 0} : worker' = [worker EXCEPT ![x].step = "head", ![x].rows = rows]
    BY <1>7 DEF ReadHistory
  <2> DEFINE w == [worker[x] EXCEPT !.step = "head", !.rows = rows]
  <2>0. worker' = [worker EXCEPT ![x] = w] /\ UNCHANGED <<journal, jobs>>
    BY <1>7, <2>r DEF ReadHistory
  <2>v. worker[x] \in [step : Steps, rows : 0 .. MaxJournal, head : 0 .. NoHead] /\ rows \in 0 .. MaxJournal
    OBVIOUS
  <2>w. w \in [step : Steps, rows : 0 .. MaxJournal, head : 0 .. NoHead]
    BY <2>v
  <2>1. ExportTypeOK'
    BY <2>0, <2>w
  <2>2. ReadsInv'
    BY <1>7 DEF ReadHistory
  <2>3. RecordInv'
    BY <1>7 DEF ReadHistory
  <2> QED
    BY <2>1, <2>2, <2>3
<1>8. ASSUME NEW x \in Export, ReadChainHead(x) PROVE ExportInv'
  <2>r. PICK head \in {journal, NoHead} : worker' = [worker EXCEPT ![x].step = "build", ![x].head = head]
    BY <1>8 DEF ReadChainHead
  <2> DEFINE w == [worker[x] EXCEPT !.step = "build", !.head = head]
  <2>0. worker' = [worker EXCEPT ![x] = w] /\ UNCHANGED <<journal, jobs>>
    BY <1>8, <2>r DEF ReadChainHead
  <2>v. worker[x] \in [step : Steps, rows : 0 .. MaxJournal, head : 0 .. NoHead] /\ head \in 0 .. NoHead
    OBVIOUS
  <2>w. w \in [step : Steps, rows : 0 .. MaxJournal, head : 0 .. NoHead]
    BY <2>v
  <2>1. ExportTypeOK'
    BY <2>0, <2>w
  <2>2. ReadsInv'
    BY <1>8 DEF ReadChainHead
  <2>3. RecordInv'
    BY <1>8 DEF ReadChainHead
  <2> QED
    BY <2>1, <2>2, <2>3
<1>9. ASSUME NEW x \in Export, FinishJob(x) PROVE ExportInv'
  <2>1. CASE SaveExportJobResult(x, "done", BuildSessionExport(worker[x]))
    BY <1>9, <2>1, DataTypes DEF FinishJob, Step, SaveExportJobResult, BuildSessionExport
  <2>2. CASE SaveExportJobResult(x, "error", NoData)
    BY <1>9, <2>2 DEF FinishJob, Step, SaveExportJobResult
  <2>3. CASE UNCHANGED jobs
    BY <1>9, <2>3 DEF FinishJob, Step
  <2> QED
    BY <1>9, <2>1, <2>2, <2>3 DEF FinishJob, Ignored
<1>10. ASSUME NEW x \in Export, Deliver(x) PROVE ExportInv'
  BY <1>10 DEF Deliver, Step
<1>11. CASE UNCHANGED exportVars
  BY <1>11 DEF exportVars
<1> QED
  BY <1>1, <1>2, <1>3, <1>4, <1>5, <1>6, <1>7, <1>8, <1>9, <1>10, <1>11
  DEF xNext, xVars, ExportJobsNext

LEMMA ExportInvariant == ExportJobsSpec => []ExportInv
<1>1. PlatformInit /\ ExportJobsInit => ExportInv
  BY ExportInvInit
<1> QED
  BY <1>1, ExportInvStep, PTL DEF ExportJobsSpec, xNext, xVars

(* handleExport and the goroutine of handleCreateExportJob read the        *)
(* history before the chain head: in whatever way the journal grows in     *)
(* between, the head printed in an export covers all its rows.             *)
THEOREM ExportHeadCovers == ExportJobsSpec => []HeadCoversRows
<1>1. ExportInv => HeadCoversRows
  BY DEF ExportInv, ExportTypeOK, ReadsInv, RecordInv, HeadCoversRows, Delivered,
         BuildSessionExport
<1> QED
  BY <1>1, ExportInvariant, PTL

LEMMA LifecycleStep == ExportInv /\ ExportInv' /\ [xNext]_xVars => [Lifecycle!Next]_Lifecycle!vars
<1> SUFFICES ASSUME ExportInv, ExportInv', [xNext]_xVars
             PROVE  [Lifecycle!Next]_Lifecycle!vars
  OBVIOUS
<1> USE DEF ExportInv, ExportTypeOK
<1>1. CASE UNCHANGED jobs
  BY <1>1 DEF Lifecycle!vars
<1>2. ASSUME NEW x \in Export, HandleCreateExportJob(x) PROVE Lifecycle!Submit(x)
  BY <1>2 DEF HandleCreateExportJob, Step, SaveExportJob, Lifecycle!Submit
<1>3. ASSUME NEW x \in Export, RunJob(x), SaveExportJob(x, "running") PROVE Lifecycle!Start(x)
  BY <1>3 DEF RunJob, Step, SaveExportJob, RecordInv, Lifecycle!Start
<1>4. ASSUME NEW x \in Export, FinishJob(x),
             SaveExportJobResult(x, "done", BuildSessionExport(worker[x]))
      PROVE  \E r \in Data : Lifecycle!Finish(x, r)
  <2>1. PICK r \in Data : r = BuildSessionExport(worker[x])
    BY DataTypes DEF BuildSessionExport
  <2>2. jobs[x].status \in {"queued", "running"}
    BY <1>4 DEF FinishJob, Step, RecordInv
  <2>3. jobs' = [jobs EXCEPT ![x] = [status |-> "done", data |-> r]]
    BY <1>4, <2>1 DEF SaveExportJobResult
  <2>4. Lifecycle!Finish(x, r)
    BY <2>2, <2>3 DEF Lifecycle!Finish
  <2> QED
    BY <2>4
<1>5. ASSUME NEW x \in Export, FinishJob(x), SaveExportJobResult(x, "error", NoData)
      PROVE  Lifecycle!Fail(x)
  BY <1>5 DEF FinishJob, Step, SaveExportJobResult, RecordInv, Lifecycle!Fail
<1>6. ASSUME NEW x \in Export,
             \/ Lifecycle!Submit(x) \/ Lifecycle!Start(x) \/ Lifecycle!Fail(x)
             \/ \E r \in Data : Lifecycle!Finish(x, r)
      PROVE  Lifecycle!Next
  BY <1>6 DEF Lifecycle!Next
<1>7. ASSUME NEW x \in Export, FinishJob(x) PROVE Lifecycle!Next \/ UNCHANGED jobs
  <2>1. CASE SaveExportJobResult(x, "done", BuildSessionExport(worker[x]))
    BY <1>4, <1>6, <1>7, <2>1
  <2>2. CASE SaveExportJobResult(x, "error", NoData)
    BY <1>5, <1>6, <1>7, <2>2
  <2> QED
    BY <1>7, <2>1, <2>2 DEF FinishJob, Ignored
<1>8. ASSUME NEW x \in Export, RunJob(x) PROVE Lifecycle!Next \/ UNCHANGED jobs
  BY <1>3, <1>6, <1>8 DEF RunJob, Ignored
<1>9. Lifecycle!Next \/ UNCHANGED jobs
  BY <1>2, <1>6, <1>7, <1>8
  DEF xNext, xVars, exportVars, ExportJobsNext, AppendEntry, AnswerCreate, HandleExport,
      ReadHistory, ReadChainHead, Deliver, Crash
<1> QED
  BY <1>1, <1>9

(* The records of the export jobs implement the abstract life cycle: a job *)
(* ends at most once, with its data in place at that moment, whatever      *)
(* writes fail and whenever the server stops.                              *)
THEOREM JobsRefine == ExportJobsSpec => JobsImplemented
<1>1. PlatformInit /\ ExportJobsInit => Lifecycle!Init
  BY DEF ExportJobsInit, Lifecycle!Init, NoJob
<1> QED
  BY <1>1, LifecycleStep, ExportInvariant, PTL
  DEF ExportJobsSpec, JobsImplemented, Lifecycle!Spec, xNext, xVars

-----------------------------------------------------------------------------
(* The usage counters: every request is counted once or known to be        *)
(* missed.                                                                 *)

(* What the series shows up to an instant, in buckets of some width.       *)
InBucket(g, to, width, b) ==
    [m \in Time |-> IF 1 <= m /\ m <= to /\ m \div width = b THEN g[m] ELSE 0]
Points(g, to, width) == [b \in Time |-> Total(InBucket(g, to, width, b))]
Shown(g, to, width) == Total(InBucket(g, to, width, 0)) + Total(Points(g, to, width))

LEMMA ShownIs ==
    /\ \A width : HandleGetUsageTimeseries(1, clock, width) = Shown(series, clock, width)
    /\ \A width : HandleGetUsageTimeseries(1, clock, width)' = Shown(series', clock', width)
BY DEF HandleGetUsageTimeseries, GetOrgMetricTimeseries, Shown, Points, InBucket

LEMMA BucketType ==
    ASSUME NEW g \in Counts, NEW to, NEW width, NEW b
    PROVE  InBucket(g, to, width, b) \in Counts
BY DEF Counts, InBucket

LEMMA ShownNat ==
    ASSUME NEW g \in Counts, NEW to, NEW width
    PROVE  /\ Points(g, to, width) \in Counts
           /\ Total(InBucket(g, to, width, 0)) \in Nat /\ Total(Points(g, to, width)) \in Nat
           /\ Shown(g, to, width) \in Nat
<1>1. \A b : Total(InBucket(g, to, width, b)) \in Nat
  BY BucketType, TotalNat
<1>2. Points(g, to, width) \in Counts
  BY <1>1 DEF Points, Counts
<1> QED
  BY <1>1, <1>2, TotalNat DEF Shown

(* One more in minute n raises the one point of its bucket.                *)
LEMMA ShownOneMore ==
    ASSUME NEW g \in Counts, NEW to \in Time, NEW width \in Nat \ {0}, NEW n \in Time, n <= to
    PROVE  Shown([g EXCEPT ![n] = @ + 1], to, width) = Shown(g, to, width) + 1
<1>0. PICK h : h = [g EXCEPT ![n] = @ + 1]
  OBVIOUS
<1>1. PICK k : k = n \div width
  OBVIOUS
<1>2. k \in 0 .. MaxTime /\ n \in Nat /\ n >= 1 /\ MaxTime \in Nat
  BY <1>1, MaxTimeAssumption DEF Time
<1>3. h \in Counts
  BY <1>0 DEF Counts
<1>4. InBucket(h, to, width, k) = [InBucket(g, to, width, k) EXCEPT ![n] = @ + 1]
  BY <1>0, <1>1, <1>2 DEF InBucket, Counts
<1>5. \A b : b # k => InBucket(h, to, width, b) = InBucket(g, to, width, b)
  BY <1>0, <1>1 DEF InBucket, Counts
<1>6. Total(InBucket(h, to, width, k)) = Total(InBucket(g, to, width, k)) + 1
  BY <1>4, BucketType, TotalOneMore
<1>7. CASE k = 0
  <2>1. Points(h, to, width) = Points(g, to, width)
    <3>1. \A b \in Time : b # k
      BY <1>7 DEF Time
    <3> QED
      BY <1>5, <3>1 DEF Points
  <2> QED
    BY <1>0, <1>6, <1>7, <2>1, ShownNat DEF Shown
<1>8. CASE k # 0
  <2>1. k \in Time
    BY <1>2, <1>8 DEF Time
  <2>2. Points(h, to, width) = [Points(g, to, width) EXCEPT ![k] = @ + 1]
    BY <1>5, <1>6, <2>1 DEF Points
  <2>3. Total(Points(h, to, width)) = Total(Points(g, to, width)) + 1
    BY <2>1, <2>2, ShownNat, TotalOneMore
  <2>4. InBucket(h, to, width, 0) = InBucket(g, to, width, 0)
    BY <1>5, <1>8
  <2> QED
    BY <1>0, <2>3, <2>4, ShownNat DEF Shown
<1> QED
  BY <1>7, <1>8

(* A later end shows nothing more where nothing is counted yet.            *)
LEMMA ShownLater ==
    ASSUME NEW g \in Counts, NEW to \in Time, to + 1 \in Time, NEW width,
           \A m \in Time : m > to => g[m] = 0
    PROVE  Shown(g, to + 1, width) = Shown(g, to, width)
<1>1. \A b : InBucket(g, to + 1, width, b) = InBucket(g, to, width, b)
  BY DEF InBucket, Time
<1> QED
  BY <1>1 DEF Shown, Points

LEMMA ShownNothing == \A width : Shown([m \in Time |-> 0], 1, width) = 0
<1>1. \A width, b : InBucket([m \in Time |-> 0], 1, width, b) = NoStamps
  BY DEF InBucket, NoStamps
<1>2. \A width : Points([m \in Time |-> 0], 1, width) = NoStamps
  BY <1>1, TotalOfNone DEF Points, NoStamps
<1> QED
  BY <1>1, <1>2, TotalOfNone DEF Shown

(* One request moves from step to step.                                    *)
InSteps(f, S) == Cardinality({p \in Client : f[p].step \in S})

LEMMA StepsMove ==
    ASSUME NEW q \in Client, NEW S, NEW f, NEW g,
           \A p \in Client \ {q} : g[p].step = f[p].step
    PROVE  /\ InSteps(f, S) \in Nat /\ InSteps(g, S) \in Nat
           /\ (f[q].step \in S <=> g[q].step \in S) => InSteps(g, S) = InSteps(f, S)
           /\ f[q].step \in S /\ g[q].step \notin S => InSteps(f, S) = InSteps(g, S) + 1
           /\ f[q].step \notin S /\ g[q].step \in S => InSteps(g, S) = InSteps(f, S) + 1
<1> DEFINE A == {p \in Client : f[p].step \in S}
           B == {p \in Client : g[p].step \in S}
<1>1. IsFiniteSet(A) /\ IsFiniteSet(B)
  BY UsageAssumption, FS_Subset
<1>2. /\ (f[q].step \in S <=> g[q].step \in S) => A = B
      /\ f[q].step \in S /\ g[q].step \notin S => A = B \cup {q} /\ q \notin B
      /\ f[q].step \notin S /\ g[q].step \in S => B = A \cup {q} /\ q \notin A
  OBVIOUS
<1>3. InSteps(f, S) = Cardinality(A) /\ InSteps(g, S) = Cardinality(B)
  BY DEF InSteps
<1> HIDE DEF A, B
<1>4. /\ Cardinality(A) \in Nat /\ Cardinality(B) \in Nat
      /\ q \notin A => Cardinality(A \cup {q}) = Cardinality(A) + 1
      /\ q \notin B => Cardinality(B \cup {q}) = Cardinality(B) + 1
  BY <1>1, FS_CardinalityType, FS_AddElement
<1> QED
  BY <1>2, <1>3, <1>4

-----------------------------------------------------------------------------
CountingSteps == {"idle", "total", "commit", "series", "breakdown", "commitBreakdown"}
RequestState == [step : CountingSteps, status : Answers, minute : Nat, seen : Nat]
Counters == {"total", "series", "breakdown"}

(* An increment falls in a minute that has begun; later ones are empty.    *)
UsageTypeOK ==
    /\ clock \in Time
    /\ served \in Nat /\ total \in Nat
    /\ series \in Counts
    /\ breakdown \in [Answers -> Nat]
    /\ missed \in [Counters -> Nat]
    /\ counting \in [Client -> RequestState]
    /\ \A q \in Client : counting[q].step \in {"commit", "series"} => counting[q].minute \in 1 .. clock
    /\ \A m \in Time : m > clock => series[m] = 0

(* Each counter with what it has missed and what is on its way to it.      *)
OnWay == [total |-> {"total", "commit"},
          series |-> {"total", "commit", "series"},
          breakdown |-> {"total", "commit", "series", "breakdown", "commitBreakdown"}]

Balanced(n, m, f, S, s) == n + m + InSteps(f, S) = s

TotalBalance == Balanced(total, missed["total"], counting, OnWay["total"], served)
SeriesBalance(width) ==
    Balanced(Shown(series, clock, width), missed["series"], counting, OnWay["series"], served)
BreakdownBalance ==
    Balanced(breakdown[200] + breakdown[500], missed["breakdown"], counting, OnWay["breakdown"], served)

UsageInv ==
    /\ UsageTypeOK
    /\ TotalBalance /\ (\A width \in Nat \ {0} : SeriesBalance(width)) /\ BreakdownBalance

uNext == UsageNext \/ (Tick /\ UNCHANGED usageVars)
uVars == <<platformVars, usageVars>>

LEMMA UncountedType == Uncounted \in RequestState /\ Uncounted.step = "idle"
BY DEF Uncounted, RequestState, CountingSteps, Answers

LEMMA UsageInitially == PlatformInit /\ UsageInit => UsageInv
<1> SUFFICES ASSUME PlatformInit, UsageInit PROVE UsageInv
  OBVIOUS
<1>1. /\ clock = 1 /\ clock \in Time /\ served = 0 /\ total = 0
      /\ series = [m \in Time |-> 0] /\ series \in Counts
      /\ breakdown \in [Answers -> Nat] /\ breakdown[200] = 0 /\ breakdown[500] = 0
      /\ missed \in [Counters -> Nat] /\ \A c \in Counters : missed[c] = 0
      /\ counting = [q \in Client |-> Uncounted]
  BY MaxTimeAssumption DEF PlatformInit, UsageInit, Time, Counts, Answers, Counters
<1>2. UsageTypeOK
  BY <1>1, UncountedType DEF UsageTypeOK
<1>3. ASSUME NEW S, "idle" \notin S PROVE InSteps(counting, S) = 0
  <2>1. {q \in Client : counting[q].step \in S} = {}
    BY <1>1, <1>3, UncountedType
  <2> QED
    BY <2>1, FS_EmptySet DEF InSteps
<1>4. InSteps(counting, OnWay["total"]) = 0 /\ InSteps(counting, OnWay["series"]) = 0 /\ InSteps(counting, OnWay["breakdown"]) = 0
  BY <1>3 DEF OnWay
<1>5. TotalBalance /\ BreakdownBalance
  BY <1>1, <1>4 DEF TotalBalance, BreakdownBalance, Balanced, Counters
<1>6. \A width \in Nat \ {0} : SeriesBalance(width)
  <2>1. \A width : Shown(series, clock, width) = 0
    BY <1>1, ShownNothing
  <2>2. missed["series"] = 0
    BY <1>1 DEF Counters
  <2>3. Balanced(0, 0, counting, OnWay["series"], 0)
    BY <1>4 DEF Balanced
  <2> QED
    BY <1>1, <2>1, <2>2, <2>3 DEF SeriesBalance
<1> QED
  BY <1>2, <1>5, <1>6 DEF UsageInv

(* A request that goes from step to step takes its one from what is on its *)
(* way to a counter to the counter, or to what the counter has missed.     *)
Bit(step, S) == IF step \in S THEN 1 ELSE 0

Carried(n, m, step, n1, m1, step1, S, a) == n1 + m1 + Bit(step1, S) = n + m + Bit(step, S) + a

LEMMA TallyAdds ==
    ASSUME NEW p \in Nat, NEW p1 \in Nat, NEW w \in Nat, NEW w1 \in Nat,
           NEW before \in {0, 1}, NEW after \in {0, 1}, NEW a \in Nat,
           w1 + before = w + after, p1 + after = p + before + a
    PROVE  p1 + w1 = p + w + a
<1>1. CASE before = 0 /\ after = 0
  BY <1>1
<1>2. CASE before = 0 /\ after = 1
  BY <1>2
<1>3. CASE before = 1 /\ after = 0
  BY <1>3
<1>4. CASE before = 1 /\ after = 1
  BY <1>4
<1> QED
  BY <1>1, <1>2, <1>3, <1>4

LEMMA CounterMove ==
    ASSUME NEW q \in Client, NEW f, NEW g, \A p \in Client \ {q} : g[p].step = f[p].step, NEW S,
           NEW n \in Nat, NEW n1 \in Nat, NEW m \in Nat, NEW m1 \in Nat, NEW s \in Nat, NEW a \in Nat,
           Balanced(n, m, f, S, s), Carried(n, m, f[q].step, n1, m1, g[q].step, S, a)
    PROVE  Balanced(n1, m1, g, S, s + a)
<1>1. PICK w \in Nat, w1 \in Nat : w = InSteps(f, S) /\ w1 = InSteps(g, S)
  BY StepsMove
<1>2. PICK before \in {0, 1}, after \in {0, 1} :
         /\ before = Bit(f[q].step, S) /\ after = Bit(g[q].step, S)
         /\ f[q].step \in S => before = 1
         /\ f[q].step \notin S => before = 0
         /\ g[q].step \in S => after = 1
         /\ g[q].step \notin S => after = 0
  BY DEF Bit
<1>3. w1 + before = w + after
  BY <1>1, <1>2, StepsMove
<1>4. PICK p \in Nat, p1 \in Nat : p = n + m /\ p1 = n1 + m1
  OBVIOUS
<1>5. p + w = s /\ p1 + after = p + before + a
  BY <1>1, <1>2, <1>4, Zenon DEF Balanced, Carried
<1>6. p1 + w1 = p + w + a
  BY <1>3, <1>5, TallyAdds
<1> QED
  BY <1>1, <1>4, <1>5, <1>6, Zenon DEF Balanced

LEMMA UsageMove ==
    ASSUME UsageInv, NEW q \in Client, NEW x \in RequestState,
           counting' = [counting EXCEPT ![q] = x], clock' = clock,
           total' \in Nat, series' \in Counts,
           breakdown' \in [Answers -> Nat], missed' \in [Counters -> Nat],
           x.step \in {"commit", "series"} => x.minute \in 1 .. clock,
           \A m \in Time : m > clock => series'[m] = 0,
           NEW a \in Nat, served' = served + a,
           Carried(total, missed["total"], counting[q].step,
                   total', missed'["total"], x.step, OnWay["total"], a),
           \A width \in Nat \ {0} :
              Carried(Shown(series, clock, width), missed["series"], counting[q].step,
                      Shown(series', clock, width), missed'["series"], x.step, OnWay["series"], a),
           Carried(breakdown[200] + breakdown[500], missed["breakdown"], counting[q].step,
                   breakdown'[200] + breakdown'[500], missed'["breakdown"], x.step,
                   OnWay["breakdown"], a)
    PROVE  UsageInv'
<1>0. UsageTypeOK
  BY DEF UsageInv
<1>1. counting'[q] = x /\ \A p \in Client \ {q} : counting'[p] = counting[p]
  BY <1>0 DEF UsageTypeOK
<1>2. UsageTypeOK'
  <2>1. served' \in Nat
    BY <1>0 DEF UsageTypeOK
  <2>2. counting' \in [Client -> RequestState]
    BY <1>0 DEF UsageTypeOK
  <2>3. \A p \in Client : counting'[p].step \in {"commit", "series"} => counting'[p].minute \in 1 .. clock
    BY <1>0, <1>1 DEF UsageTypeOK
  <2> QED
    BY <1>0, <2>1, <2>2, <2>3 DEF UsageTypeOK
<1>3. /\ served \in Nat /\ total \in Nat
      /\ missed["total"] \in Nat /\ missed["series"] \in Nat /\ missed["breakdown"] \in Nat
      /\ missed'["total"] \in Nat /\ missed'["series"] \in Nat /\ missed'["breakdown"] \in Nat
      /\ breakdown[200] + breakdown[500] \in Nat /\ breakdown'[200] + breakdown'[500] \in Nat
  BY <1>0 DEF UsageTypeOK, Counters, Answers
<1>4. TotalBalance'
  <2>1. Balanced(total, missed["total"], counting, OnWay["total"], served)
    BY DEF UsageInv, TotalBalance
  <2>2. Balanced(total', missed'["total"], counting', OnWay["total"], served')
    BY <1>1, <1>3, <2>1, CounterMove
  <2> QED
    BY <2>2 DEF TotalBalance
<1>5. ASSUME NEW width \in Nat \ {0} PROVE SeriesBalance(width)'
  <2>1. Shown(series, clock, width) \in Nat /\ Shown(series', clock, width) \in Nat
    BY <1>0, ShownNat DEF UsageTypeOK
  <2> QED
    BY <1>1, <1>3, <2>1, CounterMove DEF UsageInv, SeriesBalance
<1>6. BreakdownBalance'
  <2>1. PICK n \in Nat, n1 \in Nat :
           n = breakdown[200] + breakdown[500] /\ n1 = breakdown'[200] + breakdown'[500]
    BY <1>3
  <2>2. /\ Balanced(n, missed["breakdown"], counting, OnWay["breakdown"], served)
        /\ Carried(n, missed["breakdown"], counting[q].step,
                   n1, missed'["breakdown"], counting'[q].step, OnWay["breakdown"], a)
    BY <1>1, <2>1, Zenon DEF UsageInv, BreakdownBalance
  <2>3. Balanced(n1, missed'["breakdown"], counting', OnWay["breakdown"], served')
    BY <1>1, <1>3, <2>2, CounterMove
  <2> QED
    BY <2>1, <2>3, Zenon DEF BreakdownBalance
<1> QED
  BY <1>2, <1>4, <1>5, <1>6 DEF UsageInv

(* The bits of a step.                                                     *)
LEMMA Bits ==
    /\ \A step \in CountingSteps, c \in Counters : Bit(step, OnWay[c]) \in Nat
    /\ \A c \in Counters : Bit("idle", OnWay[c]) = 0 /\ Bit("total", OnWay[c]) = 1
    /\ Bit("commit", OnWay["total"]) = 1 /\ Bit("commit", OnWay["series"]) = 1
    /\ Bit("commit", OnWay["breakdown"]) = 1
    /\ Bit("series", OnWay["total"]) = 0 /\ Bit("series", OnWay["series"]) = 1
    /\ Bit("series", OnWay["breakdown"]) = 1
    /\ Bit("breakdown", OnWay["total"]) = 0 /\ Bit("breakdown", OnWay["series"]) = 0
    /\ Bit("breakdown", OnWay["breakdown"]) = 1
    /\ Bit("commitBreakdown", OnWay["total"]) = 0 /\ Bit("commitBreakdown", OnWay["series"]) = 0
    /\ Bit("commitBreakdown", OnWay["breakdown"]) = 1
BY DEF Bit, OnWay, Counters, CountingSteps

(* A counter that a step leaves alone, one that it raises, and one whose   *)
(* increment it loses.                                                     *)
LEMMA CarriedOver ==
    ASSUME NEW n \in Nat, NEW m \in Nat, NEW step \in CountingSteps, NEW step1 \in CountingSteps,
           NEW c \in Counters
    PROVE  /\ Bit(step, OnWay[c]) = Bit(step1, OnWay[c])
                 => Carried(n, m, step, n, m, step1, OnWay[c], 0)
           /\ Bit(step, OnWay[c]) = 1 /\ Bit(step1, OnWay[c]) = 0
                 => /\ Carried(n, m, step, n + 1, m, step1, OnWay[c], 0)
                    /\ Carried(n, m, step, n, m + 1, step1, OnWay[c], 0)
           /\ Bit(step, OnWay[c]) = 0 /\ Bit(step1, OnWay[c]) = 1
                 => Carried(n, m, step, n, m, step1, OnWay[c], 1)
<1>1. PICK b \in Nat, b1 \in Nat : b = Bit(step, OnWay[c]) /\ b1 = Bit(step1, OnWay[c])
  BY Bits
<1>2. /\ b = b1 => n + m + b1 = n + m + b + 0
      /\ b = 1 /\ b1 = 0 => (n + 1) + m + b1 = n + m + b + 0 /\ n + (m + 1) + b1 = n + m + b + 0
      /\ b = 0 /\ b1 = 1 => n + m + b1 = n + m + b + 1
  OBVIOUS
<1> QED
  BY <1>1, <1>2, Zenon DEF Carried

LEMMA ServedStep ==
    ASSUME UsageInv, NEW q \in Client, NEW status \in Answers, OrgMetricsMiddleware(q, status)
    PROVE  UsageInv'
<1>0. UsageTypeOK
  BY DEF UsageInv
<1> DEFINE x == [counting[q] EXCEPT !.step = "total", !.status = status]
<1>1. x \in RequestState /\ x.step = "total" /\ counting[q].step = "idle"
  BY <1>0 DEF OrgMetricsMiddleware, CountingAt, UsageTypeOK, RequestState, CountingSteps
<1>2. /\ counting' = [counting EXCEPT ![q] = x] /\ clock' = clock /\ served' = served + 1
      /\ total' = total /\ series' = series /\ breakdown' = breakdown /\ missed' = missed
  BY <1>0 DEF OrgMetricsMiddleware, CountingAt, platformVars, UsageTypeOK
<1> HIDE DEF x
<1>3. ASSUME NEW c \in Counters, NEW n \in Nat
      PROVE  Carried(n, missed[c], counting[q].step, n, missed'[c], x.step, OnWay[c], 1)
  BY <1>0, <1>1, <1>2, Bits, CarriedOver DEF UsageTypeOK, CountingSteps
<1>4. /\ total \in Nat /\ breakdown[200] + breakdown[500] \in Nat
      /\ \A width \in Nat \ {0} : Shown(series, clock, width) \in Nat
  BY <1>0, ShownNat DEF UsageTypeOK, Answers
<1>5. /\ Carried(total, missed["total"], counting[q].step,
                 total', missed'["total"], x.step, OnWay["total"], 1)
      /\ Carried(breakdown[200] + breakdown[500], missed["breakdown"], counting[q].step,
                 breakdown'[200] + breakdown'[500], missed'["breakdown"], x.step,
                 OnWay["breakdown"], 1)
      /\ \A width \in Nat \ {0} :
            Carried(Shown(series, clock, width), missed["series"], counting[q].step,
                    Shown(series', clock, width), missed'["series"], x.step, OnWay["series"], 1)
  BY <1>2, <1>3, <1>4 DEF Counters
<1> QED
  BY <1>0, <1>1, <1>2, <1>5, UsageMove DEF UsageTypeOK

(* A step leaves a counter alone, or takes the request to it: the counter  *)
(* is raised, or its increment is lost.                                    *)
Moved(c, step, step1, n, n1) ==
    \/ Bit(step, OnWay[c]) = Bit(step1, OnWay[c]) /\ n1 = n /\ missed'[c] = missed[c]
    \/ /\ Bit(step, OnWay[c]) = 1 /\ Bit(step1, OnWay[c]) = 0
       /\ \/ n1 = n + 1 /\ missed'[c] = missed[c]
          \/ n1 = n /\ missed'[c] = missed[c] + 1

LEMMA CountingStep ==
    ASSUME UsageInv, NEW q \in Client, NEW x \in RequestState,
           counting' = [counting EXCEPT ![q] = x], UNCHANGED <<clock, served>>,
           total' \in Nat, series' \in Counts,
           breakdown' \in [Answers -> Nat], missed' \in [Counters -> Nat],
           x.step \in {"commit", "series"} => x.minute \in 1 .. clock,
           \A m \in Time : m > clock => series'[m] = 0,
           Moved("total", counting[q].step, x.step, total, total'),
           \A width \in Nat \ {0} :
              Moved("series", counting[q].step, x.step,
                    Shown(series, clock, width), Shown(series', clock, width)),
           Moved("breakdown", counting[q].step, x.step,
                 breakdown[200] + breakdown[500], breakdown'[200] + breakdown'[500])
    PROVE  UsageInv'
<1>0. UsageTypeOK
  BY DEF UsageInv
<1>1. /\ counting[q].step \in CountingSteps /\ x.step \in CountingSteps
      /\ \A c \in Counters : missed[c] \in Nat
      /\ served' = served + 0
  BY <1>0 DEF UsageTypeOK, RequestState
<1>2. ASSUME NEW c \in Counters, NEW n \in Nat, NEW n1,
             Moved(c, counting[q].step, x.step, n, n1)
      PROVE  Carried(n, missed[c], counting[q].step, n1, missed'[c], x.step, OnWay[c], 0)
  BY <1>1, <1>2, CarriedOver DEF Moved
<1>3. /\ total \in Nat /\ breakdown[200] + breakdown[500] \in Nat
      /\ \A width \in Nat \ {0} : Shown(series, clock, width) \in Nat
      /\ "total" \in Counters /\ "series" \in Counters /\ "breakdown" \in Counters
  BY <1>0, ShownNat DEF UsageTypeOK, Answers, Counters
<1>4. /\ Carried(total, missed["total"], counting[q].step,
                 total', missed'["total"], x.step, OnWay["total"], 0)
      /\ Carried(breakdown[200] + breakdown[500], missed["breakdown"], counting[q].step,
                 breakdown'[200] + breakdown'[500], missed'["breakdown"], x.step,
                 OnWay["breakdown"], 0)
      /\ \A width \in Nat \ {0} :
            Carried(Shown(series, clock, width), missed["series"], counting[q].step,
                    Shown(series', clock, width), missed'["series"], x.step, OnWay["series"], 0)
  BY <1>2, <1>3
<1> QED
  BY <1>1, <1>4, UsageMove

(* What a step does to the counters it loses, and to its request.          *)
LEMMA Losing ==
    ASSUME UsageTypeOK, NEW S \in SUBSET Counters, Lose(S)
    PROVE  /\ missed' \in [Counters -> Nat]
           /\ \A c \in Counters : missed'[c] = IF c \in S THEN missed[c] + 1 ELSE missed[c]
BY DEF UsageTypeOK, Lose

LEMMA Going ==
    ASSUME UsageTypeOK, NEW q \in Client, NEW step \in CountingSteps, GoTo(q, step)
    PROVE  \E x \in RequestState : /\ counting' = [counting EXCEPT ![q] = x]
                                   /\ x.step = step
<1>0. counting[q] \in RequestState
  BY DEF UsageTypeOK
<1>1. CASE step = "idle"
  BY <1>1, UncountedType DEF GoTo
<1>2. CASE step # "idle"
  <2> DEFINE x == [counting[q] EXCEPT !.step = step, !.seen = 0]
  <2>1. x \in RequestState /\ x.step = step
    BY <1>0 DEF RequestState
  <2>2. counting' = [counting EXCEPT ![q] = x]
    BY <1>2 DEF GoTo, UsageTypeOK
  <2> QED
    BY <2>1, <2>2
<1> QED
  BY <1>1, <1>2

(* A further request in a minute that has begun.                           *)
LEMMA OneMoreInSeries ==
    ASSUME UsageTypeOK, NEW n \in 1 .. clock, series' = [series EXCEPT ![n] = @ + 1]
    PROVE  /\ series' \in Counts
           /\ \A m \in Time : m > clock => series'[m] = 0
           /\ \A width \in Nat \ {0} : Shown(series', clock, width) = Shown(series, clock, width) + 1
<1>1. n \in Time /\ n <= clock /\ clock \in Time /\ series \in Counts /\ clock \in Nat
  BY MaxTimeAssumption DEF UsageTypeOK, Time
<1>2. series' \in Counts /\ \A m \in Time : m # n => series'[m] = series[m]
  BY <1>1 DEF Counts
<1>3. \A m \in Time : m > clock => series'[m] = 0
  BY <1>1, <1>2 DEF UsageTypeOK
<1>4. \A width \in Nat \ {0} :
         Shown([series EXCEPT ![n] = @ + 1], clock, width) = Shown(series, clock, width) + 1
  BY <1>1, ShownOneMore
<1> QED
  BY <1>2, <1>3, <1>4

LEMMA BeginSteps ==
    ASSUME UsageInv, NEW q \in Client, BeginIncrement(q) \/ BeginBreakdown(q)
    PROVE  UsageInv'
<1>0. UsageTypeOK
  BY DEF UsageInv
<1>1. /\ UNCHANGED <<clock, served, total, series, breakdown, missed>>
      /\ counting[q] \in RequestState /\ clock \in 1 .. clock /\ clock \in Nat
      /\ total \in Nat /\ breakdown[counting[q].status] \in Nat
  BY <1>0, MaxTimeAssumption DEF BeginIncrement, BeginBreakdown, CountingAt, platformVars, UsageTypeOK,
     RequestState, Time
<1>2. PICK x \in RequestState :
         /\ counting' = [counting EXCEPT ![q] = x]
         /\ x.step \in {"commit", "series"} => x.minute \in 1 .. clock
         /\ \/ counting[q].step = "total" /\ x.step = "commit"
            \/ counting[q].step = "breakdown" /\ x.step = "commitBreakdown"
  <2>1. CASE BeginIncrement(q)
    <3> DEFINE x == [counting[q] EXCEPT !.step = "commit", !.minute = clock, !.seen = total]
    <3>1. x \in RequestState /\ x.step = "commit" /\ x.minute = clock
      BY <1>1 DEF RequestState, CountingSteps
    <3>2. counting' = [counting EXCEPT ![q] = x] /\ counting[q].step = "total"
      BY <1>0, <2>1 DEF BeginIncrement, CountingAt, UsageTypeOK
    <3> HIDE DEF x
    <3> QED
      BY <1>1, <3>1, <3>2
  <2>2. CASE BeginBreakdown(q)
    <3> DEFINE x == [counting[q] EXCEPT !.step = "commitBreakdown",
                                        !.seen = breakdown[counting[q].status]]
    <3>1. x \in RequestState /\ x.step = "commitBreakdown"
      BY <1>1 DEF RequestState, CountingSteps
    <3>2. counting' = [counting EXCEPT ![q] = x] /\ counting[q].step = "breakdown"
      BY <1>0, <2>2 DEF BeginBreakdown, CountingAt, UsageTypeOK
    <3> HIDE DEF x
    <3> QED
      BY <3>1, <3>2
  <2> QED
    BY <2>1, <2>2
<1>3. ASSUME NEW c \in Counters PROVE Bit(counting[q].step, OnWay[c]) = Bit(x.step, OnWay[c])
  BY <1>2, Bits DEF Counters
<1>4. \A c \in Counters : \A n : Moved(c, counting[q].step, x.step, n, n)
  BY <1>1, <1>3 DEF Moved
<1> QED
  BY <1>0, <1>1, <1>2, <1>4, CountingStep DEF UsageTypeOK, Counters

LEMMA BadgerTotalStep ==
    ASSUME UsageInv, NEW q \in Client, IncrementOrgMetric(q) PROVE UsageInv'
<1>0. UsageTypeOK
  BY DEF UsageInv
<1>1. /\ UNCHANGED <<clock, served, breakdown>> /\ counting[q].step = "commit"
      /\ "breakdown" \in CountingSteps /\ counting[q].minute \in 1 .. clock
  BY <1>0 DEF IncrementOrgMetric, CountingAt, platformVars, UsageTypeOK, CountingSteps
<1>2. PICK x \in RequestState : counting' = [counting EXCEPT ![q] = x] /\ x.step = "breakdown"
  BY <1>0, <1>1, Going DEF IncrementOrgMetric
<1>3. Moved("breakdown", counting[q].step, x.step, breakdown[200] + breakdown[500],
            breakdown'[200] + breakdown'[500]) \/ missed'["breakdown"] # missed["breakdown"]
  BY <1>1, <1>2, Bits DEF Moved
<1>4. CASE /\ total' = counting[q].seen + 1 /\ total = counting[q].seen
           /\ series' = [series EXCEPT ![counting[q].minute] = @ + 1] /\ missed' = missed
  <2>1. total' = total + 1 /\ total' \in Nat
    BY <1>0, <1>4 DEF UsageTypeOK
  <2>2. /\ series' \in Counts /\ \A m \in Time : m > clock => series'[m] = 0
        /\ \A width \in Nat \ {0} : Shown(series', clock, width) = Shown(series, clock, width) + 1
    BY <1>0, <1>1, <1>4, OneMoreInSeries
  <2>3. /\ Moved("total", counting[q].step, x.step, total, total')
        /\ \A width \in Nat \ {0} :
              Moved("series", counting[q].step, x.step,
                    Shown(series, clock, width), Shown(series', clock, width))
    BY <1>1, <1>2, <1>4, <2>1, <2>2, Bits DEF Moved
  <2> QED
    BY <1>0, <1>1, <1>2, <1>3, <1>4, <2>1, <2>2, <2>3, CountingStep DEF UsageTypeOK
<1>5. CASE Lose({"total", "series"}) /\ UNCHANGED <<total, series>>
  <2>1. /\ missed' \in [Counters -> Nat]
        /\ missed'["total"] = missed["total"] + 1 /\ missed'["series"] = missed["series"] + 1
        /\ missed'["breakdown"] = missed["breakdown"]
    BY <1>0, <1>5, Losing DEF Counters
  <2>2. /\ Moved("total", counting[q].step, x.step, total, total')
        /\ \A width \in Nat \ {0} :
              Moved("series", counting[q].step, x.step,
                    Shown(series, clock, width), Shown(series', clock, width))
    BY <1>1, <1>2, <1>5, <2>1, Bits DEF Moved
  <2> QED
    BY <1>0, <1>1, <1>2, <1>3, <1>5, <2>1, <2>2, CountingStep DEF UsageTypeOK
<1> QED
  BY <1>4, <1>5 DEF IncrementOrgMetric

LEMMA PostgresTotalStep ==
    ASSUME UsageInv, NEW q \in Client, IncrementOrgMetricPG(q) PROVE UsageInv'
<1>0. UsageTypeOK
  BY DEF UsageInv
<1>1. /\ UNCHANGED <<clock, served, series, breakdown>> /\ counting[q].step = "total"
      /\ "breakdown" \in CountingSteps /\ counting[q] \in RequestState
      /\ clock \in 1 .. clock /\ clock \in Nat /\ total \in Nat
  BY <1>0, MaxTimeAssumption DEF IncrementOrgMetricPG, CountingAt, platformVars, UsageTypeOK,
     CountingSteps, Time
<1>2. CASE /\ total' = total + 1 /\ missed' = missed
           /\ counting' = [counting EXCEPT ![q].step = "series", ![q].minute = clock]
  <2> DEFINE x == [counting[q] EXCEPT !.step = "series", !.minute = clock]
  <2>1. x \in RequestState /\ x.step = "series" /\ x.minute = clock
    BY <1>1 DEF RequestState, CountingSteps
  <2>2. counting' = [counting EXCEPT ![q] = x]
    BY <1>0, <1>2 DEF UsageTypeOK
  <2> HIDE DEF x
  <2>3. /\ Moved("total", counting[q].step, x.step, total, total')
        /\ \A width \in Nat \ {0} :
              Moved("series", counting[q].step, x.step,
                    Shown(series, clock, width), Shown(series', clock, width))
        /\ Moved("breakdown", counting[q].step, x.step, breakdown[200] + breakdown[500],
                 breakdown'[200] + breakdown'[500])
    BY <1>1, <1>2, <2>1, Bits DEF Moved, Counters
  <2>4. /\ total' \in Nat /\ series' \in Counts
        /\ breakdown' \in [Answers -> Nat] /\ missed' \in [Counters -> Nat]
        /\ \A m \in Time : m > clock => series'[m] = 0
    BY <1>0, <1>1, <1>2 DEF UsageTypeOK
  <2> QED
    BY <1>1, <2>1, <2>2, <2>3, <2>4, CountingStep
<1>3. CASE Lose({"total", "series"}) /\ GoTo(q, "breakdown") /\ UNCHANGED total
  <2>1. PICK x \in RequestState : counting' = [counting EXCEPT ![q] = x] /\ x.step = "breakdown"
    BY <1>0, <1>1, <1>3, Going
  <2>2. /\ missed' \in [Counters -> Nat]
        /\ missed'["total"] = missed["total"] + 1 /\ missed'["series"] = missed["series"] + 1
        /\ missed'["breakdown"] = missed["breakdown"]
    BY <1>0, <1>3, Losing DEF Counters
  <2>3. /\ Moved("total", counting[q].step, x.step, total, total')
        /\ \A width \in Nat \ {0} :
              Moved("series", counting[q].step, x.step,
                    Shown(series, clock, width), Shown(series', clock, width))
        /\ Moved("breakdown", counting[q].step, x.step, breakdown[200] + breakdown[500],
                 breakdown'[200] + breakdown'[500])
    BY <1>1, <1>3, <2>1, <2>2, Bits DEF Moved, Counters
  <2> QED
    BY <1>0, <1>1, <1>3, <2>1, <2>2, <2>3, CountingStep DEF UsageTypeOK
<1> QED
  BY <1>2, <1>3 DEF IncrementOrgMetricPG

LEMMA PostgresSeriesStep ==
    ASSUME UsageInv, NEW q \in Client, IncrementSeriesPG(q) PROVE UsageInv'
<1>0. UsageTypeOK
  BY DEF UsageInv
<1>1. /\ UNCHANGED <<clock, served, total, breakdown>> /\ counting[q].step = "series"
      /\ "breakdown" \in CountingSteps /\ counting[q].minute \in 1 .. clock
  BY <1>0 DEF IncrementSeriesPG, CountingAt, platformVars, UsageTypeOK, CountingSteps
<1>2. PICK x \in RequestState : counting' = [counting EXCEPT ![q] = x] /\ x.step = "breakdown"
  BY <1>0, <1>1, Going DEF IncrementSeriesPG
<1>3. /\ missed' \in [Counters -> Nat] /\ series' \in Counts
      /\ missed'["total"] = missed["total"] /\ missed'["breakdown"] = missed["breakdown"]
      /\ \A m \in Time : m > clock => series'[m] = 0
      /\ \A width \in Nat \ {0} :
            \/ /\ Shown(series', clock, width) = Shown(series, clock, width) + 1
               /\ missed'["series"] = missed["series"]
            \/ /\ Shown(series', clock, width) = Shown(series, clock, width)
               /\ missed'["series"] = missed["series"] + 1
  <2>1. CASE series' = [series EXCEPT ![counting[q].minute] = @ + 1] /\ missed' = missed
    BY <1>0, <1>1, <2>1, OneMoreInSeries DEF UsageTypeOK
  <2>2. CASE Lose({"series"}) /\ UNCHANGED series
    BY <1>0, <2>2, Losing DEF Counters, UsageTypeOK
  <2> QED
    BY <2>1, <2>2 DEF IncrementSeriesPG
<1>4. /\ Moved("total", counting[q].step, x.step, total, total')
      /\ \A width \in Nat \ {0} :
            Moved("series", counting[q].step, x.step,
                  Shown(series, clock, width), Shown(series', clock, width))
      /\ Moved("breakdown", counting[q].step, x.step, breakdown[200] + breakdown[500],
               breakdown'[200] + breakdown'[500])
  BY <1>1, <1>2, <1>3, Bits DEF Moved, Counters
<1> QED
  BY <1>0, <1>1, <1>2, <1>3, <1>4, CountingStep DEF UsageTypeOK

LEMMA BreakdownSteps ==
    ASSUME UsageInv, NEW q \in Client, IncOrgRequestBreakdown(q) \/ IncOrgRequestBreakdownPG(q)
    PROVE  UsageInv'
<1>0. UsageTypeOK
  BY DEF UsageInv
<1>1. PICK s \in Answers : s = counting[q].status
  BY <1>0 DEF UsageTypeOK, RequestState
<1>2. /\ UNCHANGED <<clock, served, total, series>> /\ GoTo(q, "idle")
      /\ counting[q].step \in {"commitBreakdown", "breakdown"} /\ "idle" \in CountingSteps
      /\ \/ breakdown' = [breakdown EXCEPT ![s] = @ + 1] /\ missed' = missed
         \/ Lose({"breakdown"}) /\ breakdown' = breakdown
  BY <1>0, <1>1 DEF IncOrgRequestBreakdown, IncOrgRequestBreakdownPG, CountingAt, platformVars,
     UsageTypeOK, CountingSteps
<1>3. PICK x \in RequestState : counting' = [counting EXCEPT ![q] = x] /\ x.step = "idle"
  BY <1>0, <1>2, Going
<1>4. /\ breakdown' \in [Answers -> Nat] /\ missed' \in [Counters -> Nat]
      /\ missed'["total"] = missed["total"] /\ missed'["series"] = missed["series"]
      /\ \/ /\ breakdown'[200] + breakdown'[500] = breakdown[200] + breakdown[500] + 1
            /\ missed'["breakdown"] = missed["breakdown"]
         \/ /\ breakdown'[200] + breakdown'[500] = breakdown[200] + breakdown[500]
            /\ missed'["breakdown"] = missed["breakdown"] + 1
  <2>1. CASE breakdown' = [breakdown EXCEPT ![s] = @ + 1] /\ missed' = missed
    BY <1>0, <2>1 DEF UsageTypeOK, Answers
  <2>2. CASE Lose({"breakdown"}) /\ breakdown' = breakdown
    BY <1>0, <2>2, Losing DEF Counters, UsageTypeOK
  <2> QED
    BY <1>2, <2>1, <2>2
<1>5. /\ Moved("total", counting[q].step, x.step, total, total')
      /\ \A width \in Nat \ {0} :
            Moved("series", counting[q].step, x.step,
                  Shown(series, clock, width), Shown(series', clock, width))
      /\ Moved("breakdown", counting[q].step, x.step, breakdown[200] + breakdown[500],
               breakdown'[200] + breakdown'[500])
  BY <1>2, <1>3, <1>4, Bits DEF Moved, Counters
<1>6. /\ total' \in Nat /\ series' \in Counts
      /\ \A m \in Time : m > clock => series'[m] = 0
  BY <1>0, <1>2 DEF UsageTypeOK
<1> QED
  BY <1>2, <1>3, <1>4, <1>5, <1>6, CountingStep

LEMMA UsageStep == UsageInv /\ [uNext]_uVars => UsageInv'
<1> SUFFICES ASSUME UsageInv, [uNext]_uVars PROVE UsageInv'
  OBVIOUS
<1>0. UsageTypeOK
  BY DEF UsageInv
<1>1. CASE Tick /\ UNCHANGED usageVars
  <2>1. /\ clock' = clock + 1 /\ clock \in Time /\ clock + 1 \in Time /\ clock \in Nat
        /\ UNCHANGED <<served, total, series, breakdown, counting, missed>>
    BY <1>0, <1>1, MaxTimeAssumption DEF Tick, usageVars, UsageTypeOK, Time
  <2>2. \A width : Shown(series', clock', width) = Shown(series, clock, width)
    BY <1>0, <2>1, ShownLater DEF UsageTypeOK
  <2>3. UsageTypeOK'
    BY <1>0, <2>1 DEF UsageTypeOK, Time
  <2> QED
    BY <2>1, <2>2, <2>3 DEF UsageInv, TotalBalance, SeriesBalance, BreakdownBalance
<1>2. CASE UNCHANGED uVars
  <2>1. UNCHANGED <<clock, served, total, series, breakdown, counting, missed>>
    BY <1>2 DEF uVars, usageVars, platformVars
  <2>2. UsageTypeOK'
    BY <1>0, <2>1 DEF UsageTypeOK
  <2> QED
    BY <2>1, <2>2 DEF UsageInv, TotalBalance, SeriesBalance, BreakdownBalance
<1>3. CASE UsageNext
  BY <1>3, ServedStep, BeginSteps, BadgerTotalStep, PostgresTotalStep, PostgresSeriesStep,
     BreakdownSteps DEF UsageNext
<1> QED
  BY <1>1, <1>2, <1>3 DEF uNext

(* orgMetricsMiddleware: however requests overlap, on either store, and    *)
(* whichever increments conflict or fail, total, series and breakdown each *)
(* account for every request served, once; the series at every width.      *)
THEOREM EveryRequestAccounted == UsageSpec => []CountsAccounted
<1>1. UsageInv => CountsAccounted
  <2> SUFFICES ASSUME UsageInv PROVE CountsAccounted
    OBVIOUS
  <2>1. \A S : Waiting(S) = InSteps(counting, S)
    BY DEF Waiting, InSteps
  <2>2. 1 \in Nat \ {0} /\ Hour \in Nat \ {0}
    BY UsageAssumption
  <2>3. GetOrgUsage + missed.total + Waiting({"total", "commit"}) = served
    BY <2>1, Zenon DEF UsageInv, TotalBalance, Balanced, OnWay, GetOrgUsage
  <2>4. ASSUME NEW width \in {1, Hour}
        PROVE  HandleGetUsageTimeseries(1, clock, width) + missed.series
                 + Waiting({"total", "commit", "series"}) = served
    <3>1. SeriesBalance(width) /\ HandleGetUsageTimeseries(1, clock, width) = Shown(series, clock, width)
      BY <2>2, ShownIs DEF UsageInv
    <3> QED
      BY <2>1, <3>1 DEF SeriesBalance, Balanced, OnWay
  <2>5. GetOrgUsageBreakdown + missed.breakdown
          + Waiting({"total", "commit", "series", "breakdown", "commitBreakdown"}) = served
    BY <2>1 DEF UsageInv, BreakdownBalance, Balanced, OnWay, GetOrgUsageBreakdown
  <2> QED
    BY <2>3, <2>4, <2>5 DEF CountsAccounted
<1>2. UsageSpec => []UsageInv
  BY UsageInitially, UsageStep, PTL DEF UsageSpec, uNext, uVars
<1> QED
  BY <1>1, <1>2, PTL
=============================================================================
