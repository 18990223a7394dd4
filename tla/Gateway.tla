------------------------------ MODULE Gateway -------------------------------
(***************************************************************************)
(* The middleware around a handler, in the order a request meets it: the   *)
(* rate limit, the idempotency record, the slots for concurrent writes.    *)
(* All requests carry one API key and one Idempotency-Key: they are tries  *)
(* of one operation.  Rate limits and records are kept in the primary      *)
(* store or in Redis, which forgets them after a time of its own.          *)
(***************************************************************************)
EXTENDS Platform, FiniteSets, FiniteSetsExt

CONSTANTS
    Try,           \* requests in flight
    MaxTries,      \* requests altogether
    DefaultLimit,  \* 60: requests in a window
    ProLimit,      \* 180: the least limit of the pro plan
    Windows,       \* windows an organisation may set
    RateTTL,       \* 2 minutes: Redis forgets a list of requests
    ReplayWindow,  \* the age up to which a record is replayed
    RecordTTL,     \* 24 hours: Redis forgets a record
    MaxWrites      \* slots for concurrent writes

ASSUME GatewayAssumption ==
    /\ {MaxTries, ProLimit, RateTTL, ReplayWindow, RecordTTL, MaxWrites} \subseteq Nat
    /\ DefaultLimit \in Nat \ {0} /\ Windows \subseteq Nat \ {0}

VARIABLES
    method,     \* "GET" or "POST"
    shared,     \* where rate limits and records are: "primary" or "redis"
    config,     \* the organisation's limit and window, and its limit without a plan
    stamps,     \* the saved list: stamps[t] requests at time t
    stampsAt,   \* when it was saved
    record,     \* the idempotency record
    slots,      \* slots taken
    tries,      \* tries[q]: what a request is at
    triesLeft,
    admitted,   \* admitted[t]: requests the rate limit let pass at time t
    uncounted,  \* uncounted[t]: those of them whose list could not be saved
    refusal,    \* the last refusal: when to retry, and admissions until then
    runs,       \* answers of the handler that were to be recorded
    answers,    \* answers that clients got from the handler or the record
    rateRace,   \* two rate checks overlapped
    runRace,    \* two tries ran at once
    lapses      \* how often an answer was not recorded, or its record not found

gatewayVars == <<method, shared, config, stamps, stampsAt, record, slots, tries, triesLeft, admitted,
                 uncounted, refusal, runs, answers, rateRace, runRace, lapses>>

NoStamps == [t \in Time |-> 0]
NoRecord == [status |-> "none", at |-> 0]
NoTry == [phase |-> "idle", now |-> 0, limit |-> 0, seen |-> NoStamps, status |-> "none"]

EffectiveRateLimitConfig(setting, plan, window) ==
    LET limit == IF setting > 0 THEN setting ELSE DefaultLimit
    IN  [limit |-> IF plan = "pro" /\ limit < ProLimit THEN ProLimit ELSE limit,
         base |-> limit, window |-> window]

GatewayInit ==
    /\ method \in {"GET", "POST"}
    /\ shared \in {"primary", "redis"}
    /\ config \in {EffectiveRateLimitConfig(s, p, w) :
                     s \in {0, 1}, p \in {"free", "pro"}, w \in Windows}
    /\ stamps = NoStamps /\ stampsAt = 0
    /\ record = NoRecord
    /\ slots = 0
    /\ tries = [q \in Try |-> NoTry]
    /\ triesLeft = MaxTries
    /\ admitted = NoStamps /\ uncounted = NoStamps
    /\ refusal = [retryAt |-> MaxTime + 1, admissions |-> 0]
    /\ runs = 0 /\ answers = {}
    /\ rateRace = FALSE /\ runRace = FALSE /\ lapses = 0

AtPhase(q, phase) == part = "gateway" /\ tries[q].phase = phase /\ UNCHANGED <<platformVars, method, shared, config>>
Others(q, phases) == \E p \in Try \ {q} : tries[p].phase \in phases
EndTry(q) == tries' = [tries EXCEPT ![q] = NoTry]

-----------------------------------------------------------------------------
(* checkRateLimit.                                                         *)

GetRateLimit ==
    IF shared = "redis" /\ clock - stampsAt >= RateTTL THEN NoStamps ELSE stamps

(* The requests of the window that ends now; its first instant is outside. *)
Valid(list, now) == [t \in Time |-> IF t + config.window > now /\ t <= now THEN list[t] ELSE 0]

(* A subscription that cannot be read counts as none.                      *)
ReadRateLimit(q) ==
    /\ AtPhase(q, "idle") /\ triesLeft > 0
    /\ triesLeft' = triesLeft - 1
    /\ \E limit \in {config.limit, config.base} :
         tries' = [tries EXCEPT ![q].phase = "rate", ![q].now = clock, ![q].limit = limit,
                                ![q].seen = GetRateLimit]
    /\ rateRace' = (rateRace \/ Others(q, {"rate"}))
    /\ UNCHANGED <<stamps, stampsAt, record, slots, admitted, uncounted, refusal, runs, answers,
                   runRace, lapses>>

(* A list that cannot be read refuses the request, for a whole window.     *)
FailClosed(q) ==
    /\ AtPhase(q, "idle") /\ triesLeft > 0
    /\ triesLeft' = triesLeft - 1
    /\ refusal' = [retryAt |-> clock + config.window, admissions |-> Total(admitted)]
    /\ UNCHANGED <<stamps, stampsAt, record, slots, tries, admitted, uncounted, runs, answers,
                   rateRace, runRace, lapses>>

(* Mutant: come again in a second.                                         *)
RefuseForASecond(q) ==
    /\ AtPhase(q, "rate") /\ Total(Valid(tries[q].seen, tries[q].now)) >= tries[q].limit
    /\ refusal' = [retryAt |-> clock + 1, admissions |-> Total(admitted)]
    /\ EndTry(q)
    /\ UNCHANGED <<stamps, stampsAt, record, slots, triesLeft, admitted, uncounted, runs, answers,
                   rateRace, runRace, lapses>>

(* A full window: the earliest of its requests says when to come again.    *)
Refuse(q) ==
    LET valid == Valid(tries[q].seen, tries[q].now)
        earliest == Min({t \in Time : valid[t] > 0})
    IN  /\ AtPhase(q, "rate") /\ Total(valid) >= tries[q].limit
        /\ refusal' = [retryAt |-> Max({earliest + config.window, clock + 1}),
                       admissions |-> Total(admitted)]
        /\ EndTry(q)
        /\ UNCHANGED <<stamps, stampsAt, record, slots, triesLeft, admitted, uncounted, runs, answers,
                       rateRace, runRace, lapses>>

(* An admitted request joins the saved list; if saving fails it is         *)
(* admitted all the same.                                                  *)
AdmitWith(q, limit, weight) ==
    LET now == tries[q].now
        valid == Valid(tries[q].seen, now)
    IN  /\ AtPhase(q, "rate") /\ Total(valid) < limit
        /\ \/ /\ stamps' = [valid EXCEPT ![now] = @ + weight]
              /\ stampsAt' = clock
              /\ UNCHANGED uncounted
           \/ /\ uncounted' = [uncounted EXCEPT ![now] = @ + 1]
              /\ UNCHANGED <<stamps, stampsAt>>
        /\ admitted' = [admitted EXCEPT ![now] = @ + 1]
        /\ tries' = [tries EXCEPT ![q] = [NoTry EXCEPT !.phase = "admitted"]]
        /\ UNCHANGED <<record, slots, triesLeft, refusal, runs, answers, rateRace, runRace, lapses>>

(* Mutants: one request too many; a request counted twice.                 *)
AdmitInclusive(q) == AdmitWith(q, tries[q].limit + 1, 1)
AdmitTwice(q) == AdmitWith(q, tries[q].limit, 2)

Admit(q) == AdmitWith(q, tries[q].limit, 1)

(* A request that only reads goes straight to its handler.                 *)
ServeRead(q) ==
    /\ AtPhase(q, "admitted") /\ method = "GET"
    /\ EndTry(q)
    /\ UNCHANGED <<stamps, stampsAt, record, slots, triesLeft, admitted, uncounted, refusal, runs, answers,
                   rateRace, runRace, lapses>>

-----------------------------------------------------------------------------
(* idempotencyMiddleware.                                                  *)

(* A record too old is deleted and counts as none.                         *)
Replayable == record # NoRecord /\ clock - record.at <= ReplayWindow
GetIdempotency ==
    IF shared = "redis" /\ clock - record.at >= RecordTTL THEN NoRecord
    ELSE IF Replayable THEN record ELSE NoRecord

Replay(q) ==
    /\ AtPhase(q, "admitted") /\ method = "POST" /\ GetIdempotency # NoRecord
    /\ answers' = answers \cup {GetIdempotency.status}
    /\ EndTry(q)
    /\ UNCHANGED <<stamps, stampsAt, record, slots, triesLeft, admitted, uncounted, refusal, runs,
                   rateRace, runRace, lapses>>

(* Mutant: the record is not found.                                        *)
MissAlways(q) ==
    /\ AtPhase(q, "admitted") /\ method = "POST"
    /\ runRace' = (runRace \/ Others(q, {"missed", "inside", "answered"}))
    /\ tries' = [tries EXCEPT ![q].phase = "missed"]
    /\ UNCHANGED <<stamps, stampsAt, record, slots, triesLeft, admitted, uncounted, refusal, runs, answers,
                   rateRace, lapses>>

(* The handler runs when there is no record and when the lookup fails.     *)
Miss(q) ==
    /\ AtPhase(q, "admitted") /\ method = "POST"
    /\ \/ GetIdempotency = NoRecord /\ record' = NoRecord
       \/ UNCHANGED record                           \* the lookup fails
    /\ lapses' = IF record = NoRecord THEN lapses ELSE lapses + 1
    /\ runRace' = (runRace \/ Others(q, {"missed", "inside", "answered"}))
    /\ tries' = [tries EXCEPT ![q].phase = "missed"]
    /\ UNCHANGED <<stamps, stampsAt, slots, triesLeft, admitted, uncounted, refusal, runs, answers, rateRace>>

(* The answer is recorded unless it is a 5xx or has no text.               *)
PersistIdempotencyResponse(status) == status \in {"ok", "rejected"}

SaveIdempotency(q) ==
    LET status == tries[q].status
    IN  /\ AtPhase(q, "answered")
        /\ \/ /\ PersistIdempotencyResponse(status)
              /\ record' = [status |-> status, at |-> clock]
              /\ UNCHANGED lapses
           \/ /\ PersistIdempotencyResponse(status)   \* the write fails
              /\ lapses' = lapses + 1
              /\ UNCHANGED record
           \/ /\ ~PersistIdempotencyResponse(status)
              /\ UNCHANGED <<record, lapses>>
        /\ answers' = IF PersistIdempotencyResponse(status) THEN answers \cup {status} ELSE answers
        /\ EndTry(q)
        /\ UNCHANGED <<stamps, stampsAt, slots, triesLeft, admitted, uncounted, refusal, runs, rateRace, runRace>>

-----------------------------------------------------------------------------
(* writeLimitMiddleware: a slot or 503; the slot is given back when the    *)
(* handler returns or panics.                                              *)

Inside == {q \in Try : tries[q].phase = "inside"}

TakeSlot(q) ==
    /\ AtPhase(q, "missed") /\ slots < MaxWrites
    /\ slots' = slots + 1
    /\ tries' = [tries EXCEPT ![q].phase = "inside"]
    /\ UNCHANGED <<stamps, stampsAt, record, triesLeft, admitted, uncounted, refusal, runs, answers,
                   rateRace, runRace, lapses>>

Backpressure(q) ==
    /\ AtPhase(q, "missed") /\ slots = MaxWrites
    /\ tries' = [tries EXCEPT ![q].phase = "answered", ![q].status = "unavailable"]
    /\ UNCHANGED <<stamps, stampsAt, record, slots, triesLeft, admitted, uncounted, refusal, runs, answers,
                   rateRace, runRace, lapses>>

ReleaseSlot == slots' = slots - 1

RunHandler(q, status) ==
    /\ AtPhase(q, "inside")
    /\ ReleaseSlot
    /\ runs' = IF PersistIdempotencyResponse(status) THEN runs + 1 ELSE runs
    /\ tries' = [tries EXCEPT ![q].phase = "answered", ![q].status = status]
    /\ UNCHANGED <<stamps, stampsAt, record, triesLeft, admitted, uncounted, refusal, answers, rateRace,
                   runRace, lapses>>

Panic(q) ==
    /\ AtPhase(q, "inside")
    /\ ReleaseSlot
    /\ EndTry(q)
    /\ UNCHANGED <<stamps, stampsAt, record, triesLeft, admitted, uncounted, refusal, runs, answers,
                   rateRace, runRace, lapses>>

GatewayNext ==
    \E q \in Try :
        \/ ReadRateLimit(q)
        \/ FailClosed(q)
        \/ Refuse(q)
        \/ Admit(q)
        \/ ServeRead(q)
        \/ Replay(q)
        \/ Miss(q)
        \/ TakeSlot(q)
        \/ Backpressure(q)
        \/ \E status \in {"ok", "rejected", "error"} : RunHandler(q, status)
        \/ Panic(q)
        \/ SaveIdempotency(q)

GatewaySpec ==
    PlatformInit /\ GatewayInit
        /\ [][GatewayNext \/ (Tick /\ UNCHANGED gatewayVars)]_<<platformVars, gatewayVars>>

-----------------------------------------------------------------------------
(* Requests one after the other exceed the limit in a window by no more    *)
(* than the requests that could not be counted; in Redis, provided the     *)
(* window is no longer than Redis keeps the list.                          *)
WithinRate ==
    part = "gateway" /\ ~rateRace /\ (shared = "redis" => config.window <= RateTTL)
        => \A t \in Time :
             Total(Valid(admitted, t)) <= config.limit + Total(Valid(uncounted, t))

(* However requests overlap and saves fail, a request whose list was read  *)
(* is turned away only when the window really held as many admitted        *)
(* requests as its limit.  (A list that cannot be read refuses at once.)   *)
NoEarlyRefusal ==
    [][\A q \in Try : tries[q].phase = "rate" /\ tries'[q].phase = "idle"
          => Total(Valid(admitted, tries[q].now)) >= tries[q].limit]_gatewayVars

(* A client that comes back when Retry-After says so finds room, whatever  *)
(* it was refused for, if nobody was admitted in between and no two checks *)
(* overlapped.                                                             *)
RetryAfterHonest ==
    part = "gateway" /\ ~rateRace /\ clock >= refusal.retryAt /\ Total(admitted) = refusal.admissions
        => Total(Valid(GetRateLimit, clock)) < config.limit

(* Tries that do not run at once give one answer more than records were    *)
(* lost on them: with every record kept and found, the handler runs to a   *)
(* recordable answer once and every later try replays it, and the tries    *)
(* the write limit or a panic turned away stand in nobody's way.           *)
RunsOnce == ~runRace => runs <= 1 + lapses /\ Cardinality(answers) <= 1 + lapses

(* A slot is taken for exactly as long as a handler runs: neither panics   *)
(* nor refusals leak one, so that writes never stop for good.              *)
SlotsExact == slots = Cardinality(Inside) /\ slots <= MaxWrites
=============================================================================
