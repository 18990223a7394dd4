------------------------------ MODULE Listings ------------------------------
(***************************************************************************)
(* The paged listings of the console and the writers they race: activity,  *)
(* access logs, notifications, session history, the session catalogue and  *)
(* the search documents, on either backend.  Badger hands out the key of   *)
(* the next record as its cursor (the session listing the position of the  *)
(* last one), Postgres hands out an offset.  A client walks one listing    *)
(* page by page while records are written, touched and archived and the    *)
(* retention sweep deletes.                                                *)
(***************************************************************************)
EXTENDS Platform, FiniteSets, FiniteSetsExt

CONSTANTS
    Id,         \* records, numbered: a random id, or the place in the log
    MaxPage,    \* the largest page a client may ask for
    DefaultPage,\* the page served for any other limit
    MaxDays     \* retention settings range over 1 .. MaxDays

ASSUME IdAssumption == IsFiniteSet(Id) /\ Id = 1 .. Cardinality(Id)
ASSUME PageAssumption ==
    MaxPage \in Nat /\ DefaultPage \in 1 .. MaxPage /\ MaxDays \in Nat \ {0}

VARIABLES
    family,  \* the listing the client walks
    recs,    \* recs[i]: what is stored for record i
    days,    \* retention_days of the organisation for this family
    sweep,   \* the retention sweep between its two transactions
    walk     \* the client's walk

listingVars == <<family, recs, days, sweep, walk>>

Filtered == {"activity", "access"}
Retained == Filtered \cup {"notifications"}
Families == Retained \cup {"history", "sessions", "search"}

Start == 0
End == 0

Stored == {i \in Id : recs[i].state = "live"}

(* A position in the order of a listing by time, then by id.               *)
ByTime(i) == recs[i].ts * (Cardinality(Id) + 1) + i

(* Where record i stands: Badger keys a log by the time of the append,     *)
(* Postgres orders activity and access logs by the time stamped on the     *)
(* entry; the other listings go by time and id on both.                    *)
Rank(i) ==
    IF family = "history" \/ (family \in Filtered /\ backend = "badger")
    THEN i ELSE ByTime(i)

Above(i, S) == {j \in S : Rank(j) > Rank(i)}
NewestOf(n, S) == {i \in S : Cardinality(Above(i, S)) < n}

Matches(i, typ) == typ = "" \/ recs[i].typ = typ

(* The limit a listing works with.                                         *)
PageLimit(limit) ==
    IF limit = 0 \/ limit > MaxPage THEN DefaultPage ELSE limit

-----------------------------------------------------------------------------
(* Pages: the records listed, newest first, and the cursor of the next one.*)

(* Mutant: the next cursor is the last key listed.                         *)
KeyPageFromLast(cursor, typ, limit) ==
    LET from == {i \in Stored : cursor = Start \/ Rank(i) <= cursor}
        page == NewestOf(limit, {i \in from : Matches(i, typ)})
    IN  [items |-> page,
         next |-> IF Cardinality(page) < limit THEN End ELSE Min({Rank(i) : i \in page})]

(* A reverse iteration from the key of the cursor; the next cursor is the  *)
(* key after the last one listed.                                          *)
KeyPage(cursor, typ, limit) ==
    LET from == {i \in Stored : cursor = Start \/ Rank(i) <= cursor}
        page == NewestOf(limit, {i \in from : Matches(i, typ)})
        rest == {i \in from : page \subseteq Above(i, from)}
    IN  [items |-> page,
         next |-> IF Cardinality(page) < limit \/ rest = {} THEN End
                  ELSE Max({Rank(i) : i \in rest})]

ListOrgActivityPage(cursor, limit) == KeyPage(cursor, "", PageLimit(limit))

ListAccessLogsPage(cursor, limit) == KeyPage(cursor, "", PageLimit(limit))

GetSessionHistoryPage(cursor, limit, typ) == KeyPage(cursor, typ, PageLimit(limit))

(* The key after the last notification may belong to another family; the   *)
(* page that starts there is empty.  1 is below every notification.        *)
Foreign == 1
ListNotifications(cursor, limit) ==
    LET page == KeyPage(cursor, "", PageLimit(limit))
    IN  IF page.next = End /\ Cardinality(page.items) = PageLimit(limit)
        THEN [page EXCEPT !.next = Foreign] ELSE page

(* The cursor names the last session listed by its time and id; when no    *)
(* session is at that place any more, the listing starts again.            *)
ListOrgSessions(cursor, limit) ==
    LET found == \E i \in Stored : Rank(i) = cursor
        from == {i \in Stored : found => Rank(i) < cursor}
        page == NewestOf(PageLimit(limit), from)
    IN  [items |-> page,
         next |-> IF page # from THEN Min({Rank(i) : i \in page}) ELSE End]

(* Mutant: the next offset counts the extra row that was read ahead.       *)
OffsetPageSkipping(typ, offset, limit) ==
    LET found == {i \in Stored : Matches(i, typ)}
        rest == found \ NewestOf(offset, found)
    IN  [items |-> NewestOf(limit, rest),
         next |-> IF Cardinality(rest) > limit THEN offset + limit + 1 ELSE End]

(* Postgres: LIMIT limit+1 OFFSET offset over the newest first.            *)
OffsetPage(typ, offset, limit) ==
    LET found == {i \in Stored : Matches(i, typ)}
        rest == found \ NewestOf(offset, found)
    IN  [items |-> NewestOf(limit, rest),
         next |-> IF Cardinality(rest) > limit THEN offset + limit ELSE End]

ListOrgActivityPagePG(cursor, limit) == OffsetPage("", cursor, PageLimit(limit))

ListAccessLogsPagePG(cursor, limit) == OffsetPage("", cursor, PageLimit(limit))

ListNotificationsPG(cursor, limit) == OffsetPage("", cursor, PageLimit(limit))

GetSessionHistoryPagePG(cursor, limit, typ) ==
    OffsetPage(typ, cursor, PageLimit(limit))

ListOrgSessionsPG(cursor, limit) == OffsetPage("", cursor, PageLimit(limit))

SearchDocumentsPG(cursor, limit, typ) == OffsetPage(typ, cursor, PageLimit(limit))

(* Badger searches the same way: filter, sort, cut at the offset.          *)
SearchDocuments(cursor, limit, typ) ==
    LET found == {i \in Stored : Matches(i, typ)}
        offset == Min({cursor, Cardinality(found)})
        end == Min({offset + PageLimit(limit), Cardinality(found)})
    IN  [items |-> NewestOf(end, found) \ NewestOf(offset, found),
         next |-> IF end < Cardinality(found) THEN end ELSE End]

StorePage(cursor, limit, typ) ==
    IF backend = "badger"
    THEN CASE family = "activity"      -> ListOrgActivityPage(cursor, limit)
           [] family = "access"        -> ListAccessLogsPage(cursor, limit)
           [] family = "history"       -> GetSessionHistoryPage(cursor, limit, typ)
           [] family = "notifications" -> ListNotifications(cursor, limit)
           [] family = "sessions"      -> ListOrgSessions(cursor, limit)
           [] family = "search"        -> SearchDocuments(cursor, limit, typ)
    ELSE CASE family = "activity"      -> ListOrgActivityPagePG(cursor, limit)
           [] family = "access"        -> ListAccessLogsPagePG(cursor, limit)
           [] family = "history"       -> GetSessionHistoryPagePG(cursor, limit, typ)
           [] family = "notifications" -> ListNotificationsPG(cursor, limit)
           [] family = "sessions"      -> ListOrgSessionsPG(cursor, limit)
           [] family = "search"        -> SearchDocumentsPG(cursor, limit, typ)

(* What lies before the retention window; times never go below zero.       *)
Expired(i, now, window) == recs[i].ts + window < now

(* The handlers of activity and access logs drop what the retention window *)
(* no longer covers and end the walk once they have dropped something.     *)
ApplyCutoff(page) ==
    LET kept == {i \in page.items : ~Expired(i, clock, days)}
    IN  [items |-> kept, next |-> IF kept # page.items THEN End ELSE page.next]

HandleOrgActivity(cursor, limit) == ApplyCutoff(StorePage(cursor, limit, ""))
HandleListAccessLogs(cursor, limit) == ApplyCutoff(StorePage(cursor, limit, ""))

Page(cursor, limit, typ) ==
    CASE family = "activity" -> HandleOrgActivity(cursor, limit)
      [] family = "access"   -> HandleListAccessLogs(cursor, limit)
      [] OTHER               -> StorePage(cursor, limit, typ)

-----------------------------------------------------------------------------
NoSweep == [on |-> FALSE, now |-> 0, days |-> 0]
NoWalk == [phase |-> "idle", cursor |-> Start, limit |-> 0, typ |-> "",
           begun |-> {}, listed |-> {}, twice |-> {}, cut |-> 0, disturbed |-> {}, left |-> 0]

Walking == walk.phase = "walking"

(* Postgres pages by offset, and so does the search on Badger.             *)
Offsets == ~ (backend = "badger" /\ family # "search")

Matching(typ) == {j \in Stored : Matches(j, typ)}

(* The walk makes no claim about a record that was touched or marked while *)
(* it went on.                                                             *)
Disturb(i) ==
    walk' = IF Walking THEN [walk EXCEPT !.disturbed = @ \cup {i}] ELSE walk

BeforeOffset(i) ==
    /\ Offsets /\ i \in Matching(walk.typ)
    /\ Cardinality(Above(i, Matching(walk.typ))) < walk.cursor

(* A row that leaves the listing moves every later one up by one; when it  *)
(* stood before the offset, the row at the offset slips behind it.  The    *)
(* count of these need not go beyond the number of records.                *)
Depart(i) ==
    walk' = IF Walking
            THEN [walk EXCEPT !.disturbed = @ \cup {i},
                              !.left = IF BeforeOffset(i) /\ @ < Cardinality(Id)
                                       THEN @ + 1 ELSE @]
            ELSE walk

ListingsInit ==
    /\ family \in Families
    /\ recs = [i \in Id |-> [ts |-> 0, typ |-> "x", state |-> "absent"]]
    /\ days = 1
    /\ sweep = NoSweep
    /\ walk = NoWalk

-----------------------------------------------------------------------------
(* The writers.                                                            *)

(* The model follows one walk to its end.                                  *)
Open == part = "listings" /\ walk.phase # "done"

Writes(f) == Open /\ family = f /\ UNCHANGED <<platformVars, family, days, sweep>>

Put(i, ts, typ) ==
    recs' = [recs EXCEPT ![i] = [ts |-> ts, typ |-> typ, state |-> "live"]]

Absent(i) == recs[i].state = "absent"

(* The place a log gives to its next record.                               *)
NextPlace(i) == Absent(i) /\ \A j \in Id : j < i => ~Absent(j)

(* The time stamped on an entry may be older than its append.              *)
Stamps == {clock} \cup (IF clock = 1 THEN {} ELSE {clock - 1})

AppendOrgActivity(i, ts) ==
    /\ Writes("activity") /\ NextPlace(i)
    /\ Put(i, ts, "x") /\ UNCHANGED walk

(* Postgres keys an access log entry by its own random id.                 *)
AppendAccessLog(i, ts) ==
    /\ Writes("access") /\ Absent(i)
    /\ backend = "badger" => NextPlace(i)
    /\ Put(i, ts, "x") /\ UNCHANGED walk

AppendHistory(i, ts, typ) ==
    /\ Writes("history") /\ NextPlace(i)
    /\ Put(i, ts, typ) /\ UNCHANGED walk

SaveNotification(i) ==
    /\ Writes("notifications") /\ Absent(i)
    /\ Put(i, clock, "x") /\ UNCHANGED walk

UpsertOrgSessionIndex(i) ==
    /\ Writes("sessions") /\ Absent(i)
    /\ Put(i, clock, "x") /\ UNCHANGED walk

(* Every request on a session moves it to the front; an archived session   *)
(* stays archived.                                                         *)
TouchOrgSession(i) ==
    /\ Writes("sessions")
    /\ recs' = [recs EXCEPT ![i].ts = clock,
                            ![i].state = IF Absent(i) THEN "live" ELSE @]
    /\ Disturb(i)

DeleteOrgSession(i) ==
    /\ Writes("sessions") /\ ~Absent(i)
    /\ recs' = [recs EXCEPT ![i].state = "archived"]
    /\ Depart(i)

(* A document whose status changes leaves the result of a filtered search. *)
UpsertSearchDocuments(i, typ) ==
    /\ Writes("search")
    /\ Put(i, clock, typ)
    /\ IF walk.typ \in {"", typ} THEN Disturb(i) ELSE Depart(i)

(* The retention settings change under the walk.                           *)
ChangeRetention(d) ==
    /\ Open /\ family \in Retained
    /\ days' = d
    /\ UNCHANGED <<platformVars, family, recs, sweep, walk>>

(* The sweep reads the settings of all organisations first and deletes,    *)
(* organisation by organisation, later.  One that finds nothing expired    *)
(* deletes nothing: no entry is stamped that far back.                     *)
EnforceRetention ==
    /\ Open /\ family \in Retained /\ ~sweep.on
    /\ \E i \in Stored : Expired(i, clock, days)
    /\ sweep' = [on |-> TRUE, now |-> clock, days |-> days]
    /\ UNCHANGED <<platformVars, family, recs, days, walk>>

Doomed == {i \in Stored : recs[i].ts > 0 /\ Expired(i, sweep.now, sweep.days)}
DoomedPG == {i \in Stored : Expired(i, sweep.now, sweep.days)}

EnforceRetentionDelete ==
    LET gone == IF backend = "badger" THEN Doomed ELSE DoomedPG
    IN  /\ Open /\ sweep.on
        /\ recs' = [i \in Id |-> IF i \in gone THEN [recs[i] EXCEPT !.state = "deleted"]
                                 ELSE recs[i]]
        /\ sweep' = NoSweep
        /\ UNCHANGED <<platformVars, family, days, walk>>

-----------------------------------------------------------------------------
(* The client.                                                             *)

BeginWalk(limit, typ) ==
    /\ part = "listings" /\ walk.phase = "idle"
    /\ typ # "" => family \in {"history", "search"}
    /\ walk' = [NoWalk EXCEPT !.phase = "walking", !.limit = limit, !.typ = typ,
                              !.begun = {i \in Stored : Matches(i, typ)}]
    /\ UNCHANGED <<platformVars, family, recs, days, sweep>>

NextPage ==
    /\ part = "listings" /\ Walking
    /\ \E page \in {Page(walk.cursor, walk.limit, walk.typ)} :
          walk' = [walk EXCEPT
                     !.phase = IF page.next = End THEN "done" ELSE @,
                     !.cursor = page.next,
                     !.listed = @ \cup page.items,
                     !.twice = @ \cup (page.items \cap walk.listed),
                     !.cut = IF family \in Filtered THEN Max({@, clock - days}) ELSE @]
    /\ UNCHANGED <<platformVars, family, recs, days, sweep>>

Limits == {MaxPage, MaxPage + 1}

ListingsNext ==
    \/ \E i \in Id :
          \/ \E ts \in Stamps :
                \/ AppendOrgActivity(i, ts)
                \/ AppendAccessLog(i, ts)
                \/ \E typ \in {"x", "y"} : AppendHistory(i, ts, typ)
          \/ SaveNotification(i)
          \/ UpsertOrgSessionIndex(i)
          \/ TouchOrgSession(i)
          \/ DeleteOrgSession(i)
          \/ \E typ \in {"x", "y"} : UpsertSearchDocuments(i, typ)
    \/ \E d \in 1 .. MaxDays : ChangeRetention(d)
    \/ EnforceRetention
    \/ EnforceRetentionDelete
    \/ \E limit \in Limits, typ \in {"", "x"} : BeginWalk(limit, typ)
    \/ NextPage

ListingsSpec ==
    PlatformInit /\ ListingsInit
        /\ [][ListingsNext \/ (Tick /\ UNCHANGED listingVars)]_<<platformVars, listingVars>>

-----------------------------------------------------------------------------
Keyed == backend = "badger" /\ family \notin {"sessions", "search"}

(* A walk over a listing that Badger pages by key shows no record twice,   *)
(* whatever is written, marked or deleted between two pages: the next      *)
(* cursor is the key after the last record listed, and new records sort    *)
(* before it or have not been passed yet.                                  *)
ListedOnce == Keyed => walk.twice = {}

(* An older page of the order stopped the walk: an entry stamped before    *)
(* its append is dropped by the cutoff although entries below it are not.  *)
Hidden(i) ==
    \E j \in Id : recs[j].state # "absent" /\ Rank(j) > Rank(i) /\ recs[j].ts < walk.cut

(* What was there when the walk began and was left alone meanwhile, and    *)
(* has neither been shown nor deleted nor fallen out of the window.        *)
Missed ==
    {i \in walk.begun \ walk.disturbed :
        /\ i \notin walk.listed
        /\ recs[i].state # "deleted"
        /\ family \in Filtered => recs[i].ts >= walk.cut /\ ~Hidden(i)}

(* A finished walk has missed no more records than left the listing from   *)
(* before its offset while it went on, and none where Badger pages by key: *)
(* no page boundary, no cursor of either backend, no append, touch, change *)
(* of the settings or retention sweep makes it skip another.               *)
WalkComplete == walk.phase = "done" => Cardinality(Missed) <= walk.left
=============================================================================
