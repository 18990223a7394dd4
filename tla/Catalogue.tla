----------------------------- MODULE Catalogue ------------------------------
(***************************************************************************)
(* The catalogue of an organisation's sessions: creation under the limit   *)
(* of the plan, implicit creation by the first request on an unknown       *)
(* session, changes of name and description, archiving.  A request reads   *)
(* the catalogue and writes it in two steps, and requests overlap.  What   *)
(* cannot be read counts as empty.  The cache of engines that archiving    *)
(* also empties belongs to SessionStore.                                   *)
(***************************************************************************)
EXTENDS Platform, FiniteSets, FiniteSetsExt

CONSTANTS
    Plans,       \* plans of the organisation; "none": no billing record
    Session,     \* session ids, numbered
    Patched,     \* the sessions whose labels clients change
    Fields,      \* the labels they change; the two are alike
    Request,     \* requests in flight
    FreeMax,     \* 50: sessions of the free plan
    ProMax,      \* 500: sessions of the pro plan
    ListCap,     \* 200: the longest page of ListOrgSessions
    ListDefault  \* 50: the page for any longer limit

ASSUME CatalogueAssumption ==
    /\ Plans \subseteq {"none", "free", "pro", "enterprise"}
    /\ Patched \subseteq Session /\ Session \subseteq Nat
    /\ Fields \subseteq {"name", "description"}
    /\ IsFiniteSet(Request) /\ Request # {}
    /\ {FreeMax, ProMax} \subseteq Nat \ {0} /\ {ListCap, ListDefault} \subseteq Nat
    /\ FreeMax + 1 <= ListCap /\ ListDefault <= ListCap /\ FreeMax <= ProMax

VARIABLES
    plan,      \* the plan of the billing record
    catalogue, \* catalogue[i]: the OrgSessionMeta of session i
    requests,  \* requests[q]: what a request has read
    implicit,  \* sessions that nobody created explicitly
    wanted,    \* wanted[i]: the name and description last asked for
    contended, \* sessions patched by two requests at once
    unseen,    \* sessions whose labels a request could not find, or not save
    blind,     \* creations granted without a listing
    faultsOver \* store calls that may still fail

catalogueVars == <<plan, catalogue, requests, implicit, wanted, contended, unseen, blind,
                   faultsOver>>

Texts == {"", "a"}
Labels == [name : Texts, description : Texts]
NoLabels == [name |-> "", description |-> ""]

NoMeta == [state |-> "none", labels |-> NoLabels, at |-> 0]
NoRequest == [phase |-> "idle"]

CatalogueInit ==
    /\ plan \in Plans
    /\ catalogue = [i \in Session |-> NoMeta]
    /\ requests = [q \in Request |-> NoRequest]
    /\ implicit = {}
    /\ wanted = [i \in Session |-> NoLabels]
    /\ contended = {} /\ unseen = {}
    /\ blind = 0 /\ faultsOver = MaxFaults

Known(i) == catalogue[i].state # "none"
Live == {i \in Session : catalogue[i].state = "live"}

(* The number of sessions a plan allows; 0 stands for no limit.            *)
PlanLimits(p) ==
    CASE p = "pro" -> ProMax
      [] p = "enterprise" -> 0
      [] OTHER -> FreeMax

(* The first page of ListOrgSessions: the live sessions last used first.   *)
Newer(i, j) == \/ catalogue[i].at > catalogue[j].at
               \/ catalogue[i].at = catalogue[j].at /\ i > j
FirstPage(limit) ==
    LET n == IF limit > ListCap THEN ListDefault ELSE limit
    IN  {i \in Live : Cardinality({j \in Live : Newer(j, i)}) < n}

In(p) == part = "catalogue" /\ UNCHANGED <<platformVars, plan>> /\ p

(* The store calls of a request succeed, or one of them fails.             *)
Succeed == UNCHANGED faultsOver
FailOne == faultsOver > 0 /\ faultsOver' = faultsOver - 1

-----------------------------------------------------------------------------
(* The store.                                                              *)

(* SetSessionOrganization and UpsertOrgSessionIndex: an entry that exists  *)
(* is kept.                                                                *)
UpsertOrgSessionMeta(i) ==
    IF Known(i) THEN catalogue[i]
    ELSE [state |-> "live", labels |-> NoLabels, at |-> clock]

TouchOrgSessionMeta(meta) == [meta EXCEPT !.at = clock]

PatchOrgSessionMeta(i, labels) ==
    catalogue' = [catalogue EXCEPT ![i].labels = labels]

-----------------------------------------------------------------------------
(* The handlers.                                                           *)

(* Mutant: one session more than the plan allows.                          *)
WithinPlanInclusive(max) == max = 0 \/ Cardinality(FirstPage(max + 1)) <= max

(* The limit is compared with one page of the listing.                     *)
WithinPlan(max) == max = 0 \/ Cardinality(FirstPage(max + 1)) < max

(* Without a subscription to read, the limit is that of the free plan;     *)
(* without a listing, no session is in the way.  A refused request ends:   *)
(* with 402, or with a panic on the plan of a record that is not there.    *)
HandleCreateSession(q) ==
    /\ In(requests[q].phase = "idle")
    /\ \/ \E max \in {PlanLimits(plan), FreeMax} :
             /\ requests' = [requests EXCEPT
                               ![q] = IF WithinPlan(max) THEN [phase |-> "granted"] ELSE NoRequest]
             /\ IF max = PlanLimits(plan) THEN Succeed ELSE FailOne
             /\ UNCHANGED blind
       \/ /\ FailOne                                 \* the listing
          /\ requests' = [requests EXCEPT ![q] = [phase |-> "granted"]]
          /\ blind' = blind + 1
    /\ UNCHANGED <<catalogue, implicit, wanted, contended, unseen>>

(* The new entry, with its labels or, if saving these fails, without.      *)
(* Without an entry the id is, to the catalogue, one it does not know.     *)
CreateSession(q, labels) ==
    LET i == Min({j \in Session : ~Known(j)})
    IN  /\ In(requests[q].phase = "granted" /\ \E j \in Session : ~Known(j))
        /\ \/ /\ catalogue' = [catalogue EXCEPT
                                 ![i] = [UpsertOrgSessionMeta(i) EXCEPT !.labels = labels]]
              /\ wanted' = [wanted EXCEPT ![i] = labels]
              /\ Succeed /\ UNCHANGED unseen
           \/ /\ catalogue' = [catalogue EXCEPT ![i] = UpsertOrgSessionMeta(i)]
              /\ wanted' = [wanted EXCEPT ![i] = labels]
              /\ FailOne /\ unseen' = unseen \cup {i}
           \/ FailOne /\ UNCHANGED <<catalogue, wanted, unseen>>
        /\ requests' = [requests EXCEPT ![q] = NoRequest]
        /\ UNCHANGED <<implicit, contended, blind>>

(* A request on a session: an unknown id becomes a session of the          *)
(* organisation, whatever the plan says.                                   *)
GetEngine(i) ==
    /\ In(~Known(i) => i = Min({j \in Session : ~Known(j)}))
    /\ catalogue' = [catalogue EXCEPT ![i] = TouchOrgSessionMeta(UpsertOrgSessionMeta(i))]
    /\ implicit' = IF Known(i) THEN implicit ELSE implicit \cup {i}
    /\ UNCHANGED <<requests, wanted, contended, unseen, blind, faultsOver>>

(* Mutant: a patch starts from empty labels.                               *)
LabelsForgotten(i, page) == NoLabels

(* The current labels are looked up on the first page of the listing; a    *)
(* session that is not there has none.                                     *)
CurrentLabels(i, page) == IF i \in page THEN catalogue[i].labels ELSE NoLabels

(* A listing that fails is an empty page.                                  *)
HandlePatchSession(q, i, field) ==
    /\ In(requests[q].phase = "idle" /\ Known(i))
    /\ \E page \in {FirstPage(ListCap), {}} :
          /\ IF page = FirstPage(ListCap) THEN Succeed ELSE FailOne
          /\ requests' = [requests EXCEPT ![q] = [phase |-> "patching", session |-> i,
                                                  field |-> field, labels |-> CurrentLabels(i, page)]]
          /\ unseen' = IF i \in page THEN unseen ELSE unseen \cup {i}
    /\ UNCHANGED <<catalogue, implicit, wanted, contended, blind>>

PatchSession(q, text) ==
    LET r == requests[q]
    IN  /\ In(requests[q].phase = "patching")
        /\ \/ /\ PatchOrgSessionMeta(r.session, [r.labels EXCEPT ![r.field] = text])
              /\ wanted' = [wanted EXCEPT ![r.session][r.field] = text]
              /\ Succeed
           \/ FailOne /\ UNCHANGED <<catalogue, wanted>>          \* 500
        /\ requests' = [requests EXCEPT ![q] = NoRequest]
        /\ contended' = IF \E q2 \in Request \ {q} : /\ requests[q2].phase = "patching"
                                                     /\ requests[q2].session = r.session
                        THEN contended \cup {r.session} ELSE contended
        /\ UNCHANGED <<implicit, unseen, blind>>

HandleDeleteSession(i) ==
    /\ In(Known(i))
    /\ catalogue' = [catalogue EXCEPT ![i].state = "archived"]
    /\ UNCHANGED <<requests, implicit, wanted, contended, unseen, blind, faultsOver>>

CatalogueNext ==
    \/ \E q \in Request :
          \/ HandleCreateSession(q)
          \/ CreateSession(q, [name |-> "a", description |-> ""])
          \/ \E i \in Patched, field \in Fields :
                HandlePatchSession(q, i, field)
          \/ \E text \in Texts : PatchSession(q, text)
    \/ \E i \in Session : GetEngine(i)
    \/ \E i \in Session : HandleDeleteSession(i)

CatalogueSpec ==
    /\ PlatformInit /\ CatalogueInit
    /\ [][CatalogueNext \/ (Tick /\ UNCHANGED catalogueVars)]_<<platformVars, catalogueVars>>

-----------------------------------------------------------------------------
Granted == {q \in Request : requests[q].phase = "granted"}

(* The check of the plan and the creation are two steps, so requests that  *)
(* overlap may exceed the limit of a plan, by one less than their number,  *)
(* and a creation granted without a listing by one more; nothing else      *)
(* does, and sessions that come to be without a creation do not count.     *)
(* The check counts one page of the listing: a plan whose limit is longer  *)
(* than the longest page, as that of the pro plan is, holds nobody back.   *)
OvershootBounded ==
    PlanLimits(plan) > 0 /\ PlanLimits(plan) < ListCap =>
        Cardinality(Live \ implicit) + Cardinality(Granted)
            <= PlanLimits(plan) + Cardinality(Request) - 1 + blind

(* A patch of one label keeps the other, and no touch, upsert or archiving *)
(* loses either, as long as no two requests patch the session at once.  A  *)
(* label that is not what was last asked for is empty, and was lost when   *)
(* the session could not be found on the page or its labels not be saved.  *)
KeptOrEmpty(i, lost, labels, asked) ==
    \A f \in {"name", "description"} : labels[f] = asked[f] \/ (i \in lost /\ labels[f] = "")
PatchKeepsLabels ==
    \A i \in Session \ contended : KeptOrEmpty(i, unseen, catalogue[i].labels, wanted[i])
=============================================================================
