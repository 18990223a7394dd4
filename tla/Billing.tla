------------------------------- MODULE Billing ------------------------------
(***************************************************************************)
(* The billing record of an organisation and its writers: the webhook of   *)
(* the billing service, an admin's patch, and the checkout that records a  *)
(* new Stripe customer.  Each reads the record and writes all of it back.  *)
(* Stripe delivers an event at least once, in no particular order, and     *)
(* again until it is acknowledged; every store call may fail and a handler *)
(* may die between two of them.  The webhook and the patch ignore the      *)
(* error of the read and go on from a fresh record.                        *)
(***************************************************************************)
EXTENDS Platform

CONSTANTS
    Event,    \* Stripe events of one subscription, numbered as they happened
    Handler   \* handlers at work at once

ASSUME BillingAssumption == Event \subseteq Nat \ {0}

VARIABLES
    eventPlan,      \* eventPlan[e]: the plan in the metadata, "" or "deleted"
    billing,   \* the record in the store
    processed, \* events marked as processed
    acked,     \* events answered with 200
    applied,   \* events whose effect was saved
    handler,   \* handler[h]: what a handler is at
    expected,  \* the record as its writers meant it
    orderly,   \* no two writers overlapped, no unmarked event came out of order
    misread,   \* a writer went on from a fresh record although there was one
    faultsLeft \* failing calls and crashes to come

billingVars == <<eventPlan, billing, processed, acked, applied, handler, expected, orderly, misread,
                 faultsLeft>>

NoBilling == [plan |-> "none", customer |-> "", email |-> ""]
FreeBilling(email) == [plan |-> "free", customer |-> "", email |-> email]
Resting == [op |-> "none", event |-> 0, current |-> NoBilling]

BillingInit ==
    /\ eventPlan \in [Event -> {"", "enterprise", "deleted"}]
    /\ billing = NoBilling
    /\ processed = {} /\ acked = {} /\ applied = {}
    /\ handler = [h \in Handler |-> Resting]
    /\ expected = NoBilling
    /\ orderly = TRUE /\ misread = FALSE
    /\ faultsLeft = MaxFaults

ResolvePlan(e) ==
    CASE eventPlan[e] = "deleted" -> "free"
      [] eventPlan[e] = "" -> "pro"
      [] OTHER -> eventPlan[e]

At(h, op) == part = "billing" /\ handler[h].op = op /\ UNCHANGED <<platformVars, eventPlan>>
Rest(h) == handler' = [handler EXCEPT ![h] = Resting]
Alone(h) == \A g \in Handler \ {h} : handler[g].op = "none"

(* The record a writer starts from: the one there is, or a fresh one.      *)
Base(r, email) == IF r = NoBilling THEN FreeBilling(email) ELSE r

(* GetBilling answers, or fails on a record that is there and the writer   *)
(* takes it for missing.                                                   *)
GetBilling(h, op, email) ==
    \/ /\ handler' = [handler EXCEPT ![h].op = op, ![h].current = Base(billing, email)]
       /\ UNCHANGED <<misread, faultsLeft>>
    \/ /\ billing # NoBilling /\ faultsLeft > 0
       /\ handler' = [handler EXCEPT ![h].op = op, ![h].current = FreeBilling(email)]
       /\ misread' = TRUE
       /\ faultsLeft' = faultsLeft - 1

-----------------------------------------------------------------------------
(* The webhook.                                                            *)

(* The event says the plan and the customer; it names no email.            *)
SubscriptionRecord(r, e) == [r EXCEPT !.plan = ResolvePlan(e), !.customer = "stripe"]

(* Mutant: duplicates are not recognised.                                  *)
NeverProcessed(e) == FALSE

IsStripeEventProcessed(e) == e \in processed

(* A duplicate of a processed event is acknowledged at once.               *)
WebhookCheck(h, e) ==
    /\ At(h, "none")
    /\ IF IsStripeEventProcessed(e)
       THEN acked' = acked \cup {e} /\ UNCHANGED handler
       ELSE /\ handler' = [handler EXCEPT ![h].op = "checked", ![h].event = e]
            /\ UNCHANGED acked
    /\ orderly' = (orderly /\ (\/ e \in processed
                               \/ Alone(h) /\ \A d \in applied : d <= e))
    /\ UNCHANGED <<billing, processed, applied, expected, misread, faultsLeft>>

(* Mutant: the event is marked before its effect is saved.                 *)
MarkFirst(h) ==
    /\ At(h, "checked")
    /\ GetBilling(h, "read", "")
    /\ processed' = processed \cup {handler[h].event}
    /\ UNCHANGED <<billing, acked, applied, expected, orderly>>

(* handleSubscriptionEvent reads the record ...                            *)
HandleSubscriptionEvent(h) ==
    /\ At(h, "checked")
    /\ GetBilling(h, "read", "")
    /\ UNCHANGED <<billing, processed, acked, applied, expected, orderly>>

(* ... and saves it with what the event says.  An event older than one     *)
(* that took effect is not meant to change anything.                       *)
SaveSubscription(h) ==
    LET e == handler[h].event
    IN  /\ At(h, "read")
        /\ billing' = SubscriptionRecord(handler[h].current, e)
        /\ expected' = IF \A d \in applied : d <= e
                       THEN SubscriptionRecord(Base(expected, ""), e) ELSE expected
        /\ applied' = applied \cup {e}
        /\ handler' = [handler EXCEPT ![h].op = "saved", ![h].current = NoBilling]
        /\ UNCHANGED <<processed, acked, orderly, misread, faultsLeft>>

(* A failed mark is logged; the event is acknowledged all the same.        *)
MarkStripeEventProcessed(h) ==
    /\ At(h, "saved")
    /\ \/ /\ processed' = processed \cup {handler[h].event}
          /\ UNCHANGED faultsLeft
       \/ /\ faultsLeft > 0 /\ faultsLeft' = faultsLeft - 1
          /\ UNCHANGED processed
    /\ acked' = acked \cup {handler[h].event}
    /\ Rest(h)
    /\ UNCHANGED <<billing, applied, expected, orderly, misread>>

-----------------------------------------------------------------------------
(* The API server.                                                         *)

HandlePatchBilling(h) ==
    /\ At(h, "none")
    /\ GetBilling(h, "patch", "admin")
    /\ orderly' = (orderly /\ Alone(h))
    /\ UNCHANGED <<billing, processed, acked, applied, expected>>

(* A patch names a plan or the email.                                      *)
Patches == {"pro", "email"}
PatchedBilling(r, patch) ==
    IF patch = "email" THEN [r EXCEPT !.email = "patched"] ELSE [r EXCEPT !.plan = patch]

SavePatch(h, patch) ==
    /\ At(h, "patch")
    /\ billing' = PatchedBilling(handler[h].current, patch)
    /\ expected' = PatchedBilling(Base(expected, "admin"), patch)
    /\ Rest(h)
    /\ UNCHANGED <<processed, acked, applied, orderly, misread, faultsLeft>>

(* A customer is created only when a record without one was read.          *)
ResolveStripeCustomer(h) ==
    /\ At(h, "none") /\ billing # NoBilling /\ billing.customer = ""
    /\ handler' = [handler EXCEPT ![h].op = "checkout", ![h].current = billing]
    /\ orderly' = (orderly /\ Alone(h))
    /\ UNCHANGED <<billing, processed, acked, applied, expected, misread, faultsLeft>>

SaveCustomer(h) ==
    /\ At(h, "checkout")
    /\ billing' = [handler[h].current EXCEPT !.customer = "checkout"]
    /\ expected' = [expected EXCEPT !.customer = "checkout"]
    /\ Rest(h)
    /\ UNCHANGED <<processed, acked, applied, orderly, misread, faultsLeft>>

(* The save fails or the handler dies: nothing is acknowledged.  The       *)
(* handler may have saved the record and not marked the event.             *)
Fail(h) ==
    /\ part = "billing" /\ handler[h].op # "none" /\ faultsLeft > 0
    /\ faultsLeft' = faultsLeft - 1
    /\ Rest(h)
    /\ UNCHANGED <<platformVars, eventPlan, billing, processed, acked, applied, expected, orderly,
                   misread>>

WebhookStep(h) ==
    HandleSubscriptionEvent(h) \/ SaveSubscription(h) \/ MarkStripeEventProcessed(h)
ServerStep(h) == SaveCustomer(h) \/ \E patch \in Patches : SavePatch(h, patch)

BillingNext ==
    \E h \in Handler :
        \/ \E e \in Event : WebhookCheck(h, e)
        \/ HandleSubscriptionEvent(h)
        \/ SaveSubscription(h)
        \/ MarkStripeEventProcessed(h)
        \/ HandlePatchBilling(h)
        \/ \E patch \in Patches : SavePatch(h, patch)
        \/ ResolveStripeCustomer(h)
        \/ SaveCustomer(h)
        \/ Fail(h)

BillingSpec ==
    PlatformInit /\ BillingInit
        /\ [][BillingNext \/ (Tick /\ UNCHANGED billingVars)]_<<platformVars, billingVars>>

(* Stripe delivers an event until it is acknowledged, and handlers run.    *)
Redeliver(e) == e \notin acked /\ \E h \in Handler : WebhookCheck(h, e)
BillingFairness ==
    /\ \A e \in Event : SF_<<platformVars, billingVars>>(Redeliver(e))
    /\ \A h \in Handler : WF_<<platformVars, billingVars>>(WebhookStep(h) \/ ServerStep(h))

-----------------------------------------------------------------------------
(* No event is acknowledged or marked before its effect was saved, so an   *)
(* event that fails half-way is delivered again.                           *)
AckedApplied == acked \cup processed \subseteq applied

(* As long as writers do not overlap and no unmarked event comes after a   *)
(* later one, the record is what its writers meant: a redelivered event of *)
(* the past does not undo a later one or a patch, and a handler that died  *)
(* between saving and marking is made good by the retry.  A writer whose   *)
(* read failed puts back what it does not say to the fresh record's: that, *)
(* and nothing else, is lost.                                              *)
Meant(r, s) ==
    \A f \in DOMAIN r :
        r[f] = s[f] \/ (misread /\ r[f] \in {FreeBilling("")[f], FreeBilling("admin")[f]})
OrderlyBilling == orderly => Meant(billing, expected)

(* Every event takes effect, however many of the store calls fail on the   *)
(* way.                                                                    *)
EventsApplied == \A e \in Event : part = "billing" ~> e \in applied
=============================================================================
