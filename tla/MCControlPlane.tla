--------------------------- MODULE MCControlPlane ---------------------------
(***************************************************************************)
(* The parts of the control plane for model checking.  The parts share the *)
(* platform and nothing else; each behaviour is about one of them and the  *)
(* others rest.                                                            *)
(***************************************************************************)
EXTENDS Listings, Catalogue, ExportJobs, Billing, Records, Accounts, Gateway, SessionViews, Usage, TLC

(* What differs between the backends is followed on both: the listings,    *)
(* accounts, counters, export jobs and the mark of a notification.  On     *)
(* Badger the access log is kept and paged as the activity is, on Postgres *)
(* the activity as the access log: one of the two is followed on each.     *)
BackendFollowed ==
    \/ backend = "badger" /\ (part = "listings" => family # "access")
    \/ /\ backend = "postgres"
       /\ \/ part = "listings" /\ family # "activity"
          \/ part = "records" /\ docKind = "notification"
          \/ part \in {"accounts", "usage", "exports"}

(* Parts that rest have one initial state.  Of two events that say the     *)
(* same, the second shows nothing.  Writes are followed with the limit of  *)
(* the pro plan and the short window only.                                 *)
MCInit ==
    /\ PlatformInit
    /\ ListingsInit
    /\ part # "listings" => family = "activity"
    /\ CatalogueInit
    /\ part # "catalogue" => plan = CHOOSE p \in Plans : TRUE
    /\ ExportJobsInit
    /\ BillingInit
    /\ IF part = "billing" THEN \A d, e \in Event : d # e => eventPlan[d] # eventPlan[e]
       ELSE eventPlan = [e \in Event |-> ""]
    /\ RecordsInit
    /\ part # "records" => docKind = "ticket"
    /\ AccountsInit
    /\ GatewayInit
    /\ method = "POST" => config.limit = ProLimit /\ config.window = 1
    /\ part # "gateway" => method = "POST" /\ shared = "primary"
    /\ ViewsInit
    /\ part # "views" => watched = "slice" /\ facts = NoFacts
    /\ UsageInit
    /\ BackendFollowed

(* The clock matters to retention, the gateway and the counters            *)
(* throughout, to the other listings and the catalogue for the order of    *)
(* two moments, to the views for the age of a slice.                       *)
MCTick ==
    /\ \/ part \in {"gateway", "usage"}
       \/ part = "listings" /\ (family \in Retained \/ clock < 2)
       \/ part = "catalogue" /\ clock < 2
       \/ part = "views" /\ clock < 2 /\ slice.held
    /\ Tick
    /\ UNCHANGED <<listingVars, catalogueVars, exportVars, billingVars, recordVars,
                   accountVars, gatewayVars, viewVars, usageVars>>

(* Only the part a behaviour is about moves.                               *)
MCNext ==
    \/ MCTick
    \/ /\ part = "listings" /\ ListingsNext
       /\ UNCHANGED <<catalogueVars, exportVars, billingVars, recordVars,
                      accountVars, gatewayVars, viewVars, usageVars>>
    \/ /\ part = "catalogue" /\ CatalogueNext
       /\ UNCHANGED <<listingVars, exportVars, billingVars, recordVars,
                      accountVars, gatewayVars, viewVars, usageVars>>
    \/ /\ part = "exports" /\ ExportJobsNext
       /\ UNCHANGED <<listingVars, catalogueVars, billingVars, recordVars,
                      accountVars, gatewayVars, viewVars, usageVars>>
    \/ /\ part = "billing" /\ BillingNext
       /\ UNCHANGED <<listingVars, catalogueVars, exportVars, recordVars,
                      accountVars, gatewayVars, viewVars, usageVars>>
    \/ /\ part = "records" /\ RecordsNext
       /\ UNCHANGED <<listingVars, catalogueVars, exportVars, billingVars,
                      accountVars, gatewayVars, viewVars, usageVars>>
    \/ /\ part = "accounts" /\ AccountsNext
       /\ UNCHANGED <<listingVars, catalogueVars, exportVars, billingVars,
                      recordVars, gatewayVars, viewVars, usageVars>>
    \/ /\ part = "gateway" /\ GatewayNext
       /\ UNCHANGED <<listingVars, catalogueVars, exportVars, billingVars,
                      recordVars, accountVars, viewVars, usageVars>>
    \/ /\ part = "views" /\ ViewsNext
       /\ UNCHANGED <<listingVars, catalogueVars, exportVars, billingVars,
                      recordVars, accountVars, gatewayVars, usageVars>>
    \/ /\ part = "usage" /\ UsageNext
       /\ UNCHANGED <<listingVars, catalogueVars, exportVars, billingVars,
                      recordVars, accountVars, gatewayVars, viewVars>>

allVars == <<platformVars, listingVars, catalogueVars, exportVars, billingVars, recordVars,
             accountVars, gatewayVars, viewVars, usageVars>>

MCSpec == MCInit /\ [][MCNext]_allVars

MCFairSpec == MCSpec /\ ExportJobsFairness /\ BillingFairness

(* One set of requests serves all the parts; they are interchangeable.     *)
Symmetry == Permutations(Request)
=============================================================================
