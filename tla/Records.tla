------------------------------ MODULE Records -------------------------------
(***************************************************************************)
(* The documents the console edits: the organisation with its settings,    *)
(* integrations, policies, support tickets and notifications.  A patch     *)
(* reads the document, changes the fields it was given and writes the      *)
(* whole document back; deletions and other patches come in between.  A    *)
(* behaviour follows one document.                                         *)
(***************************************************************************)
EXTENDS Platform

CONSTANT Editor   \* requests in flight

VARIABLES
    docKind,   \* what the document is
    doc,       \* the document in the store
    edit,      \* edit[q]: the document a request has read and its change
    meant,     \* the document if every change had been made in place
    raced      \* two requests on the document have overlapped

recordVars == <<docKind, doc, edit, meant, raced>>

Settings == {"retention", "rate"}
NoSettings == [k \in Settings |-> 0]
NewDoc(name, flag) == [state |-> "live", name |-> name, flag |-> flag, map |-> NoSettings]
NoDoc == [NewDoc("", FALSE) EXCEPT !.state = "none"]
NoEdit == [op |-> "none", seen |-> NoDoc]

RecordsInit ==
    /\ docKind \in {"organization", "integration", "policy", "ticket", "notification"}
    /\ doc = IF docKind = "organization" THEN NewDoc("a", FALSE) ELSE NoDoc
    /\ edit = [q \in Editor |-> NoEdit]
    /\ meant = doc
    /\ raced = FALSE

OnKind(kinds) == part = "records" /\ docKind \in kinds /\ UNCHANGED <<platformVars, docKind>>
LiveDoc(d) == d.state = "live"
Busy(q) == \E p \in Editor \ {q} : edit[p].op # "none"

-----------------------------------------------------------------------------
(* The store: whole documents, on Badger under a key of their own, on      *)
(* Postgres as rows that an upsert replaces.                               *)

Found(d) == LiveDoc(d)

(* Mutant: the upsert leaves a column out.                                 *)
SaveWithoutFlag(d) == doc' = [d EXCEPT !.state = "live", !.flag = doc.flag]

SaveDocument(d) == doc' = [d EXCEPT !.state = "live"]
DeleteDocument == doc' = [doc EXCEPT !.state = IF @ = "none" THEN @ ELSE "deleted"]

-----------------------------------------------------------------------------
(* What a patch does to the document it has read.                          *)
Change(op, d) ==
    CASE op = "rename"   -> [d EXCEPT !.name = "b"]
      [] op = "flag"     -> [d EXCEPT !.flag = TRUE]
      [] op = "unflag"   -> [d EXCEPT !.flag = FALSE]
      [] op = "replace"  -> [d EXCEPT !.map = [k \in Settings |-> 1]]
      [] op \in Settings -> [d EXCEPT !.map[op] = 1]

PatchOrg == {"rename", "flag", "unflag"}                 \* name, is_suspended
PatchOrgSettings == Settings                             \* merged key by key
PatchIntegration == {"rename", "flag", "unflag", "replace"} \* name, enabled, config
PatchPolicy == {"rename", "flag", "unflag", "replace"}   \* name, enabled, rules
PatchTicket == {"flag", "unflag"}                        \* status

(* A request reads the document; one that is not there is a 404.           *)
ReadFor(q, op) ==
    /\ edit[q].op = "none" /\ Found(doc)
    /\ edit' = [edit EXCEPT ![q] = [op |-> op, seen |-> doc]]
    /\ raced' = (raced \/ Busy(q))
    /\ UNCHANGED <<doc, meant>>

HandlePatchOrg(q, op) ==
    OnKind({"organization"}) /\ op \in PatchOrg /\ ReadFor(q, op)

HandlePatchOrgSettings(q, op) ==
    OnKind({"organization"}) /\ op \in PatchOrgSettings /\ ReadFor(q, op)

HandlePatchIntegration(q, op) ==
    OnKind({"integration"}) /\ op \in PatchIntegration /\ ReadFor(q, op)

HandlePatchPolicy(q, op) ==
    OnKind({"policy"}) /\ op \in PatchPolicy /\ ReadFor(q, op)

HandlePatchTicket(q, op) ==
    OnKind({"ticket"}) /\ op \in PatchTicket /\ ReadFor(q, op)

(* The second half of every patch: the document read earlier, changed, is  *)
(* saved in place of whatever is there now.                                *)
SavePatched(q) ==
    /\ OnKind({"organization", "integration", "policy", "ticket"}) /\ edit[q].op # "none"
    /\ SaveDocument(Change(edit[q].op, edit[q].seen))
    /\ meant' = IF LiveDoc(meant) THEN Change(edit[q].op, meant) ELSE meant
    /\ edit' = [edit EXCEPT ![q] = NoEdit]
    /\ UNCHANGED raced

-----------------------------------------------------------------------------
Create(kind, d) ==
    /\ OnKind({kind}) /\ doc.state = "none"
    /\ SaveDocument(d)
    /\ meant' = d
    /\ UNCHANGED <<edit, raced>>

HandleCreateIntegration == \E flag \in BOOLEAN : Create("integration", NewDoc("a", flag))
HandleCreatePolicy == \E flag \in BOOLEAN : Create("policy", NewDoc("a", flag))
HandleCreateTicket == Create("ticket", NewDoc("a", FALSE))
CreateNotification == Create("notification", NewDoc("a", FALSE))

Delete(kind) ==
    /\ OnKind({kind}) /\ LiveDoc(doc)
    /\ DeleteDocument
    /\ meant' = [meant EXCEPT !.state = "deleted"]
    /\ raced' = (raced \/ \E q \in Editor : edit[q].op # "none")
    /\ UNCHANGED edit

HandleDeleteIntegration == Delete("integration")
HandleDeletePolicy == Delete("policy")
RetentionDelete == Delete("notification")

(* Badger marks a notification in one transaction; Postgres reads it and   *)
(* updates the row, if there still is one.                                 *)
MarkNotificationRead ==
    /\ OnKind({"notification"}) /\ backend = "badger" /\ Found(doc)
    /\ SaveDocument(Change("flag", doc))
    /\ meant' = Change("flag", meant)
    /\ UNCHANGED <<edit, raced>>

MarkNotificationReadPG(q) ==
    OnKind({"notification"}) /\ backend = "postgres" /\ ReadFor(q, "flag")

UpdateNotificationPG(q) ==
    /\ OnKind({"notification"}) /\ edit[q].op # "none"
    /\ IF Found(doc) THEN SaveDocument(Change("flag", edit[q].seen)) ELSE UNCHANGED doc
    /\ meant' = IF LiveDoc(meant) THEN Change("flag", meant) ELSE meant
    /\ edit' = [edit EXCEPT ![q] = NoEdit]
    /\ UNCHANGED raced

RecordsNext ==
    \/ \E q \in Editor, op \in {"rename", "flag", "unflag", "replace"} \cup Settings :
          \/ HandlePatchOrg(q, op)
          \/ HandlePatchOrgSettings(q, op)
          \/ HandlePatchIntegration(q, op)
          \/ HandlePatchPolicy(q, op)
          \/ HandlePatchTicket(q, op)
    \/ \E q \in Editor :
          \/ SavePatched(q)
          \/ MarkNotificationReadPG(q)
          \/ UpdateNotificationPG(q)
    \/ HandleCreateIntegration
    \/ HandleCreatePolicy
    \/ HandleCreateTicket
    \/ CreateNotification
    \/ HandleDeleteIntegration
    \/ HandleDeletePolicy
    \/ RetentionDelete
    \/ MarkNotificationRead

RecordsSpec ==
    /\ PlatformInit /\ RecordsInit
    /\ [][RecordsNext \/ (Tick /\ UNCHANGED recordVars)]_<<platformVars, recordVars>>

-----------------------------------------------------------------------------
(* While requests on a document do not overlap, each patch changes what it *)
(* was given and nothing else: a change of the settings keeps the          *)
(* suspension, a change of one setting keeps the others, and what was      *)
(* deleted stays deleted.                                                  *)
PatchesKeepRest == ~raced => doc = meant
=============================================================================
