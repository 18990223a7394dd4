------------------------------ MODULE Accounts ------------------------------
(***************************************************************************)
(* One user account: registration, the invitation it may come from,        *)
(* password change and reset, console tokens and API keys.  Every handler  *)
(* reads the user record, changes it and writes all of it back, and so     *)
(* does, in a goroutine of its own, every request that presents an API     *)
(* key.  An index finds the owner of a key; on Badger SaveUser keeps it,   *)
(* on Postgres the handlers do.  A refusal, for what has run out or for    *)
(* any other reason, changes nothing here.  Registration and invitation    *)
(* take an account that cannot be read for none and write a new one over   *)
(* it; the keys of the old record are then gone from it.                   *)
(***************************************************************************)
EXTENDS Platform, FiniteSets

CONSTANTS
    ApiKey,     \* API keys, numbered as they are generated
    MaxResets,  \* password resets asked for
    Caller,     \* requests in flight
    MaxSaves    \* user records read to be written back

ASSUME AccountsAssumption == ApiKey \subseteq Nat /\ MaxResets \in Nat /\ MaxSaves \in Nat

VARIABLES
    account,    \* the user record
    invitation, \* the invitation for its e-mail address
    keyIndex,   \* keys whose owner the index knows
    calls,      \* calls[c]: what a request has read
    tokens,     \* console tokens: their version, the record they were issued from
                \* and the resets before them
    resets,     \* resets confirmed
    accountMeant, \* the record if every change had been made in place
    handed,     \* keys that were answered to a client
    created,    \* times an account was saved as a new one
    misreads,   \* times an account was taken for missing
    overlap,    \* two writers of the record have overlapped
    indexFault, \* a write of the index has failed
    savesLeft

accountVars == <<account, invitation, keyIndex, calls, tokens, resets, accountMeant,
                 handed, created, misreads, overlap, indexFault, savesLeft>>

NoAccount == [org |-> "none", password |-> 0, version |-> 0, reset |-> 0,
              keys |-> [k \in ApiKey |-> "none"], onboarded |-> FALSE]
NoCall == [op |-> "none", user |-> NoAccount, arg |-> 0, invite |-> "none"]

AccountsInit ==
    /\ account = NoAccount
    /\ invitation = "none"
    /\ keyIndex = {}
    /\ calls = [c \in Caller |-> NoCall]
    /\ tokens = {} /\ handed = {}
    /\ resets = 0 /\ created = 0 /\ misreads = 0
    /\ accountMeant = NoAccount
    /\ overlap = FALSE /\ indexFault = FALSE
    /\ savesLeft = MaxSaves

Exists == account.org # "none"
Writing(c) == calls[c].op \in {"register", "accept", "password", "reset", "confirm",
                               "generate", "revoke", "rotate", "onboard", "touch"}
Doing(c, op) == part = "accounts" /\ calls[c].op = op /\ UNCHANGED platformVars
Done(c) == calls' = [calls EXCEPT ![c] = NoCall]

(* An account without a version, as an accepted invitation makes it, counts*)
(* as version 1.                                                           *)
CurrentUserTokenVersion(u) == IF u.version > 0 THEN u.version ELSE 1
NextUserTokenVersion(u) == CurrentUserTokenVersion(u) + 1
RevokeUserKeys(keys) == [k \in ApiKey |-> IF keys[k] = "live" THEN "revoked" ELSE keys[k]]

LiveKeys(u) == {k \in ApiKey : u.keys[k] = "live"}
RevokedKeys(u) == {k \in ApiKey : u.keys[k] = "revoked"}
NextKey(u) == CHOOSE k \in ApiKey : u.keys[k] = "none" /\ \A j \in ApiKey : u.keys[j] = "none" => k <= j

-----------------------------------------------------------------------------
(* What each operation does to the record it has read.                     *)

(* A new record holds no key of the one it may overwrite.                  *)
GoneKeys(keys) == [k \in ApiKey |-> IF keys[k] = "none" THEN "none" ELSE "gone"]
Register(u) == [NoAccount EXCEPT !.org = "own", !.version = 1, !.keys = GoneKeys(u.keys)]
AcceptInvitation(u) == [NoAccount EXCEPT !.org = "invited", !.keys = GoneKeys(u.keys)]
ChangePassword(u) == [u EXCEPT !.password = 1]
RequestReset(u, n) == [u EXCEPT !.reset = n]
(* Mutant: the version stays, and with it the console tokens.              *)
ConfirmKeepsVersion(u) ==
    [u EXCEPT !.password = 2, !.reset = 0, !.keys = RevokeUserKeys(u.keys)]

ConfirmReset(u) ==
    [u EXCEPT !.password = 2, !.reset = 0, !.version = NextUserTokenVersion(u),
              !.keys = RevokeUserKeys(u.keys)]
GenerateKey(u, k) == [u EXCEPT !.keys[k] = "live"]
RevokeKey(u, k) == [u EXCEPT !.keys[k] = "revoked"]
RotateKey(u, k, new) == [u EXCEPT !.keys[k] = "revoked", !.keys[new] = "live"]
UpdateOnboarding(u) == [u EXCEPT !.onboarded = TRUE]

Updated(op, u, n) ==
    CASE op = "register" -> Register(u)
      [] op = "accept"   -> AcceptInvitation(u)
      [] op = "password" -> ChangePassword(u)
      [] op = "reset"    -> RequestReset(u, n)
      [] op = "confirm"  -> ConfirmReset(u)
      [] op = "generate" -> GenerateKey(u, n)
      [] op = "revoke"   -> RevokeKey(u, n)
      [] op = "rotate"   -> RotateKey(u, n, n + 1)
      [] op = "onboard"  -> UpdateOnboarding(u)
      [] op = "touch"    -> u          \* last_used_at only

-----------------------------------------------------------------------------
(* The store.                                                              *)

GetAPIKeyOwnerByHash(k) == k \in keyIndex

(* Mutant: a field left empty keeps what is stored.                        *)
SaveUserMerged(u) ==
    /\ account' = [u EXCEPT !.reset = IF @ = 0 THEN account.reset ELSE @]
    /\ keyIndex' = IF backend = "badger"
                   THEN (keyIndex \cup LiveKeys(u)) \ RevokedKeys(u)
                   ELSE keyIndex

(* The transaction of Badger indexes the live keys and drops the revoked.  *)
SaveUser(u) ==
    /\ account' = u
    /\ keyIndex' = IF backend = "badger"
                   THEN (keyIndex \cup LiveKeys(u)) \ RevokedKeys(u)
                   ELSE keyIndex

-----------------------------------------------------------------------------
(* The first half of a handler: the record is read and the operation found *)
(* to be possible.                                                         *)
Read(c, op, n) ==
    /\ Doing(c, "none") /\ savesLeft > 0
    /\ savesLeft' = savesLeft - 1
    /\ calls' = [calls EXCEPT ![c] = [op |-> op, user |-> account, arg |-> n,
                                      invite |-> invitation]]
    /\ overlap' = (overlap \/ \E d \in Caller \ {c} : Writing(d))
    /\ UNCHANGED <<account, invitation, keyIndex, resets, accountMeant, handed,
                   created, indexFault>>

(* GetUser finds no account, or fails on the one there is.                 *)
TakenForMissing ==
    \/ ~Exists /\ UNCHANGED misreads
    \/ Exists /\ misreads < MaxFaults /\ misreads' = misreads + 1

HandleRegister(c) == TakenForMissing /\ Read(c, "register", 0) /\ UNCHANGED tokens
HandleAcceptInvitation(c) ==
    invitation = "open" /\ TakenForMissing /\ Read(c, "accept", 0) /\ UNCHANGED tokens

HandleChangePassword(c) == Exists /\ Read(c, "password", 0) /\ UNCHANGED <<tokens, misreads>>
HandleResetRequest(c) ==
    \E n \in 1 .. MaxResets :
        /\ Exists /\ n = account.reset + resets + 1
        /\ Read(c, "reset", n) /\ UNCHANGED <<tokens, misreads>>
HandleResetConfirm(c) ==
    Exists /\ account.reset # 0 /\ Read(c, "confirm", 0) /\ UNCHANGED <<tokens, misreads>>
HandleGenerateKey(c) ==
    /\ Exists /\ \E k \in ApiKey : account.keys[k] = "none"
    /\ Read(c, "generate", NextKey(account)) /\ UNCHANGED <<tokens, misreads>>
HandleRevokeKey(c, k) ==
    /\ Exists /\ account.keys[k] \in {"live", "revoked"}
    /\ Read(c, "revoke", k) /\ UNCHANGED <<tokens, misreads>>
HandleRotateKey(c, k) ==
    /\ Exists /\ account.keys[k] = "live" /\ k + 1 \in ApiKey /\ account.keys[k + 1] = "none"
    /\ Read(c, "rotate", k) /\ UNCHANGED <<tokens, misreads>>
HandleUpdateOnboarding(c) == Exists /\ Read(c, "onboard", 0) /\ UNCHANGED <<tokens, misreads>>

(* A request with an API key: the index finds the owner, the record must   *)
(* hold the key and not revoked.                                           *)
KeyAccepted(k) == GetAPIKeyOwnerByHash(k) /\ account.keys[k] = "live"
AuthenticateKey(c, k) ==
    KeyAccepted(k) /\ Read(c, "touch", k) /\ UNCHANGED <<tokens, misreads>>

(* A console token carries the version of the record it was issued from.   *)
HandleLogin ==
    /\ part = "accounts" /\ Exists
    /\ tokens' = tokens \cup {[version |-> CurrentUserTokenVersion(account), record |-> created,
                               after |-> resets]}
    /\ UNCHANGED <<platformVars, account, invitation, keyIndex, calls, resets, accountMeant,
                   handed, created, misreads, overlap, indexFault, savesLeft>>
TokenAccepted(t) == t.version = CurrentUserTokenVersion(account)

-----------------------------------------------------------------------------
(* The second half.                                                        *)

(* What a request does after its record is saved.                          *)
After(op) == CASE op = "accept" -> "accepted"
               [] op = "generate" -> "index"
               [] op = "rotate" -> "reindex"
               [] op = "revoke" -> "unindex"
               [] OTHER -> "none"

SaveRecord(c) ==
    LET r == calls[c]
    IN  /\ part = "accounts" /\ Writing(c)
        /\ UNCHANGED platformVars
        /\ SaveUser(Updated(r.op, r.user, r.arg))
        /\ accountMeant' = Updated(r.op, accountMeant, r.arg)
        /\ calls' = [calls EXCEPT ![c] = IF After(r.op) = "none" THEN NoCall
                                         ELSE [r EXCEPT !.op = After(r.op), !.user = NoAccount]]
        /\ resets' = IF r.op = "confirm" THEN resets + 1 ELSE resets
        /\ created' = IF r.op \in {"register", "accept"} THEN created + 1 ELSE created
        /\ UNCHANGED <<invitation, tokens, handed, misreads, overlap, indexFault, savesLeft>>

(* Mutant: the index is left to SaveUser.                                  *)
SaveAPIKeyHashLeftOut(c, k) ==
    /\ handed' = handed \cup {k}
    /\ Done(c)
    /\ UNCHANGED <<account, invitation, keyIndex, tokens, resets, accountMeant, created, misreads, overlap,
                   indexFault, savesLeft>>

(* The index follows the record; nobody looks at the error of the write.   *)
SaveAPIKeyHash(c, k) ==
    /\ \/ keyIndex' = keyIndex \cup {k} /\ UNCHANGED indexFault
       \/ UNCHANGED keyIndex /\ indexFault' = TRUE
    /\ handed' = handed \cup {k}
    /\ Done(c)
    /\ UNCHANGED <<account, invitation, tokens, resets, accountMeant, created, misreads, overlap, savesLeft>>

IndexGenerated(c) == Doing(c, "index") /\ SaveAPIKeyHash(c, calls[c].arg)
IndexRotated(c) == Doing(c, "indexNew") /\ SaveAPIKeyHash(c, calls[c].arg + 1)

DeleteAPIKeyHash(c) ==
    /\ Doing(c, "unindex") \/ Doing(c, "reindex")
    /\ keyIndex' = keyIndex \ {calls[c].arg}
    /\ calls' = [calls EXCEPT ![c] = IF @.op = "reindex" THEN [@ EXCEPT !.op = "indexNew"]
                                     ELSE NoCall]
    /\ UNCHANGED <<account, invitation, tokens, resets, accountMeant, handed, created, misreads,
                   overlap, indexFault, savesLeft>>

-----------------------------------------------------------------------------
(* The invitation.                                                         *)

HandleCreateInvitation ==
    /\ part = "accounts" /\ invitation = "none"
    /\ invitation' = "open"
    /\ UNCHANGED <<platformVars, account, keyIndex, calls, tokens, resets, accountMeant, handed,
                   created, misreads, overlap, indexFault, savesLeft>>

(* UpdateInvitation writes the whole invitation that was read.             *)
UpdateInvitation(c, state) ==
    /\ invitation' = state
    /\ Done(c)
    /\ UNCHANGED <<account, keyIndex, tokens, resets, accountMeant, handed, created, misreads,
                   overlap, indexFault, savesLeft>>

FinishAcceptance(c) == Doing(c, "accepted") /\ UpdateInvitation(c, "accepted")

HandleRevokeInvitation(c) ==
    /\ invitation # "none"
    /\ Read(c, "revokeInvitation", 0) /\ UNCHANGED <<tokens, misreads>>
SaveRevocation(c) ==
    /\ Doing(c, "revokeInvitation")
    /\ UpdateInvitation(c, IF calls[c].invite = "accepted" THEN "both" ELSE "revoked")

(* The request dies between two of its calls.                              *)
AbortCall(c) ==
    /\ part = "accounts" /\ calls[c].op # "none"
    /\ Done(c)
    /\ UNCHANGED <<platformVars, account, invitation, keyIndex, tokens, resets, accountMeant,
                   handed, created, misreads, overlap, indexFault, savesLeft>>

AccountsNext ==
    \/ \E c \in Caller :
          \/ HandleRegister(c)
          \/ HandleAcceptInvitation(c)
          \/ HandleChangePassword(c)
          \/ HandleResetRequest(c)
          \/ HandleResetConfirm(c)
          \/ HandleGenerateKey(c)
          \/ HandleUpdateOnboarding(c)
          \/ \E k \in ApiKey :
                HandleRevokeKey(c, k) \/ HandleRotateKey(c, k) \/ AuthenticateKey(c, k)
          \/ SaveRecord(c)
          \/ IndexGenerated(c)
          \/ IndexRotated(c)
          \/ DeleteAPIKeyHash(c)
          \/ HandleRevokeInvitation(c)
          \/ FinishAcceptance(c)
          \/ SaveRevocation(c)
          \/ AbortCall(c)
    \/ HandleLogin
    \/ HandleCreateInvitation

AccountsSpec ==
    PlatformInit /\ AccountsInit
        /\ [][AccountsNext \/ (Tick /\ UNCHANGED accountVars)]_<<platformVars, accountVars>>

-----------------------------------------------------------------------------
(* While no two writers of the record overlap, the record is what its      *)
(* writers meant: a change of one part never brings back an older state of *)
(* another, whatever request dies on the way.                              *)
AccountAsMeant == ~overlap => account = accountMeant

(* A confirmed reset ends what was granted before it: no console token     *)
(* issued earlier from the record is accepted again.  A record written     *)
(* over an account that could not be read starts its versions anew.        *)
ResetEndsSessions ==
    ~overlap => \A t \in tokens :
                    t.record = created /\ t.after < resets => ~TokenAccepted(t)

(* A key that was handed to a client works for as long as its record is    *)
(* live; on Postgres, provided the write of the index did not fail.        *)
HandedKeysWork ==
    ~overlap /\ (backend = "postgres" => ~indexFault)
        => \A k \in handed : account.keys[k] = "live" => KeyAccepted(k)

(* One e-mail address gets one account: a second one is made only by       *)
(* requests that overlap or could not read the first.                      *)
OneAccount == ~overlap => created <= 1 + misreads

(* A revoked invitation stays revoked, unless it was still open when a     *)
(* request that now accepts it read it.                                    *)
Revoked(state) == state \in {"revoked", "both"}
RevocationStays ==
    [][(Revoked(invitation) /\ ~Revoked(invitation'))
          => (\E c \in Caller : calls[c].op = "accepted" /\ calls[c].invite = "open")]_accountVars
=============================================================================
