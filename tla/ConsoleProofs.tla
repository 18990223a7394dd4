--------------------------- MODULE ConsoleProofs ----------------------------
(***************************************************************************)
(* Proofs about what the console and the billing provider change, for any  *)
(* keys, sessions, events, records and numbers of requests: the user record*)
(* and its keys, the documents, the catalogue of sessions under the limit  *)
(* of the plan, the billing record, a walk over a paged listing.           *)
(***************************************************************************)
EXTENDS Accounts, Records, Catalogue, Billing, Listings, RecursionLemmas

-----------------------------------------------------------------------------
(* The user record: while no two writers overlap it is what its writers    *)
(* meant, a confirmed reset ends the console sessions before it, an address*)
(* gets one account, and a key that was handed out works.                  *)
User == [org : {"none", "own", "invited"}, password : Nat, version : Nat, reset : Nat,
         keys : [ApiKey -> {"none", "live", "revoked", "gone"}], onboarded : BOOLEAN]
WritingOps == {"register", "accept", "password", "reset", "confirm",
               "generate", "revoke", "rotate", "onboard", "touch"}

AccountsTypeOK ==
    /\ account \in User /\ accountMeant \in User
    /\ DOMAIN calls = Caller
    /\ \A c \in Caller : calls[c].op \in WritingOps => calls[c].user \in User
    /\ \A c \in Caller : calls[c].op = "reset" => calls[c].arg \in Nat
    /\ resets \in Nat /\ created \in Nat /\ misreads \in Nat
    /\ tokens \subseteq [version : Nat, record : Nat, after : Nat]

(* At most one writer is at work, and it has read the record as it is; one *)
(* that makes the account has found none, or could not read it.            *)
OneWriter ==
    /\ account = accountMeant
    /\ \A c, d \in Caller : c # d => ~Writing(c) \/ ~Writing(d)
    /\ \A c \in Caller : Writing(c) => calls[c].user = account
    /\ \A c \in Caller : calls[c].op \in {"register", "accept"} => created <= misreads

(* An account is made once, and before any token is issued, and once again *)
(* for every time it could not be read.                                    *)
MadeOnce == created <= 1 + misreads /\ (~Exists => created = 0)

(* Tokens carry versions of the past; those from before a reset of the     *)
(* present record carry lower ones than it has.                            *)
TokensInv ==
    \A t \in tokens :
        /\ t.record <= created
        /\ t.record = created =>
              /\ t.after <= resets
              /\ t.version <= CurrentUserTokenVersion(account)
              /\ t.after < resets => t.version < CurrentUserTokenVersion(account)

AccountsInv == AccountsTypeOK /\ (~overlap => OneWriter /\ MadeOnce /\ TokensInv)

aNext == AccountsNext \/ (Tick /\ UNCHANGED accountVars)
aVars == <<platformVars, accountVars>>

-----------------------------------------------------------------------------
(* What an operation makes of a record.                                    *)
LEMMA UpdatedRecord ==
    ASSUME NEW u \in User, NEW op \in WritingOps, NEW n, op = "reset" => n \in Nat
    PROVE  /\ Updated(op, u, n) \in User
           /\ op \in {"register", "accept"} => Updated(op, u, n).org # "none"
           /\ op \notin {"register", "accept"} => Updated(op, u, n).org = u.org
           /\ op \notin {"register", "accept", "confirm"} => Updated(op, u, n).version = u.version
           /\ op = "confirm" => Updated(op, u, n).version = NextUserTokenVersion(u)
<1> USE DEF User, WritingOps, Updated
<1>0. GoneKeys(u.keys) \in [ApiKey -> {"none", "live", "revoked", "gone"}]
  BY DEF GoneKeys
<1>1. CASE op = "register"
  BY <1>0, <1>1 DEF Register, NoAccount
<1>2. CASE op = "accept"
  BY <1>0, <1>2 DEF AcceptInvitation, NoAccount
<1>3. CASE op = "password"
  BY <1>3 DEF ChangePassword
<1>4. CASE op = "reset"
  BY <1>4 DEF RequestReset
<1>5. CASE op = "confirm"
  <2>1. RevokeUserKeys(u.keys) \in [ApiKey -> {"none", "live", "revoked", "gone"}]
    BY DEF RevokeUserKeys
  <2>2. NextUserTokenVersion(u) \in Nat
    BY DEF NextUserTokenVersion, CurrentUserTokenVersion
  <2> QED
    BY <1>5, <2>1, <2>2 DEF ConfirmReset
<1>6. CASE op = "generate"
  BY <1>6 DEF GenerateKey
<1>7. CASE op = "revoke"
  BY <1>7 DEF RevokeKey
<1>8. CASE op = "rotate"
  BY <1>8 DEF RotateKey
<1>9. CASE op = "onboard"
  BY <1>9 DEF UpdateOnboarding
<1>10. CASE op = "touch"
  BY <1>10
<1> QED
  BY <1>1, <1>2, <1>3, <1>4, <1>5, <1>6, <1>7, <1>8, <1>9, <1>10

LEMMA AccountsInvInit == AccountsInit => AccountsInv
<1> SUFFICES ASSUME AccountsInit PROVE AccountsInv
  OBVIOUS
<1>1. NoAccount \in User
  BY DEF NoAccount, User
<1>2. \A c \in Caller : calls[c].op = "none"
  BY DEF AccountsInit, NoCall
<1>3. AccountsTypeOK
  BY <1>1, <1>2 DEF AccountsInit, AccountsTypeOK, WritingOps
<1>4. OneWriter /\ MadeOnce /\ TokensInv
  BY <1>2 DEF AccountsInit, OneWriter, MadeOnce, TokensInv, Writing
<1> QED
  BY <1>3, <1>4 DEF AccountsInv

-----------------------------------------------------------------------------
(* The first half of every handler.                                        *)
LEMMA ReadStep ==
    ASSUME AccountsInv, UNCHANGED tokens, NEW c \in Caller, NEW op, NEW n, Read(c, op, n),
           op = "reset" => n \in Nat,
           misreads' \in Nat, misreads <= misreads',
           op \in {"register", "accept"} => ~Exists \/ misreads' = misreads + 1
    PROVE  AccountsInv'
<1> USE DEF AccountsInv, AccountsTypeOK
<1>1. /\ UNCHANGED <<account, accountMeant, resets, created, tokens>>
      /\ overlap' = (overlap \/ \E d \in Caller \ {c} : Writing(d))
      /\ calls' = [calls EXCEPT ![c] = [op |-> op, user |-> account, arg |-> n,
                                        invite |-> invitation]]
  BY DEF Read
<1>2. AccountsTypeOK'
  BY <1>1
<1>3. ASSUME ~overlap' PROVE (OneWriter /\ MadeOnce /\ TokensInv)'
  <2>1. ~overlap /\ \A d \in Caller \ {c} : ~Writing(d)
    BY <1>1, <1>3
  <2>2. \A d \in Caller \ {c} : calls'[d] = calls[d]
    BY <1>1
  <2>3. calls'[c].op = op /\ calls'[c].user = account
    BY <1>1
  <2>4. \A d \in Caller : calls'[d].op \in {"register", "accept"} => created' <= misreads'
    <3>1. op \in {"register", "accept"} => created <= misreads'
      BY <2>1 DEF MadeOnce
    <3> QED
      BY <1>1, <2>1, <2>2, <2>3, <3>1 DEF OneWriter
  <2>5. OneWriter'
    BY <1>1, <2>1, <2>2, <2>3, <2>4 DEF OneWriter, Writing
  <2>6. MadeOnce' /\ TokensInv'
    BY <1>1, <2>1 DEF MadeOnce, TokensInv, Exists, CurrentUserTokenVersion
  <2> QED
    BY <2>5, <2>6
<1> QED
  BY <1>2, <1>3

(* The write of the record.                                                *)
LEMMA SaveStep == ASSUME AccountsInv, NEW c \in Caller, SaveRecord(c) PROVE AccountsInv'
<1> USE DEF AccountsInv
<1> DEFINE r == calls[c]
           u == Updated(r.op, r.user, r.arg)
<1>1. /\ account' = u /\ accountMeant' = Updated(r.op, accountMeant, r.arg)
      /\ UNCHANGED <<tokens, misreads, overlap>>
      /\ r.op \in WritingOps
  BY DEF SaveRecord, SaveUser, Writing, WritingOps
<1>2. /\ resets' = IF r.op = "confirm" THEN resets + 1 ELSE resets
      /\ created' = IF r.op \in {"register", "accept"} THEN created + 1 ELSE created
  BY DEF SaveRecord
<1>3. /\ DOMAIN calls' = Caller
      /\ \A d \in Caller \ {c} : calls'[d] = calls[d]
      /\ calls'[c].op \notin WritingOps
  <2>1. After(r.op) \notin WritingOps
    BY DEF After, WritingOps
  <2>2. NoCall.op \notin WritingOps
    BY DEF NoCall, WritingOps
  <2>3. calls' = [calls EXCEPT ![c] = IF After(r.op) = "none" THEN NoCall
                                      ELSE [r EXCEPT !.op = After(r.op), !.user = NoAccount]]
    BY DEF SaveRecord
  <2> QED
    BY <2>1, <2>2, <2>3 DEF AccountsTypeOK
<1>4. u \in User /\ accountMeant' \in User
  BY <1>1, UpdatedRecord DEF AccountsTypeOK
<1>5. AccountsTypeOK'
  BY <1>1, <1>2, <1>3, <1>4 DEF AccountsTypeOK, WritingOps
<1>6. ASSUME ~overlap' PROVE (OneWriter /\ MadeOnce /\ TokensInv)'
  <2>1. /\ OneWriter /\ MadeOnce /\ TokensInv
        /\ r.user = account /\ account = accountMeant /\ account \in User
        /\ r.op = "reset" => r.arg \in Nat
    BY <1>1, <1>6 DEF OneWriter, AccountsTypeOK, Writing, WritingOps
  <2>2. /\ r.op \in {"register", "accept"} => created <= misreads /\ Exists'
        /\ r.op \notin {"register", "accept"} => Exists' = Exists
        /\ r.op \notin {"register", "accept", "confirm"} => account'.version = account.version
        /\ r.op = "confirm" => account'.version = NextUserTokenVersion(account)
    BY <1>1, <2>1, UpdatedRecord DEF OneWriter, Exists
  <2>3. OneWriter'
    BY <1>1, <1>3, <2>1 DEF OneWriter, Writing, WritingOps
  <2>4. MadeOnce'
    BY <1>1, <1>2, <2>1, <2>2 DEF MadeOnce, AccountsTypeOK
  <2>5. TokensInv'
    <3>1. CASE r.op \in {"register", "accept"}
      BY <1>1, <1>2, <2>1, <3>1 DEF TokensInv, AccountsTypeOK
    <3>2. CASE r.op = "confirm"
      BY <1>1, <1>2, <2>1, <2>2, <3>2
      DEF TokensInv, AccountsTypeOK, User, NextUserTokenVersion, CurrentUserTokenVersion
    <3>3. CASE r.op \notin {"register", "accept", "confirm"}
      BY <1>1, <1>2, <2>1, <2>2, <3>3 DEF TokensInv, CurrentUserTokenVersion
    <3> QED
      BY <3>1, <3>2, <3>3
  <2> QED
    BY <2>3, <2>4, <2>5
<1> QED
  BY <1>5, <1>6

(* Steps that leave the record alone and make nobody a writer.             *)
LEMMA OtherStep ==
    ASSUME AccountsInv,
           UNCHANGED <<account, accountMeant, resets, created, misreads, overlap, tokens>>,
           DOMAIN calls' = Caller,
           \A c \in Caller : calls'[c].op \in WritingOps => calls'[c] = calls[c]
    PROVE  AccountsInv'
<1>1. AccountsTypeOK'
  BY DEF AccountsInv, AccountsTypeOK, WritingOps
<1>2. ASSUME ~overlap' PROVE (OneWriter /\ MadeOnce /\ TokensInv)'
  BY <1>2 DEF AccountsInv, OneWriter, MadeOnce, TokensInv, Writing, WritingOps, Exists,
              CurrentUserTokenVersion
<1> QED
  BY <1>1, <1>2 DEF AccountsInv

LEMMA LoginStep == AccountsInv /\ HandleLogin => AccountsInv'
<1> SUFFICES ASSUME AccountsInv, HandleLogin PROVE AccountsInv'
  OBVIOUS
<1> DEFINE t == [version |-> CurrentUserTokenVersion(account), record |-> created,
                 after |-> resets]
<1>1. /\ tokens' = tokens \cup {t} /\ Exists
      /\ UNCHANGED <<account, accountMeant, calls, resets, created, misreads, overlap>>
  BY DEF HandleLogin
<1>2. AccountsTypeOK'
  BY <1>1 DEF AccountsInv, AccountsTypeOK, CurrentUserTokenVersion, User
<1>3. ASSUME ~overlap' PROVE (OneWriter /\ MadeOnce /\ TokensInv)'
  <2>1. OneWriter' /\ MadeOnce'
    BY <1>1, <1>3 DEF AccountsInv, OneWriter, MadeOnce, Writing, Exists
  <2>2. TokensInv'
    BY <1>1, <1>3 DEF AccountsInv, AccountsTypeOK, TokensInv, CurrentUserTokenVersion, User
  <2> QED
    BY <2>1, <2>2
<1> QED
  BY <1>2, <1>3 DEF AccountsInv

LEMMA AccountsInvStep == AccountsInv /\ [aNext]_aVars => AccountsInv'
<1> SUFFICES ASSUME AccountsInv, [aNext]_aVars PROVE AccountsInv'
  OBVIOUS
<1>0. DOMAIN calls = Caller
  BY DEF AccountsInv, AccountsTypeOK
<1>1. ASSUME NEW c \in Caller, HandleRegister(c) \/ HandleAcceptInvitation(c) PROVE AccountsInv'
  BY <1>1, ReadStep
  DEF HandleRegister, HandleAcceptInvitation, TakenForMissing, AccountsInv, AccountsTypeOK
<1>2. ASSUME NEW c \in Caller,
             \/ HandleChangePassword(c) \/ HandleResetRequest(c) \/ HandleResetConfirm(c)
             \/ HandleGenerateKey(c) \/ HandleUpdateOnboarding(c) \/ HandleRevokeInvitation(c)
      PROVE  AccountsInv'
  BY <1>2, ReadStep, AccountsAssumption
  DEF HandleChangePassword, HandleResetRequest, HandleResetConfirm, HandleGenerateKey,
      HandleUpdateOnboarding, HandleRevokeInvitation, AccountsInv, AccountsTypeOK
<1>3. ASSUME NEW c \in Caller, NEW k \in ApiKey,
             HandleRevokeKey(c, k) \/ HandleRotateKey(c, k) \/ AuthenticateKey(c, k)
      PROVE  AccountsInv'
  BY <1>3, ReadStep
  DEF HandleRevokeKey, HandleRotateKey, AuthenticateKey, AccountsInv, AccountsTypeOK
<1>4. ASSUME NEW c \in Caller, SaveRecord(c) PROVE AccountsInv'
  BY <1>4, SaveStep
<1>5. ASSUME NEW c \in Caller, Done(c),
             UNCHANGED <<account, accountMeant, resets, created, misreads, overlap, tokens>>
      PROVE  AccountsInv'
  BY <1>0, <1>5, OtherStep DEF Done, NoCall, WritingOps
<1>6. ASSUME NEW c \in Caller,
             \/ IndexGenerated(c) \/ IndexRotated(c) \/ FinishAcceptance(c)
             \/ SaveRevocation(c) \/ AbortCall(c)
      PROVE  AccountsInv'
  BY <1>5, <1>6
  DEF IndexGenerated, IndexRotated, SaveAPIKeyHash, FinishAcceptance, SaveRevocation,
      UpdateInvitation, AbortCall
<1>7. ASSUME NEW c \in Caller, DeleteAPIKeyHash(c) PROVE AccountsInv'
  <2>1. calls' = [calls EXCEPT ![c] = IF @.op = "reindex" THEN [@ EXCEPT !.op = "indexNew"]
                                      ELSE NoCall]
    BY <1>7 DEF DeleteAPIKeyHash
  <2>2. calls'[c].op \notin WritingOps
    BY <1>0, <2>1 DEF NoCall, WritingOps
  <2>3. DOMAIN calls' = Caller /\ \A d \in Caller \ {c} : calls'[d] = calls[d]
    BY <1>0, <2>1
  <2> QED
    BY <1>7, <2>2, <2>3, OtherStep DEF DeleteAPIKeyHash
<1>8. CASE HandleLogin
  BY <1>8, LoginStep
<1>9. CASE HandleCreateInvitation \/ UNCHANGED accountVars
  BY <1>0, <1>9, OtherStep DEF HandleCreateInvitation, accountVars
<1> QED
  BY <1>1, <1>2, <1>3, <1>4, <1>6, <1>7, <1>8, <1>9 DEF aNext, aVars, AccountsNext

LEMMA AccountsInvariant == AccountsSpec => []AccountsInv
<1>1. PlatformInit /\ AccountsInit => AccountsInv
  BY AccountsInvInit
<1> QED
  BY <1>1, AccountsInvStep, PTL DEF AccountsSpec, aNext, aVars

-----------------------------------------------------------------------------
(* SaveUser writes the whole record, yet while no two writers overlap the  *)
(* record is what its writers meant.                                       *)
THEOREM RecordAsMeant == AccountsSpec => []AccountAsMeant
<1>1. AccountsInv => AccountAsMeant
  BY DEF AccountsInv, OneWriter, AccountAsMeant
<1> QED
  BY <1>1, AccountsInvariant, PTL

(* handleResetConfirm raises the token version: no console token issued    *)
(* from the record before a confirmed reset passes authMiddleware, whatever*)
(* else was done to the record.  Where handleRegister or                   *)
(* handleAcceptInvitation take an account they cannot read for missing,    *)
(* they write a new record, with versions of its own.                      *)
THEOREM ResetsEndSessions == AccountsSpec => []ResetEndsSessions
<1>1. AccountsInv => ResetEndsSessions
  BY DEF AccountsInv, AccountsTypeOK, TokensInv, ResetEndsSessions, TokenAccepted, User,
         CurrentUserTokenVersion
<1> QED
  BY <1>1, AccountsInvariant, PTL

(* handleRegister and handleAcceptInvitation look for the account first and*)
(* take any error of GetUser for its absence: unless two of them overlap,  *)
(* an address gets one account and at most one more for every failed read. *)
THEOREM AccountMadeOnce == AccountsSpec => []OneAccount
<1>1. AccountsInv => OneAccount
  BY DEF AccountsInv, MadeOnce, OneAccount
<1> QED
  BY <1>1, AccountsInvariant, PTL
-----------------------------------------------------------------------------
(* A request that accepts an invitation has read it open.                  *)
AcceptsOpen ==
    /\ DOMAIN calls = Caller
    /\ \A c \in Caller : calls[c].op \in {"accept", "accepted"} => calls[c].invite = "open"

LEMMA ReadsOpen ==
    ASSUME AcceptsOpen, NEW c \in Caller, NEW op, NEW n, Read(c, op, n), op # "accepted",
           op = "accept" => invitation = "open"
    PROVE  AcceptsOpen' /\ invitation' = invitation
  BY DEF AcceptsOpen, Read

LEMMA AcceptsOpenStep ==
    AcceptsOpen /\ [aNext]_aVars
        => /\ AcceptsOpen'
           /\ \/ Revoked(invitation) => Revoked(invitation')
              \/ \E c \in Caller : calls[c].op = "accepted"
<1> SUFFICES ASSUME AcceptsOpen, [aNext]_aVars
             PROVE  /\ AcceptsOpen'
                    /\ \/ Revoked(invitation) => Revoked(invitation')
                       \/ \E c \in Caller : calls[c].op = "accepted"
  OBVIOUS
<1>1. ASSUME NEW c \in Caller,
             \/ HandleRegister(c) \/ HandleAcceptInvitation(c) \/ HandleChangePassword(c)
             \/ HandleResetRequest(c) \/ HandleResetConfirm(c) \/ HandleGenerateKey(c)
             \/ HandleUpdateOnboarding(c) \/ HandleRevokeInvitation(c)
             \/ \E k \in ApiKey : HandleRevokeKey(c, k) \/ HandleRotateKey(c, k)
                                   \/ AuthenticateKey(c, k)
      PROVE  AcceptsOpen' /\ invitation' = invitation
  BY <1>1, ReadsOpen
  DEF HandleRegister, HandleAcceptInvitation, HandleChangePassword, HandleResetRequest,
      HandleResetConfirm, HandleGenerateKey, HandleUpdateOnboarding, HandleRevokeInvitation,
      HandleRevokeKey, HandleRotateKey, AuthenticateKey
<1>2. ASSUME NEW c \in Caller, SaveRecord(c) PROVE AcceptsOpen' /\ invitation' = invitation
  <2> DEFINE r == calls[c]
  <2>1. /\ calls' = [calls EXCEPT ![c] = IF After(r.op) = "none" THEN NoCall
                                          ELSE [r EXCEPT !.op = After(r.op), !.user = NoAccount]]
        /\ UNCHANGED invitation
    BY <1>2 DEF SaveRecord
  <2>2. After(r.op) = "accepted" => r.op = "accept"
    BY DEF After
  <2>3. NoCall.op = "none"
    BY DEF NoCall
  <2>4. After(r.op) # "accept"
    BY DEF After
  <2> QED
    BY <2>1, <2>2, <2>3, <2>4 DEF AcceptsOpen
<1>3. ASSUME NEW c \in Caller, Done(c) PROVE AcceptsOpen'
  BY <1>3 DEF Done, NoCall, AcceptsOpen
<1>4. ASSUME NEW c \in Caller, IndexGenerated(c) \/ IndexRotated(c) \/ AbortCall(c)
      PROVE  AcceptsOpen' /\ invitation' = invitation
  BY <1>3, <1>4 DEF IndexGenerated, IndexRotated, SaveAPIKeyHash, AbortCall
<1>5. ASSUME NEW c \in Caller, DeleteAPIKeyHash(c) PROVE AcceptsOpen' /\ invitation' = invitation
  BY <1>5 DEF DeleteAPIKeyHash, NoCall, AcceptsOpen
<1>6. ASSUME NEW c \in Caller, FinishAcceptance(c)
      PROVE  AcceptsOpen' /\ calls[c].op = "accepted"
  BY <1>3, <1>6 DEF FinishAcceptance, UpdateInvitation, Doing
<1>7. ASSUME NEW c \in Caller, SaveRevocation(c) PROVE AcceptsOpen' /\ Revoked(invitation')
  BY <1>3, <1>7 DEF SaveRevocation, UpdateInvitation, Revoked
<1>8. CASE HandleLogin \/ UNCHANGED accountVars
  BY <1>8 DEF HandleLogin, accountVars, AcceptsOpen
<1>9. CASE HandleCreateInvitation
  BY <1>9 DEF HandleCreateInvitation, AcceptsOpen, Revoked
<1> QED
  BY <1>1, <1>2, <1>4, <1>5, <1>6, <1>7, <1>8, <1>9 DEF aNext, aVars, AccountsNext

(* handleAcceptInvitation and handleRevokeInvitation write the invitation  *)
(* they read: a revocation is undone only by an acceptance that had read   *)
(* the invitation while it was open.                                       *)
THEOREM RevocationsStay == AccountsSpec => RevocationStays
<1>1. PlatformInit /\ AccountsInit => AcceptsOpen
  BY DEF AccountsInit, AcceptsOpen, NoCall
<1>2. AcceptsOpen /\ [aNext]_aVars => AcceptsOpen'
  BY AcceptsOpenStep
<1>3. AcceptsOpen /\ [aNext]_aVars
        => [(Revoked(invitation) /\ ~Revoked(invitation'))
              => (\E c \in Caller : calls[c].op = "accepted" /\ calls[c].invite = "open")]_accountVars
  BY AcceptsOpenStep DEF AcceptsOpen
<1> QED
  BY <1>1, <1>2, <1>3, PTL DEF AccountsSpec, RevocationStays, aNext, aVars

-----------------------------------------------------------------------------
(* What a request has in mind with the keys of the record: it makes only   *)
(* keys that are new, and once it has saved the record the keys it is to   *)
(* index are in it and the ones it is to drop are revoked.                 *)
CallKeys(c) ==
    LET op == calls[c].op
        n == calls[c].arg
        keys == account.keys
    IN  /\ op = "generate" => Exists /\ n \in ApiKey /\ keys[n] = "none"
        /\ op = "rotate" => /\ n \in ApiKey /\ n + 1 \in ApiKey
                            /\ keys[n] # "none" /\ keys[n + 1] = "none"
        /\ op = "revoke" => n \in ApiKey /\ keys[n] # "none"
        /\ op = "index" => n \in ApiKey /\ keys[n] # "none"
        /\ op \in {"unindex", "reindex"} => n \in ApiKey /\ keys[n] \in {"revoked", "gone"}
        /\ op \in {"reindex", "indexNew"} => n + 1 \in ApiKey /\ keys[n + 1] # "none"

(* A key that was handed out is in the record, and while it is live in the *)
(* index; on Badger every live key is.                                     *)
KeysInv ==
    ~overlap =>
        /\ handed \subseteq ApiKey
        /\ \A k \in handed : account.keys[k] # "none"
        /\ backend = "badger" => LiveKeys(account) \subseteq keyIndex
        /\ ~indexFault => \A k \in handed : account.keys[k] = "live" => k \in keyIndex
        /\ ~Exists => \A k \in ApiKey : account.keys[k] = "none"
        /\ \A c \in Caller : CallKeys(c)

(* A call is a record of four fields.                                      *)
CallShape == \A c \in Caller : DOMAIN calls[c] = {"op", "user", "arg", "invite"}

LEMMA CallShapeStep ==
    ASSUME AccountsTypeOK, CallShape, [aNext]_aVars
    PROVE  CallShape'
<1>0. DOMAIN calls = Caller /\ DOMAIN NoCall = {"op", "user", "arg", "invite"}
  BY DEF AccountsTypeOK, NoCall
<1>1. ASSUME NEW c \in Caller, NEW op, NEW n, Read(c, op, n) PROVE CallShape'
  BY <1>0, <1>1 DEF Read, CallShape
<1>2. ASSUME NEW c \in Caller, Done(c) PROVE CallShape'
  BY <1>0, <1>2 DEF Done, CallShape
<1>3. ASSUME NEW c \in Caller, SaveRecord(c) PROVE CallShape'
  BY <1>0, <1>3 DEF SaveRecord, CallShape
<1>4. ASSUME NEW c \in Caller, DeleteAPIKeyHash(c) PROVE CallShape'
  BY <1>0, <1>4 DEF DeleteAPIKeyHash, CallShape
<1>5. CASE UNCHANGED calls
  BY <1>5 DEF CallShape
<1> QED
  BY <1>1, <1>2, <1>3, <1>4, <1>5
  DEF aNext, aVars, AccountsNext, accountVars, HandleRegister, HandleAcceptInvitation,
      HandleChangePassword, HandleResetRequest, HandleResetConfirm, HandleGenerateKey,
      HandleUpdateOnboarding, HandleRevokeInvitation, HandleRevokeKey, HandleRotateKey,
      AuthenticateKey, IndexGenerated, IndexRotated, SaveAPIKeyHash, FinishAcceptance,
      SaveRevocation, UpdateInvitation, AbortCall, HandleLogin, HandleCreateInvitation

(* A step that leaves the record alone: what holds of the calls goes on to *)
(* hold, and a key is in the index or will be.                             *)
LEMMA KeysRest ==
    ASSUME KeysInv, UNCHANGED <<account, backend>>, ~overlap' => ~overlap,
           \A c \in Caller : CallKeys(c)' \/ UNCHANGED calls[c] \/ overlap',
           indexFault => indexFault', handed \subseteq handed',
           ~overlap => /\ handed' \subseteq ApiKey
                       /\ \A k \in handed' : account.keys[k] # "none"
                       /\ \A k \in LiveKeys(account) : k \in keyIndex => k \in keyIndex',
           ~overlap /\ ~indexFault' => handed' \ handed \subseteq keyIndex'
    PROVE  KeysInv'
<1> SUFFICES ASSUME ~overlap' PROVE KeysInv'
  BY DEF KeysInv
<1>1. \A c \in Caller : CallKeys(c)'
  BY DEF KeysInv, CallKeys, Exists
<1>2. backend' = "badger" => LiveKeys(account)' \subseteq keyIndex'
  BY DEF KeysInv, LiveKeys
<1>3. ~indexFault' => \A k \in handed' : account'.keys[k] = "live" => k \in keyIndex'
  BY DEF KeysInv, LiveKeys
<1>4. ~Exists' => \A k \in ApiKey : account'.keys[k] = "none"
  BY DEF KeysInv, Exists
<1> QED
  BY <1>1, <1>2, <1>3, <1>4 DEF KeysInv

LEMMA KeysRead ==
    ASSUME AccountsInv, KeysInv, NEW c \in Caller, NEW op, NEW n, Read(c, op, n),
           op = "generate" => Exists /\ n \in ApiKey /\ account.keys[n] = "none",
           op = "rotate" => /\ n \in ApiKey /\ n + 1 \in ApiKey
                            /\ account.keys[n] # "none" /\ account.keys[n + 1] = "none",
           op = "revoke" => n \in ApiKey /\ account.keys[n] # "none",
           op \notin {"index", "unindex", "reindex", "indexNew"}
    PROVE  KeysInv'
<1>1. /\ UNCHANGED <<account, backend, keyIndex, handed, indexFault>> /\ (~overlap' => ~overlap)
      /\ DOMAIN calls = Caller
      /\ calls' = [calls EXCEPT ![c] = [op |-> op, user |-> account, arg |-> n,
                                        invite |-> invitation]]
  BY DEF Read, Doing, platformVars, AccountsInv, AccountsTypeOK
<1>2. calls'[c].op = op /\ calls'[c].arg = n /\ \A d \in Caller \ {c} : calls'[d] = calls[d]
  BY <1>1
<1>3. CallKeys(c)'
  BY <1>1, <1>2 DEF CallKeys, Exists
<1> QED
  BY <1>1, <1>2, <1>3, KeysRest DEF KeysInv

(* What the save of a record does to its keys.                             *)
LEMMA KeysSaved ==
    ASSUME AccountsInv, KeysInv, ~overlap, NEW c \in Caller, SaveRecord(c)
    PROVE  LET op == calls[c].op
               n == calls[c].arg
           IN  /\ account' \in User
               /\ \A k \in ApiKey :
                     /\ account.keys[k] # "none" => account'.keys[k] # "none"
                     /\ account.keys[k] \in {"revoked", "gone"}
                           => account'.keys[k] \in {"revoked", "gone"}
               /\ op = "generate" => account'.keys[n] = "live"
               /\ op = "rotate" => account'.keys[n] = "revoked" /\ account'.keys[n + 1] = "live"
               /\ op = "revoke" => account'.keys[n] = "revoked"
               /\ account'.org = "none" => \A k \in ApiKey : account'.keys[k] = "none"
<1> DEFINE op == calls[c].op
           n == calls[c].arg
<1>1. /\ account \in User /\ op \in WritingOps /\ calls[c].user = account
      /\ op = "reset" => n \in Nat
  BY DEF SaveRecord, Writing, WritingOps, AccountsInv, AccountsTypeOK, OneWriter, KeysInv
<1>2. account' = Updated(op, account, n)
  BY <1>1 DEF SaveRecord, SaveUser
<1>3. CallKeys(c) /\ (~Exists => \A k \in ApiKey : account.keys[k] = "none")
  BY DEF KeysInv
<1>4. account' \in User
  BY <1>1, <1>2, UpdatedRecord
<1> USE <1>1, <1>2, <1>4 DEF Updated
<1>5. CASE op \in {"register", "accept"}
  <2>1. account'.keys = GoneKeys(account.keys) /\ account'.org # "none"
    BY <1>5 DEF Register, AcceptInvitation, NoAccount
  <2> QED
    BY <1>5, <2>1 DEF GoneKeys
<1>6. CASE op \in {"password", "reset", "onboard", "touch"}
  <2>1. account'.keys = account.keys /\ account'.org = account.org
    BY <1>6 DEF ChangePassword, RequestReset, UpdateOnboarding, User
  <2> QED
    BY <1>3, <1>6, <2>1 DEF Exists
<1>7. CASE op = "confirm"
  <2>1. account'.keys = RevokeUserKeys(account.keys) /\ account'.org = account.org
    BY <1>7 DEF ConfirmReset, User
  <2> QED
    BY <1>3, <1>7, <2>1 DEF Exists, RevokeUserKeys
<1>8. CASE op = "generate"
  <2>1. /\ account'.keys = [account.keys EXCEPT ![n] = "live"] /\ account'.org = account.org
        /\ n \in ApiKey /\ Exists /\ account.keys[n] = "none"
    BY <1>3, <1>8 DEF GenerateKey, User, CallKeys
  <2> QED
    BY <1>8, <2>1 DEF Exists, User
<1>9. CASE op = "revoke"
  <2>1. /\ account'.keys = [account.keys EXCEPT ![n] = "revoked"] /\ account'.org = account.org
        /\ n \in ApiKey /\ account.keys[n] # "none"
    BY <1>3, <1>9 DEF RevokeKey, User, CallKeys
  <2> QED
    BY <1>3, <1>9, <2>1 DEF Exists, User
<1>10. CASE op = "rotate"
  <2>1. /\ n \in ApiKey /\ n + 1 \in ApiKey /\ n + 1 # n
        /\ account.keys[n] # "none" /\ account.keys[n + 1] = "none"
    BY <1>3, <1>10, AccountsAssumption DEF CallKeys
  <2>2. /\ account'.keys = [account.keys EXCEPT ![n] = "revoked", ![n + 1] = "live"]
        /\ account'.org = account.org
    BY <1>10 DEF RotateKey, User
  <2> QED
    BY <1>3, <1>10, <2>1, <2>2 DEF Exists, User
<1> QED
  BY <1>5, <1>6, <1>7, <1>8, <1>9, <1>10 DEF WritingOps

LEMMA KeysSave ==
    ASSUME AccountsInv, CallShape, KeysInv, NEW c \in Caller, SaveRecord(c)
    PROVE  KeysInv'
<1> SUFFICES ASSUME ~overlap' PROVE KeysInv'
  BY DEF KeysInv
<1> DEFINE op == calls[c].op
           n == calls[c].arg
<1>1. /\ ~overlap /\ UNCHANGED <<backend, handed, indexFault>>
      /\ DOMAIN calls = Caller /\ account \in User
      /\ op \in WritingOps
  BY DEF SaveRecord, platformVars, AccountsInv, AccountsTypeOK, Writing, WritingOps
<1>2. /\ account' \in User
      /\ \A k \in ApiKey :
            /\ account.keys[k] # "none" => account'.keys[k] # "none"
            /\ account.keys[k] \in {"revoked", "gone"}
                  => account'.keys[k] \in {"revoked", "gone"}
      /\ op = "generate" => account'.keys[n] = "live"
      /\ op = "rotate" => account'.keys[n] = "revoked" /\ account'.keys[n + 1] = "live"
      /\ op = "revoke" => account'.keys[n] = "revoked"
      /\ account'.org = "none" => \A k \in ApiKey : account'.keys[k] = "none"
  BY <1>1, KeysSaved
<1>3. keyIndex' = IF backend = "badger"
                  THEN (keyIndex \cup LiveKeys(account')) \ RevokedKeys(account')
                  ELSE keyIndex
  BY DEF SaveRecord, SaveUser
<1>4. \A k \in ApiKey : account'.keys[k] = "live" => k \in LiveKeys(account')
  BY DEF LiveKeys
<1>5. LiveKeys(account') \cap RevokedKeys(account') = {}
  BY DEF LiveKeys, RevokedKeys
<1>6. handed \subseteq ApiKey /\ \A k \in handed : account.keys[k] # "none"
  BY <1>1 DEF KeysInv
<1>7. \A k \in handed' : account'.keys[k] # "none"
  BY <1>1, <1>2, <1>6
<1>8. backend' = "badger" => LiveKeys(account)' \subseteq keyIndex'
  <2>1. LiveKeys(account)' = LiveKeys(account')
    BY DEF LiveKeys
  <2> QED
    BY <1>1, <1>3, <1>5, <2>1
<1>9. ASSUME ~indexFault', NEW k \in handed', account'.keys[k] = "live" PROVE k \in keyIndex'
  <2>1. k \in ApiKey /\ k \in LiveKeys(account') /\ account.keys[k] # "none"
    BY <1>1, <1>4, <1>6, <1>9
  <2>2. account.keys[k] = "live"
    <3>1. account.keys[k] \in {"none", "live", "revoked", "gone"}
      BY <1>1, <2>1 DEF User
    <3> QED
      BY <1>2, <1>9, <2>1, <3>1
  <2>3. k \in keyIndex
    BY <1>1, <1>9, <2>2 DEF KeysInv
  <2> QED
    BY <1>3, <1>5, <2>1, <2>3
<1>10. ~Exists' => \A k \in ApiKey : account'.keys[k] = "none"
  BY <1>2 DEF Exists
<1>11. ASSUME NEW d \in Caller PROVE CallKeys(d)'
  <2>1. CallKeys(d) /\ CallKeys(c)
    BY <1>1 DEF KeysInv
  <2>2. CASE d = c
    <3>1. CASE After(op) = "none"
      <4>1. calls'[c].op = "none"
        BY <1>1, <3>1 DEF SaveRecord, NoCall
      <4> QED
        BY <2>2, <4>1 DEF CallKeys
    <3>2. CASE After(op) # "none"
      <4>1. calls'[c].op = After(op) /\ calls'[c].arg = n
        <5>1. calls' = [calls EXCEPT ![c] = [calls[c] EXCEPT !.op = After(op),
                                                            !.user = NoAccount]]
          BY <3>2 DEF SaveRecord
        <5> QED
          BY <1>1, <5>1 DEF CallShape
      <4>2. \/ op = "accept" /\ After(op) = "accepted"
            \/ op = "generate" /\ After(op) = "index"
            \/ op = "rotate" /\ After(op) = "reindex"
            \/ op = "revoke" /\ After(op) = "unindex"
        BY <3>2 DEF After
      <4> QED
        BY <1>2, <2>1, <2>2, <4>1, <4>2 DEF CallKeys
    <3> QED
      BY <3>1, <3>2
  <2>3. CASE d # c
    <3>1. calls'[d] = calls[d]
      BY <1>1, <2>3 DEF SaveRecord
    <3>2. ~Writing(d)
      BY <1>1, <2>3 DEF AccountsInv, OneWriter, Writing, WritingOps
    <3> QED
      BY <1>2, <2>1, <3>1, <3>2 DEF CallKeys, Writing
  <2> QED
    BY <2>2, <2>3
<1> QED
  BY <1>1, <1>6, <1>7, <1>8, <1>9, <1>10, <1>11 DEF KeysInv

LEMMA KeysIndexed ==
    ASSUME AccountsInv, KeysInv, UNCHANGED <<account, backend, overlap>>,
           NEW c \in Caller, NEW k, SaveAPIKeyHash(c, k),
           ~overlap => k \in ApiKey /\ account.keys[k] # "none"
    PROVE  KeysInv'
<1>1. /\ handed' = handed \cup {k} /\ keyIndex \subseteq keyIndex'
      /\ k \in keyIndex' \/ indexFault'
      /\ indexFault => indexFault'
  BY DEF SaveAPIKeyHash
<1>2. CallKeys(c)' /\ \A d \in Caller \ {c} : calls'[d] = calls[d]
  BY DEF SaveAPIKeyHash, Done, NoCall, CallKeys, AccountsInv, AccountsTypeOK
<1> QED
  BY <1>1, <1>2, KeysRest DEF KeysInv

LEMMA KeysStep ==
    ASSUME AccountsInv, CallShape, KeysInv, [aNext]_aVars
    PROVE  KeysInv'
<1>0. DOMAIN calls = Caller
  BY DEF AccountsInv, AccountsTypeOK
<1>1. ASSUME NEW c \in Caller,
             \/ HandleRegister(c) \/ HandleAcceptInvitation(c) \/ HandleChangePassword(c)
             \/ HandleResetRequest(c) \/ HandleResetConfirm(c)
             \/ HandleUpdateOnboarding(c) \/ HandleRevokeInvitation(c)
             \/ \E k \in ApiKey : HandleRevokeKey(c, k) \/ AuthenticateKey(c, k)
      PROVE  KeysInv'
  BY <1>1, KeysRead
  DEF HandleRegister, HandleAcceptInvitation, HandleChangePassword, HandleResetRequest,
      HandleResetConfirm, HandleUpdateOnboarding, HandleRevokeInvitation, HandleRevokeKey,
      AuthenticateKey
<1>2. ASSUME NEW c \in Caller, NEW k \in ApiKey, HandleRotateKey(c, k) PROVE KeysInv'
  BY <1>2, KeysRead DEF HandleRotateKey
<1>3. ASSUME NEW c \in Caller, HandleGenerateKey(c) PROVE KeysInv'
  <2> DEFINE T == {k \in ApiKey : account.keys[k] = "none"}
             k0 == NextKey(account)
  <2>1. T \in SUBSET Nat /\ T # {}
    BY <1>3, AccountsAssumption DEF HandleGenerateKey
  <2>2. \E m \in T : \A n \in T : m <= n
    <3> HIDE DEF T
    <3> QED
      BY <2>1, LeastNatural
  <2>3. k0 \in ApiKey /\ account.keys[k0] = "none"
    BY <2>2 DEF NextKey
  <2> HIDE DEF k0
  <2>4. Exists /\ Read(c, "generate", k0)
    BY <1>3 DEF HandleGenerateKey, k0
  <2> QED
    BY <2>3, <2>4, KeysRead
<1>4. ASSUME NEW c \in Caller, SaveRecord(c) PROVE KeysInv'
  BY <1>4, KeysSave
<1>5. ASSUME NEW c \in Caller, IndexGenerated(c) \/ IndexRotated(c) PROVE KeysInv'
  <2>1. CASE IndexGenerated(c)
    <3>1. ~overlap => calls[c].arg \in ApiKey /\ account.keys[calls[c].arg] # "none"
      BY <2>1 DEF IndexGenerated, Doing, KeysInv, CallKeys
    <3> QED
      BY <2>1, <3>1, KeysIndexed DEF IndexGenerated, Doing, platformVars, SaveAPIKeyHash
  <2>2. CASE IndexRotated(c)
    <3>1. ~overlap => calls[c].arg + 1 \in ApiKey /\ account.keys[calls[c].arg + 1] # "none"
      BY <2>2 DEF IndexRotated, Doing, KeysInv, CallKeys
    <3> QED
      BY <2>2, <3>1, KeysIndexed DEF IndexRotated, Doing, platformVars, SaveAPIKeyHash
  <2> QED
    BY <1>5, <2>1, <2>2
<1>6. ASSUME NEW c \in Caller, DeleteAPIKeyHash(c) PROVE KeysInv'
  <2>1. /\ UNCHANGED <<account, backend, overlap, indexFault, handed>>
        /\ keyIndex' = keyIndex \ {calls[c].arg} /\ calls[c].op \in {"unindex", "reindex"}
        /\ \A d \in Caller \ {c} : calls'[d] = calls[d]
    BY <1>0, <1>6 DEF DeleteAPIKeyHash, Doing, platformVars
  <2>2. \/ calls'[c].op = "none"
        \/ calls[c].op = "reindex" /\ calls'[c].op = "indexNew" /\ calls'[c].arg = calls[c].arg
    BY <1>0, <1>6 DEF DeleteAPIKeyHash, NoCall, CallShape
  <2>3. ~overlap => calls[c].arg \notin LiveKeys(account) /\ CallKeys(c)'
    BY <2>1, <2>2 DEF KeysInv, CallKeys, LiveKeys
  <2> QED
    BY <2>1, <2>3, KeysRest DEF KeysInv
<1>7. ASSUME NEW c \in Caller, FinishAcceptance(c) \/ SaveRevocation(c) \/ AbortCall(c)
      PROVE  KeysInv'
  <2>1. Done(c) /\ UNCHANGED <<account, backend, keyIndex, handed, overlap, indexFault>>
    BY <1>7
    DEF FinishAcceptance, SaveRevocation, UpdateInvitation, AbortCall, Doing, platformVars
  <2>2. CallKeys(c)' /\ \A d \in Caller \ {c} : calls'[d] = calls[d]
    BY <1>0, <2>1 DEF Done, NoCall, CallKeys
  <2> QED
    BY <2>1, <2>2, KeysRest DEF KeysInv
<1>8. CASE UNCHANGED <<account, backend, keyIndex, handed, overlap, indexFault, calls>>
  BY <1>8, KeysRest DEF KeysInv
<1> QED
  BY <1>1, <1>2, <1>3, <1>4, <1>5, <1>6, <1>7, <1>8
  DEF aNext, aVars, AccountsNext, Tick, platformVars, accountVars, HandleLogin,
      HandleCreateInvitation

LEMMA BackendStays == [aNext]_aVars => UNCHANGED backend
  BY DEF aNext, aVars, AccountsNext, Tick, platformVars, Doing, Read, SaveRecord,
         HandleRegister, HandleAcceptInvitation, HandleChangePassword, HandleResetRequest,
         HandleResetConfirm, HandleGenerateKey, HandleUpdateOnboarding,
         HandleRevokeInvitation, HandleRevokeKey, HandleRotateKey, AuthenticateKey,
         IndexGenerated, IndexRotated, DeleteAPIKeyHash, FinishAcceptance, SaveRevocation,
         AbortCall, HandleLogin, HandleCreateInvitation

(* The index of keys follows the record in a write of its own on Postgres, *)
(* one by handleGenerateKey and two by handleRotateKey: while no two       *)
(* writers overlap, a key that was answered to a client is accepted by     *)
(* authMiddleware until it is revoked, whatever other request dies between *)
(* its writes.                                                             *)
THEOREM KeysHandedOutWork == AccountsSpec => []HandedKeysWork
<1> DEFINE Stores == backend \in {"badger", "postgres"}
<1>1. PlatformInit /\ AccountsInit => CallShape /\ KeysInv /\ Stores
  BY DEF PlatformInit, AccountsInit, CallShape, KeysInv, CallKeys, NoCall, NoAccount, LiveKeys
<1>2. AccountsInv /\ CallShape /\ KeysInv /\ Stores /\ [aNext]_aVars
        => CallShape' /\ KeysInv' /\ Stores'
  BY CallShapeStep, KeysStep, BackendStays DEF AccountsInv
<1>3. KeysInv /\ Stores => HandedKeysWork
  <2> SUFFICES ASSUME KeysInv, Stores, ~overlap, backend = "postgres" => ~indexFault,
                      NEW k \in handed, account.keys[k] = "live"
               PROVE  k \in keyIndex
    BY DEF HandedKeysWork, KeyAccepted, GetAPIKeyOwnerByHash
  <2> QED
    BY DEF KeysInv, LiveKeys
<1> QED
  BY <1>1, <1>2, <1>3, AccountsInvariant, PTL DEF AccountsSpec, aNext, aVars

-----------------------------------------------------------------------------
(* The documents: a patch keeps what it was not given.                     *)
Document == [state : {"live", "none", "deleted"}, name : {"", "a", "b"}, flag : BOOLEAN,
             map : [Settings -> {0, 1}]]
PatchOps == {"rename", "flag", "unflag", "replace"} \cup Settings

RecordsTypeOK ==
    /\ doc \in Document /\ meant \in Document
    /\ edit \in [Editor -> [op : PatchOps \cup {"none"}, seen : Document]]

(* While no two requests have overlapped: one request at most is at work,  *)
(* and the document it has read is the one that is there.                  *)
OneEditor ==
    /\ doc = meant
    /\ \A p, q \in Editor : edit[p].op # "none" /\ edit[q].op # "none" => p = q
    /\ \A q \in Editor : edit[q].op # "none" => edit[q].seen = doc /\ LiveDoc(doc)
    /\ docKind = "notification" =>
          \A q \in Editor : edit[q].op # "none" => edit[q].op = "flag" /\ backend = "postgres"

RecordsInv == RecordsTypeOK /\ (~raced => OneEditor)

rNext == RecordsNext \/ (Tick /\ UNCHANGED recordVars)
rVars == <<platformVars, recordVars>>

LEMMA ChangedDocument ==
    ASSUME NEW op \in PatchOps, NEW d \in Document
    PROVE  Change(op, d) \in Document /\ Change(op, d).state = d.state
<1> USE DEF PatchOps, Settings, Document, Change
<1>1. CASE op \in Settings
  BY <1>1
<1>2. CASE op = "rename"
  BY <1>2
<1>3. CASE op = "flag"
  BY <1>3
<1>4. CASE op = "unflag"
  BY <1>4
<1>5. CASE op = "replace"
  BY <1>5
<1> QED
  BY <1>1, <1>2, <1>3, <1>4, <1>5

LEMMA NewDocument ==
    /\ NoDoc \in Document
    /\ \A flag \in BOOLEAN : NewDoc("a", flag) \in Document /\ LiveDoc(NewDoc("a", flag))
  BY DEF NoDoc, NewDoc, NoSettings, Document, LiveDoc

LEMMA SavedDocument ==
    ASSUME NEW d \in Document, SaveDocument(d)
    PROVE  doc' \in Document /\ (LiveDoc(d) => doc' = d)
  BY DEF SaveDocument, Document, LiveDoc

(* A request that reads the document.                                      *)
LEMMA ReadForStep ==
    ASSUME RecordsInv, NEW q \in Editor, NEW op \in PatchOps, ReadFor(q, op),
           UNCHANGED <<docKind, backend>>,
           docKind = "notification" => op = "flag" /\ backend = "postgres"
    PROVE  RecordsInv'
<1>1. RecordsTypeOK'
  BY DEF RecordsInv, RecordsTypeOK, ReadFor
<1>2. ASSUME ~raced' PROVE OneEditor'
  <2>1. /\ ~raced /\ OneEditor
        /\ \A p \in Editor \ {q} : edit[p].op = "none"
    BY <1>2 DEF ReadFor, Busy, RecordsInv
  <2>2. /\ edit'[q] = [op |-> op, seen |-> doc] /\ LiveDoc(doc)
        /\ \A p \in Editor \ {q} : edit'[p].op = "none"
        /\ UNCHANGED <<doc, meant>>
    BY <2>1 DEF ReadFor, Found, RecordsInv, RecordsTypeOK
  <2> QED
    BY <2>1, <2>2 DEF OneEditor
<1> QED
  BY <1>1, <1>2 DEF RecordsInv

(* A request that saves what it has made of the document it read.          *)
LEMMA SaveEditStep ==
    ASSUME RecordsInv, NEW q \in Editor, edit[q].op # "none",
           UNCHANGED <<raced, docKind, backend>>,
           edit' = [edit EXCEPT ![q] = NoEdit],
           NEW op \in PatchOps, ~raced => op = edit[q].op,
           \/ SaveDocument(Change(op, edit[q].seen))
           \/ ~LiveDoc(doc) /\ UNCHANGED doc,
           meant' = IF LiveDoc(meant) THEN Change(op, meant) ELSE meant
    PROVE  RecordsInv'
<1>1. /\ edit[q].seen \in Document
      /\ Change(op, edit[q].seen) \in Document
      /\ Change(op, edit[q].seen).state = edit[q].seen.state
  BY ChangedDocument DEF RecordsInv, RecordsTypeOK
<1>2. doc' \in Document
  BY <1>1, SavedDocument DEF RecordsInv, RecordsTypeOK
<1>3. meant' \in Document
  BY ChangedDocument DEF RecordsInv, RecordsTypeOK
<1>4. NoEdit \in [op : PatchOps \cup {"none"}, seen : Document] /\ NoEdit.op = "none"
  BY NewDocument DEF NoEdit
<1>5. RecordsTypeOK'
  BY <1>2, <1>3, <1>4 DEF RecordsInv, RecordsTypeOK
<1>6. ASSUME ~raced' PROVE OneEditor'
  <2>1. ~raced /\ OneEditor /\ edit[q].seen = doc /\ LiveDoc(doc) /\ doc = meant
    BY <1>6 DEF RecordsInv, OneEditor
  <2>2. LiveDoc(Change(op, edit[q].seen))
    BY <1>1, <2>1 DEF LiveDoc
  <2>3. doc' = meant'
    BY <1>1, <2>1, <2>2, SavedDocument
  <2>4. \A p \in Editor : edit'[p].op = "none"
    BY <1>4, <2>1 DEF OneEditor, RecordsInv, RecordsTypeOK
  <2> QED
    BY <2>3, <2>4 DEF OneEditor
<1> QED
  BY <1>5, <1>6 DEF RecordsInv

LEMMA CreateDocumentStep ==
    ASSUME RecordsInv, NEW kind, NEW flag \in BOOLEAN, Create(kind, NewDoc("a", flag))
    PROVE  RecordsInv'
<1>1. doc' = NewDoc("a", flag) /\ meant' = doc' /\ doc' \in Document
  BY NewDocument, SavedDocument DEF Create
<1>2. UNCHANGED <<edit, raced, docKind, backend>> /\ ~LiveDoc(doc)
  BY DEF Create, OnKind, LiveDoc, platformVars
<1> QED
  BY <1>1, <1>2 DEF RecordsInv, RecordsTypeOK, OneEditor

LEMMA DeleteDocumentStep == ASSUME RecordsInv, NEW kind, Delete(kind) PROVE RecordsInv'
<1>1. /\ doc' = [doc EXCEPT !.state = "deleted"]
      /\ meant' = [meant EXCEPT !.state = "deleted"]
      /\ raced' = (raced \/ \E q \in Editor : edit[q].op # "none")
      /\ UNCHANGED <<edit, docKind, backend>>
  BY DEF Delete, DeleteDocument, OnKind, platformVars, LiveDoc, RecordsInv, RecordsTypeOK, Document
<1>2. doc' \in Document /\ meant' \in Document
  BY <1>1 DEF RecordsInv, RecordsTypeOK, Document
<1> QED
  BY <1>1, <1>2 DEF RecordsInv, RecordsTypeOK, OneEditor

LEMMA RecordsInvStep == RecordsInv /\ [rNext]_rVars => RecordsInv'
<1> SUFFICES ASSUME RecordsInv, [rNext]_rVars PROVE RecordsInv'
  OBVIOUS
<1>1. ASSUME NEW q \in Editor, NEW op \in {"rename", "flag", "unflag", "replace"} \cup Settings,
             \/ HandlePatchOrg(q, op) \/ HandlePatchOrgSettings(q, op)
             \/ HandlePatchIntegration(q, op) \/ HandlePatchPolicy(q, op)
             \/ HandlePatchTicket(q, op)
      PROVE  RecordsInv'
  BY <1>1, ReadForStep
  DEF HandlePatchOrg, HandlePatchOrgSettings, HandlePatchIntegration, HandlePatchPolicy,
      HandlePatchTicket, OnKind, PatchOps, platformVars
<1>2. ASSUME NEW q \in Editor, SavePatched(q) PROVE RecordsInv'
  <2>1. edit[q].op \in PatchOps
    BY <1>2 DEF SavePatched, RecordsInv, RecordsTypeOK
  <2> QED
    BY <1>2, <2>1, SaveEditStep DEF SavePatched, OnKind, platformVars
<1>3. ASSUME NEW q \in Editor, MarkNotificationReadPG(q) PROVE RecordsInv'
  BY <1>3, ReadForStep DEF MarkNotificationReadPG, OnKind, PatchOps, platformVars
<1>4. ASSUME NEW q \in Editor, UpdateNotificationPG(q) PROVE RecordsInv'
  <2>1. "flag" \in PatchOps
    BY DEF PatchOps
  <2>2. ~raced => edit[q].op = "flag"
    BY <1>4 DEF UpdateNotificationPG, OnKind, RecordsInv, OneEditor
  <2> QED
    BY <1>4, <2>1, <2>2, SaveEditStep DEF UpdateNotificationPG, OnKind, Found, platformVars
<1>5. CASE \/ HandleCreateIntegration \/ HandleCreatePolicy \/ HandleCreateTicket
           \/ CreateNotification
  BY <1>5, CreateDocumentStep
  DEF HandleCreateIntegration, HandleCreatePolicy, HandleCreateTicket, CreateNotification
<1>6. CASE HandleDeleteIntegration \/ HandleDeletePolicy \/ RetentionDelete
  BY <1>6, DeleteDocumentStep DEF HandleDeleteIntegration, HandleDeletePolicy, RetentionDelete
<1>7. CASE MarkNotificationRead
  <2>1. /\ docKind = "notification" /\ backend = "badger" /\ LiveDoc(doc)
        /\ SaveDocument(Change("flag", doc)) /\ meant' = Change("flag", meant)
        /\ UNCHANGED <<edit, raced, docKind, backend>>
    BY <1>7 DEF MarkNotificationRead, OnKind, platformVars, Found
  <2>2. \A d \in Document : Change("flag", d) \in Document /\ Change("flag", d).state = d.state
    BY ChangedDocument DEF PatchOps
  <2>3. doc' = Change("flag", doc) /\ doc' \in Document /\ meant' \in Document
    BY <2>1, <2>2, SavedDocument DEF RecordsInv, RecordsTypeOK, LiveDoc
  <2> QED
    BY <2>1, <2>3 DEF RecordsInv, RecordsTypeOK, OneEditor
<1>8. CASE UNCHANGED <<recordVars, backend>>
  BY <1>8 DEF recordVars, RecordsInv, RecordsTypeOK, OneEditor
<1> QED
  BY <1>1, <1>2, <1>3, <1>4, <1>5, <1>6, <1>7, <1>8 DEF rNext, rVars, RecordsNext, Tick, platformVars

(* The patch handlers of the console read a document, change what they     *)
(* were given and save the whole of it: while no two requests overlap, the *)
(* document is the one those changes and the deletions make, whatever its  *)
(* kind and on either store.                                               *)
THEOREM PatchesKeepTheRest == RecordsSpec => []PatchesKeepRest
<1>1. RecordsInit => RecordsInv
  <2> SUFFICES ASSUME RecordsInit PROVE RecordsInv
    OBVIOUS
  <2>1. NoEdit \in [op : PatchOps \cup {"none"}, seen : Document] /\ NoEdit.op = "none"
    BY NewDocument DEF NoEdit
  <2>2. doc \in Document
    BY NewDocument DEF RecordsInit
  <2> QED
    BY <2>1, <2>2 DEF RecordsInit, RecordsInv, RecordsTypeOK, OneEditor
<1>2. RecordsInv => PatchesKeepRest
  BY DEF RecordsInv, OneEditor, PatchesKeepRest
<1> QED
  BY <1>1, <1>2, RecordsInvStep, PTL DEF RecordsSpec, rNext, rVars

-----------------------------------------------------------------------------
(* The catalogue: the limit of the plan, and labels under patches.         *)
(* The state of the catalogue.  Only finitely many sessions ever live.     *)
Meta == [state : {"none", "live", "archived"}, labels : Labels, at : Nat]
RequestState ==
    [phase : {"idle", "granted"}]
    \cup [phase : {"patching"}, session : Session, field : Fields, labels : Labels]

CatalogueTypeOK ==
    /\ clock \in Nat
    /\ plan \in Plans
    /\ catalogue \in [Session -> Meta]
    /\ requests \in [Request -> RequestState]
    /\ wanted \in [Session -> Labels]
    /\ IsFiniteSet(Live)
    /\ blind \in Nat

PatchingOn(q, i) == requests[q].phase = "patching" /\ requests[q].session = i

(* A patch under way is on a known session and, unless the session is      *)
(* contended, has read the labels that are there, or none of a session it  *)
(* could not see; a session nobody knows has none.                         *)
ReadLabels(q, i) == KeptOrEmpty(i, unseen, requests[q].labels, catalogue[i].labels)

LabelsInv ==
    /\ PatchKeepsLabels
    /\ \A q \in Request : \A i \in Session : PatchingOn(q, i) => Known(i)
    /\ \A q \in Request : \A i \in Session \ contended : PatchingOn(q, i) => ReadLabels(q, i)
    /\ \A i \in Session : ~Known(i) => catalogue[i] = NoMeta /\ wanted[i] = NoLabels

LEMMA KeptLabels ==
    ASSUME NEW i, NEW lost, NEW l, NEW m
    PROVE  /\ KeptOrEmpty(i, lost, l, l)
           /\ i \in lost => KeptOrEmpty(i, lost, NoLabels, m)
           /\ KeptOrEmpty(i, lost, l, m) =>
                \A more : lost \subseteq more => KeptOrEmpty(i, more, l, m)
<1>1. KeptOrEmpty(i, lost, l, l)
  BY DEF KeptOrEmpty
<1>2. i \in lost => KeptOrEmpty(i, lost, NoLabels, m)
  <2>1. NoLabels["name"] = "" /\ NoLabels["description"] = ""
    BY DEF NoLabels
  <2> QED
    BY <2>1 DEF KeptOrEmpty
<1>3. KeptOrEmpty(i, lost, l, m) => \A more : lost \subseteq more => KeptOrEmpty(i, more, l, m)
  BY DEF KeptOrEmpty
<1> QED
  BY <1>1, <1>2, <1>3

LEMMA KeptWrite ==
    ASSUME NEW i, NEW lost, NEW l \in Labels, NEW k \in Labels, NEW m \in Labels,
           NEW field \in {"name", "description"}, NEW text,
           KeptOrEmpty(i, lost, l, k), KeptOrEmpty(i, lost, k, m)
    PROVE  KeptOrEmpty(i, lost, [l EXCEPT ![field] = text], [m EXCEPT ![field] = text])
BY DEF KeptOrEmpty, Labels

CatalogueInv == CatalogueTypeOK /\ LabelsInv /\ OvershootBounded

cNext == CatalogueNext \/ (Tick /\ UNCHANGED catalogueVars)
cVars == <<platformVars, catalogueVars>>

(* The order of the listing.                                               *)
LEMMA NewerOrder ==
    ASSUME CatalogueTypeOK, NEW i \in Session, NEW j \in Session, NEW k \in Session
    PROVE  ~Newer(i, i) /\ (Newer(i, j) /\ Newer(j, k) => Newer(i, k))
  BY CatalogueAssumption DEF CatalogueTypeOK, Meta, Newer

(* A first page that is not full holds every live session.                 *)
LEMMA PageHoldsAll ==
    ASSUME CatalogueTypeOK, NEW n \in Nat, n <= ListCap,
           Cardinality(FirstPage(n)) < n
    PROVE  FirstPage(n) = Live
<1> DEFINE Ahead(i) == {j \in Live : Newer(j, i)}
           Beyond == Live \ FirstPage(n)
           T == {Cardinality(Ahead(i)) : i \in Beyond}
<1>1. FirstPage(n) = {i \in Live : Cardinality(Ahead(i)) < n}
  <2>1. ~(n > ListCap)
    BY CatalogueAssumption
  <2> QED
    BY <2>1 DEF FirstPage
<1>2. /\ IsFiniteSet(Live) /\ IsFiniteSet(FirstPage(n)) /\ Cardinality(FirstPage(n)) \in Nat
      /\ \A i : IsFiniteSet(Ahead(i)) /\ Cardinality(Ahead(i)) \in Nat
  BY <1>1, FS_Subset, FS_CardinalityType DEF CatalogueTypeOK
<1>3. SUFFICES ASSUME Beyond # {} PROVE FALSE
  BY <1>1
<1>4. T \in SUBSET Nat /\ T # {}
  BY <1>2, <1>3
<1>5. PICK m \in T : \A c \in T : m <= c
  <2> HIDE DEF T
  <2> QED
    BY <1>4, LeastNatural
<1>6. PICK i \in Beyond : m = Cardinality(Ahead(i))
  BY <1>5
<1>7. Ahead(i) \subseteq FirstPage(n)
  <2> SUFFICES ASSUME NEW j \in Live, Newer(j, i), j \notin FirstPage(n) PROVE FALSE
    OBVIOUS
  <2>1. Ahead(j) \subseteq Ahead(i) /\ j \in Ahead(i) /\ j \notin Ahead(j)
    BY <1>6, NewerOrder DEF Live
  <2>2. Cardinality(Ahead(j)) <= Cardinality(Ahead(i))
        /\ (Cardinality(Ahead(j)) = Cardinality(Ahead(i)) => Ahead(j) = Ahead(i))
    <3> HIDE DEF Ahead
    <3> QED
      BY <1>2, <2>1, FS_Subset
  <2>3. Cardinality(Ahead(j)) < m
    BY <1>2, <1>6, <2>1, <2>2
  <2> DEFINE c == Cardinality(Ahead(j))
  <2>4. c \in T /\ c < m
    BY <2>3
  <2> HIDE DEF T, c
  <2>5. c \in Nat /\ m \in Nat /\ m <= c
    BY <1>4, <1>5, <2>4
  <2> QED
    BY <2>4, <2>5
<1>8. Cardinality(Ahead(i)) <= Cardinality(FirstPage(n))
  <2> HIDE DEF Ahead
  <2> QED
    BY <1>2, <1>7, FS_Subset
<1>9. ~(Cardinality(Ahead(i)) < n)
  BY <1>1, <1>6
<1> QED
  BY <1>2, <1>8, <1>9

(* A plan with a limit within a page grants a creation only while fewer    *)
(* sessions than that live.                                                *)
LEMMA GrantedBelowLimit ==
    ASSUME CatalogueTypeOK, PlanLimits(plan) > 0, PlanLimits(plan) < ListCap,
           NEW max \in {PlanLimits(plan), FreeMax}, WithinPlan(max)
    PROVE  Cardinality(Live) < PlanLimits(plan)
<1>1. /\ max \in Nat /\ max + 1 \in Nat /\ max + 1 <= ListCap /\ max # 0
      /\ max <= PlanLimits(plan) /\ PlanLimits(plan) \in Nat
  BY CatalogueAssumption DEF PlanLimits
<1>2. Cardinality(FirstPage(max + 1)) < max
  BY <1>1 DEF WithinPlan
<1>3. FirstPage(max + 1) \subseteq Live
  BY DEF FirstPage
<1>4. Cardinality(FirstPage(max + 1)) \in Nat
  BY <1>3, FS_Subset, FS_CardinalityType DEF CatalogueTypeOK
<1>5. Cardinality(FirstPage(max + 1)) < max + 1
  BY <1>1, <1>2, <1>4
<1>6. FirstPage(max + 1) = Live
  BY <1>1, <1>5, PageHoldsAll
<1> QED
  BY <1>1, <1>2, <1>4, <1>6

(* The id a new session gets is one nobody knows.                          *)
LEMMA FreshSession ==
    ASSUME NEW i, i = Min({j \in Session : ~Known(j)}), \E j \in Session : ~Known(j)
    PROVE  i \in Session /\ ~Known(i)
<1> DEFINE T == {j \in Session : ~Known(j)}
<1>1. T \in SUBSET Nat /\ T # {}
  BY CatalogueAssumption
<1>2. \E m \in T : \A n \in T : m <= n
  <2> HIDE DEF T
  <2> QED
    BY <1>1, LeastNatural
<1> QED
  BY <1>2 DEF Min

-----------------------------------------------------------------------------
(* Live sessions and granted requests, as the steps change them.           *)
LEMMA OvershootKept ==
    ASSUME CatalogueTypeOK, OvershootBounded, plan' = plan,
           Live' \ implicit' \subseteq Live \ implicit,
           \/ Granted' \subseteq Granted /\ blind' = blind
           \/ \E q \in Request : Granted' = Granted \cup {q} /\ blind' = blind + 1
    PROVE  OvershootBounded'
<1>1. /\ IsFiniteSet(Live \ implicit) /\ IsFiniteSet(Granted) /\ IsFiniteSet(Request)
      /\ IsFiniteSet(Live' \ implicit') /\ IsFiniteSet(Granted')
  BY CatalogueAssumption, FS_Subset DEF CatalogueTypeOK, Granted
<1>2. /\ Cardinality(Live' \ implicit') <= Cardinality(Live \ implicit)
      /\ \/ Cardinality(Granted') <= Cardinality(Granted) /\ blind' = blind
         \/ /\ Cardinality(Granted') \in {Cardinality(Granted), Cardinality(Granted) + 1}
            /\ blind' = blind + 1
  <2>1. CASE Granted' \subseteq Granted /\ blind' = blind
    BY <1>1, <2>1, FS_Subset
  <2>2. CASE \E q \in Request : Granted' = Granted \cup {q} /\ blind' = blind + 1
    BY <1>1, <2>2, FS_Subset, FS_AddElement
  <2> QED
    BY <2>1, <2>2
<1>3. /\ Cardinality(Live \ implicit) \in Nat /\ Cardinality(Granted) \in Nat
      /\ Cardinality(Live' \ implicit') \in Nat /\ Cardinality(Granted') \in Nat
      /\ Cardinality(Request) \in Nat /\ blind \in Nat
  BY <1>1, FS_CardinalityType DEF CatalogueTypeOK
<1>4. PlanLimits(plan) \in Nat /\ PlanLimits(plan') = PlanLimits(plan)
  BY CatalogueAssumption DEF PlanLimits
<1> QED
  BY <1>2, <1>3, <1>4 DEF OvershootBounded

LEMMA GrantStep ==
    ASSUME CatalogueInv, NEW q \in Request, HandleCreateSession(q)
    PROVE  CatalogueInv'
<1> USE DEF CatalogueInv
<1>1. /\ UNCHANGED <<clock, plan, catalogue, implicit, wanted, contended, unseen>>
      /\ requests[q].phase = "idle"
  BY DEF HandleCreateSession, In, platformVars
<1>2. PICK r \in RequestState :
        /\ requests' = [requests EXCEPT ![q] = r] /\ r.phase \in {"idle", "granted"}
        /\ \/ r.phase = "granted" /\ blind' = blind + 1
           \/ /\ blind' = blind
              /\ r.phase = "granted" => \E max \in {PlanLimits(plan), FreeMax} : WithinPlan(max)
  <2>1. /\ [phase |-> "granted"] \in RequestState /\ NoRequest \in RequestState
        /\ NoRequest.phase = "idle"
    BY DEF RequestState, NoRequest
  <2> HIDE DEF RequestState
  <2>2. CASE /\ requests' = [requests EXCEPT ![q] = [phase |-> "granted"]]
             /\ blind' = blind + 1
    BY <2>1, <2>2
  <2>3. ASSUME NEW max \in {PlanLimits(plan), FreeMax}, blind' = blind,
               requests' = [requests EXCEPT
                              ![q] = IF WithinPlan(max) THEN [phase |-> "granted"] ELSE NoRequest]
        PROVE  \E r \in RequestState :
                 /\ requests' = [requests EXCEPT ![q] = r] /\ r.phase \in {"idle", "granted"}
                 /\ blind' = blind
                 /\ r.phase = "granted" => \E m \in {PlanLimits(plan), FreeMax} : WithinPlan(m)
    <3>1. CASE WithinPlan(max)
      BY <2>1, <2>3, <3>1
    <3>2. CASE ~WithinPlan(max)
      BY <2>1, <2>3, <3>2
    <3> QED
      BY <3>1, <3>2
  <2> QED
    BY <2>2, <2>3 DEF HandleCreateSession, In
<1>3. /\ requests' \in [Request -> RequestState] /\ requests'[q] = r
      /\ \A p \in Request \ {q} : requests'[p] = requests[p]
  BY <1>1, <1>2 DEF CatalogueTypeOK
<1>4. Live' = Live /\ \A i \in Session : Known(i)' = Known(i)
  BY <1>1 DEF Live, Known
<1>5. CatalogueTypeOK'
  BY <1>1, <1>2, <1>3, <1>4 DEF CatalogueTypeOK
<1>6. LabelsInv'
  <2>1. \A p \in Request : \A i \in Session :
           PatchingOn(p, i)' => PatchingOn(p, i) /\ requests'[p] = requests[p]
    BY <1>2, <1>3 DEF PatchingOn
  <2>2. PatchKeepsLabels'
    BY <1>1 DEF LabelsInv, PatchKeepsLabels
  <2> QED
    <3>1. \A p \in Request : \A i \in Session \ contended' : PatchingOn(p, i)' => ReadLabels(p, i)'
      BY <1>1, <2>1 DEF LabelsInv, ReadLabels
    <3> QED
      BY <1>1, <1>4, <2>1, <2>2, <3>1 DEF LabelsInv
<1>7. OvershootBounded'
  <2>1. ASSUME blind' = blind, NEW max \in {PlanLimits(plan), FreeMax}, WithinPlan(max)
        PROVE  OvershootBounded'
    <3>1. SUFFICES ASSUME PlanLimits(plan) > 0, PlanLimits(plan) < ListCap
                   PROVE  Cardinality(Live' \ implicit') + Cardinality(Granted')
                            <= PlanLimits(plan) + Cardinality(Request) - 1 + blind
      BY <1>1, <2>1 DEF OvershootBounded, PlanLimits
    <3>2. Cardinality(Live) < PlanLimits(plan)
      BY <2>1, <3>1, GrantedBelowLimit
    <3>3. Granted' \subseteq Request /\ Live' \ implicit' \subseteq Live
      BY <1>4 DEF Granted
    <3>4. /\ Cardinality(Granted') <= Cardinality(Request)
          /\ Cardinality(Live' \ implicit') <= Cardinality(Live)
          /\ IsFiniteSet(Granted') /\ IsFiniteSet(Live' \ implicit') /\ IsFiniteSet(Request)
      BY <3>3, CatalogueAssumption, FS_Subset DEF CatalogueTypeOK
    <3>5. /\ Cardinality(Granted') \in Nat /\ Cardinality(Request) \in Nat
          /\ Cardinality(Live' \ implicit') \in Nat /\ Cardinality(Live) \in Nat
      BY <3>4, FS_CardinalityType DEF CatalogueTypeOK
    <3>6. PlanLimits(plan) \in Nat /\ blind \in Nat
      BY CatalogueAssumption DEF PlanLimits, CatalogueTypeOK
    <3> QED
      BY <3>2, <3>4, <3>5, <3>6
  <2>2. ASSUME blind' = blind, r.phase = "idle" PROVE OvershootBounded'
    <3>1. Granted' \subseteq Granted
      BY <1>3, <2>2 DEF Granted
    <3> QED
      BY <1>1, <1>4, <2>2, <3>1, OvershootKept
  <2>3. ASSUME blind' = blind + 1, r.phase = "granted" PROVE OvershootBounded'
    <3>1. Granted' = Granted \cup {q}
      BY <1>3, <2>3 DEF Granted
    <3> QED
      BY <1>1, <1>4, <2>3, <3>1, OvershootKept
  <2> QED
    BY <1>2, <2>1, <2>2, <2>3
<1> QED
  BY <1>5, <1>6, <1>7

(* The entry a creation leaves: with the labels, or empty and unseen.      *)
LEMMA NewEntryStep ==
    ASSUME CatalogueInv, NEW q \in Request, NEW labels \in Labels, NEW saved \in Labels,
           NEW i \in Session, ~Known(i), requests[q].phase = "granted",
           catalogue' = [catalogue EXCEPT ![i] = [state |-> "live", labels |-> saved, at |-> clock]],
           wanted' = [wanted EXCEPT ![i] = labels],
           requests' = [requests EXCEPT ![q] = NoRequest],
           UNCHANGED <<clock, plan, implicit, contended, blind>>,
           unseen \subseteq unseen', unseen' \subseteq unseen \cup {i},
           saved = labels \/ (saved = NoLabels /\ i \in unseen')
    PROVE  CatalogueInv'
<1> USE DEF CatalogueInv
<1> DEFINE meta == [state |-> "live", labels |-> saved, at |-> clock]
<1>1. /\ catalogue' = [catalogue EXCEPT ![i] = meta]
  OBVIOUS
<1>2. i \in Session /\ ~Known(i)
  OBVIOUS
<1>3. meta = [state |-> "live", labels |-> saved, at |-> clock]
  OBVIOUS
<1> HIDE DEF meta
<1>4. /\ catalogue' \in [Session -> Meta] /\ catalogue'[i] = meta
      /\ \A j \in Session \ {i} : catalogue'[j] = catalogue[j]
  BY <1>1, <1>2, <1>3 DEF CatalogueTypeOK, Meta
<1>5. /\ wanted' \in [Session -> Labels] /\ wanted'[i] = labels
      /\ \A j \in Session \ {i} : wanted'[j] = wanted[j]
  BY <1>1, <1>2 DEF CatalogueTypeOK
<1>6. /\ requests' \in [Request -> RequestState] /\ requests'[q].phase = "idle"
      /\ \A p \in Request \ {q} : requests'[p] = requests[p]
  <2>1. NoRequest \in RequestState /\ NoRequest.phase = "idle"
    BY DEF NoRequest, RequestState
  <2> QED
    BY <1>1, <2>1 DEF CatalogueTypeOK
<1>7. Live' = Live \cup {i} /\ i \notin Live
  BY <1>2, <1>3, <1>4 DEF Live, Known
<1>8. Granted' = Granted \ {q} /\ q \in Granted
  BY <1>1, <1>6 DEF Granted
<1>9. CatalogueTypeOK'
  BY <1>1, <1>4, <1>5, <1>6, <1>7, FS_AddElement DEF CatalogueTypeOK
<1>10. LabelsInv'
  <2>1. Known(i)' /\ \A j \in Session \ {i} : Known(j)' = Known(j)
    BY <1>3, <1>4, <1>2 DEF Known
  <2>2. \A p \in Request : \A j \in Session :
           PatchingOn(p, j)' => PatchingOn(p, j) /\ requests'[p] = requests[p] /\ j # i
    BY <1>2, <1>6 DEF PatchingOn, LabelsInv
  <2>3. PatchKeepsLabels'
    <3>1. KeptOrEmpty(i, unseen', saved, labels)
      BY KeptLabels
    <3> QED
      BY <1>1, <1>3, <1>4, <1>5, <3>1, KeptLabels DEF LabelsInv, PatchKeepsLabels
  <2>4. \A p \in Request : \A j \in Session \ contended' : PatchingOn(p, j)' => ReadLabels(p, j)'
    BY <1>4, <2>2, KeptLabels DEF LabelsInv, ReadLabels
  <2> QED
    BY <1>1, <1>4, <1>5, <2>1, <2>2, <2>3, <2>4 DEF LabelsInv
<1>11. OvershootBounded'
  <2>1. /\ IsFiniteSet(Live \ implicit) /\ IsFiniteSet(Granted) /\ IsFiniteSet(Request)
    BY CatalogueAssumption, FS_Subset DEF CatalogueTypeOK, Granted
  <2>2. Cardinality(Granted') = Cardinality(Granted) - 1
    BY <1>8, <2>1, FS_RemoveElement
  <2>3. /\ Live' \ implicit' \subseteq (Live \ implicit) \cup {i}
        /\ IsFiniteSet((Live \ implicit) \cup {i})
        /\ \/ Cardinality((Live \ implicit) \cup {i}) = Cardinality(Live \ implicit) + 1
           \/ Cardinality((Live \ implicit) \cup {i}) = Cardinality(Live \ implicit)
    BY <1>1, <1>7, <2>1, FS_AddElement
  <2>4. /\ IsFiniteSet(Live' \ implicit')
        /\ Cardinality(Live' \ implicit') <= Cardinality((Live \ implicit) \cup {i})
    BY <2>3, FS_Subset
  <2>5. /\ Cardinality(Live \ implicit) \in Nat /\ Cardinality(Granted) \in Nat
        /\ Cardinality(Live' \ implicit') \in Nat /\ Cardinality(Request) \in Nat
        /\ blind \in Nat
    BY <2>1, <2>4, FS_CardinalityType DEF CatalogueTypeOK
  <2>6. Cardinality(Live' \ implicit') <= Cardinality(Live \ implicit) + 1
    BY <2>3, <2>4, <2>5
  <2>7. PlanLimits(plan) \in Nat /\ PlanLimits(plan') = PlanLimits(plan)
    BY <1>1, CatalogueAssumption DEF PlanLimits
  <2> QED
    BY <2>2, <2>5, <2>6, <2>7 DEF OvershootBounded
<1> QED
  BY <1>9, <1>10, <1>11

(* A request that ends without a change.                                   *)
LEMMA EndStep ==
    ASSUME CatalogueInv, NEW q \in Request, requests' = [requests EXCEPT ![q] = NoRequest],
           UNCHANGED <<clock, plan, catalogue, implicit, wanted, unseen, blind>>,
           contended \subseteq contended'
    PROVE  CatalogueInv'
<1> USE DEF CatalogueInv
<1>1. /\ requests' \in [Request -> RequestState] /\ requests'[q].phase = "idle"
      /\ \A p \in Request \ {q} : requests'[p] = requests[p]
  <2>1. NoRequest \in RequestState /\ NoRequest.phase = "idle"
    BY DEF NoRequest, RequestState
  <2> QED
    BY <2>1 DEF CatalogueTypeOK
<1>2. Live' = Live /\ Granted' \subseteq Granted /\ \A i \in Session : Known(i)' = Known(i)
  BY <1>1 DEF Live, Known, Granted
<1>3. CatalogueTypeOK'
  BY <1>1, <1>2 DEF CatalogueTypeOK
<1>4. LabelsInv'
  <2>1. \A p \in Request : \A i \in Session :
           PatchingOn(p, i)' => PatchingOn(p, i) /\ requests'[p] = requests[p]
    BY <1>1 DEF PatchingOn
  <2>2. PatchKeepsLabels'
    BY DEF LabelsInv, PatchKeepsLabels
  <2>3. \A p \in Request : \A i \in Session \ contended' : PatchingOn(p, i)' => ReadLabels(p, i)'
    BY <2>1 DEF LabelsInv, ReadLabels
  <2> QED
    BY <1>2, <2>1, <2>2, <2>3 DEF LabelsInv
<1>5. OvershootBounded'
  BY <1>2, OvershootKept
<1> QED
  BY <1>3, <1>4, <1>5

LEMMA CreateStep ==
    ASSUME CatalogueInv, NEW q \in Request, NEW labels \in Labels, CreateSession(q, labels)
    PROVE  CatalogueInv'
<1> USE DEF CatalogueInv
<1>0. PICK i : i = Min({j \in Session : ~Known(j)})
  OBVIOUS
<1>1. /\ UNCHANGED <<clock, plan, implicit, contended, blind>>
      /\ requests' = [requests EXCEPT ![q] = NoRequest]
      /\ requests[q].phase = "granted" /\ \E j \in Session : ~Known(j)
  BY DEF CreateSession, In, platformVars
<1>2. i \in Session /\ ~Known(i)
  BY <1>0, <1>1, FreshSession
<1>3. UpsertOrgSessionMeta(i) = [state |-> "live", labels |-> NoLabels, at |-> clock]
  BY <1>2 DEF UpsertOrgSessionMeta
<1>4. NoLabels \in Labels
  BY DEF NoLabels, Labels, Texts
<1>5. CASE /\ catalogue' = [catalogue EXCEPT ![i] = [UpsertOrgSessionMeta(i) EXCEPT !.labels = labels]]
           /\ wanted' = [wanted EXCEPT ![i] = labels] /\ unseen' = unseen
  <2>1. [UpsertOrgSessionMeta(i) EXCEPT !.labels = labels]
            = [state |-> "live", labels |-> labels, at |-> clock]
    BY <1>3
  <2>2. /\ catalogue' = [catalogue EXCEPT ![i] = [state |-> "live", labels |-> labels, at |-> clock]]
        /\ unseen \subseteq unseen' /\ unseen' \subseteq unseen \cup {i}
    BY <1>5, <2>1
  <2>3. wanted' = [wanted EXCEPT ![i] = labels]
    BY <1>5
  <2> QED
    BY <1>1, <1>2, <2>2, <2>3, NewEntryStep
<1>6. CASE /\ catalogue' = [catalogue EXCEPT ![i] = UpsertOrgSessionMeta(i)]
           /\ wanted' = [wanted EXCEPT ![i] = labels] /\ unseen' = unseen \cup {i}
  BY <1>1, <1>2, <1>3, <1>4, <1>6, NewEntryStep
<1>7. CASE UNCHANGED <<catalogue, wanted, unseen>>
  BY <1>1, <1>7, EndStep
<1> QED
  BY <1>0, <1>5, <1>6, <1>7 DEF CreateSession, In

LEMMA GetEngineStep ==
    ASSUME CatalogueInv, NEW i \in Session, GetEngine(i)
    PROVE  CatalogueInv'
<1> USE DEF CatalogueInv
<1> DEFINE meta == TouchOrgSessionMeta(UpsertOrgSessionMeta(i))
<1>1. /\ UNCHANGED <<clock, plan, requests, wanted, contended, unseen, blind>>
      /\ catalogue' = [catalogue EXCEPT ![i] = meta]
      /\ implicit' = IF Known(i) THEN implicit ELSE implicit \cup {i}
  BY DEF GetEngine, In, platformVars
<1>2. /\ meta \in Meta /\ meta.state # "none" /\ meta.labels = catalogue[i].labels
      /\ Known(i) => meta.state = catalogue[i].state
  <2>1. CASE Known(i)
    BY <2>1 DEF UpsertOrgSessionMeta, TouchOrgSessionMeta, CatalogueTypeOK, Meta, Known
  <2>2. CASE ~Known(i)
    <3>1. meta = [state |-> "live", labels |-> NoLabels, at |-> clock]
      BY <2>2 DEF UpsertOrgSessionMeta, TouchOrgSessionMeta
    <3>2. catalogue[i].labels = NoLabels /\ NoLabels \in Labels
      <4>1. NoMeta.labels = NoLabels
        BY DEF NoMeta
      <4>2. NoLabels \in Labels
        BY DEF NoLabels, Labels, Texts
      <4> QED
        BY <2>2, <4>1, <4>2 DEF LabelsInv
    <3> QED
      BY <2>2, <3>1, <3>2 DEF CatalogueTypeOK, Meta
  <2> QED
    BY <2>1, <2>2
<1> HIDE DEF meta
<1>3. /\ catalogue' \in [Session -> Meta] /\ catalogue'[i] = meta
      /\ \A j \in Session \ {i} : catalogue'[j] = catalogue[j]
  BY <1>1, <1>2 DEF CatalogueTypeOK
<1>4. Live' \subseteq Live \cup {i} /\ Live' \ implicit' \subseteq Live \ implicit
  BY <1>1, <1>2, <1>3 DEF Live, Known
<1>5. CatalogueTypeOK'
  <2>1. IsFiniteSet(Live')
    BY <1>4, FS_AddElement, FS_Subset DEF CatalogueTypeOK
  <2> QED
    BY <1>1, <1>3, <2>1 DEF CatalogueTypeOK
<1>6. LabelsInv'
  <2>1. \A j \in Session : /\ catalogue'[j].labels = catalogue[j].labels
                           /\ Known(j) => Known(j)'
                           /\ ~Known(j)' => catalogue'[j] = catalogue[j]
    BY <1>2, <1>3 DEF Known
  <2>2. PatchKeepsLabels'
    BY <1>1, <2>1 DEF LabelsInv, PatchKeepsLabels
  <2> QED
    BY <1>1, <2>1, <2>2 DEF LabelsInv, ReadLabels, PatchingOn
<1>7. Granted' = Granted
  BY <1>1 DEF Granted
<1>8. OvershootBounded'
  BY <1>1, <1>4, <1>7, OvershootKept
<1> QED
  BY <1>5, <1>6, <1>8

LEMMA PatchReadStep ==
    ASSUME CatalogueInv, NEW q \in Request, NEW i \in Session, NEW field \in Fields,
           HandlePatchSession(q, i, field)
    PROVE  CatalogueInv'
<1> USE DEF CatalogueInv
<1>0. PICK page \in {FirstPage(ListCap), {}} :
        /\ requests' = [requests EXCEPT ![q] = [phase |-> "patching", session |-> i, field |-> field,
                                                labels |-> CurrentLabels(i, page)]]
        /\ unseen' = IF i \in page THEN unseen ELSE unseen \cup {i}
  BY DEF HandlePatchSession
<1> DEFINE r == [phase |-> "patching", session |-> i, field |-> field,
                 labels |-> CurrentLabels(i, page)]
<1>1. /\ UNCHANGED <<clock, plan, catalogue, implicit, wanted, contended, blind>>
      /\ requests' = [requests EXCEPT ![q] = r]
      /\ unseen \subseteq unseen'
      /\ Known(i)
  BY <1>0 DEF HandlePatchSession, In, platformVars
<1>2. /\ r \in RequestState /\ r.phase = "patching" /\ r.session = i
      /\ KeptOrEmpty(i, unseen', r.labels, catalogue[i].labels)
  <2>1. CurrentLabels(i, page) \in Labels
    BY DEF CurrentLabels, CatalogueTypeOK, Meta, NoLabels, Labels, Texts
  <2>2. r \in RequestState /\ r.phase = "patching" /\ r.session = i
    BY <2>1 DEF RequestState
  <2>3. KeptOrEmpty(i, unseen', r.labels, catalogue[i].labels)
    BY <1>0, KeptLabels DEF CurrentLabels
  <2> QED
    BY <2>2, <2>3
<1> HIDE DEF r
<1>3. /\ requests' \in [Request -> RequestState] /\ requests'[q] = r
      /\ \A p \in Request \ {q} : requests'[p] = requests[p]
  BY <1>1, <1>2 DEF CatalogueTypeOK
<1>4. Live' = Live /\ \A j \in Session : Known(j)' = Known(j)
  BY <1>1 DEF Live, Known
<1>5. CatalogueTypeOK'
  BY <1>1, <1>3, <1>4 DEF CatalogueTypeOK
<1>6. LabelsInv'
  <2>1. PatchKeepsLabels'
    BY <1>1, KeptLabels DEF LabelsInv, PatchKeepsLabels
  <2>2. ASSUME NEW p \in Request, NEW j \in Session, PatchingOn(p, j)'
        PROVE  Known(j) /\ (j \notin contended' => ReadLabels(p, j)')
    <3>1. CASE p = q
      BY <1>1, <1>2, <1>3, <2>2, <3>1 DEF PatchingOn, ReadLabels
    <3>2. CASE p # q
      BY <1>1, <1>3, <2>2, <3>2, KeptLabels DEF PatchingOn, LabelsInv, ReadLabels
    <3> QED
      BY <3>1, <3>2
  <2> QED
    BY <1>1, <1>4, <2>1, <2>2 DEF LabelsInv
<1>7. Granted' \subseteq Granted
  BY <1>2, <1>3 DEF Granted
<1>8. OvershootBounded'
  BY <1>1, <1>4, <1>7, OvershootKept
<1> QED
  BY <1>5, <1>6, <1>8

LEMMA PatchWriteStep ==
    ASSUME CatalogueInv, NEW q \in Request, NEW text \in Texts, PatchSession(q, text)
    PROVE  CatalogueInv'
<1> USE DEF CatalogueInv
<1>f. CASE UNCHANGED <<catalogue, wanted>>
  <2>1. /\ UNCHANGED <<clock, plan, implicit, unseen, blind>> /\ contended \subseteq contended'
        /\ requests' = [requests EXCEPT ![q] = NoRequest]
    BY DEF PatchSession, In, platformVars
  <2> QED
    BY <1>f, <2>1, EndStep
<1> SUFFICES ASSUME ~ UNCHANGED <<catalogue, wanted>> PROVE CatalogueInv'
  BY <1>f
<1>0. requests[q] \in RequestState /\ requests[q].phase = "patching"
  BY DEF PatchSession, In, CatalogueTypeOK
<1>1. requests[q] \in [phase : {"patching"}, session : Session, field : Fields, labels : Labels]
  BY <1>0 DEF RequestState
<1>2. PICK i \in Session, field \in Fields, labels \in Labels :
        i = requests[q].session /\ field = requests[q].field /\ labels = requests[q].labels
  BY <1>1
<1>3. /\ UNCHANGED <<clock, plan, implicit, unseen, blind>>
      /\ catalogue' = [catalogue EXCEPT ![i].labels = [labels EXCEPT ![field] = text]]
      /\ wanted' = [wanted EXCEPT ![i][field] = text]
      /\ requests' = [requests EXCEPT ![q] = NoRequest]
      /\ contended' = IF \E p \in Request \ {q} : PatchingOn(p, i)
                      THEN contended \cup {i} ELSE contended
  BY <1>2 DEF PatchSession, PatchOrgSessionMeta, In, platformVars, PatchingOn
<1>4. field \in {"name", "description"}
  BY CatalogueAssumption
<1>5. \A l \in Labels : [l EXCEPT ![field] = text] \in Labels
  BY <1>4 DEF Labels
<1>6. /\ catalogue' \in [Session -> Meta]
      /\ catalogue'[i].state = catalogue[i].state /\ catalogue'[i].at = catalogue[i].at
      /\ catalogue'[i].labels = [labels EXCEPT ![field] = text]
      /\ \A j \in Session \ {i} : catalogue'[j] = catalogue[j]
  BY <1>3, <1>5 DEF CatalogueTypeOK, Meta
<1>7. /\ wanted' \in [Session -> Labels] /\ wanted'[i] = [wanted[i] EXCEPT ![field] = text]
      /\ \A j \in Session \ {i} : wanted'[j] = wanted[j]
  BY <1>3, <1>5 DEF CatalogueTypeOK
<1>8. /\ requests' \in [Request -> RequestState] /\ requests'[q].phase = "idle"
      /\ \A p \in Request \ {q} : requests'[p] = requests[p]
  <2>1. NoRequest \in RequestState /\ NoRequest.phase = "idle"
    BY DEF NoRequest, RequestState
  <2> QED
    BY <1>3, <2>1 DEF CatalogueTypeOK
<1>9. Live' = Live /\ \A j \in Session : Known(j)' = Known(j)
  BY <1>6 DEF Live, Known
<1>10. CatalogueTypeOK'
  BY <1>3, <1>6, <1>7, <1>8, <1>9 DEF CatalogueTypeOK
<1>11. PatchingOn(q, i) /\ Known(i)
  BY <1>0, <1>2 DEF PatchingOn, LabelsInv
<1>12. \A p \in Request : \A j \in Session :
          PatchingOn(p, j)' => p # q /\ PatchingOn(p, j) /\ requests'[p] = requests[p]
  BY <1>8 DEF PatchingOn
<1>13. i \notin contended' => \A p \in Request : ~PatchingOn(p, i)'
  BY <1>3, <1>12
<1>14. contended \subseteq contended'
  BY <1>3
<1>15. LabelsInv'
  <2>1. PatchKeepsLabels'
    <3>1. ASSUME i \notin contended'
          PROVE  KeptOrEmpty(i, unseen, catalogue'[i].labels, wanted'[i])
      <4>1. KeptOrEmpty(i, unseen, labels, catalogue[i].labels)
        BY <1>2, <1>11, <1>14, <3>1 DEF LabelsInv, ReadLabels
      <4>2. KeptOrEmpty(i, unseen, catalogue[i].labels, wanted[i])
        BY <1>14, <3>1 DEF LabelsInv, PatchKeepsLabels
      <4>3. catalogue[i].labels \in Labels /\ wanted[i] \in Labels
        BY DEF CatalogueTypeOK, Meta
      <4> QED
        <5>1. KeptOrEmpty(i, unseen, [labels EXCEPT ![field] = text],
                          [wanted[i] EXCEPT ![field] = text])
          BY <1>4, <4>1, <4>2, <4>3, KeptWrite
        <5> QED
          BY <1>6, <1>7, <5>1
    <3>2. ASSUME NEW j \in Session \ contended', j # i
          PROVE  KeptOrEmpty(j, unseen, catalogue'[j].labels, wanted'[j])
      BY <1>6, <1>7, <1>14, <3>2 DEF LabelsInv, PatchKeepsLabels
    <3> QED
      BY <1>3, <3>1, <3>2 DEF PatchKeepsLabels
  <2>2. \A p \in Request : \A j \in Session \ contended' : PatchingOn(p, j)' => ReadLabels(p, j)'
    BY <1>3, <1>6, <1>12, <1>13, <1>14 DEF LabelsInv, ReadLabels
  <2>3. \A j \in Session : ~Known(j)' => catalogue'[j] = NoMeta /\ wanted'[j] = NoLabels
    BY <1>6, <1>7, <1>9, <1>11 DEF LabelsInv
  <2> QED
    BY <1>9, <1>12, <2>1, <2>2, <2>3 DEF LabelsInv
<1>16. Granted' \subseteq Granted
  BY <1>8 DEF Granted
<1>17. OvershootBounded'
  BY <1>3, <1>9, <1>16, OvershootKept
<1> QED
  BY <1>10, <1>15, <1>17

LEMMA ArchiveStep ==
    ASSUME CatalogueInv, NEW i \in Session, HandleDeleteSession(i)
    PROVE  CatalogueInv'
<1> USE DEF CatalogueInv
<1>1. /\ UNCHANGED <<clock, plan, requests, implicit, wanted, contended, unseen, blind>>
      /\ catalogue' = [catalogue EXCEPT ![i].state = "archived"] /\ Known(i)
  BY DEF HandleDeleteSession, In, platformVars
<1>2. /\ catalogue' \in [Session -> Meta]
      /\ catalogue'[i].state = "archived" /\ catalogue'[i].labels = catalogue[i].labels
      /\ \A j \in Session \ {i} : catalogue'[j] = catalogue[j]
  BY <1>1 DEF CatalogueTypeOK, Meta
<1>3. Live' \subseteq Live /\ Granted' = Granted /\ \A j \in Session : Known(j)' = Known(j)
  BY <1>1, <1>2 DEF Live, Granted, Known
<1>4. CatalogueTypeOK'
  <2>1. IsFiniteSet(Live')
    BY <1>3, FS_Subset DEF CatalogueTypeOK
  <2> QED
    BY <1>1, <1>2, <2>1 DEF CatalogueTypeOK
<1>5. LabelsInv'
  <2>1. \A j \in Session : /\ catalogue'[j].labels = catalogue[j].labels
                           /\ ~Known(j)' => catalogue'[j] = catalogue[j]
    BY <1>1, <1>2, <1>3
  <2>2. PatchKeepsLabels'
    BY <1>1, <2>1 DEF LabelsInv, PatchKeepsLabels
  <2> QED
    BY <1>1, <1>3, <2>1, <2>2 DEF LabelsInv, ReadLabels, PatchingOn
<1>6. OvershootBounded'
  BY <1>1, <1>3, OvershootKept
<1> QED
  BY <1>4, <1>5, <1>6

LEMMA CatalogueInvariant == CatalogueSpec => []CatalogueInv
<1>1. PlatformInit /\ CatalogueInit => CatalogueInv
  <2> SUFFICES ASSUME PlatformInit, CatalogueInit PROVE CatalogueInv
    OBVIOUS
  <2>1. NoMeta \in Meta /\ NoRequest \in RequestState /\ NoLabels \in Labels
    BY DEF NoMeta, Meta, NoRequest, RequestState, NoLabels, Labels, Texts
  <2>2. /\ \A i \in Session : catalogue[i] = NoMeta /\ wanted[i] = NoLabels
        /\ \A q \in Request : requests[q] = NoRequest
    BY DEF CatalogueInit
  <2>3. Live = {} /\ Granted = {} /\ Live \ implicit = {}
    BY <2>2 DEF Live, Granted, NoMeta, NoRequest
  <2>4. CatalogueTypeOK
    BY <2>1, <2>3, FS_EmptySet DEF PlatformInit, CatalogueInit, CatalogueTypeOK
  <2>5. LabelsInv
    <3>1. NoMeta.labels = NoLabels /\ NoRequest.phase = "idle"
      BY DEF NoMeta, NoRequest
    <3> QED
      BY <2>2, <3>1, KeptLabels DEF LabelsInv, PatchKeepsLabels, PatchingOn
  <2>6. OvershootBounded
    <3>1. Cardinality(Request) \in Nat /\ Cardinality(Request) # 0
      BY CatalogueAssumption, FS_CardinalityType, FS_EmptySet
    <3>2. PlanLimits(plan) \in Nat
      BY CatalogueAssumption DEF PlanLimits
    <3>3. Cardinality(Live \ implicit) = 0 /\ Cardinality(Granted) = 0 /\ blind = 0
      BY <2>3, FS_EmptySet DEF CatalogueInit
    <3> QED
      BY <3>1, <3>2, <3>3 DEF OvershootBounded
  <2> QED
    BY <2>4, <2>5, <2>6 DEF CatalogueInv
<1>2. CatalogueInv /\ [cNext]_cVars => CatalogueInv'
  <2> SUFFICES ASSUME CatalogueInv, [cNext]_cVars PROVE CatalogueInv'
    OBVIOUS
  <2>1. ASSUME NEW q \in Request, HandleCreateSession(q) PROVE CatalogueInv'
    BY <2>1, GrantStep
  <2>2. ASSUME NEW q \in Request, CreateSession(q, [name |-> "a", description |-> ""])
        PROVE  CatalogueInv'
    <3>1. [name |-> "a", description |-> ""] \in Labels
      BY DEF Labels, Texts
    <3> QED
      BY <2>2, <3>1, CreateStep
  <2>3. ASSUME NEW q \in Request, NEW i \in Patched, NEW field \in Fields,
               HandlePatchSession(q, i, field)
        PROVE  CatalogueInv'
    BY <2>3, PatchReadStep, CatalogueAssumption
  <2>4. ASSUME NEW q \in Request, NEW text \in Texts, PatchSession(q, text) PROVE CatalogueInv'
    BY <2>4, PatchWriteStep
  <2>5. ASSUME NEW i \in Session, GetEngine(i) PROVE CatalogueInv'
    BY <2>5, GetEngineStep
  <2>6. ASSUME NEW i \in Session, HandleDeleteSession(i) PROVE CatalogueInv'
    BY <2>6, ArchiveStep
  <2>7. CASE UNCHANGED catalogueVars /\ clock' \in Nat
    <3>1. /\ UNCHANGED <<plan, catalogue, requests, implicit, wanted, contended, unseen, blind>>
          /\ Live' = Live /\ Granted' = Granted
      BY <2>7 DEF catalogueVars, Live, Granted
    <3>2. CatalogueTypeOK'
      BY <2>7, <3>1 DEF CatalogueInv, CatalogueTypeOK
    <3>3. LabelsInv'
      BY <3>1 DEF CatalogueInv, LabelsInv, ReadLabels, PatchKeepsLabels, PatchingOn, Known
    <3>4. OvershootBounded'
      BY <3>1, OvershootKept DEF CatalogueInv
    <3> QED
      BY <3>2, <3>3, <3>4 DEF CatalogueInv
  <2>8. (Tick \/ UNCHANGED clock) => clock' \in Nat
    BY DEF Tick, CatalogueInv, CatalogueTypeOK
  <2> QED
    BY <2>1, <2>2, <2>3, <2>4, <2>5, <2>6, <2>7, <2>8
    DEF cNext, cVars, CatalogueNext, platformVars
<1> QED
  BY <1>1, <1>2, PTL DEF CatalogueSpec, cNext, cVars

(* handleCreateSession compares the number of sessions on one page with    *)
(* the limit of the plan and creates the session later: with n requests in *)
(* flight a limit that fits a page is exceeded by n - 1 sessions at most,  *)
(* and by one more for each creation it granted because the listing failed.*)
THEOREM OvershootWithinRequests == CatalogueSpec => []OvershootBounded
<1>1. CatalogueInv => OvershootBounded
  BY DEF CatalogueInv
<1> QED
  BY <1>1, CatalogueInvariant, PTL

(* handlePatchSession reads the labels on the first page and writes both   *)
(* of them: the one it was not given survives, whatever touches, upserts   *)
(* and archivings come in between, unless two patches of the session       *)
(* overlap; of a session that is not on the page it read, or whose listing *)
(* failed, a label is what was asked for or empty.                         *)
THEOREM LabelsKept == CatalogueSpec => []PatchKeepsLabels
<1>1. CatalogueInv => PatchKeepsLabels
  BY DEF CatalogueInv, LabelsInv
<1> QED
  BY <1>1, CatalogueInvariant, PTL

-----------------------------------------------------------------------------
(* The billing record, for any number of faults.                           *)
Record == [plan : {"none", "free", "pro", "enterprise"}, customer : {"", "stripe", "checkout"},
           email : {"", "admin", "patched"}]
WebhookOps == {"checked", "read", "saved"}
Ops == WebhookOps \cup {"none", "patch", "checkout"}
Working == [op : Ops, event : Event \cup {0}, current : Record]

BillingTypeOK ==
    /\ eventPlan \in [Event -> {"", "enterprise", "deleted"}]
    /\ billing \in Record /\ expected \in Record
    /\ handler \in [Handler -> Working]
    /\ orderly \in BOOLEAN

(* A handler past the save has an event whose effect was saved.            *)
AckInv ==
    /\ processed \subseteq applied /\ acked \subseteq applied
    /\ applied \subseteq Event
    /\ \A h \in Handler :
          /\ handler[h].op \in WebhookOps => handler[h].event \in Event
          /\ handler[h].op = "saved" => handler[h].event \in applied

(* While everything is orderly at most one handler is at work, it has read *)
(* the record as it is or a fresh one in its place, and its event is the   *)
(* latest.                                                                 *)
ReadMeant(h) ==
    /\ handler[h].op = "read" => Meant(handler[h].current, Base(expected, ""))
    /\ handler[h].op = "patch" => Meant(handler[h].current, Base(expected, "admin"))
    /\ handler[h].op = "checkout" => handler[h].current = billing /\ billing # NoBilling

There ==
    \/ billing = NoBilling /\ expected = NoBilling
    \/ billing.plan # "none" /\ expected.plan # "none"

OrderInv ==
    orderly =>
        /\ Meant(billing, expected)
        /\ There
        /\ \A g, h \in Handler : g # h => handler[g].op = "none" \/ handler[h].op = "none"
        /\ \A h \in Handler :
              /\ ReadMeant(h)
              /\ handler[h].op \in {"checked", "read"} =>
                    \A d \in applied : d <= handler[h].event

BillingInv == BillingTypeOK /\ AckInv /\ OrderInv

bNext == BillingNext \/ (Tick /\ UNCHANGED billingVars)
bVars == <<platformVars, billingVars>>

LEMMA RecordTypes ==
    /\ NoBilling \in Record /\ FreeBilling("") \in Record /\ FreeBilling("admin") \in Record
    /\ \A r \in Record : DOMAIN r = {"plan", "customer", "email"}
    /\ \A r \in Record, email \in {"", "admin"} : Base(r, email) \in Record /\ (r = NoBilling \/ r.plan # "none" => Base(r, email).plan # "none")
    /\ BillingTypeOK =>
          \A r \in Record, e \in Event : SubscriptionRecord(r, e) \in Record
    /\ \A r \in Record, patch \in Patches : PatchedBilling(r, patch) \in Record
<1>1. /\ NoBilling \in Record /\ FreeBilling("") \in Record /\ FreeBilling("admin") \in Record
      /\ \A r \in Record : DOMAIN r = {"plan", "customer", "email"}
  BY DEF NoBilling, FreeBilling, Record
<1>2. \A r \in Record, email \in {"", "admin"} : Base(r, email) \in Record /\ (r = NoBilling \/ r.plan # "none" => Base(r, email).plan # "none")
  BY <1>1 DEF Base, FreeBilling, NoBilling
<1>3. ASSUME BillingTypeOK, NEW r \in Record, NEW e \in Event
      PROVE  SubscriptionRecord(r, e) \in Record
  <2>1. ResolvePlan(e) \in {"free", "pro", "enterprise"}
    BY <1>3 DEF BillingTypeOK, ResolvePlan
  <2> QED
    BY <2>1 DEF SubscriptionRecord, Record
<1>4. \A r \in Record, patch \in Patches : PatchedBilling(r, patch) \in Record
  BY DEF PatchedBilling, Patches, Record
<1> QED
  BY <1>1, <1>2, <1>3, <1>4

(* What a writer starts from is what was meant, or a fresh record of which *)
(* the run knows; what it writes keeps that so.                            *)
LEMMA BaseMeant ==
    ASSUME NEW r \in Record, NEW s \in Record, NEW email \in {"", "admin"},
           Meant(r, s), r = NoBilling <=> s = NoBilling
    PROVE  Meant(Base(r, email), Base(s, email))
BY RecordTypes DEF Meant, Base, FreeBilling

LEMMA FreshMeant ==
    ASSUME NEW s \in Record, NEW email \in {"", "admin"}, misread
    PROVE  Meant(FreeBilling(email), s)
BY RecordTypes DEF Meant

LEMMA WrittenMeant ==
    ASSUME BillingTypeOK, NEW r \in Record, NEW s \in Record, Meant(r, s)
    PROVE  /\ \A e \in Event : Meant(SubscriptionRecord(r, e), SubscriptionRecord(s, e))
           /\ \A patch \in Patches : Meant(PatchedBilling(r, patch), PatchedBilling(s, patch))
           /\ Meant([r EXCEPT !.customer = "checkout"], [s EXCEPT !.customer = "checkout"])
<1>1. /\ DOMAIN r = {"plan", "customer", "email"} /\ DOMAIN s = {"plan", "customer", "email"}
  BY RecordTypes
<1>2. \A e \in Event : Meant(SubscriptionRecord(r, e), SubscriptionRecord(s, e))
  BY <1>1 DEF Meant, SubscriptionRecord, Record
<1>3. \A patch \in Patches : Meant(PatchedBilling(r, patch), PatchedBilling(s, patch))
  BY <1>1 DEF Meant, PatchedBilling, Record
<1>4. Meant([r EXCEPT !.customer = "checkout"], [s EXCEPT !.customer = "checkout"])
  BY <1>1 DEF Meant, Record
<1> QED
  BY <1>2, <1>3, <1>4

LEMMA MeantPlan ==
    ASSUME NEW r \in Record, NEW s \in Record, Meant(r, s), s.plan # "none"
    PROVE  r.plan # "none"
BY RecordTypes DEF Meant, FreeBilling

LEMMA MeantNext ==
    misread' = misread => (Meant(billing, expected)' <=> Meant(billing', expected'))
BY DEF Meant

(* The records a writer has written are there.                             *)
LEMMA WrittenThere ==
    ASSUME BillingTypeOK, NEW r \in Record, r.plan # "none"
    PROVE  /\ \A e \in Event : SubscriptionRecord(r, e).plan # "none"
           /\ \A patch \in Patches : PatchedBilling(r, patch).plan # "none"
           /\ [r EXCEPT !.customer = "checkout"].plan # "none"
<1>1. \A e \in Event : ResolvePlan(e) # "none"
  BY DEF BillingTypeOK, ResolvePlan
<1> QED
  BY <1>1 DEF SubscriptionRecord, PatchedBilling, Patches, Record

LEMMA BillingInvInit == BillingInit => BillingInv
<1> SUFFICES ASSUME BillingInit PROVE BillingInv
  OBVIOUS
<1>1. Resting \in Working
  BY RecordTypes DEF Resting, Ops, Working
<1>2. BillingTypeOK
  BY <1>1, RecordTypes DEF BillingInit, BillingTypeOK
<1>3. \A h \in Handler : handler[h].op = "none"
  BY DEF BillingInit, Resting
<1>4. AckInv
  BY <1>3 DEF BillingInit, AckInv, WebhookOps
<1>5. OrderInv
  BY <1>3 DEF BillingInit, OrderInv, Meant, ReadMeant, There
<1> QED
  BY <1>2, <1>4, <1>5 DEF BillingInv

(* A handler reads the record, or takes it for missing.                    *)
LEMMA GetBillingStep ==
    ASSUME BillingInv, NEW h \in Handler, NEW op \in {"read", "patch"},
           NEW email \in {"", "admin"}, (op = "read") <=> (email = ""),
           GetBilling(h, op, email),
           UNCHANGED <<eventPlan, billing, processed, acked, applied, expected>>,
           orderly' => orderly /\ Alone(h), orderly' \in BOOLEAN,
           op = "read" => /\ handler[h].op = "checked"
    PROVE  BillingInv'
<1> USE DEF BillingInv, BillingTypeOK, AckInv, Ops, WebhookOps, Working
<1> DEFINE Holding(r) == [handler[h] EXCEPT !.op = op, !.current = r]
<1>1. PICK r \in Record :
        /\ handler' = [handler EXCEPT ![h] = Holding(r)]
        /\ misread => misread'
        /\ \/ r = Base(billing, email) /\ misread' = misread
           \/ r = FreeBilling(email) /\ misread'
  <2>1. Base(billing, email) \in Record /\ FreeBilling(email) \in Record
    BY RecordTypes
  <2>2. CASE /\ handler' = [handler EXCEPT ![h].op = op, ![h].current = Base(billing, email)]
             /\ misread' = misread
    <3>1. handler' = [handler EXCEPT ![h] = Holding(Base(billing, email))]
      BY <2>2
    <3> HIDE DEF Holding
    <3> QED
      BY <2>1, <2>2, <3>1
  <2>3. CASE /\ handler' = [handler EXCEPT ![h].op = op, ![h].current = FreeBilling(email)]
             /\ misread' = TRUE
    <3>1. handler' = [handler EXCEPT ![h] = Holding(FreeBilling(email))]
      BY <2>3
    <3> HIDE DEF Holding
    <3> QED
      BY <2>1, <2>3, <3>1
  <2> QED
    BY <2>2, <2>3 DEF GetBilling
<1> DEFINE w == Holding(r)
<1>2. /\ handler' = [handler EXCEPT ![h] = w]
      /\ w \in Working /\ w.op = op /\ w.current = r /\ w.event = handler[h].event
  BY <1>1
<1> HIDE DEF w, Holding
<1>3a. BillingTypeOK'
  <2>1. handler' \in [Handler -> Working]
    <3> HIDE DEF Working
    <3> QED
      BY <1>2
  <2> QED
    BY <2>1
<1>3b. AckInv'
  BY <1>1, <1>2
<1>3. BillingTypeOK' /\ AckInv'
  BY <1>3a, <1>3b
<1>4. OrderInv'
  <2> SUFFICES ASSUME orderly' PROVE OrderInv'
    BY DEF OrderInv
  <2>1. /\ orderly /\ Alone(h) /\ Meant(billing, expected)
        /\ There
        /\ \A g \in Handler : handler[g].op \in {"checked", "read"} =>
              \A d \in applied : d <= handler[g].event
    BY DEF OrderInv
  <2>2. Meant(billing, expected)'
    BY <1>1, <2>1 DEF Meant
  <2>3. Meant(r, Base(expected, email))'
    <3>1. CASE r = Base(billing, email) /\ misread' = misread
      <4>1. Meant(r, Base(expected, email))
        <5>1. billing = NoBilling <=> expected = NoBilling
          <6>1. NoBilling.plan = "none"
            BY DEF NoBilling
          <6> QED
            BY <2>1, <6>1, Zenon DEF There
        <5> QED
          BY <3>1, <2>1, <5>1, BaseMeant
      <4> QED
        BY <3>1, <4>1 DEF Meant, Base
    <3>2. CASE r = FreeBilling(email) /\ misread'
      BY <3>2, RecordTypes DEF Meant, Base
    <3> QED
      BY <1>1, <3>1, <3>2
  <2>4. \A g \in Handler \ {h} :
            handler'[g] = handler[g] /\ handler[g].op = "none" /\ handler'[g].op = "none"
    BY <1>2, <2>1 DEF Alone
  <2>5. handler'[h] = w
    BY <1>2
  <2>6. ReadMeant(h)'
    BY <1>2, <2>3, <2>5 DEF ReadMeant
  <2>7. \A g \in Handler : ReadMeant(g)'
    BY <2>4, <2>6 DEF ReadMeant
  <2>8. \A g \in Handler : handler'[g].op \in {"checked", "read"} =>
              \A d \in applied' : d <= handler'[g].event
    BY <1>2, <2>1, <2>4, <2>5
  <2>9. \A g, k \in Handler : g # k => handler'[g].op = "none" \/ handler'[k].op = "none"
    BY <2>4, Zenon
  <2>10. There'
    BY <2>1 DEF There
  <2> QED
    BY <2>2, <2>7, <2>8, <2>9, <2>10, Zenon DEF OrderInv
<1> QED
  BY <1>3, <1>4 DEF BillingInv

(* A handler writes the record and rests, or goes on to mark the event.    *)
LEMMA SaveBillingStep ==
    ASSUME BillingInv, NEW h \in Handler, NEW w \in Working,
           handler' = [handler EXCEPT ![h] = w],
           w.op \in {"none", "saved"}, w.op = "saved" => w.event \in applied' /\ w.event \in Event,
           billing' \in Record, expected' \in Record,
           orderly /\ (\A g \in Handler \ {h} : handler[g].op = "none") =>
                Meant(billing, expected)' /\ billing'.plan # "none" /\ expected'.plan # "none",
           handler[h].op # "none",
           applied \subseteq applied', applied' \subseteq Event,
           UNCHANGED <<eventPlan, processed, acked, orderly, misread>>
    PROVE  BillingInv'
<1> USE DEF BillingInv, BillingTypeOK, AckInv, Ops, WebhookOps, Working
<1>1. BillingTypeOK' /\ AckInv'
  OBVIOUS
<1>2. OrderInv'
  <2> SUFFICES ASSUME orderly PROVE OrderInv'
    BY DEF OrderInv
  <2>1. \A g \in Handler \ {h} : handler[g].op = "none"
    BY DEF OrderInv
  <2>2. \A g \in Handler : handler'[g].op \in {"none", "saved"} /\ (g # h => handler'[g].op = "none")
    BY <2>1
  <2>3. \A g \in Handler : ReadMeant(g)'
    BY <2>2 DEF ReadMeant
  <2> QED
    BY <2>1, <2>2, <2>3 DEF OrderInv, There
<1> QED
  BY <1>1, <1>2

(* A handler that rests leaves the record as it is.                        *)
LEMMA RestingStep ==
    ASSUME BillingInv, NEW h \in Handler, Rest(h), processed' \subseteq applied, acked' \subseteq applied,
           UNCHANGED <<eventPlan, billing, applied, expected, orderly, misread>>
    PROVE  BillingInv'
<1> USE DEF BillingInv, BillingTypeOK, AckInv, Ops, WebhookOps, Working
<1>1. Resting \in Working /\ Resting.op = "none"
  BY RecordTypes DEF Resting
<1>2. handler' = [handler EXCEPT ![h] = Resting]
  BY DEF Rest
<1>3. BillingTypeOK' /\ AckInv'
  BY <1>1, <1>2
<1>4. \A g \in Handler : handler'[g] = handler[g] \/ handler'[g].op = "none"
  BY <1>1, <1>2
<1>5. OrderInv'
  <2> SUFFICES ASSUME orderly PROVE OrderInv'
    BY DEF OrderInv
  <2>1. Meant(billing, expected)' /\ There'
    BY DEF OrderInv, Meant, There
  <2>2. ASSUME NEW g \in Handler PROVE ReadMeant(g)'
    <3>1. CASE handler'[g].op = "none"
      BY <3>1 DEF ReadMeant
    <3>2. CASE handler'[g] = handler[g]
      BY <3>2 DEF OrderInv, ReadMeant, Meant, Base
    <3> QED
      BY <1>4, <3>1, <3>2
  <2>3. \A g \in Handler : handler'[g].op \in {"checked", "read"} =>
              \A d \in applied' : d <= handler'[g].event
    BY <1>4 DEF OrderInv
  <2>4. \A g, k \in Handler : g # k => handler'[g].op = "none" \/ handler'[k].op = "none"
    BY <1>4 DEF OrderInv
  <2> QED
    BY <2>1, <2>2, <2>3, <2>4, Zenon DEF OrderInv
<1> QED
  BY <1>3, <1>5

LEMMA BillingInvStep == BillingInv /\ [bNext]_bVars => BillingInv'
<1> SUFFICES ASSUME BillingInv, [bNext]_bVars PROVE BillingInv'
  OBVIOUS
<1> USE DEF BillingInv, BillingTypeOK, AckInv, Ops, WebhookOps, Working
<1>1. ASSUME NEW h \in Handler, NEW e \in Event, WebhookCheck(h, e) PROVE BillingInv'
  <2>1. ASSUME IsStripeEventProcessed(e) PROVE BillingInv'
    <3>1. /\ UNCHANGED <<eventPlan, billing, processed, applied, expected, handler, misread>>
          /\ acked' = acked \cup {e} /\ e \in processed /\ orderly' = orderly
      BY <1>1, <2>1 DEF WebhookCheck, IsStripeEventProcessed, At
    <3>2. BillingTypeOK' /\ AckInv'
      BY <3>1
    <3>3. OrderInv'
      BY <3>1 DEF OrderInv, ReadMeant, Meant, Base, There
    <3> QED
      BY <3>2, <3>3
  <2>2. ASSUME ~IsStripeEventProcessed(e) PROVE BillingInv'
    <3> DEFINE w == [handler[h] EXCEPT !.op = "checked", !.event = e]
    <3>1. /\ handler' = [handler EXCEPT ![h] = w] /\ handler[h].op = "none"
          /\ UNCHANGED <<eventPlan, billing, processed, acked, applied, expected, misread>>
      BY <1>1, <2>2 DEF WebhookCheck, At
    <3>2. w \in Working /\ w.op = "checked" /\ w.event = e
      OBVIOUS
    <3>3. orderly' \in BOOLEAN
      BY <1>1, Zenon DEF WebhookCheck
    <3>4. orderly' => orderly /\ Alone(h) /\ \A d \in applied : d <= e
      BY <1>1, <2>2 DEF WebhookCheck, IsStripeEventProcessed
    <3> HIDE DEF w
    <3>5. BillingTypeOK'
      BY <3>1, <3>2, <3>3
    <3>6. AckInv'
      BY <3>1, <3>2
    <3>7. OrderInv'
      BY <3>1, <3>2, <3>4 DEF OrderInv, Alone, ReadMeant, Meant, Base, There
    <3> QED
      BY <3>5, <3>6, <3>7
  <2> QED
    BY <2>1, <2>2
<1>2. ASSUME NEW h \in Handler, HandleSubscriptionEvent(h) PROVE BillingInv'
  <2>1. /\ handler[h].op = "checked" /\ GetBilling(h, "read", "")
        /\ UNCHANGED <<eventPlan, billing, processed, acked, applied, expected, orderly>>
    BY <1>2 DEF HandleSubscriptionEvent, At
  <2>2. orderly' => orderly /\ Alone(h)
    BY <2>1 DEF OrderInv, Alone
  <2> QED
    BY <2>1, <2>2, GetBillingStep
<1>3. ASSUME NEW h \in Handler, SaveSubscription(h) PROVE BillingInv'
  <2> DEFINE e == handler[h].event
             w == [handler[h] EXCEPT !.op = "saved", !.current = NoBilling]
             cur == handler[h].current
             exp == Base(expected, "")
  <2>1. /\ handler[h].op = "read" /\ handler' = [handler EXCEPT ![h] = w]
        /\ billing' = SubscriptionRecord(cur, e)
        /\ expected' = IF \A d \in applied : d <= e THEN SubscriptionRecord(exp, e) ELSE expected
        /\ applied' = applied \cup {e}
        /\ UNCHANGED <<eventPlan, processed, acked, orderly, misread>>
    BY <1>3 DEF SaveSubscription, At
  <2>2. w \in Working /\ w.op = "saved" /\ w.event = e /\ e \in Event /\ cur \in Record
    BY <2>1, RecordTypes
  <2>3. exp \in Record
    BY RecordTypes
  <2>8. orderly => exp.plan # "none"
    BY RecordTypes DEF OrderInv, There
  <2>4. billing' \in Record /\ expected' \in Record
    BY <2>1, <2>2, <2>3, RecordTypes
  <2>6. applied \subseteq applied' /\ applied' \subseteq Event /\ e \in applied'
    BY <2>1, <2>2
  <2>7. orderly => Meant(cur, exp) /\ \A d \in applied : d <= e
    BY <2>1 DEF OrderInv, ReadMeant
  <2> HIDE DEF w, e, cur, exp
  <2>5. ASSUME orderly PROVE /\ Meant(billing, expected)' /\ billing'.plan # "none"
                             /\ expected'.plan # "none"
    <3>1. expected' = SubscriptionRecord(exp, e) /\ Meant(cur, exp)
      BY <2>1, <2>5, <2>7
    <3>2. Meant(SubscriptionRecord(cur, e), SubscriptionRecord(exp, e))
      BY <2>2, <2>3, <3>1, WrittenMeant
    <3>3. Meant(billing', expected')
      BY <2>1, <3>1, <3>2, Zenon
    <3>4. exp.plan # "none" /\ cur.plan # "none"
      BY <2>2, <2>3, <2>5, <2>8, <3>1, MeantPlan
    <3>5. billing'.plan # "none" /\ expected'.plan # "none"
      BY <2>1, <2>2, <2>3, <3>1, <3>4, WrittenThere
    <3> QED
      BY <2>1, <3>3, <3>5, MeantNext
  <2> QED
    BY <2>1, <2>2, <2>4, <2>5, <2>6, SaveBillingStep
<1>4. ASSUME NEW h \in Handler, MarkStripeEventProcessed(h) PROVE BillingInv'
  <2>1. /\ Rest(h) /\ processed' \subseteq applied /\ acked' \subseteq applied
        /\ UNCHANGED <<eventPlan, billing, applied, expected, orderly, misread>>
    BY <1>4 DEF MarkStripeEventProcessed, At
  <2> QED
    BY <2>1, RestingStep
<1>5. ASSUME NEW h \in Handler, HandlePatchBilling(h) PROVE BillingInv'
  <2>1. /\ GetBilling(h, "patch", "admin")
        /\ UNCHANGED <<eventPlan, billing, processed, acked, applied, expected>>
    BY <1>5 DEF HandlePatchBilling, At
  <2>2. orderly' => orderly /\ Alone(h)
    BY <1>5 DEF HandlePatchBilling
  <2>3. orderly' \in BOOLEAN
    BY <1>5, Zenon DEF HandlePatchBilling
  <2> QED
    BY <2>1, <2>2, <2>3, GetBillingStep
<1>6. ASSUME NEW h \in Handler, NEW patch \in Patches, SavePatch(h, patch) PROVE BillingInv'
  <2> DEFINE cur == handler[h].current
             exp == Base(expected, "admin")
  <2>1. /\ handler[h].op = "patch" /\ handler' = [handler EXCEPT ![h] = Resting]
        /\ billing' = PatchedBilling(cur, patch) /\ expected' = PatchedBilling(exp, patch)
        /\ UNCHANGED <<eventPlan, processed, acked, applied, orderly, misread>>
    BY <1>6 DEF SavePatch, At, Rest
  <2>2. Resting \in Working /\ Resting.op = "none" /\ cur \in Record /\ exp \in Record
    BY RecordTypes DEF Resting
  <2>3. billing' \in Record /\ expected' \in Record
    BY <2>1, <2>2, RecordTypes
  <2>4. ASSUME orderly PROVE /\ Meant(billing, expected)' /\ billing'.plan # "none"
                             /\ expected'.plan # "none"
    <3>1. Meant(cur, exp)
      BY <2>1, <2>4 DEF OrderInv, ReadMeant
    <3>2. Meant(billing', expected')
      BY <2>1, <2>2, <3>1, WrittenMeant
    <3>3. exp.plan # "none"
      BY <2>4, RecordTypes DEF OrderInv, There
    <3>4. cur.plan # "none"
      BY <2>2, <3>1, <3>3, MeantPlan
    <3>6. billing'.plan # "none" /\ expected'.plan # "none"
      BY <2>1, <2>2, <3>3, <3>4, WrittenThere
    <3> QED
      BY <2>1, <3>2, <3>6, MeantNext
  <2> HIDE DEF cur, exp
  <2> QED
    BY <2>1, <2>2, <2>3, <2>4, SaveBillingStep
<1>7. ASSUME NEW h \in Handler, ResolveStripeCustomer(h) PROVE BillingInv'
  <2> DEFINE w == [handler[h] EXCEPT !.op = "checkout", !.current = billing]
  <2>1. /\ handler' = [handler EXCEPT ![h] = w] /\ billing # NoBilling
        /\ UNCHANGED <<eventPlan, billing, processed, acked, applied, expected, misread>>
    BY <1>7 DEF ResolveStripeCustomer, At
  <2>2. w \in Working /\ w.op = "checkout" /\ w.current = billing
    OBVIOUS
  <2>3. orderly' \in BOOLEAN
    BY <1>7, Zenon DEF ResolveStripeCustomer
  <2>4. orderly' => orderly /\ Alone(h)
    BY <1>7 DEF ResolveStripeCustomer
  <2> HIDE DEF w
  <2>5. BillingTypeOK' /\ AckInv'
    BY <2>1, <2>2, <2>3
  <2>6. OrderInv'
    BY <2>1, <2>2, <2>4 DEF OrderInv, Alone, ReadMeant, Meant, Base, There
  <2> QED
    BY <2>5, <2>6
<1>8. ASSUME NEW h \in Handler, SaveCustomer(h) PROVE BillingInv'
  <2> DEFINE cur == handler[h].current
  <2>1. /\ handler[h].op = "checkout" /\ handler' = [handler EXCEPT ![h] = Resting]
        /\ billing' = [cur EXCEPT !.customer = "checkout"]
        /\ expected' = [expected EXCEPT !.customer = "checkout"]
        /\ UNCHANGED <<eventPlan, processed, acked, applied, orderly, misread>>
    BY <1>8 DEF SaveCustomer, At, Rest
  <2>2. Resting \in Working /\ Resting.op = "none" /\ cur \in Record
    BY RecordTypes DEF Resting
  <2>3. billing' \in Record /\ expected' \in Record
    BY <2>1, <2>2 DEF Record
  <2>5. orderly => billing # NoBilling
    BY <2>1 DEF OrderInv, ReadMeant
  <2>4. ASSUME orderly PROVE /\ Meant(billing, expected)' /\ billing'.plan # "none"
                             /\ expected'.plan # "none"
    <3>1. cur = billing /\ Meant(billing, expected)
      BY <2>1, <2>4 DEF OrderInv, ReadMeant
    <3>2. Meant(billing', expected')
      BY <2>1, <2>2, <3>1, WrittenMeant
    <3>3. billing.plan # "none" /\ expected.plan # "none"
      BY <2>4, <2>5 DEF OrderInv, There
    <3>4. billing'.plan # "none" /\ expected'.plan # "none"
      BY <2>1, <2>2, <3>1, <3>3, WrittenThere
    <3> QED
      BY <2>1, <3>2, <3>4, MeantNext
  <2> HIDE DEF cur
  <2> QED
    BY <2>1, <2>2, <2>3, <2>4, SaveBillingStep
<1>9. ASSUME NEW h \in Handler, Fail(h) PROVE BillingInv'
  BY <1>9, RestingStep DEF Fail
<1>10. CASE UNCHANGED billingVars
  <2>1. BillingTypeOK' /\ AckInv'
    BY <1>10 DEF billingVars
  <2>2. OrderInv'
    BY <1>10 DEF billingVars, OrderInv, ReadMeant, Meant, Base, There
  <2> QED
    BY <2>1, <2>2
<1> QED
  BY <1>1, <1>2, <1>3, <1>4, <1>5, <1>6, <1>7, <1>8, <1>9, <1>10 DEF bNext, bVars, BillingNext

LEMMA BillingInvariant == BillingSpec => []BillingInv
<1>1. PlatformInit /\ BillingInit => BillingInv
  BY BillingInvInit
<1> QED
  BY <1>1, BillingInvStep, PTL DEF BillingSpec, bNext, bVars

(* The webhook saves the effect of an event before it marks the event and  *)
(* answers: whatever fails, no event is acknowledged unapplied.            *)
THEOREM AcknowledgedIsApplied == BillingSpec => []AckedApplied
<1>1. BillingInv => AckedApplied
  BY DEF BillingInv, AckInv, AckedApplied
<1> QED
  BY <1>1, BillingInvariant, PTL

(* With writers that do not overlap and events that come in order, retries *)
(* included, the record is what its writers meant, but for what a failed   *)
(* read made one of them put back to a fresh record's.                     *)
THEOREM BillingAsMeant == BillingSpec => []OrderlyBilling
<1>1. BillingInv => OrderlyBilling
  BY DEF BillingInv, OrderInv, OrderlyBilling
<1> QED
  BY <1>1, BillingInvariant, PTL

-----------------------------------------------------------------------------
(* The listings: a walk over a listing that Badger pages by key shows no   *)
(* record twice.  What has been listed lies above the cursor, and neither  *)
(* a write nor a sweep moves a record that was written.                    *)

LEMMA HighestRank ==
    ASSUME NEW S \in SUBSET Id, S # {}, \A i \in S : Rank(i) \in Nat
    PROVE  \E r \in S : Rank(r) = Max({Rank(i) : i \in S})
<1> DEFINE g == [i \in S |-> Rank(i)]
           T == {Rank(i) : i \in S}
<1>1. IsFiniteSet(S)
  BY IdAssumption, FS_Subset
<1>2. PICK i \in S : \A j \in S : g[i] >= g[j]
  <2>1. g \in [S -> Nat]
    OBVIOUS
  <2> HIDE DEF g
  <2> QED
    BY <1>1, <2>1, HighestOf
<1>3. \E x \in T : \A y \in T : x >= y
  BY <1>2
<1>4. Max(T) \in T
  <2> HIDE DEF T
  <2> QED
    BY <1>3, Zenon DEF Max
<1> QED
  BY <1>4

Written(i) == recs[i].state # "absent"

ListedRecord == [ts : Nat, typ : {"x", "y"}, state : {"absent", "live", "deleted", "archived"}]

WalkFields == {"phase", "cursor", "limit", "typ", "begun", "listed", "twice", "cut",
               "disturbed", "left"}

ListingsTypeOK ==
    /\ clock \in Nat \ {0} /\ family \in Families
    /\ recs \in [Id -> ListedRecord]
    /\ DOMAIN walk = WalkFields

(* No record is stamped before the clock began.                            *)
Stamped == \A i \in Id : Written(i) => recs[i].ts # 0

Passed(i) == i \in Id /\ Written(i) /\ walk.cursor # Start /\ Rank(i) > walk.cursor

KeyedWalk ==
    /\ walk.twice = {}
    /\ Walking => walk.cursor \in Nat /\ \A i \in walk.listed : Passed(i)

ListingsInv == ListingsTypeOK /\ Stamped /\ (Keyed => KeyedWalk)

LEMMA RankNat ==
    ASSUME ListingsTypeOK, NEW i \in Id
    PROVE  Rank(i) \in Nat /\ i \in Nat /\ i >= 1
<1>1. i \in Nat /\ i >= 1 /\ Cardinality(Id) + 1 \in Nat
  BY IdAssumption, FS_CardinalityType
<1>2. recs[i].ts \in Nat
  BY DEF ListingsTypeOK, ListedRecord
<1>3. ByTime(i) \in Nat
  <2>1. \A a \in Nat, b \in Nat, c \in Nat : a * b + c \in Nat
    OBVIOUS
  <2> QED
    BY <1>1, <1>2, <2>1 DEF ByTime
<1> QED
  BY <1>1, <1>3 DEF Rank

LEMMA RankPositive ==
    ASSUME ListingsTypeOK, NEW k \in Id
    PROVE  Rank(k) \in Nat /\ Rank(k) >= 1
<1>1. k \in Nat /\ k >= 1 /\ Rank(k) \in Nat
  BY RankNat
<1>2. Cardinality(Id) + 1 \in Nat /\ recs[k].ts \in Nat
  BY IdAssumption, FS_CardinalityType DEF ListingsTypeOK, ListedRecord
<1>3. \A a \in Nat, b \in Nat, c \in Nat : c >= 1 => a * b + c >= 1
  <2> TAKE a \in Nat, b \in Nat, c \in Nat
  <2>1. a * b \in Nat
    OBVIOUS
  <2> QED
    BY <2>1
<1>4. ByTime(k) >= 1
  BY <1>1, <1>2, <1>3 DEF ByTime
<1> QED
  BY <1>1, <1>4 DEF Rank

(* The key of the foreign record lies below every notification.            *)
LEMMA AboveForeign ==
    ASSUME ListingsTypeOK, Stamped, NEW i \in Id, Written(i), family = "notifications"
    PROVE  Rank(i) > Foreign
<1>1. i \in Nat /\ i >= 1 /\ Cardinality(Id) \in Nat /\ Cardinality(Id) >= 1
  BY IdAssumption, FS_CardinalityType
<1>2. recs[i].ts \in Nat /\ recs[i].ts >= 1
  BY DEF ListingsTypeOK, ListedRecord, Stamped
<1>3. \A a \in Nat, b \in Nat, c \in Nat : a >= 1 /\ b >= 1 /\ c >= 1 => a * (b + 1) + c > 1
  <2> TAKE a \in Nat, b \in Nat, c \in Nat
  <2> HAVE a >= 1 /\ b >= 1 /\ c >= 1
  <2>1. PICK d \in Nat : a = d + 1
    <3>1. a - 1 \in Nat /\ a = (a - 1) + 1
      OBVIOUS
    <3> QED
      BY <3>1
  <2>2. (d + 1) * (b + 1) = d * (b + 1) + (b + 1)
    OBVIOUS
  <2>3. d * (b + 1) \in Nat
    OBVIOUS
  <2> QED
    BY <2>1, <2>2, <2>3
<1>4. ByTime(i) > 1
  BY <1>1, <1>2, <1>3 DEF ByTime
<1> QED
  BY <1>4 DEF Rank, Filtered, Foreign

(* What a page by key holds and where the next one starts: the items are   *)
(* at or below the cursor, and the next cursor is at or below it and below *)
(* every item.                                                             *)
Paged(page, cursor) ==
    /\ \A i \in page.items : i \in Id /\ Written(i) /\ (cursor = Start \/ Rank(i) <= cursor)
    /\ page.next # End =>
          /\ page.next \in Nat
          /\ \A i \in page.items : Rank(i) > page.next
          /\ \A i \in Id : Written(i) /\ cursor # Start /\ Rank(i) > cursor => Rank(i) > page.next

LEMMA KeyPagePaged ==
    ASSUME ListingsTypeOK, NEW cursor \in Nat, NEW typ, NEW limit
    PROVE  Paged(KeyPage(cursor, typ, limit), cursor)
<1> DEFINE from == {i \in Stored : cursor = Start \/ Rank(i) <= cursor}
           page == NewestOf(limit, {i \in from : Matches(i, typ)})
           rest == {i \in from : page \subseteq Above(i, from)}
           next == IF Cardinality(page) < limit \/ rest = {} THEN End
                   ELSE Max({Rank(i) : i \in rest})
<1>1. KeyPage(cursor, typ, limit) = [items |-> page, next |-> next]
  BY DEF KeyPage
<1>2. page \subseteq from /\ rest \subseteq from /\ from \subseteq Id
  BY DEF NewestOf, Stored
<1>3. \A i \in from : Written(i) /\ (cursor = Start \/ Rank(i) <= cursor)
  BY DEF Stored, Written
<1>4. ASSUME next # End
      PROVE  /\ next \in Nat
             /\ \A i \in page : Rank(i) > next
             /\ \A i \in Id : Written(i) /\ cursor # Start /\ Rank(i) > cursor => Rank(i) > next
  <2>1. rest # {} /\ next = Max({Rank(i) : i \in rest})
    BY <1>4
  <2>2. PICK r \in rest : Rank(r) = next
    <3>1. rest \in SUBSET Id /\ \A i \in rest : Rank(i) \in Nat
      BY <1>2, RankNat
    <3> HIDE DEF rest, next
    <3> QED
      BY <2>1, <3>1, HighestRank
  <2>3. next \in Nat
    BY <1>2, <2>2, RankNat
  <2>4. \A i \in page : Rank(i) > next
    BY <2>2 DEF Above
  <2>5. cursor # Start => next <= cursor
    BY <1>2, <1>3, <2>2
  <2>6. \A i \in Id : Written(i) /\ cursor # Start /\ Rank(i) > cursor => Rank(i) > next
    <3> HIDE DEF next
    <3> QED
      BY <2>3, <2>5, RankNat
  <2> QED
    BY <2>3, <2>4, <2>6
<1> HIDE DEF from, page, rest, next
<1> QED
  BY <1>1, <1>2, <1>3, <1>4 DEF Paged

LEMMA NotificationsPaged ==
    ASSUME ListingsTypeOK, Stamped, family = "notifications", NEW cursor \in Nat, NEW limit
    PROVE  Paged(ListNotifications(cursor, limit), cursor)
<1> DEFINE page == KeyPage(cursor, "", PageLimit(limit))
<1>1. Paged(page, cursor)
  BY KeyPagePaged
<1>2. ListNotifications(cursor, limit) =
         IF page.next = End /\ Cardinality(page.items) = PageLimit(limit)
         THEN [page EXCEPT !.next = Foreign] ELSE page
  BY DEF ListNotifications
<1>3. DOMAIN page = {"items", "next"}
  BY DEF KeyPage
<1> HIDE DEF page
<1>4. CASE ListNotifications(cursor, limit) = page
  BY <1>1, <1>4
<1>5. CASE ListNotifications(cursor, limit) = [page EXCEPT !.next = Foreign]
  <2>1. /\ ListNotifications(cursor, limit).items = page.items
        /\ ListNotifications(cursor, limit).next = 1
    BY <1>3, <1>5 DEF Foreign
  <2>2. \A i \in Id : Written(i) => Rank(i) > 1
    BY AboveForeign DEF Foreign
  <2> QED
    BY <1>1, <2>1, <2>2 DEF Paged
<1> QED
  BY <1>2, <1>4, <1>5

LEMMA CutoffPaged ==
    ASSUME NEW page, NEW cursor, Paged(page, cursor)
    PROVE  Paged(ApplyCutoff(page), cursor)
<1> DEFINE kept == {i \in page.items : ~Expired(i, clock, days)}
<1>1. ApplyCutoff(page) = [items |-> kept, next |-> IF kept # page.items THEN End ELSE page.next]
  BY DEF ApplyCutoff
<1>2. kept \subseteq page.items
  OBVIOUS
<1> HIDE DEF kept
<1> QED
  BY <1>1, <1>2 DEF Paged

LEMMA KeyedPaged ==
    ASSUME ListingsTypeOK, Stamped, Keyed, NEW cursor \in Nat, NEW limit, NEW typ
    PROVE  Paged(Page(cursor, limit, typ), cursor)
<1>1. backend = "badger" /\ family \in {"activity", "access", "notifications", "history"}
  BY DEF Keyed, ListingsTypeOK, Families, Retained, Filtered
<1>2. CASE family = "activity"
  <2>1. Page(cursor, limit, typ) = ApplyCutoff(KeyPage(cursor, "", PageLimit(limit)))
    BY <1>1, <1>2 DEF Page, HandleOrgActivity, StorePage, ListOrgActivityPage
  <2>2. Paged(KeyPage(cursor, "", PageLimit(limit)), cursor)
    BY KeyPagePaged
  <2> QED
    BY <2>1, <2>2, CutoffPaged, Zenon
<1>3. CASE family = "access"
  <2>1. Page(cursor, limit, typ) = ApplyCutoff(KeyPage(cursor, "", PageLimit(limit)))
    BY <1>1, <1>3 DEF Page, HandleListAccessLogs, StorePage, ListAccessLogsPage
  <2>2. Paged(KeyPage(cursor, "", PageLimit(limit)), cursor)
    BY KeyPagePaged
  <2> QED
    BY <2>1, <2>2, CutoffPaged, Zenon
<1>4. CASE family = "notifications"
  <2>1. Page(cursor, limit, typ) = ListNotifications(cursor, limit)
    BY <1>1, <1>4 DEF Page, StorePage
  <2> QED
    BY <1>4, <2>1, NotificationsPaged
<1>5. CASE family = "history"
  <2>1. Page(cursor, limit, typ) = KeyPage(cursor, typ, PageLimit(limit))
    BY <1>1, <1>5 DEF Page, StorePage, GetSessionHistoryPage
  <2> QED
    BY <2>1, KeyPagePaged
<1> QED
  BY <1>1, <1>2, <1>3, <1>4, <1>5

(* What a step that is not the client's keeps: the listing, the cursor and *)
(* what was listed, and the place of every record that was written.        *)
WalkKept ==
    /\ UNCHANGED <<backend, family>>
    /\ DOMAIN walk' = WalkFields
    /\ \A f \in {"phase", "cursor", "listed", "twice"} : walk'[f] = walk[f]

PlacesKept == \A i \in Id : Written(i) => recs'[i].state # "absent" /\ recs'[i].ts = recs[i].ts

LEMMA OthersKeep ==
    ASSUME ListingsInv, WalkKept, Keyed => PlacesKept,
           clock' \in Nat \ {0}, recs' \in [Id -> ListedRecord], Stamped'
    PROVE  ListingsInv'
<1>1. ListingsTypeOK'
  BY DEF ListingsInv, ListingsTypeOK, WalkKept
<1>2. ASSUME Keyed' PROVE KeyedWalk'
  <2>1. Keyed /\ backend' = backend /\ family' = family
    BY <1>2 DEF Keyed, WalkKept
  <2>2. walk'.twice = {} /\ (Walking' <=> Walking)
    BY <2>1 DEF ListingsInv, KeyedWalk, WalkKept, Walking
  <2>3. ASSUME Walking PROVE walk'.cursor \in Nat /\ \A i \in walk'.listed : Passed(i)'
    <3>1. walk.cursor \in Nat /\ \A i \in walk.listed : Passed(i)
      BY <2>1, <2>3 DEF ListingsInv, KeyedWalk
    <3>2. walk'.cursor = walk.cursor /\ walk'.listed = walk.listed
      BY DEF WalkKept
    <3>3. ASSUME NEW i \in walk.listed PROVE Passed(i)'
      <4>1. i \in Id /\ Written(i) /\ walk.cursor # Start /\ Rank(i) > walk.cursor
        BY <3>1 DEF Passed
      <4>2. Written(i)' /\ recs'[i].ts = recs[i].ts
        BY <2>1, <4>1 DEF PlacesKept, Written
      <4>3. Rank(i)' = Rank(i)
        BY <2>1, <4>2 DEF Rank, ByTime
      <4> QED
        BY <3>2, <4>1, <4>2, <4>3 DEF Passed
    <3> QED
      BY <3>1, <3>2, <3>3
  <2> QED
    BY <2>2, <2>3 DEF KeyedWalk
<1> QED
  BY <1>1, <1>2 DEF ListingsInv

LEMMA Disturbed ==
    ASSUME ListingsInv, UNCHANGED <<backend, family>>,
           NEW i, walk' = walk \/ Disturb(i) \/ Depart(i)
    PROVE  WalkKept
BY DEF ListingsInv, ListingsTypeOK, Disturb, Depart, WalkKept, WalkFields

(* A record appended where there was none.                                 *)
LEMMA PutStep ==
    ASSUME ListingsInv, NEW i \in Id, NEW ts \in Nat \ {0}, NEW typ \in {"x", "y"},
           Put(i, ts, typ), Absent(i) \/ ~Keyed, WalkKept, clock' = clock
    PROVE  ListingsInv'
<1>1. recs \in [Id -> ListedRecord] /\ clock \in Nat \ {0}
  BY DEF ListingsInv, ListingsTypeOK
<1>2. /\ recs' \in [Id -> ListedRecord]
      /\ recs'[i].ts = ts /\ \A j \in Id \ {i} : recs'[j] = recs[j]
  BY <1>1 DEF Put, ListedRecord
<1>3. Keyed => PlacesKept
  BY <1>2 DEF PlacesKept, Written, Absent
<1>4. Stamped'
  BY <1>2 DEF ListingsInv, Stamped, Written
<1> QED
  BY <1>1, <1>2, <1>3, <1>4, OthersKeep

(* A record that is marked, or moved, outside the listings paged by key.   *)
LEMMA MarkStep ==
    ASSUME ListingsInv, recs' \in [Id -> ListedRecord], WalkKept, clock' = clock,
           \A j \in Id : \/ recs'[j] = recs[j]
                         \/ ~Keyed /\ recs'[j].ts # 0
                         \/ Written(j) /\ recs'[j].state # "absent" /\ recs'[j].ts = recs[j].ts
    PROVE  ListingsInv'
<1>1. Keyed => PlacesKept
  BY DEF PlacesKept, Written
<1>2. Stamped'
  BY DEF ListingsInv, Stamped, Written
<1> QED
  BY <1>1, <1>2, OthersKeep DEF ListingsInv, ListingsTypeOK

LEMMA NextPageStep ==
    ASSUME ListingsInv, NextPage
    PROVE  ListingsInv'
<1> DEFINE page == Page(walk.cursor, walk.limit, walk.typ)
<1>1. /\ Walking /\ UNCHANGED <<backend, clock, family, recs>>
      /\ DOMAIN walk' = WalkFields
      /\ walk'.phase = IF page.next = End THEN "done" ELSE walk.phase
      /\ walk'.cursor = page.next
      /\ walk'.listed = walk.listed \cup page.items
      /\ walk'.twice = walk.twice \cup (page.items \cap walk.listed)
  BY DEF NextPage, platformVars, ListingsInv, ListingsTypeOK, WalkFields
<1>2. ListingsTypeOK' /\ Stamped'
  BY <1>1 DEF ListingsInv, ListingsTypeOK, Stamped, Written
<1>3. ASSUME Keyed' PROVE KeyedWalk'
  <2>1. Keyed /\ walk.twice = {} /\ walk.cursor \in Nat /\ \A i \in walk.listed : Passed(i)
    BY <1>1, <1>3 DEF Keyed, ListingsInv, KeyedWalk
  <2>2. Paged(page, walk.cursor)
    BY <2>1, KeyedPaged DEF ListingsInv
  <2> HIDE DEF page
  <2>3. page.items \cap walk.listed = {}
    <3>1. SUFFICES ASSUME NEW i \in page.items, i \in walk.listed PROVE FALSE
      OBVIOUS
    <3>2. walk.cursor # Start /\ Rank(i) > walk.cursor /\ Rank(i) \in Nat
      BY <2>1, <3>1, RankNat DEF Passed, ListingsInv
    <3>3. Rank(i) <= walk.cursor
      BY <2>2, <3>2 DEF Paged
    <3> QED
      BY <2>1, <3>2, <3>3
  <2>4. ASSUME page.next # End
        PROVE  /\ page.next \in Nat
               /\ \A i \in walk.listed \cup page.items :
                     i \in Id /\ Written(i) /\ page.next # Start /\ Rank(i) > page.next
    <3>1. page.next \in Nat /\ page.next # Start
      BY <2>2, <2>4 DEF Paged, End, Start
    <3>2. \A i \in page.items : i \in Id /\ Written(i) /\ Rank(i) > page.next
      BY <2>2, <2>4 DEF Paged
    <3>3. \A i \in walk.listed : i \in Id /\ Written(i) /\ Rank(i) > page.next
      BY <2>1, <2>2, <2>4 DEF Paged, Passed
    <3> QED
      BY <3>1, <3>2, <3>3
  <2>5. \A i \in Id : Rank(i)' = Rank(i) /\ (Written(i)' <=> Written(i))
    BY <1>1 DEF Rank, ByTime, Written
  <2>6. walk'.twice = {}
    BY <1>1, <2>1, <2>3
  <2>7. ASSUME Walking' PROVE walk'.cursor \in Nat /\ \A i \in walk'.listed : Passed(i)'
    <3>1. page.next # End
      BY <1>1, <2>7 DEF Walking
    <3>2. ASSUME NEW i \in walk'.listed PROVE Passed(i)'
      BY <1>1, <2>4, <2>5, <3>1, <3>2 DEF Passed
    <3> QED
      BY <1>1, <2>4, <3>1, <3>2
  <2> QED
    BY <2>6, <2>7 DEF KeyedWalk
<1> QED
  BY <1>2, <1>3 DEF ListingsInv

LEMMA BeginWalkStep ==
    ASSUME ListingsInv, NEW limit, NEW typ, BeginWalk(limit, typ)
    PROVE  ListingsInv'
<1>1. /\ UNCHANGED <<backend, clock, family, recs>>
      /\ DOMAIN walk' = WalkFields
      /\ walk'.cursor = Start /\ walk'.listed = {} /\ walk'.twice = {}
  BY DEF BeginWalk, platformVars, NoWalk, WalkFields
<1>2. KeyedWalk'
  BY <1>1 DEF KeyedWalk, Start
<1> QED
  BY <1>1, <1>2 DEF ListingsInv, ListingsTypeOK, Stamped, Written

LEMMA WriterStep ==
    ASSUME ListingsInv, NEW i \in Id, NEW ts \in Stamps, NEW typ \in {"x", "y"},
           \/ AppendOrgActivity(i, ts) \/ AppendAccessLog(i, ts) \/ AppendHistory(i, ts, typ)
           \/ SaveNotification(i) \/ UpsertOrgSessionIndex(i)
           \/ UpsertSearchDocuments(i, typ)
    PROVE  ListingsInv'
<1>0. clock \in Nat \ {0} /\ ts \in Nat \ {0}
  BY DEF ListingsInv, ListingsTypeOK, Stamps
<1>1. CASE AppendOrgActivity(i, ts) \/ AppendAccessLog(i, ts) \/ AppendHistory(i, ts, typ)
  <2>1. /\ Absent(i) /\ clock' = clock /\ UNCHANGED <<backend, family>> /\ walk' = walk
        /\ Put(i, ts, "x") \/ Put(i, ts, typ)
    BY <1>1 DEF AppendOrgActivity, AppendAccessLog, AppendHistory, Writes, NextPlace, platformVars
  <2>2. WalkKept
    BY <2>1, Disturbed
  <2> QED
    BY <1>0, <2>1, <2>2, PutStep
<1>2. CASE SaveNotification(i) \/ UpsertOrgSessionIndex(i)
  <2>1. /\ Absent(i) /\ clock' = clock /\ UNCHANGED <<backend, family>> /\ walk' = walk
        /\ Put(i, clock, "x")
    BY <1>2 DEF SaveNotification, UpsertOrgSessionIndex, Writes, platformVars
  <2>2. WalkKept
    BY <2>1, Disturbed
  <2> QED
    BY <1>0, <2>1, <2>2, PutStep
<1>3. CASE UpsertSearchDocuments(i, typ)
  <2>1. ~Keyed /\ clock' = clock /\ UNCHANGED <<backend, family>> /\ Put(i, clock, typ)
    BY <1>3 DEF UpsertSearchDocuments, Writes, Keyed, platformVars
  <2>2. WalkKept
    BY <1>3, <2>1, Disturbed DEF UpsertSearchDocuments
  <2> QED
    BY <1>0, <2>1, <2>2, PutStep
<1> QED
  BY <1>1, <1>2, <1>3

LEMMA MarkerStep ==
    ASSUME ListingsInv, NEW i \in Id,
           \/ TouchOrgSession(i) \/ DeleteOrgSession(i) \/ EnforceRetentionDelete
           \/ EnforceRetention \/ \E d \in 1 .. MaxDays : ChangeRetention(d)
    PROVE  ListingsInv'
<1>0. recs \in [Id -> ListedRecord] /\ clock \in Nat \ {0}
  BY DEF ListingsInv, ListingsTypeOK
<1>1. CASE TouchOrgSession(i)
  <2>1. ~Keyed /\ clock' = clock /\ UNCHANGED <<backend, family>>
    BY <1>1 DEF TouchOrgSession, Writes, Keyed, platformVars
  <2>2. WalkKept
    BY <1>1, <2>1, Disturbed DEF TouchOrgSession
  <2>3. /\ recs' \in [Id -> ListedRecord] /\ recs'[i].ts = clock
        /\ \A j \in Id \ {i} : recs'[j] = recs[j]
    BY <1>0, <1>1 DEF TouchOrgSession, ListedRecord
  <2> QED
    BY <1>0, <2>1, <2>2, <2>3, MarkStep
<1>2. CASE DeleteOrgSession(i)
  <2>1. Written(i) /\ clock' = clock /\ UNCHANGED <<backend, family>>
    BY <1>2 DEF DeleteOrgSession, Writes, Absent, Written, platformVars
  <2>2. WalkKept
    BY <1>2, <2>1, Disturbed DEF DeleteOrgSession
  <2>3. /\ recs' \in [Id -> ListedRecord]
        /\ recs'[i].ts = recs[i].ts /\ recs'[i].state = "archived"
        /\ \A j \in Id \ {i} : recs'[j] = recs[j]
    BY <1>0, <1>2 DEF DeleteOrgSession, ListedRecord
  <2> QED
    BY <2>1, <2>2, <2>3, MarkStep
<1>3. CASE EnforceRetentionDelete
  <2> DEFINE gone == IF backend = "badger" THEN Doomed ELSE DoomedPG
  <2>1. /\ clock' = clock /\ UNCHANGED <<backend, family>> /\ walk' = walk
        /\ recs' = [j \in Id |-> IF j \in gone THEN [recs[j] EXCEPT !.state = "deleted"]
                                 ELSE recs[j]]
    BY <1>3 DEF EnforceRetentionDelete, platformVars
  <2>2. WalkKept
    BY <2>1, Disturbed
  <2>3. \A j \in gone : Written(j)
    BY DEF Doomed, DoomedPG, Stored, Written
  <2> HIDE DEF gone
  <2>4. /\ recs' \in [Id -> ListedRecord]
        /\ \A j \in Id : \/ recs'[j] = recs[j]
                         \/ j \in gone /\ recs'[j].ts = recs[j].ts /\ recs'[j].state = "deleted"
    BY <1>0, <2>1 DEF ListedRecord
  <2> QED
    BY <2>1, <2>2, <2>3, <2>4, MarkStep
<1>4. CASE EnforceRetention
  <2>1. clock' = clock /\ UNCHANGED <<backend, family>> /\ walk' = walk /\ recs' = recs
    BY <1>4 DEF EnforceRetention, platformVars
  <2> QED
    BY <1>0, <2>1, Disturbed, MarkStep
<1>5. CASE \E d \in 1 .. MaxDays : ChangeRetention(d)
  <2>1. clock' = clock /\ UNCHANGED <<backend, family>> /\ walk' = walk /\ recs' = recs
    BY <1>5 DEF ChangeRetention, platformVars
  <2> QED
    BY <1>0, <2>1, Disturbed, MarkStep
<1> QED
  BY <1>1, <1>2, <1>3, <1>4, <1>5

LEMMA ListingsInvariant == ListingsSpec => []ListingsInv
<1>1. PlatformInit /\ ListingsInit => ListingsInv
  <2> SUFFICES ASSUME PlatformInit, ListingsInit PROVE ListingsInv
    OBVIOUS
  <2>1. recs = [i \in Id |-> [ts |-> 0, typ |-> "x", state |-> "absent"]]
    BY DEF ListingsInit
  <2>2. recs \in [Id -> ListedRecord] /\ Stamped
    BY <2>1 DEF Stamped, Written, ListedRecord
  <2>3. clock \in Nat \ {0} /\ family \in Families /\ DOMAIN walk = WalkFields
    <3>1. clock = 1 /\ family \in Families /\ walk = NoWalk
      BY DEF PlatformInit, ListingsInit
    <3>2. DOMAIN NoWalk = WalkFields
      BY DEF NoWalk, WalkFields
    <3> QED
      BY <3>1, <3>2
  <2>4. KeyedWalk
    BY DEF ListingsInit, KeyedWalk, Walking, NoWalk
  <2> QED
    BY <2>2, <2>3, <2>4 DEF ListingsInv, ListingsTypeOK
<1>2. ASSUME ListingsInv,
             [ListingsNext \/ (Tick /\ UNCHANGED listingVars)]_<<platformVars, listingVars>>
      PROVE  ListingsInv'
  <2>1. CASE UNCHANGED <<platformVars, listingVars>>
    BY <1>2, <2>1 DEF platformVars, listingVars, ListingsInv, ListingsTypeOK, Stamped, Written,
                      Keyed, KeyedWalk, Walking, Passed, Rank, ByTime
  <2>2. CASE Tick /\ UNCHANGED listingVars
    <3>1. /\ clock' \in Nat \ {0} /\ WalkKept /\ recs' = recs
      BY <1>2, <2>2 DEF Tick, listingVars, ListingsInv, ListingsTypeOK, WalkKept
    <3>2. recs' \in [Id -> ListedRecord] /\ PlacesKept /\ Stamped'
      BY <1>2, <3>1 DEF ListingsInv, ListingsTypeOK, PlacesKept, Stamped, Written
    <3> QED
      BY <1>2, <3>1, <3>2, OthersKeep
  <2>3. CASE ListingsNext
    <3>1. CASE NextPage
      BY <1>2, <3>1, NextPageStep
    <3>2. CASE \E limit \in Limits, typ \in {"", "x"} : BeginWalk(limit, typ)
      BY <1>2, <3>2, BeginWalkStep
    <3>3. CASE EnforceRetention \/ EnforceRetentionDelete
               \/ \E d \in 1 .. MaxDays : ChangeRetention(d)
      <4>1. CASE Id = {}
        <5>1. clock' = clock /\ UNCHANGED <<backend, family>> /\ walk' = walk
          BY <3>3 DEF EnforceRetention, EnforceRetentionDelete, ChangeRetention, platformVars
        <5>2. recs' \in [Id -> ListedRecord]
          BY <1>2, <3>3, <4>1 DEF EnforceRetention, EnforceRetentionDelete, ChangeRetention,
                                  ListingsInv, ListingsTypeOK
        <5> QED
          BY <1>2, <4>1, <5>1, <5>2, Disturbed, MarkStep
      <4>2. CASE Id # {}
        BY <1>2, <3>3, <4>2, MarkerStep
      <4> QED
        BY <4>1, <4>2
    <3>4. ASSUME NEW i \in Id, TouchOrgSession(i) \/ DeleteOrgSession(i)
          PROVE  ListingsInv'
      BY <1>2, <3>4, MarkerStep
    <3>5. ASSUME NEW i \in Id,
                 \/ \E ts \in Stamps :
                       \/ AppendOrgActivity(i, ts) \/ AppendAccessLog(i, ts)
                       \/ \E typ \in {"x", "y"} : AppendHistory(i, ts, typ)
                 \/ SaveNotification(i) \/ UpsertOrgSessionIndex(i)
                 \/ \E typ \in {"x", "y"} : UpsertSearchDocuments(i, typ)
          PROVE  ListingsInv'
      <4>1. clock \in Stamps
        BY DEF Stamps
      <4> QED
        BY <1>2, <3>5, <4>1, WriterStep
    <3> QED
      BY <2>3, <3>1, <3>2, <3>3, <3>4, <3>5 DEF ListingsNext
  <2> QED
    BY <1>2, <2>1, <2>2, <2>3
<1> QED
  BY <1>1, <1>2, PTL DEF ListingsSpec

(* A walk over activity, access logs, history or notifications on Badger   *)
(* shows no record twice, for any number of records, any page size and     *)
(* whatever is appended, swept or reconfigured between two pages.          *)
THEOREM WalkedOnce == ListingsSpec => []ListedOnce
<1>1. ListingsInv => ListedOnce
  BY DEF ListingsInv, KeyedWalk, ListedOnce
<1> QED
  BY <1>1, ListingsInvariant, PTL


-----------------------------------------------------------------------------
(* The listings: a finished walk has shown what was there and left alone.  *)
(* A record that is still to come lies at or below the key the next page   *)
(* starts from, or has at least as many matching records above it as the   *)
(* offset skips.                                                           *)

Ahead(i, cursor, typ) ==
    IF Offsets THEN Cardinality(Above(i, Matching(typ))) >= cursor
    ELSE cursor = Start \/ Rank(i) < cursor \/ (family # "sessions" /\ Rank(i) = cursor)

(* A page shows a record that is ahead, or lies above it and leaves it     *)
(* ahead of the next one.                                                  *)
Covers(page, i, typ) ==
    \/ i \in page.items
    \/ /\ page.next \in Nat /\ page.next # End /\ Ahead(i, page.next, typ)
       /\ \A k \in page.items : Rank(k) > Rank(i)

LEMMA PageSize ==
    ASSUME NEW limit \in Limits
    PROVE  PageLimit(limit) \in Nat /\ PageLimit(limit) >= 1
BY PageAssumption DEF Limits, PageLimit

LEMMA AboveFinite ==
    ASSUME NEW S \in SUBSET Id, NEW i
    PROVE  /\ IsFiniteSet(S) /\ Cardinality(S) \in Nat
           /\ IsFiniteSet(Above(i, S)) /\ Cardinality(Above(i, S)) \in Nat
           /\ Cardinality(Above(i, S)) <= Cardinality(S)
<1>1. IsFiniteSet(S)
  BY IdAssumption, FS_Subset
<1>2. Above(i, S) \subseteq S
  BY DEF Above
<1> QED
  BY <1>1, <1>2, FS_Subset, FS_CardinalityType

(* A record with n others above it is not among the n newest; there are n  *)
(* of those, all above it.                                                 *)
LEMMA NewestCount ==
    ASSUME ListingsTypeOK, NEW S \in SUBSET Id, NEW n \in Nat, NEW i \in S, i \notin NewestOf(n, S)
    PROVE  /\ Cardinality(NewestOf(n, S)) \in Nat /\ Cardinality(NewestOf(n, S)) >= n
           /\ \A k \in NewestOf(n, S) : Rank(k) > Rank(i)
<1> DEFINE N == NewestOf(n, S)
           R == S \ N
<1>1. /\ \A k \in S : IsFiniteSet(Above(k, S)) /\ Cardinality(Above(k, S)) \in Nat
      /\ \A k \in S : Rank(k) \in Nat
      /\ IsFiniteSet(S)
  BY AboveFinite, RankNat
<1>2. \A k \in S : k \in N <=> Cardinality(Above(k, S)) < n
  BY DEF NewestOf
<1>3. N \subseteq S /\ IsFiniteSet(N) /\ Cardinality(N) \in Nat /\ IsFiniteSet(R) /\ R \subseteq S
  <2>1. N \subseteq S
    BY DEF NewestOf
  <2> HIDE DEF N
  <2> QED
    BY <1>1, <2>1, FS_Subset, FS_CardinalityType
<1> HIDE DEF N
<1>4. ASSUME NEW k \in N PROVE Rank(k) > Rank(i)
  <2>1. k \in S /\ Cardinality(Above(k, S)) < n
    BY <1>2, <1>3
  <2>2. ~ (Cardinality(Above(i, S)) < n)
    BY <1>2 DEF N
  <2>3. SUFFICES ASSUME Rank(k) <= Rank(i) PROVE FALSE
    BY <1>1, <2>1
  <2>4. Above(i, S) \subseteq Above(k, S)
    <3> SUFFICES ASSUME NEW j \in S, Rank(j) > Rank(i) PROVE Rank(j) > Rank(k)
      BY DEF Above
    <3> QED
      BY <1>1, <2>1, <2>3
  <2>5. Cardinality(Above(i, S)) <= Cardinality(Above(k, S))
    BY <1>1, <2>1, <2>4, FS_Subset
  <2> QED
    BY <1>1, <2>1, <2>2, <2>5
<1>5. ASSUME Cardinality(N) < n PROVE FALSE
  <2> DEFINE g == [k \in R |-> Rank(k)]
  <2>1. g \in [R -> Nat] /\ R # {}
    BY <1>1, <1>3 DEF N
  <2>2. PICK r \in R : \A k \in R : g[r] >= g[k]
    <3> HIDE DEF g, R
    <3> QED
      BY <1>3, <2>1, HighestOf
  <2>3. r \in S /\ \A k \in R : Rank(r) >= Rank(k)
    BY <1>3, <2>2
  <2>4. Above(r, S) \subseteq N
    <3> SUFFICES ASSUME NEW j \in S, Rank(j) > Rank(r), j \notin N PROVE FALSE
      BY DEF Above
    <3>1. Rank(r) >= Rank(j)
      BY <2>3
    <3> QED
      BY <1>1, <2>3, <3>1
  <2>5. Cardinality(Above(r, S)) <= Cardinality(N)
    BY <1>3, <2>4, FS_Subset
  <2>6. Cardinality(Above(r, S)) < n
    BY <1>1, <1>3, <1>5, <2>3, <2>5
  <2> QED
    BY <1>2, <2>2, <2>3, <2>6
<1> QED
  BY <1>3, <1>4, <1>5 DEF N


LEMMA KeyPageCovers ==
    ASSUME ListingsTypeOK, ~Offsets, family # "sessions", NEW limit \in Nat, limit >= 1,
           NEW cursor \in Nat, NEW typ, NEW t, NEW i \in Stored, Matches(i, typ),
           Ahead(i, cursor, t)
    PROVE  Covers(KeyPage(cursor, typ, limit), i, t)
<1> DEFINE from == {k \in Stored : cursor = Start \/ Rank(k) <= cursor}
           match == {k \in from : Matches(k, typ)}
           page == NewestOf(limit, match)
           rest == {k \in from : page \subseteq Above(k, from)}
           next == IF Cardinality(page) < limit \/ rest = {} THEN End
                   ELSE Max({Rank(k) : k \in rest})
<1>1. KeyPage(cursor, typ, limit) = [items |-> page, next |-> next]
  BY DEF KeyPage
<1>2. i \in Id /\ from \subseteq Id /\ match \subseteq from /\ page \subseteq match
  BY DEF NewestOf, Stored
<1>3. \A k \in Id : Rank(k) \in Nat /\ Rank(k) >= 1
  BY RankPositive
<1>4. i \in match
  <2>1. cursor = Start \/ Rank(i) < cursor \/ Rank(i) = cursor
    BY DEF Ahead
  <2> QED
    BY <1>2, <1>3, <2>1
<1>5. ASSUME i \notin page
      PROVE  /\ next \in Nat /\ next # End /\ Rank(i) <= next
             /\ \A k \in page : Rank(k) > Rank(i)
  <2>1. match \in SUBSET Id
    BY <1>2
  <2>2. Cardinality(page) \in Nat /\ Cardinality(page) >= limit /\ \A k \in page : Rank(k) > Rank(i)
    <3> HIDE DEF match
    <3> QED
      BY <1>4, <1>5, <2>1, NewestCount
  <2>3. i \in rest
    BY <1>2, <1>4, <2>2 DEF Above
  <2>4. rest \in SUBSET Id
    BY <1>2
  <2> HIDE DEF page, rest, from, match
  <2>5. next = Max({Rank(k) : k \in rest})
    BY <2>2, <2>3
  <2>6. PICK r \in rest : Rank(r) = next
    <3> HIDE DEF next
    <3> QED
      BY <1>3, <2>3, <2>4, <2>5, HighestRank
  <2> HIDE DEF next
  <2>7. \A x \in {Rank(k) : k \in rest} : next >= x
    <3> DEFINE T == {Rank(k) : k \in rest}
             g == [k \in rest |-> Rank(k)]
    <3>1. g \in [rest -> Nat] /\ IsFiniteSet(rest) /\ rest # {}
      BY <1>3, <2>3, <2>4, IdAssumption, FS_Subset
    <3>2. \E k \in rest : \A j \in rest : g[k] >= g[j]
      <4> HIDE DEF g
      <4> QED
        BY <3>1, HighestOf
    <3>3. \E x \in T : \A y \in T : x >= y
      BY <3>2
    <3>4. next = Max(T)
      BY <2>5
    <3> HIDE DEF T
    <3>5. \A y \in T : next >= y
      BY <3>3, <3>4, Zenon DEF Max
    <3> QED
      BY <3>5 DEF T
  <2>8. Rank(r) \in Nat /\ Rank(r) >= 1 /\ Rank(i) \in Nat
    BY <1>2, <1>3, <2>4
  <2>9. next >= Rank(i)
    BY <2>3, <2>7
  <2> QED
    BY <2>2, <2>6, <2>8, <2>9 DEF End
<1> HIDE DEF page, rest, from, match, next
<1>6. KeyPage(cursor, typ, limit).items = page /\ KeyPage(cursor, typ, limit).next = next
  BY <1>1
<1>7. next \in Nat /\ Rank(i) <= next => Ahead(i, next, t)
  BY <1>2, <1>3 DEF Ahead
<1> QED
  BY <1>5, <1>6, <1>7 DEF Covers

LEMMA SessionsPageCovers ==
    ASSUME ListingsTypeOK, ~Offsets, family = "sessions", NEW limit \in Limits,
           NEW cursor \in Nat, NEW t, NEW i \in Stored, Ahead(i, cursor, t)
    PROVE  Covers(ListOrgSessions(cursor, limit), i, t)
<1> DEFINE found == \E k \in Stored : Rank(k) = cursor
           from == {k \in Stored : found => Rank(k) < cursor}
           page == NewestOf(PageLimit(limit), from)
           next == IF page # from THEN Min({Rank(k) : k \in page}) ELSE End
<1>1. ListOrgSessions(cursor, limit) = [items |-> page, next |-> next]
  BY DEF ListOrgSessions
<1>2. i \in Id /\ from \in SUBSET Id /\ page \subseteq from /\ PageLimit(limit) \in Nat
      /\ PageLimit(limit) >= 1
  BY PageSize DEF NewestOf, Stored
<1>3. \A k \in Id : Rank(k) \in Nat /\ Rank(k) >= 1
  BY RankPositive
<1>4. i \in from
  <2>1. cursor = Start \/ Rank(i) < cursor
    BY DEF Ahead
  <2>2. CASE cursor = Start
    <3>1. ~ found
      BY <1>3, <2>2 DEF Stored, Start
    <3> QED
      BY <3>1
  <2>3. CASE Rank(i) < cursor
    BY <2>3
  <2> QED
    BY <2>1, <2>2, <2>3
<1>5. ASSUME i \notin page
      PROVE  /\ next \in Nat /\ next # End /\ Rank(i) < next
             /\ \A k \in page : Rank(k) > Rank(i)
  <2>1. /\ Cardinality(page) \in Nat /\ Cardinality(page) >= PageLimit(limit)
        /\ \A k \in page : Rank(k) > Rank(i)
    <3> HIDE DEF from
    <3> QED
      BY <1>2, <1>4, <1>5, NewestCount
  <2>2. page # from
    BY <1>4, <1>5
  <2>3. next = Min({Rank(k) : k \in page})
    BY <2>2
  <2> HIDE DEF next, page, from
  <2>4. page # {}
    BY <1>2, <2>1, FS_EmptySet
  <2> DEFINE T == {Rank(k) : k \in page}
  <2>5. T \in SUBSET Nat /\ T # {}
    BY <1>2, <1>3, <2>4
  <2>6. next \in T
    <3> HIDE DEF T
    <3>1. \E x \in T : \A y \in T : x <= y
      BY <2>5, LeastNatural
    <3>2. next = Min(T)
      BY <2>3 DEF T
    <3> QED
      BY <3>1, <3>2, Zenon DEF Min
  <2>7. PICK k \in page : next = Rank(k)
    BY <2>6
  <2>8. Rank(k) \in Nat /\ Rank(k) >= 1
    BY <1>2, <1>3
  <2> QED
    BY <2>1, <2>7, <2>8 DEF End
<1> HIDE DEF page, from, next
<1>6. ListOrgSessions(cursor, limit).items = page /\ ListOrgSessions(cursor, limit).next = next
  BY <1>1
<1> QED
  BY <1>5, <1>6 DEF Covers, Ahead


LEMMA OffsetPageCovers ==
    ASSUME ListingsTypeOK, Offsets, NEW limit \in Nat, limit >= 1, NEW cursor \in Nat, NEW typ,
           NEW i \in Stored, Matches(i, typ), Ahead(i, cursor, typ)
    PROVE  Covers(OffsetPage(typ, cursor, limit), i, typ)
<1> DEFINE found == Matching(typ)
           skipped == NewestOf(cursor, found)
           rest == found \ skipped
           page == NewestOf(limit, rest)
           next == IF Cardinality(rest) > limit THEN cursor + limit ELSE End
<1>1. OffsetPage(typ, cursor, limit) = [items |-> page, next |-> next]
  BY DEF OffsetPage, Matching
<1>2. i \in found /\ found \in SUBSET Id /\ skipped \subseteq found /\ rest \in SUBSET Id
  BY DEF Matching, Stored, NewestOf
<1>3. Cardinality(Above(i, found)) \in Nat /\ Cardinality(Above(i, found)) >= cursor
      /\ IsFiniteSet(Above(i, found)) /\ IsFiniteSet(rest) /\ Cardinality(rest) \in Nat
      /\ IsFiniteSet(skipped) /\ IsFiniteSet(Above(i, rest)) /\ Cardinality(Above(i, rest)) \in Nat
  <2>1. Cardinality(Above(i, found)) >= cursor
    BY DEF Ahead
  <2>2. skipped \in SUBSET Id
    BY <1>2
  <2> HIDE DEF found, skipped, rest
  <2> QED
    BY <1>2, <2>1, <2>2, AboveFinite
<1>4. i \notin skipped /\ i \in rest
  BY <1>2, <1>3 DEF NewestOf
<1>5. /\ Cardinality(skipped) \in Nat /\ Cardinality(skipped) >= cursor
      /\ \A k \in skipped : Rank(k) > Rank(i)
  <2> HIDE DEF found
  <2> QED
    BY <1>2, <1>4, NewestCount
<1> HIDE DEF found, skipped
<1>6. ASSUME i \notin page
      PROVE  /\ next \in Nat /\ next # End /\ Cardinality(Above(i, found)) >= next
             /\ \A k \in page : Rank(k) > Rank(i)
  <2>1. \A k \in page : Rank(k) > Rank(i)
    <3> HIDE DEF rest
    <3> QED
      BY <1>2, <1>4, <1>6, NewestCount
  <2>2. Cardinality(Above(i, rest)) >= limit
    BY <1>3, <1>4, <1>6 DEF NewestOf
  <2>3. Above(i, rest) \subseteq rest /\ i \notin Above(i, rest)
    <3>1. Rank(i) \in Nat
      BY <1>2, RankNat
    <3> QED
      BY <3>1 DEF Above
  <2>4. Above(i, rest) \cup skipped \subseteq Above(i, found)
    BY <1>2, <1>5 DEF Above
  <2>5. Above(i, rest) \cap skipped = {}
    BY DEF Above
  <2> HIDE DEF rest, page
  <2>6. Cardinality(rest) > limit
    <3>1. Cardinality(Above(i, rest)) <= Cardinality(rest)
          /\ (Cardinality(Above(i, rest)) = Cardinality(rest) => Above(i, rest) = rest)
      BY <1>3, <2>3, FS_Subset
    <3>2. Above(i, rest) # rest
      BY <1>4, <2>3
    <3> QED
      BY <1>3, <2>2, <3>1, <3>2
  <2>7. Cardinality(Above(i, rest) \cup skipped) = Cardinality(Above(i, rest)) + Cardinality(skipped)
    <3>1. Cardinality(Above(i, rest) \cup skipped) =
             Cardinality(Above(i, rest)) + Cardinality(skipped) - Cardinality(Above(i, rest) \cap skipped)
      BY <1>3, FS_Union
    <3>2. Cardinality(Above(i, rest) \cap skipped) = 0
      BY <2>5, FS_EmptySet
    <3> QED
      BY <1>3, <1>5, <3>1, <3>2
  <2>8. Cardinality(Above(i, rest) \cup skipped) <= Cardinality(Above(i, found))
    BY <1>3, <2>4, FS_Subset
  <2>9. next = cursor + limit
    BY <2>6
  <2> QED
    BY <1>3, <1>5, <2>1, <2>2, <2>7, <2>8, <2>9 DEF End
<1> HIDE DEF rest, page, next
<1>7. OffsetPage(typ, cursor, limit).items = page /\ OffsetPage(typ, cursor, limit).next = next
  BY <1>1
<1> QED
  BY <1>6, <1>7 DEF Covers, Ahead, found

LEMMA LesserOfTwo ==
    ASSUME NEW a \in Nat, NEW b \in Nat
    PROVE  Min({a, b}) = IF a <= b THEN a ELSE b
<1> DEFINE m == IF a <= b THEN a ELSE b
           T == {a, b}
<1>1. m \in T /\ \A y \in T : m <= y
  OBVIOUS
<1>2. \A x \in T : (\A y \in T : x <= y) => x = m
  OBVIOUS
<1> HIDE DEF m, T
<1>3. Min(T) \in T /\ \A y \in T : Min(T) <= y
  BY <1>1, Zenon DEF Min
<1> QED
  BY <1>2, <1>3 DEF m, T

LEMMA SearchPageCovers ==
    ASSUME ListingsTypeOK, Offsets, NEW limit \in Limits, NEW cursor \in Nat, NEW typ,
           NEW i \in Stored, Matches(i, typ), Ahead(i, cursor, typ)
    PROVE  Covers(SearchDocuments(cursor, limit, typ), i, typ)
<1> DEFINE found == Matching(typ)
           n == Cardinality(found)
           offset == Min({cursor, n})
           end == Min({offset + PageLimit(limit), n})
           page == NewestOf(end, found) \ NewestOf(offset, found)
           next == IF end < n THEN end ELSE End
<1>1. SearchDocuments(cursor, limit, typ) = [items |-> page, next |-> next]
  BY DEF SearchDocuments, Matching
<1>2. i \in found /\ found \in SUBSET Id
  BY DEF Matching, Stored
<1>3. Cardinality(Above(i, found)) \in Nat /\ Cardinality(Above(i, found)) >= cursor
      /\ IsFiniteSet(Above(i, found)) /\ IsFiniteSet(found) /\ n \in Nat
      /\ Cardinality(Above(i, found)) < n
  <2>1. Cardinality(Above(i, found)) >= cursor
    BY DEF Ahead
  <2>2. Rank(i) \in Nat
    BY <1>2, RankNat
  <2>3. Above(i, found) \subseteq found /\ Above(i, found) # found
    BY <1>2, <2>2 DEF Above
  <2> HIDE DEF found
  <2>4. /\ Cardinality(Above(i, found)) \in Nat /\ IsFiniteSet(Above(i, found))
        /\ IsFiniteSet(found) /\ n \in Nat
    BY <1>2, AboveFinite
  <2>5. Cardinality(Above(i, found)) <= n /\ Cardinality(Above(i, found)) # n
    BY <2>3, <2>4, FS_Subset
  <2> QED
    BY <2>1, <2>4, <2>5
<1> HIDE DEF found
<1>4. PageLimit(limit) \in Nat /\ PageLimit(limit) >= 1
  BY PageSize
<1>5. offset = cursor
  <2> HIDE DEF n
  <2>1. offset = IF cursor <= n THEN cursor ELSE n
    BY <1>3, LesserOfTwo
  <2> QED
    BY <1>3, <2>1
<1>6. end \in Nat /\ end <= n /\ (end < n => end = cursor + PageLimit(limit))
  <2> HIDE DEF n, offset
  <2>1. offset + PageLimit(limit) \in Nat
    BY <1>4, <1>5
  <2>2. end = IF offset + PageLimit(limit) <= n THEN offset + PageLimit(limit) ELSE n
    BY <1>3, <2>1, LesserOfTwo
  <2> QED
    BY <1>3, <1>5, <2>1, <2>2
<1> HIDE DEF n, offset, end
<1>7. i \notin NewestOf(offset, found)
  BY <1>3, <1>5 DEF NewestOf
<1>8. ASSUME i \notin page
      PROVE  /\ next \in Nat /\ next # End /\ Cardinality(Above(i, found)) >= next
             /\ \A k \in page : Rank(k) > Rank(i)
  <2>1. i \notin NewestOf(end, found)
    BY <1>7, <1>8
  <2>2. Cardinality(Above(i, found)) >= end
    BY <1>2, <1>3, <1>6, <2>1 DEF NewestOf
  <2>3. end < n
    BY <1>3, <1>6, <2>2
  <2>4. \A k \in NewestOf(end, found) : Rank(k) > Rank(i)
    BY <1>2, <1>6, <2>1, NewestCount
  <2> QED
    BY <1>4, <1>6, <2>2, <2>3, <2>4 DEF End
<1> HIDE DEF page, next
<1>9. SearchDocuments(cursor, limit, typ).items = page
      /\ SearchDocuments(cursor, limit, typ).next = next
  BY <1>1
<1> QED
  BY <1>8, <1>9 DEF Covers, Ahead, found


LEMMA NotificationsPageCovers ==
    ASSUME ListingsTypeOK, ~Offsets, family = "notifications", NEW limit \in Limits,
           NEW cursor \in Nat, NEW i \in Stored, Matches(i, ""), Ahead(i, cursor, "")
    PROVE  Covers(ListNotifications(cursor, limit), i, "")
<1> DEFINE page == KeyPage(cursor, "", PageLimit(limit))
<1>1. Covers(page, i, "")
  BY PageSize, KeyPageCovers
<1>2. ListNotifications(cursor, limit) =
         IF page.next = End /\ Cardinality(page.items) = PageLimit(limit)
         THEN [page EXCEPT !.next = Foreign] ELSE page
  BY DEF ListNotifications
<1>3. DOMAIN page = {"items", "next"}
  BY DEF KeyPage
<1> HIDE DEF page
<1>4. CASE ListNotifications(cursor, limit) = page
  BY <1>1, <1>4
<1>5. CASE page.next = End /\ ListNotifications(cursor, limit) = [page EXCEPT !.next = Foreign]
  <2>1. ListNotifications(cursor, limit).items = page.items
    BY <1>3, <1>5
  <2>2. i \in page.items
    BY <1>1, <1>5 DEF Covers
  <2> QED
    BY <2>1, <2>2 DEF Covers
<1> QED
  BY <1>2, <1>4, <1>5

LEMMA StorePageCovers ==
    ASSUME ListingsTypeOK, NEW limit \in Limits, NEW cursor \in Nat, NEW typ,
           typ = "" \/ family \in {"history", "search"},
           NEW i \in Stored, Matches(i, typ), Ahead(i, cursor, typ)
    PROVE  Covers(StorePage(cursor, limit, typ), i, typ)
<1>0. PageLimit(limit) \in Nat /\ PageLimit(limit) >= 1
  BY PageSize
<1>1. family \in {"activity", "access", "notifications", "history", "sessions", "search"}
  BY DEF ListingsTypeOK, Families, Retained, Filtered
<1>2. CASE Offsets /\ backend = "badger"
  <2>1. StorePage(cursor, limit, typ) = SearchDocuments(cursor, limit, typ)
    BY <1>2 DEF StorePage, Offsets
  <2> QED
    BY <1>2, <2>1, SearchPageCovers
<1>3. CASE backend # "badger"
  <2>1. Offsets
    BY <1>3 DEF Offsets
  <2>2. \/ StorePage(cursor, limit, typ) = OffsetPage(typ, cursor, PageLimit(limit))
        \/ typ = "" /\ StorePage(cursor, limit, typ) = OffsetPage("", cursor, PageLimit(limit))
    BY <1>1, <1>3 DEF StorePage, ListOrgActivityPagePG, ListAccessLogsPagePG, ListNotificationsPG,
       GetSessionHistoryPagePG, ListOrgSessionsPG, SearchDocumentsPG
  <2>3. Covers(OffsetPage(typ, cursor, PageLimit(limit)), i, typ)
    BY <1>0, <2>1, OffsetPageCovers
  <2> QED
    BY <2>2, <2>3
<1>4. CASE ~Offsets
  <2>1. backend = "badger" /\ family # "search"
    BY <1>4 DEF Offsets
  <2>2. CASE family = "sessions"
    <3>1. StorePage(cursor, limit, typ) = ListOrgSessions(cursor, limit)
      BY <2>1, <2>2 DEF StorePage
    <3> QED
      BY <1>4, <2>2, <3>1, SessionsPageCovers
  <2>3. CASE family = "notifications"
    <3>1. StorePage(cursor, limit, typ) = ListNotifications(cursor, limit) /\ typ = ""
      BY <2>1, <2>3 DEF StorePage
    <3> QED
      BY <1>4, <2>3, <3>1, NotificationsPageCovers
  <2>4. CASE family \in {"activity", "access", "history"}
    <3>1. \/ StorePage(cursor, limit, typ) = KeyPage(cursor, typ, PageLimit(limit))
          \/ typ = "" /\ StorePage(cursor, limit, typ) = KeyPage(cursor, "", PageLimit(limit))
      BY <2>1, <2>4 DEF StorePage, ListOrgActivityPage, ListAccessLogsPage, GetSessionHistoryPage
    <3>2. Covers(KeyPage(cursor, typ, PageLimit(limit)), i, typ)
      BY <1>0, <1>4, <2>4, KeyPageCovers
    <3> QED
      BY <3>1, <3>2
  <2> QED
    BY <1>1, <2>1, <2>2, <2>3, <2>4
<1> QED
  BY <1>2, <1>3, <1>4

(* The listings that cut at the retention window list what is stored.      *)
LEMMA FilteredPageStored ==
    ASSUME family \in Filtered, NEW cursor, NEW limit, NEW typ
    PROVE  /\ StorePage(cursor, limit, typ).items \subseteq Stored
           /\ Page(cursor, limit, typ) = ApplyCutoff(StorePage(cursor, limit, ""))
<1>1. family = "activity" \/ family = "access"
  BY DEF Filtered
<1>2. KeyPage(cursor, "", PageLimit(limit)).items \subseteq Stored
  BY DEF KeyPage, NewestOf
<1>3. OffsetPage("", cursor, PageLimit(limit)).items \subseteq Stored
  BY DEF OffsetPage, NewestOf
<1>4. \/ StorePage(cursor, limit, typ) = KeyPage(cursor, "", PageLimit(limit))
      \/ StorePage(cursor, limit, typ) = OffsetPage("", cursor, PageLimit(limit))
  BY <1>1 DEF StorePage, ListOrgActivityPage, ListAccessLogsPage, ListOrgActivityPagePG,
     ListAccessLogsPagePG
<1>5. Page(cursor, limit, typ) = ApplyCutoff(StorePage(cursor, limit, ""))
  BY <1>1 DEF Page, HandleOrgActivity, HandleListAccessLogs
<1> QED
  BY <1>2, <1>3, <1>4, <1>5

LEMMA BeforeWindow ==
    ASSUME NEW a \in Nat, NEW b \in Nat, NEW c \in Nat, a + b < c
    PROVE  a < c - b
OBVIOUS

(* What becomes of a record that is ahead when the client asks for a page. *)
LEMMA PageCovers ==
    ASSUME ListingsTypeOK, days \in Nat, NEW limit \in Limits, NEW cursor \in Nat, NEW typ,
           typ = "" \/ family \in {"history", "search"},
           NEW i \in Stored, Matches(i, typ), Ahead(i, cursor, typ)
    PROVE  LET page == Page(cursor, limit, typ)
           IN  \/ i \in page.items
               \/ page.next \in Nat /\ page.next # End /\ Ahead(i, page.next, typ)
               \/ /\ family \in Filtered /\ page.next = End
                  /\ \/ recs[i].ts < clock - days
                     \/ \E j \in Id : /\ recs[j].state # "absent" /\ Rank(j) > Rank(i)
                                      /\ recs[j].ts < clock - days
<1>1. Covers(StorePage(cursor, limit, typ), i, typ)
  BY StorePageCovers
<1>2. CASE family \notin Filtered
  <2>1. Page(cursor, limit, typ) = StorePage(cursor, limit, typ)
    BY <1>2 DEF Page, Filtered
  <2> QED
    BY <1>1, <2>1 DEF Covers
<1>3. CASE family \in Filtered
  <2> DEFINE page == StorePage(cursor, limit, typ)
             kept == {k \in page.items : ~Expired(k, clock, days)}
             next == IF kept # page.items THEN End ELSE page.next
             shown == Page(cursor, limit, typ)
  <2>1. typ = ""
    BY <1>3 DEF Filtered
  <2>2. page.items \subseteq Stored /\ Page(cursor, limit, typ) = ApplyCutoff(page)
    BY <1>3, <2>1, FilteredPageStored
  <2>3. Covers(page, i, typ)
    BY <1>1
  <2> HIDE DEF page
  <2>4. ApplyCutoff(page) = [items |-> kept, next |-> next]
    BY DEF ApplyCutoff
  <2>5. (kept = page.items => next = page.next) /\ (kept # page.items => next = End)
    OBVIOUS
  <2>6. \A k \in page.items : k \in kept \/ Expired(k, clock, days)
    OBVIOUS
  <2>7. kept \subseteq page.items
    OBVIOUS
  <2> HIDE DEF kept, next
  <2>8. shown.items = kept /\ shown.next = next
    <3>1. shown = [items |-> kept, next |-> next]
      BY <2>2, <2>4
    <3> QED
      BY ONLY <3>1
  <2> HIDE DEF shown
  <2>9. ASSUME NEW j \in Id, Expired(j, clock, days) PROVE recs[j].ts < clock - days
    <3>1. recs[j].ts \in Nat /\ clock \in Nat /\ days \in Nat
      BY DEF ListingsTypeOK, ListedRecord
    <3>2. recs[j].ts + days < clock
      BY <2>9 DEF Expired
    <3> QED
      BY ONLY <3>1, <3>2, BeforeWindow
  <2>10. CASE kept = page.items
    <3>1. shown.items = page.items /\ shown.next = page.next
      BY ONLY <2>8, <2>10, <2>5
    <3>2. i \in page.items \/ (page.next \in Nat /\ page.next # End /\ Ahead(i, page.next, typ))
      BY <2>3 DEF Covers
    <3>3. i \in shown.items \/ (shown.next \in Nat /\ shown.next # End /\ Ahead(i, shown.next, typ))
      BY ONLY <3>1, <3>2
    <3> QED
      BY <3>3 DEF shown
  <2>11. CASE kept # page.items
    <3>1. PICK j \in page.items : Expired(j, clock, days)
      BY <2>11, <2>6, <2>7
    <3>2. j \in Id /\ recs[j].state # "absent" /\ recs[j].ts < clock - days
      BY <2>2, <2>9, <3>1 DEF Stored
    <3>3. Page(cursor, limit, typ).next = End /\ Page(cursor, limit, typ).items = kept
      BY <2>8, <2>11, <2>5 DEF shown
    <3>4. CASE i \in page.items
      <4>1. i \in kept \/ Expired(i, clock, days)
        BY <2>6, <3>4
      <4> QED
        BY <1>3, <2>9, <3>3, <4>1 DEF Stored
    <3>5. CASE i \notin page.items
      <4>1. Rank(j) > Rank(i)
        BY <2>3, <3>1, <3>5 DEF Covers
      <4> QED
        BY <1>3, <3>2, <3>3, <4>1
    <3> QED
      BY <3>4, <3>5
  <2> QED
    BY <2>10, <2>11
<1> QED
  BY <1>2, <1>3


(* What is still to come of the walk: every record the walk began with and *)
(* that was left alone matches, and was listed, deleted, or lies ahead; in *)
(* a listing with offsets it may have slipped behind the offset.           *)
Coming(i) ==
    /\ Written(i) /\ Matches(i, walk.typ)
    /\ \/ i \in walk.listed \/ recs[i].state = "deleted"
       \/ /\ recs[i].state = "live"
          /\ ~Offsets => walk.cursor \in Nat /\ Ahead(i, walk.cursor, walk.typ)

Slipped ==
    {i \in walk.begun \ walk.disturbed :
        /\ i \notin walk.listed /\ recs[i].state = "live"
        /\ Offsets /\ ~Ahead(i, walk.cursor, walk.typ)}

SweepKept == sweep.on => sweep.now \in Nat /\ sweep.days \in Nat /\ family \in Retained

CompleteInv ==
    /\ days \in Nat /\ \A i \in Id : recs[i].ts <= clock
    /\ SweepKept
    /\ walk.phase \in {"idle", "walking", "done"} /\ walk.cut \in Int
    /\ Walking => /\ walk.limit \in Limits /\ walk.begun \subseteq Id
                  /\ walk.typ = "" \/ family \in {"history", "search"}
                  /\ \A i \in walk.begun \ walk.disturbed : Coming(i)
                  /\ Offsets => walk.cursor \in Nat
                  /\ walk.left \in Nat /\ Cardinality(Slipped) <= walk.left
    /\ WalkComplete

(* What a writer keeps of the walk, and of a record the walk counts on.    *)
SameWalk ==
    /\ \A f \in {"phase", "cursor", "limit", "typ", "begun", "listed", "cut"} : walk'[f] = walk[f]
    /\ walk.disturbed \subseteq walk'.disturbed

StillMatches(j) == walk.typ = "" \/ recs'[j].typ = walk.typ

NothingLostAbove(i) ==
    \A j \in Matching(walk.typ) :
        Rank(j) > Rank(i) =>
            /\ recs'[j].state = "live" /\ StillMatches(j)
            /\ recs'[j].ts >= recs[j].ts

Untouched(i) ==
    /\ recs'[i].ts = recs[i].ts /\ recs'[i].typ = recs[i].typ
    /\ recs'[i].state \in {"deleted", recs[i].state}

LeftAlone(i) ==
    /\ Untouched(i)
    /\ recs[i].state = "live" /\ recs'[i].state # "deleted" /\ Offsets => NothingLostAbove(i)

LEMMA StillSame ==
    ASSUME NEW j, recs'[j].typ = recs[j].typ, Matches(j, walk.typ)
    PROVE  StillMatches(j)
BY Zenon DEF Matches, StillMatches

LEMMA DisturbedMore ==
    ASSUME ListingsTypeOK, NEW i, Disturb(i)
    PROVE  SameWalk /\ walk'.left = walk.left /\ (Walking => i \in walk'.disturbed)
BY DEF ListingsTypeOK, WalkFields, Disturb, SameWalk

LEMMA SameWalkKept ==
    ASSUME walk' = walk
    PROVE  SameWalk /\ walk'.left = walk.left
BY DEF SameWalk

(* A record that is touched never moves down the order.                    *)
LEMMA RankRises ==
    ASSUME ListingsTypeOK, recs' \in [Id -> ListedRecord], UNCHANGED <<backend, family>>,
           NEW j \in Id, recs'[j].ts >= recs[j].ts
    PROVE  /\ Rank(j)' \in Nat /\ Rank(j)' >= Rank(j)
           /\ recs'[j].ts = recs[j].ts => Rank(j)' = Rank(j)
<1>1. /\ recs[j].ts \in Nat /\ recs'[j].ts \in Nat /\ Cardinality(Id) + 1 \in Nat /\ j \in Nat
  BY RankNat, IdAssumption, FS_CardinalityType DEF ListingsTypeOK, ListedRecord
<1>2. \A a \in Nat, b \in Nat, c \in Nat, d \in Nat :
         b >= a => b * c + d \in Nat /\ b * c + d >= a * c + d
  <2>1. SUFFICES ASSUME NEW a \in Nat, NEW b \in Nat, NEW c \in Nat, NEW d \in Nat, b >= a
                 PROVE  b * c + d \in Nat /\ b * c + d >= a * c + d
    OBVIOUS
  <2>2. b * c \in Nat /\ a * c \in Nat /\ b * c >= a * c
    BY ONLY <2>1, a \in Nat, b \in Nat, c \in Nat
  <2> QED
    BY ONLY <2>2, d \in Nat
<1>3. recs'[j].ts * (Cardinality(Id) + 1) + j \in Nat
      /\ recs'[j].ts * (Cardinality(Id) + 1) + j >= recs[j].ts * (Cardinality(Id) + 1) + j
  BY ONLY <1>1, <1>2, recs'[j].ts >= recs[j].ts
<1>4. ByTime(j)' \in Nat /\ ByTime(j)' >= ByTime(j)
      /\ (recs'[j].ts = recs[j].ts => ByTime(j)' = ByTime(j))
  BY <1>3 DEF ByTime
<1>5. \/ Rank(j) = j /\ Rank(j)' = j
      \/ Rank(j) = ByTime(j) /\ Rank(j)' = ByTime(j)'
  BY DEF Rank
<1>6. j >= j
  BY <1>1
<1> QED
  BY ONLY <1>1, <1>4, <1>5, <1>6

LEMMA AheadKept ==
    ASSUME ListingsTypeOK, recs' \in [Id -> ListedRecord], UNCHANGED <<backend, family>>,
           NEW i \in Id, NEW cursor \in Nat, Ahead(i, cursor, walk.typ), walk'.typ = walk.typ,
           recs'[i].ts = recs[i].ts, Offsets => NothingLostAbove(i)
    PROVE  Ahead(i, cursor, walk.typ)'
<1>1. recs[i].ts \in Nat /\ Rank(i)' = Rank(i) /\ Rank(i) \in Nat /\ (Offsets' <=> Offsets)
  <2>1. recs[i].ts \in Nat
    BY DEF ListingsTypeOK, ListedRecord
  <2>2. recs'[i].ts >= recs[i].ts
    BY <2>1
  <2> QED
    BY <2>1, <2>2, RankRises, RankNat DEF Offsets
<1>2. CASE ~Offsets
  BY <1>1, <1>2 DEF Ahead
<1>3. CASE Offsets
  <2> DEFINE S == Above(i, Matching(walk.typ))
             T == Above(i, Matching(walk.typ))'
  <2>1. ASSUME NEW j \in S PROVE j \in T
    <3>1. /\ j \in Id /\ Matches(j, walk.typ) /\ Rank(j) > Rank(i) /\ j \in Matching(walk.typ)
      BY DEF Above, Matching, Stored
    <3>2. recs'[j].state = "live" /\ StillMatches(j) /\ recs'[j].ts >= recs[j].ts
      BY <1>3, <3>1 DEF NothingLostAbove
    <3>3. Rank(j) \in Nat /\ Rank(j)' \in Nat /\ Rank(j)' >= Rank(j)
      BY <3>1, <3>2, RankRises, RankNat
    <3>4. Rank(j)' > Rank(i)'
      BY ONLY <1>1, <3>1, <3>3
    <3>5. Matches(j, walk.typ)'
      BY <3>2, Zenon DEF Matches, StillMatches
    <3> QED
      BY <3>1, <3>2, <3>4, <3>5 DEF Above, Matching, Stored
  <2>2. T \subseteq Id /\ S \subseteq T
    BY <2>1 DEF Above, Matching, Stored
  <2>3. Cardinality(S) >= cursor
    BY <1>3 DEF Ahead
  <2>4. Ahead(i, cursor, walk.typ)' <=> Cardinality(T) >= cursor
    BY <1>1, <1>3 DEF Ahead
  <2> HIDE DEF S, T
  <2>5. Cardinality(S) \in Nat /\ Cardinality(T) \in Nat /\ Cardinality(S) <= Cardinality(T)
    BY <2>2, IdAssumption, FS_Subset, FS_CardinalityType
  <2>6. Cardinality(T) >= cursor
    BY ONLY <2>3, <2>5, cursor \in Nat
  <2> QED
    BY <2>4, <2>6
<1> QED
  BY <1>2, <1>3


LEMMA WalkMovesOn ==
    ASSUME ListingsInv, CompleteInv, Open, recs' \in [Id -> ListedRecord],
           UNCHANGED <<backend, family, clock>>, SameWalk, days' \in Nat, SweepKept',
           \A i \in Id : recs'[i].ts <= clock,
           Walking => /\ \A i \in Id \ walk'.disturbed : Written(i) => Untouched(i)
                      /\ walk'.left \in Nat /\ Cardinality(Slipped') <= walk'.left
    PROVE  CompleteInv'
<1>1. /\ walk'.phase = walk.phase /\ walk'.cursor = walk.cursor /\ walk'.limit = walk.limit
      /\ walk'.typ = walk.typ /\ walk'.begun = walk.begun /\ walk'.listed = walk.listed
      /\ walk'.cut = walk.cut /\ walk.disturbed \subseteq walk'.disturbed
  BY DEF SameWalk
<1>2. (Walking' <=> Walking) /\ walk'.phase # "done" /\ (Offsets' <=> Offsets)
  BY <1>1 DEF Walking, Open, Offsets
<1>3. ASSUME Walking, NEW i \in walk'.begun \ walk'.disturbed PROVE Coming(i)'
  <2>1. i \in Id /\ Coming(i) /\ Untouched(i)
    BY <1>1, <1>3 DEF CompleteInv, Coming
  <2>2. recs'[i].ts = recs[i].ts /\ recs'[i].typ = recs[i].typ
    BY <2>1 DEF Untouched
  <2>3. recs'[i].state = "deleted" \/ recs'[i].state = recs[i].state
    BY <2>1 DEF Untouched
  <2>4. Written(i)' /\ Matches(i, walk.typ)'
    BY <1>1, <2>1, <2>2, <2>3 DEF Coming, Written, Matches
  <2>5. ASSUME recs'[i].state # "deleted", i \notin walk.listed
        PROVE  /\ recs'[i].state = "live"
               /\ ~Offsets => walk'.cursor \in Nat /\ Ahead(i, walk.cursor, walk.typ)'
    <3>1. recs[i].state = "live" /\ (~Offsets => walk.cursor \in Nat /\ Ahead(i, walk.cursor, walk.typ))
      BY <2>1, <2>3, <2>5 DEF Coming
    <3>2. recs'[i].state = "live"
      BY <2>3, <2>5, <3>1
    <3>3. ASSUME ~Offsets PROVE Ahead(i, walk.cursor, walk.typ)'
      <4> DEFINE c == walk.cursor
      <4>1. Ahead(i, c, walk.typ) /\ c \in Nat /\ walk'.cursor = c
        BY <1>1, <3>1, <3>3
      <4> HIDE DEF c
      <4>2. PICK d \in Nat : d = c
        BY <4>1
      <4>3. Ahead(i, d, walk.typ)
        BY <4>1, <4>2
      <4>4. Ahead(i, d, walk.typ)'
        BY <1>1, <2>1, <2>2, <3>3, <4>3, AheadKept DEF ListingsInv
      <4> QED
        BY <4>1, <4>2, <4>4 DEF Ahead
    <3> QED
      BY <1>1, <3>1, <3>2, <3>3
  <2> QED
    BY <1>1, <1>2, <2>4, <2>5 DEF Coming
<1>4. Walking => /\ walk'.limit \in Limits /\ walk'.begun \subseteq Id
                 /\ walk'.typ = "" \/ family' \in {"history", "search"}
                 /\ Offsets' => walk'.cursor \in Nat
  BY <1>1, <1>2 DEF CompleteInv
<1>5. walk'.phase \in {"idle", "walking", "done"} /\ walk'.cut \in Int
  BY <1>1 DEF CompleteInv
<1> QED
  BY <1>2, <1>3, <1>4, <1>5 DEF CompleteInv, WalkComplete

(* When every row above a record stays above it, it does not slip behind   *)
(* the offset.                                                             *)
LEMMA WalkGoesOn ==
    ASSUME ListingsInv, CompleteInv, Open, recs' \in [Id -> ListedRecord],
           UNCHANGED <<backend, family, clock>>, SameWalk, walk'.left = walk.left,
           days' \in Nat, SweepKept', \A i \in Id : recs'[i].ts <= clock,
           Walking => \A i \in Id \ walk'.disturbed : Written(i) => LeftAlone(i)
    PROVE  CompleteInv'
<1>1. /\ walk'.cursor = walk.cursor /\ walk'.typ = walk.typ /\ walk'.begun = walk.begun
      /\ walk'.listed = walk.listed /\ walk.disturbed \subseteq walk'.disturbed
      /\ (Offsets' <=> Offsets)
  BY DEF SameWalk, Offsets
<1>2. ASSUME Walking, NEW i \in Slipped' PROVE i \in Slipped
  <2>1. /\ i \in walk.begun \ walk.disturbed /\ i \in Id \ walk'.disturbed
        /\ i \notin walk.listed /\ recs'[i].state = "live" /\ Offsets
        /\ ~Ahead(i, walk.cursor, walk.typ)' /\ Coming(i) /\ walk.cursor \in Nat
    BY <1>1, <1>2 DEF Slipped, CompleteInv
  <2>2. Written(i) /\ LeftAlone(i) /\ Untouched(i) /\ recs[i].state = "live"
    BY <1>2, <2>1 DEF Coming, LeftAlone, Untouched
  <2>3. recs'[i].ts = recs[i].ts /\ NothingLostAbove(i)
    BY <2>1, <2>2 DEF LeftAlone, Untouched
  <2>4. ASSUME Ahead(i, walk.cursor, walk.typ) PROVE FALSE
    <3> DEFINE c == walk.cursor
    <3>1. Ahead(i, c, walk.typ) /\ c \in Nat /\ walk'.cursor = c
      BY <1>1, <2>1, <2>4
    <3> HIDE DEF c
    <3>2. PICK d \in Nat : d = c
      BY <3>1
    <3>3. Ahead(i, d, walk.typ)
      BY <3>1, <3>2
    <3>4. Ahead(i, d, walk.typ)'
      BY <1>1, <2>1, <2>3, <3>3, AheadKept DEF ListingsInv
    <3>5. Ahead(i, walk.cursor, walk.typ)'
      BY <3>1, <3>2, <3>4 DEF Ahead
    <3> QED
      BY <2>1, <3>5
  <2> QED
    BY <2>1, <2>2, <2>4 DEF Slipped
<1>3. ASSUME Walking PROVE walk'.left \in Nat /\ Cardinality(Slipped') <= walk'.left
  <2>1. Slipped \subseteq Id /\ Slipped' \subseteq Slipped
    BY <1>2, <1>3 DEF Slipped, CompleteInv
  <2>2. walk.left \in Nat /\ Cardinality(Slipped) <= walk.left
    BY <1>3 DEF CompleteInv
  <2>3. /\ Cardinality(Slipped) \in Nat /\ Cardinality(Slipped') \in Nat
        /\ Cardinality(Slipped') <= Cardinality(Slipped)
    <3>1. IsFiniteSet(Slipped)
      BY <2>1, IdAssumption, FS_Subset
    <3> QED
      BY <2>1, <3>1, FS_Subset, FS_CardinalityType
  <2> QED
    BY <2>2, <2>3
<1>4. Walking => \A i \in Id \ walk'.disturbed : Written(i) => Untouched(i)
  BY DEF LeftAlone
<1> QED
  BY <1>3, <1>4, WalkMovesOn

(* Writing one record leaves the others where the walk finds them, unless  *)
(* it takes a row out from above them in a listing with offsets.           *)
LEMMA OneWritten ==
    ASSUME ListingsTypeOK, NEW i \in Id, \A k \in Id \ {i} : recs'[k] = recs[k],
           Offsets /\ recs[i].state = "live" =>
               /\ recs'[i].state = "live" /\ recs'[i].ts >= recs[i].ts
               /\ StillMatches(i) \/ ~Matches(i, walk.typ)
    PROVE  \A k \in Id \ {i} : LeftAlone(k)
<1>1. SUFFICES ASSUME NEW k \in Id \ {i} PROVE Offsets => NothingLostAbove(k)
  BY DEF LeftAlone, Untouched
<1>2. SUFFICES ASSUME Offsets, NEW j \in Matching(walk.typ)
               PROVE  /\ recs'[j].state = "live" /\ StillMatches(j)
                      /\ recs'[j].ts >= recs[j].ts
  BY DEF NothingLostAbove
<1>3. /\ j \in Id /\ recs[j].state = "live" /\ recs[j].ts \in Nat
      /\ Matches(j, walk.typ)
  BY DEF Matching, Stored, ListingsTypeOK, ListedRecord
<1>4. CASE j = i
  BY <1>2, <1>3, <1>4
<1>5. CASE j # i
  <2>1. recs'[j] = recs[j] /\ StillMatches(j)
    BY <1>3, <1>5, StillSame
  <2> QED
    BY <1>3, <2>1
<1> QED
  BY <1>4, <1>5

(* By time, a record above another is stamped no earlier.                  *)
LEMMA AboveIsLater ==
    ASSUME ListingsTypeOK, NEW j \in Id, NEW k \in Id, ByTime(j) > ByTime(k)
    PROVE  recs[j].ts >= recs[k].ts
<1> DEFINE n == Cardinality(Id)
           a == recs[j].ts
           b == recs[k].ts
<1>1. n \in Nat /\ a \in Nat /\ b \in Nat /\ j \in Nat /\ k \in Nat /\ j <= n /\ k >= 1
  BY IdAssumption, FS_CardinalityType DEF ListingsTypeOK, ListedRecord
<1>2. a * (n + 1) + j > b * (n + 1) + k
  BY DEF ByTime
<1> HIDE DEF n, a, b
<1>3. SUFFICES ASSUME a + 1 <= b PROVE FALSE
  <2>1. a >= b \/ a + 1 <= b
    BY ONLY <1>1
  <2> QED
    BY <1>3, <2>1 DEF a, b
<1>4. (a + 1) * (n + 1) <= b * (n + 1)
  BY ONLY <1>1, <1>3
<1>5. (a + 1) * (n + 1) = a * (n + 1) + (n + 1)
  BY ONLY <1>1
<1>6. a * (n + 1) \in Nat /\ b * (n + 1) \in Nat /\ (a + 1) * (n + 1) \in Nat
  BY ONLY <1>1
<1> QED
  BY ONLY <1>1, <1>2, <1>4, <1>5, <1>6


LEMMA RankDistinct ==
    ASSUME ListingsTypeOK, NEW i \in Id, NEW j \in Id, Rank(i) = Rank(j)
    PROVE  i = j
<1> DEFINE n == Cardinality(Id)
           a == recs[i].ts
           b == recs[j].ts
<1>1. /\ n \in Nat /\ a \in Nat /\ b \in Nat
      /\ i \in Nat /\ j \in Nat /\ i >= 1 /\ i <= n /\ j >= 1 /\ j <= n
  BY IdAssumption, FS_CardinalityType DEF ListingsTypeOK, ListedRecord
<1>2. \/ Rank(i) = i /\ Rank(j) = j
      \/ Rank(i) = a * (n + 1) + i /\ Rank(j) = b * (n + 1) + j
  BY DEF Rank, ByTime
<1>3. i = j \/ a * (n + 1) + i = b * (n + 1) + j
  BY <1>2
<1> HIDE DEF n, a, b
<1>4. \A x \in Nat, y \in Nat, u \in 1 .. n, v \in 1 .. n :
         x >= y + 1 => x * (n + 1) + u # y * (n + 1) + v
  <2>1. SUFFICES ASSUME NEW x \in Nat, NEW y \in Nat, NEW u \in 1 .. n, NEW v \in 1 .. n,
                        x >= y + 1
                 PROVE  x * (n + 1) + u # y * (n + 1) + v
    OBVIOUS
  <2>2. x * (n + 1) >= (y + 1) * (n + 1)
    BY ONLY <1>1, <2>1, x \in Nat, y \in Nat
  <2>3. (y + 1) * (n + 1) = y * (n + 1) + (n + 1)
    BY ONLY <1>1, y \in Nat
  <2>4. x * (n + 1) \in Nat /\ y * (n + 1) \in Nat /\ (y + 1) * (n + 1) \in Nat
    BY ONLY <1>1, x \in Nat, y \in Nat
  <2> QED
    BY ONLY <1>1, <2>2, <2>3, <2>4, u \in 1 .. n, v \in 1 .. n
<1>5. i \in 1 .. n /\ j \in 1 .. n
  BY <1>1
<1>6. a * (n + 1) + i = b * (n + 1) + j => ~(a >= b + 1) /\ ~(b >= a + 1)
  BY <1>1, <1>4, <1>5
<1>7. CASE a = b
  <2>1. a * (n + 1) \in Nat
    BY ONLY <1>1
  <2> QED
    BY ONLY <1>1, <1>3, <1>7, <2>1
<1>8. CASE a # b
  <2>1. a >= b + 1 \/ b >= a + 1
    BY ONLY <1>1, <1>8
  <2> QED
    BY <1>3, <1>6, <2>1
<1> QED
  BY <1>7, <1>8

(* A row that leaves from before the offset lets one record slip behind it:*)
(* the one that had as many rows above it as the offset skips.             *)
LEMMA OneSlips ==
    ASSUME ListingsInv, CompleteInv, Walking, Offsets, NEW j \in Id,
           recs' \in [Id -> ListedRecord], \A k \in Id \ {j} : recs'[k] = recs[k],
           UNCHANGED <<backend, family>>, SameWalk, j \in walk'.disturbed,
           j \notin Matching(walk.typ)'
    PROVE  \/ Slipped' \subseteq Slipped
           \/ BeforeOffset(j) /\ \E z \in Id : Slipped' \subseteq Slipped \cup {z}
<1> DEFINE c == walk.cursor
           M == Matching(walk.typ)
           A(k) == Above(k, M)
<1>0. /\ ListingsTypeOK /\ c \in Nat /\ M \subseteq Id
      /\ walk'.typ = walk.typ /\ walk'.cursor = c /\ walk'.begun = walk.begun
      /\ walk'.listed = walk.listed /\ walk.disturbed \subseteq walk'.disturbed
      /\ (Offsets' <=> Offsets)
  BY DEF ListingsInv, CompleteInv, SameWalk, Offsets, Matching, Stored
<1>1. ASSUME NEW k \in Id PROVE IsFiniteSet(A(k)) /\ Cardinality(A(k)) \in Nat /\ A(k) \subseteq M
  BY <1>0, AboveFinite DEF Above
<1>2. \A k \in Id \ {j} : Rank(k)' = Rank(k) /\ (k \in M <=> k \in Matching(walk.typ)')
  BY <1>0 DEF Rank, ByTime, Matching, Stored, Matches
<1>3. ASSUME NEW k \in Slipped'
      PROVE  /\ k \in Id \ {j} /\ k \in M /\ k \in walk.begun \ walk.disturbed
             /\ k \notin walk.listed /\ recs[k].state = "live"
             /\ Cardinality(A(k) \ {j}) < c
  <2>1. /\ k \in Id \ {j} /\ k \in walk.begun \ walk.disturbed /\ k \notin walk.listed
        /\ recs'[k].state = "live" /\ ~Ahead(k, walk.cursor, walk.typ)' /\ Coming(k)
    BY <1>0, <1>3 DEF Slipped, CompleteInv
  <2>2. recs[k].state = "live" /\ k \in M
    BY <2>1 DEF Coming, Matching, Stored
  <2> DEFINE T == Above(k, Matching(walk.typ))'
  <2>3. A(k) \ {j} \subseteq T
    <3>1. SUFFICES ASSUME NEW x \in A(k), x # j PROVE x \in T
      OBVIOUS
    <3>2. x \in M /\ x \in Id \ {j} /\ Rank(x) > Rank(k)
      BY <1>0, <3>1 DEF Above
    <3>3. x \in Matching(walk.typ)' /\ Rank(x)' > Rank(k)'
      BY <1>2, <2>1, <3>2
    <3> QED
      BY <3>3 DEF Above
  <2>4. T \subseteq Id
    BY DEF Above, Matching, Stored
  <2>5. ~ (Cardinality(T) >= c)
    BY <1>0, <2>1 DEF Ahead
  <2> HIDE DEF T
  <2>6. IsFiniteSet(T) /\ Cardinality(T) \in Nat
    BY <2>4, IdAssumption, FS_Subset, FS_CardinalityType
  <2> DEFINE B == A(k) \ {j}
  <2>7. Cardinality(B) \in Nat /\ Cardinality(B) <= Cardinality(T)
    <3>1. B \subseteq T
      BY <2>3
    <3> HIDE DEF B
    <3> QED
      BY <2>6, <3>1, FS_Subset, FS_CardinalityType
  <2> HIDE DEF M, A
  <2>8. Cardinality(B) < c
    <3> HIDE DEF B
    <3> QED
      BY ONLY <1>0, <2>5, <2>6, <2>7
  <2> QED
    BY <2>1, <2>2, <2>8
<1>4. ASSUME NEW k \in Slipped', k \notin Slipped
      PROVE  j \in A(k) /\ Cardinality(A(k)) = c /\ k \in Id /\ k \in M
  <2>1. Cardinality(A(k)) >= c /\ k \in Id /\ k \in M
    BY <1>3, <1>4 DEF Slipped, Ahead
  <2>2. Cardinality(A(k) \ {j}) < c /\ IsFiniteSet(A(k)) /\ Cardinality(A(k)) \in Nat
    BY <1>1, <1>3, <2>1
  <2> HIDE DEF A
  <2>3. CASE j \notin A(k)
    <3>1. A(k) \ {j} = A(k)
      BY <2>3
    <3> QED
      BY <1>0, <2>1, <2>2, <3>1
  <2>4. CASE j \in A(k)
    <3>1. Cardinality(A(k) \ {j}) = Cardinality(A(k)) - 1
      BY <2>2, <2>4, FS_RemoveElement
    <3> QED
      BY <1>0, <2>1, <2>2, <2>4, <3>1
  <2> QED
    BY <2>3, <2>4
<1>5. \A k \in Id : Rank(k) \in Nat
  BY <1>0, RankNat
<1>6. ASSUME NEW k \in Id, NEW l \in Id, l \in A(k)
      PROVE  Cardinality(A(l)) < Cardinality(A(k))
  <2>1. Rank(l) > Rank(k) /\ l \in M
    BY <1>6 DEF Above
  <2>2. A(l) \subseteq A(k) \ {l}
    <3>1. SUFFICES ASSUME NEW x \in A(l) PROVE x \in A(k) /\ x # l
      OBVIOUS
    <3>2. x \in M /\ x \in Id /\ Rank(x) > Rank(l)
      BY <1>0, <3>1 DEF Above
    <3> QED
      BY <1>5, <2>1, <3>2 DEF Above
  <2>3. IsFiniteSet(A(k)) /\ Cardinality(A(k)) \in Nat /\ Cardinality(A(l)) \in Nat
    BY <1>1
  <2> HIDE DEF A
  <2>4. IsFiniteSet(A(k) \ {l}) /\ Cardinality(A(k) \ {l}) = Cardinality(A(k)) - 1
    BY <1>6, <2>3, FS_RemoveElement
  <2>5. Cardinality(A(l)) <= Cardinality(A(k) \ {l})
    BY <2>2, <2>4, FS_Subset
  <2> QED
    BY <2>3, <2>4, <2>5
<1>7. ASSUME NEW k \in Slipped', k \notin Slipped PROVE BeforeOffset(j)
  <2>1. j \in A(k) /\ Cardinality(A(k)) = c /\ k \in Id
    BY <1>4, <1>7
  <2>2. Cardinality(A(j)) < c /\ j \in M
    BY <1>1, <1>6, <2>1
  <2> QED
    BY <2>2 DEF BeforeOffset
<1>8. ASSUME NEW k \in Slipped', k \notin Slipped, NEW l \in Slipped', l \notin Slipped
      PROVE  k = l
  <2>1. /\ Cardinality(A(k)) = c /\ Cardinality(A(l)) = c
        /\ k \in Id /\ l \in Id /\ k \in M /\ l \in M
    BY <1>4, <1>8
  <2>2. l \notin A(k) /\ k \notin A(l)
    BY <1>0, <1>6, <2>1
  <2>3. Rank(k) = Rank(l)
    BY <1>5, <2>1, <2>2 DEF Above
  <2> QED
    BY <1>0, <2>1, <2>3, RankDistinct
<1>9. CASE Slipped' \subseteq Slipped
  BY <1>9
<1>10. CASE ~(Slipped' \subseteq Slipped)
  <2>1. PICK z \in Slipped' : z \notin Slipped
    BY <1>10
  <2>2. Slipped' \subseteq Slipped \cup {z}
    <3>1. SUFFICES ASSUME NEW k \in Slipped', k \notin Slipped PROVE k = z
      OBVIOUS
    <3> QED
      BY <1>8, <2>1, <3>1
  <2>3. BeforeOffset(j) /\ z \in Id
    BY <1>4, <1>7, <2>1
  <2> QED
    BY <2>2, <2>3
<1> QED
  BY <1>9, <1>10

LEMMA DepartGoesOn ==
    ASSUME ListingsInv, CompleteInv, Open, NEW j \in Id, recs' \in [Id -> ListedRecord],
           \A k \in Id \ {j} : recs'[k] = recs[k], recs'[j].ts <= clock,
           UNCHANGED <<platformVars, family, days, sweep>>, Depart(j),
           Walking => j \notin Matching(walk.typ)'
    PROVE  CompleteInv'
<1> DEFINE n == Cardinality(Id)
<1>1. /\ SameWalk /\ (Walking => j \in walk'.disturbed)
      /\ Walking => walk'.left = IF BeforeOffset(j) /\ walk.left < n THEN walk.left + 1
                                 ELSE walk.left
  BY DEF ListingsInv, ListingsTypeOK, WalkFields, Depart, SameWalk
<1>2. UNCHANGED <<backend, family, clock>> /\ days' \in Nat /\ SweepKept'
      /\ \A i \in Id : recs'[i].ts <= clock
  BY DEF CompleteInv, SweepKept, platformVars
<1>3. Walking => \A i \in Id \ walk'.disturbed : Written(i) => Untouched(i)
  BY <1>1 DEF Untouched
<1>4. ASSUME Walking PROVE walk'.left \in Nat /\ Cardinality(Slipped') <= walk'.left
  <2>1. /\ walk.left \in Nat /\ Cardinality(Slipped) <= walk.left /\ n \in Nat
        /\ Slipped \subseteq Id /\ Slipped' \subseteq Id
        /\ IsFiniteSet(Slipped) /\ Cardinality(Slipped) \in Nat
        /\ IsFiniteSet(Slipped') /\ Cardinality(Slipped') \in Nat /\ Cardinality(Slipped') <= n
    <3>1. walk.left \in Nat /\ Cardinality(Slipped) <= walk.left /\ walk.begun \subseteq Id
      BY <1>4 DEF CompleteInv
    <3>2. Slipped \subseteq Id /\ Slipped' \subseteq Id
      BY <1>1, <3>1 DEF Slipped, SameWalk
    <3>3. \A S \in SUBSET Id : IsFiniteSet(S) /\ Cardinality(S) \in Nat /\ Cardinality(S) <= n
      BY IdAssumption, FS_Subset, FS_CardinalityType
    <3> QED
      BY <3>1, <3>2, <3>3, IdAssumption, FS_CardinalityType
  <2>2. walk'.left \in Nat /\ walk'.left >= walk.left
    BY <1>1, <1>4, <2>1
  <2>3. CASE Slipped' \subseteq Slipped
    <3>1. Cardinality(Slipped') <= Cardinality(Slipped)
      BY <2>1, <2>3, FS_Subset
    <3> QED
      BY <2>1, <2>2, <3>1
  <2>4. ASSUME BeforeOffset(j), NEW z \in Id, Slipped' \subseteq Slipped \cup {z}
        PROVE  Cardinality(Slipped') <= walk'.left
    <3>1. /\ IsFiniteSet(Slipped \cup {z})
          /\ Cardinality(Slipped \cup {z}) \in Nat
          /\ Cardinality(Slipped \cup {z}) <= Cardinality(Slipped) + 1
      <4> DEFINE S == Slipped
      <4>1. IsFiniteSet(S) /\ Cardinality(S) \in Nat
        BY <2>1
      <4> HIDE DEF S
      <4>2. CASE z \in S
        <5>1. S \cup {z} = S
          BY <4>2
        <5> QED
          BY <4>1, <5>1 DEF S
      <4>3. CASE z \notin S
        <5>1. IsFiniteSet(S \cup {z}) /\ Cardinality(S \cup {z}) = Cardinality(S) + 1
          BY <4>1, <4>3, FS_AddElement
        <5> QED
          BY <4>1, <5>1 DEF S
      <4> QED
        BY <4>2, <4>3
    <3>2. Cardinality(Slipped') <= Cardinality(Slipped \cup {z})
      BY <2>4, <3>1, FS_Subset
    <3>3. \/ walk'.left = walk.left + 1
          \/ walk'.left = walk.left /\ ~(walk.left < n)
      BY <1>1, <1>4, <2>4
    <3> QED
      BY <2>1, <3>1, <3>2, <3>3
  <2>5. CASE ~Offsets
    BY <1>2, <2>1, <2>3, <2>5 DEF Slipped, Offsets
  <2>6. CASE Offsets
    BY <1>1, <1>2, <1>4, <2>2, <2>3, <2>4, <2>6, OneSlips
  <2> QED
    BY <2>2, <2>5, <2>6
<1> QED
  BY <1>1, <1>2, <1>3, <1>4, WalkMovesOn


LEMMA PutGoesOn ==
    ASSUME ListingsInv, CompleteInv, Open, NEW i \in Id, NEW ts \in Nat, ts <= clock,
           NEW typ \in {"x", "y"}, Put(i, ts, typ), UNCHANGED <<platformVars, family, days, sweep>>,
           SameWalk, walk'.left = walk.left,
           \/ Absent(i)
           \/ /\ Walking => i \in walk'.disturbed /\ walk.typ \in {"", typ}
              /\ ts = clock
    PROVE  CompleteInv'
<1>1. recs \in [Id -> ListedRecord] /\ clock \in Nat \ {0}
  BY DEF ListingsInv, ListingsTypeOK
<1>2. /\ recs' \in [Id -> ListedRecord] /\ recs'[i] = [ts |-> ts, typ |-> typ, state |-> "live"]
      /\ \A k \in Id \ {i} : recs'[k] = recs[k]
  BY <1>1 DEF Put, ListedRecord
<1>3. UNCHANGED <<backend, family, clock>> /\ days' \in Nat /\ SweepKept'
  BY DEF CompleteInv, SweepKept, platformVars
<1>4. ASSUME NEW k \in Id PROVE recs'[k].ts <= clock
  <2>1. k # i => recs'[k].ts <= clock
    BY <1>2 DEF CompleteInv
  <2>2. recs'[i].ts <= clock
    <3>1. recs'[i].ts = ts
      BY ONLY <1>2
    <3> QED
      BY ONLY <3>1, ts <= clock
  <2> QED
    BY <2>1, <2>2
<1>5. ASSUME Walking, NEW k \in Id \ walk'.disturbed, Written(k) PROVE LeftAlone(k)
  <2>1. /\ k # i
        /\ Absent(i) \/ (walk.typ \in {"", typ} /\ ts = clock)
    BY <1>5 DEF Written, Absent
  <2>2. recs[i].state = "live" => recs'[i].state = "live" /\ StillMatches(i)
                                  /\ recs'[i].ts >= recs[i].ts
    <3>1. recs[i].ts \in Nat /\ recs[i].ts <= clock
      BY <1>1 DEF CompleteInv, ListedRecord
    <3>2. recs'[i].ts = ts /\ recs'[i].typ = typ /\ recs'[i].state = "live"
      BY ONLY <1>2
    <3>3. walk.typ \in {"", typ} => StillMatches(i)
      BY <3>2, Zenon DEF StillMatches
    <3>4. ts = clock => recs'[i].ts >= recs[i].ts
      BY ONLY <1>1, <3>1, <3>2
    <3>5. recs[i].state = "live" => ~Absent(i)
      BY DEF Absent
    <3> QED
      BY <2>1, <3>2, <3>3, <3>4, <3>5, Zenon
  <2>3. ListingsTypeOK /\ k \in Id \ {i}
    BY <2>1 DEF ListingsInv
  <2> QED
    BY <1>2, <2>2, <2>3, OneWritten
<1> QED
  BY <1>2, <1>3, <1>4, <1>5, WalkGoesOn

LEMMA WriterGoesOn ==
    ASSUME ListingsInv, CompleteInv, NEW i \in Id, NEW ts \in Stamps, NEW typ \in {"x", "y"},
           \/ AppendOrgActivity(i, ts) \/ AppendAccessLog(i, ts) \/ AppendHistory(i, ts, typ)
           \/ SaveNotification(i) \/ UpsertOrgSessionIndex(i)
           \/ UpsertSearchDocuments(i, typ)
    PROVE  CompleteInv'
<1>0. ListingsTypeOK /\ clock \in Nat \ {0} /\ ts \in Nat /\ ts <= clock /\ clock <= clock
  BY DEF ListingsInv, ListingsTypeOK, Stamps
<1>1. Open /\ UNCHANGED <<platformVars, family, days, sweep>>
  BY DEF AppendOrgActivity, AppendAccessLog, AppendHistory, SaveNotification,
         UpsertOrgSessionIndex, UpsertSearchDocuments, Writes
<1>2. CASE AppendOrgActivity(i, ts) \/ AppendAccessLog(i, ts) \/ AppendHistory(i, ts, typ)
  <2>1. Absent(i) /\ walk' = walk /\ (Put(i, ts, "x") \/ Put(i, ts, typ))
    BY <1>2 DEF AppendOrgActivity, AppendAccessLog, AppendHistory, NextPlace
  <2> QED
    BY <1>0, <1>1, <2>1, SameWalkKept, PutGoesOn
<1>3. CASE SaveNotification(i) \/ UpsertOrgSessionIndex(i)
  <2>1. Absent(i) /\ walk' = walk /\ Put(i, clock, "x")
    BY <1>3 DEF SaveNotification, UpsertOrgSessionIndex
  <2> QED
    BY <1>0, <1>1, <2>1, SameWalkKept, PutGoesOn
<1>4. CASE UpsertSearchDocuments(i, typ) /\ Disturb(i) /\ walk.typ \in {"", typ}
  <2>1. Put(i, clock, typ)
    BY <1>4 DEF UpsertSearchDocuments
  <2>2. SameWalk /\ walk'.left = walk.left /\ (Walking => i \in walk'.disturbed)
    BY <1>0, <1>4, DisturbedMore
  <2> QED
    BY <1>0, <1>1, <1>4, <2>1, <2>2, PutGoesOn
<1>5. CASE UpsertSearchDocuments(i, typ) /\ Depart(i) /\ walk.typ \notin {"", typ}
  <2>1. /\ recs' \in [Id -> ListedRecord] /\ recs'[i].ts = clock /\ recs'[i].typ = typ
        /\ \A k \in Id \ {i} : recs'[k] = recs[k]
    BY <1>0, <1>5 DEF UpsertSearchDocuments, Put, ListedRecord, ListingsTypeOK
  <2>2. Walking => i \notin Matching(walk.typ)'
    <3>1. walk'.typ = walk.typ
      BY <1>0, <1>5 DEF Depart, ListingsTypeOK, WalkFields
    <3> QED
      BY <1>5, <2>1, <3>1 DEF Matching, Matches
  <2> QED
    BY <1>0, <1>1, <1>5, <2>1, <2>2, DepartGoesOn
<1>6. UpsertSearchDocuments(i, typ) => \/ Disturb(i) /\ walk.typ \in {"", typ}
                                       \/ Depart(i) /\ walk.typ \notin {"", typ}
  BY DEF UpsertSearchDocuments
<1> QED
  BY <1>2, <1>3, <1>4, <1>5, <1>6

LEMMA SessionGoesOn ==
    ASSUME ListingsInv, CompleteInv, NEW i \in Id, TouchOrgSession(i) \/ DeleteOrgSession(i)
    PROVE  CompleteInv'
<1>0. ListingsTypeOK /\ recs \in [Id -> ListedRecord] /\ clock \in Nat \ {0} /\ clock <= clock
  BY DEF ListingsInv, ListingsTypeOK
<1>1. Open /\ UNCHANGED <<platformVars, family, days, sweep>> /\ family = "sessions"
  BY DEF TouchOrgSession, DeleteOrgSession, Writes
<1>2. UNCHANGED <<backend, family, clock>> /\ days' \in Nat /\ SweepKept'
  BY <1>1 DEF CompleteInv, SweepKept, platformVars
<1>3. recs[i].ts \in Nat /\ recs[i].ts <= clock
  BY <1>0 DEF CompleteInv, ListedRecord
<1>4. CASE TouchOrgSession(i)
  <2>1. /\ recs' \in [Id -> ListedRecord] /\ recs'[i].ts = clock
        /\ recs'[i].typ = recs[i].typ
        /\ recs'[i].state = IF Absent(i) THEN "live" ELSE recs[i].state
        /\ \A k \in Id \ {i} : recs'[k] = recs[k]
    BY <1>0, <1>4 DEF TouchOrgSession, ListedRecord
  <2>2. SameWalk /\ walk'.left = walk.left /\ (Walking => i \in walk'.disturbed)
    BY <1>0, <1>4, DisturbedMore DEF TouchOrgSession
  <2>3. \A k \in Id : recs'[k].ts <= clock
    BY <1>0, <2>1 DEF CompleteInv
  <2>4. recs[i].state = "live" => recs'[i].state = "live" /\ recs'[i].ts >= recs[i].ts
    BY <1>0, <1>3, <2>1 DEF Absent
  <2>5. \A k \in Id \ {i} : LeftAlone(k)
    BY <1>0, <2>1, <2>4, StillSame, OneWritten
  <2>6. Walking => \A k \in Id \ walk'.disturbed : LeftAlone(k)
    BY <2>2, <2>5
  <2> QED
    BY <1>1, <1>2, <2>1, <2>2, <2>3, <2>6, WalkGoesOn
<1>5. CASE DeleteOrgSession(i)
  <2>1. /\ recs' \in [Id -> ListedRecord] /\ recs'[i].ts = recs[i].ts
        /\ recs'[i].state = "archived" /\ \A k \in Id \ {i} : recs'[k] = recs[k]
    BY <1>0, <1>5 DEF DeleteOrgSession, ListedRecord
  <2>2. Depart(i) /\ i \notin Matching(walk.typ)'
    BY <1>5, <2>1 DEF DeleteOrgSession, Matching, Stored
  <2> QED
    BY <1>1, <1>3, <2>1, <2>2, DepartGoesOn
<1> QED
  BY <1>4, <1>5

LEMMA RetentionGoesOn ==
    ASSUME ListingsInv, CompleteInv,
           EnforceRetention \/ \E d \in 1 .. MaxDays : ChangeRetention(d)
    PROVE  CompleteInv'
<1>0. ListingsTypeOK /\ recs \in [Id -> ListedRecord] /\ clock \in Nat \ {0}
  BY DEF ListingsInv, ListingsTypeOK
<1>1. Open /\ UNCHANGED <<platformVars, family, recs>>
  BY DEF EnforceRetention, ChangeRetention
<1>2. UNCHANGED <<backend, family, clock>> /\ recs' \in [Id -> ListedRecord]
      /\ \A k \in Id : recs'[k].ts <= clock
  BY <1>0, <1>1 DEF CompleteInv, platformVars
<1>3. walk' = walk /\ days' \in Nat /\ SweepKept'
  <2>1. CASE EnforceRetention
    BY <1>0, <2>1 DEF EnforceRetention, CompleteInv, SweepKept
  <2>2. ASSUME NEW d \in 1 .. MaxDays, ChangeRetention(d)
        PROVE  walk' = walk /\ days' \in Nat /\ SweepKept'
    <3>1. d \in Nat
      BY PageAssumption
    <3> QED
      BY <1>1, <2>2, <3>1 DEF ChangeRetention, CompleteInv, SweepKept
  <2> QED
    BY <2>1, <2>2
<1>4. \A k \in Id : LeftAlone(k)
  <2>1. \A j \in Id : recs[j].ts \in Nat
    BY <1>0 DEF ListedRecord
  <2>2. ASSUME NEW k \in Id PROVE NothingLostAbove(k)
    BY <1>1, <2>1, StillSame DEF NothingLostAbove, Matching, Stored
  <2> QED
    BY <1>1, <2>2 DEF LeftAlone, Untouched
<1> QED
  BY <1>1, <1>2, <1>3, <1>4, SameWalkKept, WalkGoesOn

(* The sweep deletes what is older than the window it read: where it      *)
(* leaves a record, it leaves all that is listed above it by time.         *)
LEMMA SweepGoesOn ==
    ASSUME ListingsInv, CompleteInv, EnforceRetentionDelete
    PROVE  CompleteInv'
<1> DEFINE gone == IF backend = "badger" THEN Doomed ELSE DoomedPG
<1>0. ListingsTypeOK /\ recs \in [Id -> ListedRecord]
  BY DEF ListingsInv, ListingsTypeOK
<1>1. /\ Open /\ UNCHANGED <<platformVars, family, days>> /\ walk' = walk /\ sweep.on
      /\ sweep' = NoSweep
      /\ recs' = [j \in Id |-> IF j \in gone THEN [recs[j] EXCEPT !.state = "deleted"]
                               ELSE recs[j]]
  BY DEF EnforceRetentionDelete
<1>2. sweep.now \in Nat /\ sweep.days \in Nat /\ family \in Retained
  BY <1>1 DEF CompleteInv, SweepKept
<1>3. UNCHANGED <<backend, family, clock>> /\ days' \in Nat /\ SweepKept'
  BY <1>1 DEF CompleteInv, SweepKept, NoSweep, platformVars
<1>4. gone \subseteq Id
  BY DEF Doomed, DoomedPG, Stored
<1>5. ASSUME Offsets, NEW j \in Stored, NEW k \in Stored, Rank(j) > Rank(k), k \notin gone
      PROVE  j \notin gone
  <2>1. backend # "badger" /\ gone = DoomedPG
    BY <1>2, <1>5 DEF Offsets, Retained, Filtered
  <2>2. Rank(j) = ByTime(j) /\ Rank(k) = ByTime(k)
    BY <1>2, <2>1 DEF Rank, Retained, Filtered
  <2>3. recs[j].ts \in Nat /\ recs[k].ts \in Nat /\ j \in Id /\ k \in Id
    BY <1>0 DEF Stored, ListedRecord
  <2>4. recs[j].ts >= recs[k].ts
    BY <1>0, <1>5, <2>2, <2>3, AboveIsLater
  <2>5. ~ (recs[k].ts + sweep.days < sweep.now)
    BY <1>5, <2>1 DEF DoomedPG, Expired
  <2>6. ~ (recs[j].ts + sweep.days < sweep.now)
    BY ONLY <1>2, <2>3, <2>4, <2>5
  <2> QED
    BY <2>1, <2>6 DEF DoomedPG, Expired
<1> HIDE DEF gone
<1>6. ASSUME NEW k \in Id
      PROVE  /\ recs'[k] \in ListedRecord
             /\ recs'[k].ts = recs[k].ts /\ recs'[k].typ = recs[k].typ
             /\ IF k \in gone THEN recs'[k].state = "deleted" ELSE recs'[k] = recs[k]
  BY <1>0, <1>1 DEF ListedRecord
<1>7. recs' \in [Id -> ListedRecord]
  BY <1>1, <1>6
<1>8. ASSUME NEW k \in Id PROVE LeftAlone(k)
  <2>1. CASE k \in gone
    BY <1>6, <2>1 DEF LeftAlone, Untouched
  <2>2. CASE k \notin gone
    <3>1. SUFFICES ASSUME recs[k].state = "live", Offsets PROVE NothingLostAbove(k)
      BY <1>6, <2>2 DEF LeftAlone, Untouched
    <3>2. SUFFICES ASSUME NEW j \in Matching(walk.typ), Rank(j) > Rank(k)
                   PROVE  /\ recs'[j].state = "live" /\ StillMatches(j)
                          /\ recs'[j].ts >= recs[j].ts
      BY DEF NothingLostAbove
    <3>3. /\ j \in Stored /\ k \in Stored /\ j \in Id /\ recs[j].ts \in Nat
          /\ Matches(j, walk.typ) /\ recs[j].state = "live"
      BY <1>0, <3>1 DEF Matching, Stored, ListedRecord
    <3>4. recs'[j] = recs[j] /\ StillMatches(j)
      BY <1>5, <1>6, <2>2, <3>1, <3>2, <3>3, StillSame
    <3> QED
      BY <3>3, <3>4
  <2> QED
    BY <2>1, <2>2
<1>9. \A k \in Id : recs'[k].ts <= clock
  BY <1>6 DEF CompleteInv
<1> QED
  BY <1>1, <1>3, <1>7, <1>8, <1>9, SameWalkKept, WalkGoesOn


LEMMA GreaterOfTwo ==
    ASSUME NEW a \in Int, NEW b \in Int
    PROVE  Max({a, b}) \in Int /\ Max({a, b}) >= a /\ Max({a, b}) >= b
<1>1. PICK m \in {a, b} : \A x \in {a, b} : m >= x
  OBVIOUS
<1>2. Max({a, b}) \in {a, b} /\ \A x \in {a, b} : Max({a, b}) >= x
  BY <1>1, Zenon DEF Max
<1> QED
  BY <1>2

(* The next offset is a number.                                            *)
LEMMA OffsetsNext ==
    ASSUME ListingsTypeOK, Offsets, NEW limit \in Limits, NEW cursor \in Nat, NEW typ,
           typ = "" \/ family \in {"history", "search"}
    PROVE  Page(cursor, limit, typ).next \in Nat
<1>1. PageLimit(limit) \in Nat
  BY PageSize
<1>2. \A t : OffsetPage(t, cursor, PageLimit(limit)).next \in Nat
  <2>1. SUFFICES ASSUME NEW t PROVE OffsetPage(t, cursor, PageLimit(limit)).next \in Nat
    OBVIOUS
  <2> DEFINE n == PageLimit(limit)
             found == {i \in Stored : Matches(i, t)}
             rest == found \ NewestOf(cursor, found)
  <2>2. OffsetPage(t, cursor, n).next = IF Cardinality(rest) > n THEN cursor + n ELSE End
    BY DEF OffsetPage
  <2> HIDE DEF n, rest
  <2>3. n \in Nat
    BY <1>1 DEF n
  <2>4. cursor + n \in Nat /\ End \in Nat
    BY ONLY <2>3, cursor \in Nat DEF End
  <2>5. OffsetPage(t, cursor, n).next \in Nat
    BY <2>2, <2>4, Zenon
  <2> QED
    BY <2>5 DEF n
<1>3. \A t : SearchDocuments(cursor, limit, t).next \in Nat
  <2>1. SUFFICES ASSUME NEW t PROVE SearchDocuments(cursor, limit, t).next \in Nat
    OBVIOUS
  <2> DEFINE found == {i \in Stored : Matches(i, t)}
             offset == Min({cursor, Cardinality(found)})
             end == Min({offset + PageLimit(limit), Cardinality(found)})
  <2>2. Cardinality(found) \in Nat
    <3>1. found \subseteq Id
      BY DEF Stored
    <3> HIDE DEF found
    <3> QED
      BY <3>1, IdAssumption, FS_Subset, FS_CardinalityType
  <2>3. offset \in Nat
    <3> HIDE DEF found
    <3> QED
      BY <2>2, LesserOfTwo
  <2>4. end \in Nat
    <3> DEFINE n == PageLimit(limit)
               m == Cardinality(found)
               e == offset + n
    <3>1. m \in Nat /\ n \in Nat
      BY <1>1, <2>2
    <3>2. end = Min({e, m})
      OBVIOUS
    <3> HIDE DEF n, offset
    <3>3. e \in Nat
      BY ONLY <3>1, <2>3
    <3> HIDE DEF m, e, end
    <3> QED
      BY <3>1, <3>2, <3>3, LesserOfTwo
  <2>5. SearchDocuments(cursor, limit, t).next = IF end < Cardinality(found) THEN end ELSE End
    BY DEF SearchDocuments
  <2> HIDE DEF end, found
  <2>6. 0 \in Nat
    OBVIOUS
  <2> QED
    BY ONLY <2>4, <2>5, <2>6 DEF End
<1>4. ASSUME NEW t, t = "" \/ t = typ PROVE StorePage(cursor, limit, t).next \in Nat
  <2>1. family \in {"activity", "access", "notifications", "history", "sessions", "search"}
    BY DEF ListingsTypeOK, Families, Retained, Filtered
  <2> QED
    BY <1>2, <1>3, <2>1 DEF StorePage, Offsets, ListOrgActivityPagePG, ListAccessLogsPagePG,
       ListNotificationsPG, GetSessionHistoryPagePG, ListOrgSessionsPG, SearchDocumentsPG
<1>5. ApplyCutoff(StorePage(cursor, limit, "")).next \in Nat
  BY <1>4 DEF ApplyCutoff, End
<1> QED
  BY <1>4, <1>5 DEF Page, HandleOrgActivity, HandleListAccessLogs

LEMMA NextPageGoesOn ==
    ASSUME ListingsInv, CompleteInv, NextPage
    PROVE  CompleteInv'
<1> DEFINE page == Page(walk.cursor, walk.limit, walk.typ)
<1>0. ListingsTypeOK /\ clock \in Nat /\ days \in Nat /\ clock - days \in Int
  <2>1. ListingsTypeOK /\ clock \in Nat /\ days \in Nat
    BY DEF ListingsInv, ListingsTypeOK, CompleteInv
  <2> QED
    BY ONLY <2>1
<1>1. /\ Walking /\ UNCHANGED <<backend, clock, family, recs, days, sweep>>
      /\ walk'.phase = IF page.next = End THEN "done" ELSE walk.phase
      /\ walk'.cursor = page.next /\ walk'.limit = walk.limit /\ walk'.typ = walk.typ
      /\ walk'.begun = walk.begun /\ walk'.disturbed = walk.disturbed
      /\ walk'.left = walk.left
      /\ walk'.listed = walk.listed \cup page.items
      /\ walk'.cut = IF family \in Filtered THEN Max({walk.cut, clock - days}) ELSE walk.cut
  BY <1>0 DEF NextPage, platformVars, ListingsTypeOK, WalkFields
<1>2. /\ walk.limit \in Limits /\ walk.begun \subseteq Id
      /\ walk.typ = "" \/ family \in {"history", "search"}
      /\ \A i \in walk.begun \ walk.disturbed : Coming(i)
  BY <1>1 DEF CompleteInv
<1>3. walk'.cut \in Int /\ (family \in Filtered => walk'.cut >= clock - days)
  <2>1. walk.cut \in Int
    BY DEF CompleteInv
  <2> QED
    BY <1>0, <1>1, <2>1, GreaterOfTwo
<1>4. ASSUME NEW i \in walk.begun \ walk.disturbed, i \notin walk.listed,
             recs[i].state # "deleted", i \notin Slipped
      PROVE  \/ i \in page.items
             \/ page.next \in Nat /\ page.next # End /\ Ahead(i, page.next, walk.typ)
             \/ /\ family \in Filtered /\ page.next = End
                /\ \/ recs[i].ts < clock - days
                   \/ \E j \in Id : /\ recs[j].state # "absent" /\ Rank(j) > Rank(i)
                                    /\ recs[j].ts < clock - days
  <2>1. /\ i \in Id /\ Matches(i, walk.typ) /\ recs[i].state = "live"
        /\ walk.cursor \in Nat /\ Ahead(i, walk.cursor, walk.typ)
    BY <1>1, <1>2, <1>4 DEF Coming, Slipped, CompleteInv
  <2>2. i \in Stored
    BY <2>1 DEF Stored
  <2> QED
    BY <1>0, <1>2, <2>1, <2>2, PageCovers
<1> HIDE DEF page
<1>5. \A j \in Id : Rank(j)' = Rank(j)
  BY <1>1 DEF Rank, ByTime
<1>6. /\ walk.left \in Nat /\ Cardinality(Slipped) <= walk.left /\ Slipped \subseteq Id
      /\ IsFiniteSet(Slipped) /\ Cardinality(Slipped) \in Nat
  <2>1. walk.left \in Nat /\ Cardinality(Slipped) <= walk.left /\ Slipped \subseteq Id
    BY <1>1, <1>2 DEF CompleteInv, Slipped
  <2> QED
    BY <2>1, IdAssumption, FS_Subset, FS_CardinalityType
<1>7. CASE page.next = End
  <2>1. walk'.phase = "done"
    BY <1>1, <1>7
  <2>2. ASSUME NEW i \in walk.begun \ walk.disturbed, i \notin walk'.listed,
               recs[i].state # "deleted", i \notin Slipped
        PROVE  family \in Filtered /\ (recs[i].ts < walk'.cut \/ Hidden(i)')
    <3>1. /\ family \in Filtered
          /\ \/ recs[i].ts < clock - days
             \/ \E j \in Id : /\ recs[j].state # "absent" /\ Rank(j) > Rank(i)
                              /\ recs[j].ts < clock - days
      BY <1>1, <1>4, <1>7, <2>2
    <3>2. \A j \in Id : recs[j].ts < clock - days => recs[j].ts < walk'.cut
      <4>1. SUFFICES ASSUME NEW j \in Id, recs[j].ts < clock - days PROVE recs[j].ts < walk'.cut
        OBVIOUS
      <4>2. recs[j].ts \in Nat
        BY <1>0 DEF ListingsTypeOK, ListedRecord
      <4>3. walk'.cut \in Int /\ walk'.cut >= clock - days
        BY <1>3, <3>1
      <4> QED
        BY ONLY <1>0, <4>1, <4>2, <4>3
    <3>3. i \in Id
      BY <1>2
    <3>4. (\E j \in Id : /\ recs[j].state # "absent" /\ Rank(j) > Rank(i)
                         /\ recs[j].ts < clock - days) => Hidden(i)'
      BY <1>1, <1>5, <3>2, <3>3 DEF Hidden
    <3> QED
      BY <3>1, <3>2, <3>3, <3>4
  <2>3. Missed' \subseteq Slipped
    <3>1. SUFFICES ASSUME NEW i \in Missed', i \notin Slipped PROVE FALSE
      OBVIOUS
    <3>2. /\ i \in walk.begun \ walk.disturbed /\ i \notin walk'.listed
          /\ recs[i].state # "deleted"
          /\ family \in Filtered => recs[i].ts >= walk'.cut /\ ~Hidden(i)'
      BY <1>1, <3>1 DEF Missed
    <3>3. family \in Filtered /\ recs[i].ts < walk'.cut
      BY <2>2, <3>1, <3>2
    <3>4. recs[i].ts \in Nat
      BY <1>0, <1>2, <3>2 DEF ListingsTypeOK, ListedRecord
    <3> QED
      BY <1>3, <3>2, <3>3, <3>4
  <2>4. Cardinality(Missed') <= walk'.left
    <3>1. IsFiniteSet(Missed') /\ Cardinality(Missed') <= Cardinality(Slipped)
      BY <1>6, <2>3, FS_Subset
    <3>2. walk'.left = walk.left /\ Cardinality(Missed') \in Nat
      BY <1>1, <3>1, FS_CardinalityType
    <3> QED
      BY <1>6, <3>1, <3>2
  <2>5. WalkComplete'
    BY <2>4 DEF WalkComplete
  <2>6. ~Walking'
    BY <2>1 DEF Walking
  <2> QED
    BY <1>1, <1>3, <2>1, <2>5, <2>6 DEF CompleteInv, SweepKept
<1>8. CASE page.next # End
  <2>1. walk'.phase = "walking"
    BY <1>1, <1>8 DEF Walking
  <2>2. ASSUME NEW i \in walk.begun \ walk.disturbed, i \notin walk.listed, i \notin Slipped,
               recs[i].state # "deleted", i \notin page.items
        PROVE  /\ recs[i].state = "live" /\ walk'.cursor \in Nat
               /\ Ahead(i, walk.cursor, walk.typ)'
    <3>1. /\ i \in Id /\ Coming(i) /\ recs[i].state = "live"
          /\ page.next \in Nat /\ Ahead(i, page.next, walk.typ)
      BY <1>2, <1>4, <1>8, <2>2 DEF Coming
    <3>2. PICK c \in Nat : c = page.next
      BY <3>1
    <3>3. Ahead(i, c, walk.typ)
      BY <3>1, <3>2
    <3>4. NothingLostAbove(i)
      <4>1. \A j \in Id : recs[j].ts \in Nat
        BY <1>0 DEF ListingsTypeOK, ListedRecord
      <4> QED
        BY <1>1, <4>1, StillSame DEF NothingLostAbove, Matching, Stored
    <3>5. Ahead(i, c, walk.typ)'
      <4>1. recs' \in [Id -> ListedRecord] /\ recs'[i].ts = recs[i].ts
        BY <1>0, <1>1 DEF ListingsTypeOK
      <4> QED
        BY <1>0, <1>1, <3>1, <3>3, <3>4, <4>1, AheadKept
    <3>6. walk'.cursor = c
      BY <1>1, <3>2
    <3> QED
      BY <3>1, <3>5, <3>6 DEF Ahead
  <2>3. ASSUME NEW i \in walk.begun \ walk.disturbed PROVE Coming(i)'
    <3>1. i \in Id /\ Coming(i)
      BY <1>2
    <3>2. Written(i)' /\ Matches(i, walk.typ)'
      BY <1>1, <3>1 DEF Coming, Written, Matches
    <3>3. CASE i \in walk.listed \/ recs[i].state = "deleted" \/ i \in page.items
      BY <1>1, <3>2, <3>3 DEF Coming
    <3>4. CASE i \in Slipped
      BY <1>1, <3>2, <3>4 DEF Coming, Slipped, Offsets
    <3> QED
      BY <1>1, <2>2, <3>2, <3>3, <3>4 DEF Coming
  <2>4. Slipped' \subseteq Slipped
    <3>1. SUFFICES ASSUME NEW i \in Slipped', i \notin Slipped PROVE FALSE
      OBVIOUS
    <3>2. /\ i \in walk.begun \ walk.disturbed /\ i \notin walk.listed /\ i \notin page.items
          /\ recs[i].state # "deleted" /\ ~Ahead(i, walk.cursor, walk.typ)'
      BY <1>1, <3>1 DEF Slipped
    <3> QED
      BY <2>2, <3>1, <3>2
  <2>5. walk'.left \in Nat /\ Cardinality(Slipped') <= walk'.left
    <3>1. IsFiniteSet(Slipped') /\ Cardinality(Slipped') <= Cardinality(Slipped)
      BY <1>6, <2>4, FS_Subset
    <3>2. walk'.left = walk.left /\ Cardinality(Slipped') \in Nat
      BY <1>1, <3>1, FS_CardinalityType
    <3> QED
      BY <1>6, <3>1, <3>2
  <2>6. Offsets' => walk'.cursor \in Nat
    <3>1. SUFFICES ASSUME Offsets PROVE page.next \in Nat
      BY <1>1 DEF Offsets
    <3>2. walk.cursor \in Nat
      BY <1>1, <3>1 DEF CompleteInv
    <3> QED
      BY <1>0, <1>2, <3>1, <3>2, OffsetsNext DEF page
  <2>7. Walking => /\ walk'.limit \in Limits /\ walk'.begun \subseteq Id
                   /\ walk'.typ = "" \/ family' \in {"history", "search"}
                   /\ \A i \in walk'.begun \ walk'.disturbed : Coming(i)'
    BY <1>1, <1>2, <2>3
  <2>8. WalkComplete' /\ Walking
    BY <1>1, <2>1 DEF WalkComplete
  <2> QED
    BY <1>1, <1>3, <2>1, <2>5, <2>6, <2>7, <2>8 DEF CompleteInv, SweepKept
<1> QED
  BY <1>7, <1>8

LEMMA BeginWalkGoesOn ==
    ASSUME ListingsInv, CompleteInv, NEW limit \in Limits, NEW typ, BeginWalk(limit, typ)
    PROVE  CompleteInv'
<1>1. /\ UNCHANGED <<backend, clock, family, recs, days, sweep>>
      /\ typ = "" \/ family \in {"history", "search"}
      /\ walk'.phase = "walking" /\ walk'.cursor = Start /\ walk'.limit = limit
      /\ walk'.typ = typ /\ walk'.begun = {i \in Stored : Matches(i, typ)}
      /\ walk'.cut = 0 /\ walk'.left = 0
  BY DEF BeginWalk, platformVars, NoWalk
<1>2. ASSUME NEW i \in walk'.begun PROVE i \in Id /\ Coming(i)' /\ i \notin Slipped'
  <2>1. i \in Id /\ recs[i].state = "live" /\ Matches(i, typ)
    BY <1>1, <1>2 DEF Stored
  <2>2. Written(i)' /\ Matches(i, walk.typ)' /\ recs'[i].state = "live"
    BY <1>1, <2>1 DEF Written, Matches
  <2>3. Ahead(i, 0, walk.typ)'
    <3>1. Matching(walk.typ)' \subseteq Id
      BY <1>1 DEF Matching, Stored
    <3> DEFINE T == Above(i, Matching(walk.typ))'
    <3>2. T \subseteq Id
      BY <3>1 DEF Above
    <3>3. Ahead(i, 0, walk.typ)' <=> (Offsets' => Cardinality(T) >= 0)
      BY DEF Ahead, Start
    <3> HIDE DEF T
    <3>4. Cardinality(T) \in Nat
      BY <3>2, IdAssumption, FS_Subset, FS_CardinalityType
    <3> QED
      BY <3>3, <3>4
  <2>4. walk'.cursor = 0
    BY <1>1 DEF Start
  <2>5. Ahead(i, walk.cursor, walk.typ)'
    BY <2>3, <2>4 DEF Ahead
  <2> QED
    BY <2>1, <2>2, <2>4, <2>5 DEF Coming, Slipped
<1>3. WalkComplete'
  BY <1>1 DEF WalkComplete
<1>4. walk'.limit \in Limits /\ walk'.begun \subseteq Id
      /\ (walk'.typ = "" \/ family' \in {"history", "search"})
      /\ \A i \in walk'.begun \ walk'.disturbed : Coming(i)'
  BY <1>1, <1>2
<1>7. walk'.cursor \in Nat /\ walk'.left \in Nat /\ Cardinality(Slipped') <= walk'.left
  <2>1. Slipped' = {}
    BY <1>2 DEF Slipped
  <2>2. Cardinality(Slipped') = 0
    BY <2>1, FS_EmptySet
  <2>3. walk'.cursor = 0 /\ walk'.left = 0
    BY <1>1 DEF Start
  <2> QED
    BY ONLY <2>2, <2>3
<1>5. walk'.phase \in {"idle", "walking", "done"} /\ walk'.cut \in Int
  <2>1. walk'.phase = "walking" /\ walk'.cut = 0
    BY <1>1
  <2>2. walk'.phase \in {"idle", "walking", "done"}
    BY ONLY <2>1
  <2> QED
    BY ONLY <2>1, <2>2
<1>6. days' \in Nat /\ SweepKept' /\ \A i \in Id : recs'[i].ts <= clock'
  BY <1>1 DEF CompleteInv, SweepKept
<1> QED
  BY <1>3, <1>4, <1>5, <1>6, <1>7 DEF CompleteInv

(* The inductive invariant of a walk: what it began with and was left      *)
(* alone is listed, deleted or still ahead of the cursor, or it slipped    *)
(* behind the offset when another row left.                                *)
LEMMA CompleteInvariant == ListingsSpec => []CompleteInv
<1>1. PlatformInit /\ ListingsInit => CompleteInv
  <2> SUFFICES ASSUME PlatformInit, ListingsInit PROVE CompleteInv
    OBVIOUS
  <2>1. days \in Nat /\ SweepKept
    BY DEF ListingsInit, SweepKept, NoSweep
  <2>2. walk.phase = "idle" /\ walk.cut \in Int
    <3>1. walk = NoWalk
      BY DEF ListingsInit
    <3>2. NoWalk.phase = "idle" /\ NoWalk.cut = 0
      BY DEF NoWalk
    <3>3. walk.cut \in Int
      BY ONLY <3>1, <3>2
    <3> QED
      BY <3>1, <3>2, <3>3
  <2>3. \A i \in Id : recs[i].ts <= clock
    <3>1. \A i \in Id : recs[i].ts = 0
      BY DEF ListingsInit
    <3>2. clock = 1
      BY DEF PlatformInit
    <3> QED
      BY ONLY <3>1, <3>2
  <2> QED
    BY <2>1, <2>2, <2>3 DEF CompleteInv, Walking, WalkComplete
<1>2. ASSUME ListingsInv, CompleteInv,
             [ListingsNext \/ (Tick /\ UNCHANGED listingVars)]_<<platformVars, listingVars>>
      PROVE  CompleteInv'
  <2>1. ASSUME UNCHANGED <<backend, listingVars>>, clock' = clock \/ clock' = clock + 1
        PROVE  CompleteInv'
    <3>1. UNCHANGED <<backend, family, recs, days, sweep, walk>>
      BY <2>1 DEF listingVars
    <3>2. \A i \in Id : Rank(i)' = Rank(i)
      BY <3>1 DEF Rank, ByTime
    <3>3. \A i \in Id : recs'[i].ts <= clock'
      <4>1. SUFFICES ASSUME NEW i \in Id PROVE recs'[i].ts <= clock'
        OBVIOUS
      <4>2. recs[i].ts \in Nat /\ clock \in Nat /\ recs[i].ts <= clock /\ recs'[i].ts = recs[i].ts
        BY <1>2, <3>1 DEF ListingsInv, ListingsTypeOK, ListedRecord, CompleteInv
      <4> QED
        BY ONLY <2>1, <4>2
    <3>4. ASSUME NEW i, Coming(i) PROVE Coming(i)'
      BY <3>1, <3>4 DEF Coming, Written, Matches, Ahead, Offsets, Above, Matching, Stored, Rank, ByTime
    <3>5. Slipped' = Slipped
      BY <3>1 DEF Slipped, Ahead, Offsets, Above, Matching, Matches, Stored, Rank, ByTime
    <3>6. ASSUME WalkComplete PROVE WalkComplete'
      <4>1. Missed' = Missed
        BY <3>1 DEF Missed, Hidden, Rank, ByTime
      <4> QED
        BY <3>1, <3>6, <4>1 DEF WalkComplete
    <3> QED
      BY <1>2, <3>1, <3>3, <3>4, <3>5, <3>6 DEF CompleteInv, SweepKept, Walking, Offsets
  <2>2. CASE UNCHANGED <<platformVars, listingVars>>
    BY <2>1, <2>2 DEF platformVars
  <2>3. CASE Tick /\ UNCHANGED listingVars
    BY <2>1, <2>3 DEF Tick
  <2>4. CASE ListingsNext
    <3>1. CASE NextPage
      BY <1>2, <3>1, NextPageGoesOn
    <3>2. CASE \E limit \in Limits, typ \in {"", "x"} : BeginWalk(limit, typ)
      BY <1>2, <3>2, BeginWalkGoesOn
    <3>3. CASE EnforceRetention \/ \E d \in 1 .. MaxDays : ChangeRetention(d)
      BY <1>2, <3>3, RetentionGoesOn
    <3>4. CASE EnforceRetentionDelete
      BY <1>2, <3>4, SweepGoesOn
    <3>5. ASSUME NEW i \in Id, TouchOrgSession(i) \/ DeleteOrgSession(i)
          PROVE  CompleteInv'
      BY <1>2, <3>5, SessionGoesOn
    <3>6. ASSUME NEW i \in Id,
                 \/ \E ts \in Stamps :
                       \/ AppendOrgActivity(i, ts) \/ AppendAccessLog(i, ts)
                       \/ \E typ \in {"x", "y"} : AppendHistory(i, ts, typ)
                 \/ SaveNotification(i) \/ UpsertOrgSessionIndex(i)
                 \/ \E typ \in {"x", "y"} : UpsertSearchDocuments(i, typ)
          PROVE  CompleteInv'
      <4>1. clock \in Stamps
        BY DEF Stamps
      <4> QED
        BY <1>2, <3>6, <4>1, WriterGoesOn
    <3> QED
      BY <2>4, <3>1, <3>2, <3>3, <3>4, <3>5, <3>6 DEF ListingsNext
  <2> QED
    BY <1>2, <2>2, <2>3, <2>4
<1> QED
  BY <1>1, <1>2, ListingsInvariant, PTL DEF ListingsSpec

(* A finished walk has missed no more of the records that were there when  *)
(* it began and were left alone than rows left the listing from before its *)
(* offset (LIMIT and OFFSET of the Postgres listings, the offset of the    *)
(* search), and none where Badger pages by key: for any number of records, *)
(* any page size, both backends and every listing, whatever is written,    *)
(* reconfigured, swept or archived between two pages.                      *)
THEOREM WalksComplete == ListingsSpec => []WalkComplete
<1>1. CompleteInv => WalkComplete
  BY DEF CompleteInv
<1> QED
  BY <1>1, CompleteInvariant, PTL
=============================================================================
