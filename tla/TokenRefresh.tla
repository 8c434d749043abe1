----------------------------- MODULE TokenRefresh -----------------------------
(***************************************************************************)
(* The Salla integration of one merchant: its status and OAuth tokens in   *)
(* MongoDB, the refresh of a token that expires soon under a lock kept in  *)
(* Redis (salla-token.service.ts), and the webhooks that connect and       *)
(* disconnect the store (salla-integration.service.ts).                    *)
(*                                                                         *)
(* A token pair is the number of its generation.  Salla is external: it    *)
(* accepts the refresh token of the newest generation, once, and answers   *)
(* invalid_grant to every other.                                           *)
(***************************************************************************)
EXTENDS Integers

CONSTANTS
    Callers,     \* callers of getValidAccessToken, over all processes
    NoCaller,    \* the owner of a free lock
    Overlaps,    \* what may happen while a webhook is handled
    MaxTokens,   \* bound: generations Salla issues
    FaultKinds,  \* the faults a run may meet
    MaxFaults    \* bound: how many faults a behaviour meets

AllFaults == {"redisError", "readError", "responseLost", "saveError",
              "markError", "crash", "crashBeforeSave", "slowHolder", "webhookError"}

ASSUME TokenConstants ==
    /\ NoCaller \notin Callers
    /\ Overlaps \subseteq {"refresh", "webhook"}
    /\ MaxTokens \in Nat \ {0}
    /\ FaultKinds \subseteq AllFaults
    /\ MaxFaults \in Nat

VARIABLES
    status,       \* integration.status
    stored,       \* generation of the stored pair, 0 when unset
    expiring,     \* is the stored access token within the refresh window?
    storeActive,  \* is the store's status active?
    lock,         \* the caller whose lock is in Redis (the value stored is '1')
    pc,           \* where each caller is
    using,        \* the refresh token a caller has decrypted
    got,          \* the pair Salla answered with
    issued,       \* the newest generation Salla issued
    grant,        \* the generation Salla accepts, 0 when the app is uninstalled
    authorized,   \* has the merchant authorized the app since Init?
    hooks,        \* webhooks being handled
    faults

dbVars == <<status, stored, expiring>>
callerVars == <<pc, using, got>>
sallaVars == <<issued, grant, authorized>>
vars == <<status, stored, expiring, storeActive, lock, pc, using, got,
          issued, grant, authorized, hooks, faults>>

Generations == 1..MaxTokens

Statuses == {"connected", "disconnected", "token_expired"}

Labels == {"idle", "lock", "poll", "ttl", "recheck", "relock",
           "reload", "call", "save", "mark", "release"}

(* What runs between acquiring the lock and releasing it.                  *)
Critical(p) == pc[p] \in {"reload", "call", "save", "mark", "release"}

HooksFor(gens) == [kind : {"authorize", "uninstalled"}, gen : gens,
                   step : {"store", "link", "disconnect", "deactivate"}]

TokenTypeOK ==
    /\ status \in Statuses
    /\ stored \in 0..MaxTokens
    /\ expiring \in BOOLEAN
    /\ storeActive \in BOOLEAN
    /\ lock \in Callers \cup {NoCaller}
    /\ pc \in [Callers -> Labels]
    /\ using \in [Callers -> 0..MaxTokens]
    /\ got \in [Callers -> 0..MaxTokens]
    /\ issued \in Generations
    /\ grant \in 0..MaxTokens
    /\ authorized \in BOOLEAN
    /\ hooks \subseteq HooksFor(0..MaxTokens)
    /\ faults \in 0..MaxFaults

(* A store that is connected, with the first pair stored.  This release    *)
(* cannot connect it (see LinkAndActivate): the document is older, or was  *)
(* made by hand.                                                           *)
Init ==
    /\ status = "connected"
    /\ stored = 1
    /\ expiring = FALSE
    /\ storeActive = TRUE
    /\ lock = NoCaller
    /\ pc = [p \in Callers |-> "idle"]
    /\ using = [p \in Callers |-> 0]
    /\ got = [p \in Callers |-> 0]
    /\ issued = 1
    /\ grant = 1
    /\ authorized = FALSE
    /\ hooks = {}
    /\ faults = 0

Goto(p, label) == pc' = [pc EXCEPT ![p] = label]

Fault(kind) ==
    /\ kind \in FaultKinds
    /\ faults < MaxFaults
    /\ faults' = faults + 1

(* isTokenExpiringSoon: a missing access token counts as expiring.         *)
Fresh == stored # 0 /\ ~expiring

-------------------------------------------------------------------------------
(* refreshAccessToken and handleConcurrentLock.                            *)

(* The consumers of product messages ask for a token whatever the status.  *)
Begin(p) ==
    /\ pc[p] = "idle"
    /\ ~Fresh
    /\ "refresh" \in Overlaps \/ hooks = {}
    /\ Goto(p, "lock")
    /\ UNCHANGED <<dbVars, storeActive, lock, using, got, sallaVars, hooks, faults>>

(* Mutant: SET without NX, the lock is taken whoever holds it.             *)
AcquireHeldLock(p) ==
    /\ pc[p] = "lock"
    /\ lock' = p
    /\ Goto(p, "reload")
    /\ UNCHANGED <<dbVars, storeActive, using, got, sallaVars, hooks, faults>>

AcquireLock(p) ==
    /\ pc[p] = "lock"
    /\ IF lock = NoCaller
       THEN lock' = p /\ Goto(p, "reload")
       ELSE Goto(p, "poll") /\ UNCHANGED lock
    /\ UNCHANGED <<dbVars, storeActive, using, got, sallaVars, hooks, faults>>

PollToken(p) ==
    /\ pc[p] = "poll"
    /\ Goto(p, IF Fresh THEN "idle" ELSE "ttl")
    /\ UNCHANGED <<dbVars, storeActive, lock, using, got, sallaVars, hooks, faults>>

PollLock(p) ==
    /\ pc[p] = "ttl"
    /\ Goto(p, IF lock = NoCaller THEN "recheck" ELSE "poll")
    /\ UNCHANGED <<dbVars, storeActive, lock, using, got, sallaVars, hooks, faults>>

(* Mutant: the deadline is moved forward with every poll.                  *)
DeadlineMoves(p) ==
    /\ pc[p] = "poll"
    /\ Goto(p, "ttl")
    /\ UNCHANGED <<dbVars, storeActive, lock, using, got, sallaVars, hooks, faults>>

(* The deadline of lockTtl seconds passes between two polls.               *)
Deadline(p) ==
    /\ pc[p] = "poll"
    /\ Goto(p, "recheck")
    /\ UNCHANGED <<dbVars, storeActive, lock, using, got, sallaVars, hooks, faults>>

Recheck(p) ==
    /\ pc[p] = "recheck"
    /\ Goto(p, IF Fresh THEN "idle" ELSE "relock")
    /\ UNCHANGED <<dbVars, storeActive, lock, using, got, sallaVars, hooks, faults>>

(* The second and last attempt to get the lock; without it the call throws. *)
Relock(p) ==
    /\ pc[p] = "relock"
    /\ IF lock = NoCaller
       THEN lock' = p /\ Goto(p, "reload")
       ELSE Goto(p, "idle") /\ UNCHANGED lock
    /\ UNCHANGED <<dbVars, storeActive, using, got, sallaVars, hooks, faults>>

-------------------------------------------------------------------------------
(* performRefresh, and the finally block that deletes the lock.            *)

(* Returns a token another caller refreshed; throws if there is none.      *)
Reload(p) ==
    /\ pc[p] = "reload"
    /\ IF Fresh \/ stored = 0
       THEN Goto(p, "release") /\ UNCHANGED using
       ELSE Goto(p, "call") /\ using' = [using EXCEPT ![p] = stored]
    /\ UNCHANGED <<dbVars, storeActive, lock, got, sallaVars, hooks, faults>>

Rotates(p) ==
    /\ pc[p] = "call"
    /\ using[p] = grant
    /\ issued < MaxTokens
    /\ issued' = issued + 1
    /\ grant' = issued + 1
    /\ UNCHANGED authorized

SallaRefreshes(p) ==
    /\ Rotates(p)
    /\ got' = [got EXCEPT ![p] = issued + 1]
    /\ Goto(p, "save")
    /\ UNCHANGED <<dbVars, storeActive, lock, using, hooks, faults>>

(* invalid_grant, or 401: SALLA_AUTHORIZATION_FAILED.                      *)
SallaRejects(p) ==
    /\ pc[p] = "call"
    /\ using[p] # grant
    /\ Goto(p, "mark")
    /\ UNCHANGED <<dbVars, storeActive, lock, using, got, sallaVars, hooks, faults>>

(* Mutant: a transient failure is taken for a revoked refresh token.       *)
SallaUnavailableIsFatal(p) ==
    /\ pc[p] = "call"
    /\ Goto(p, "mark")
    /\ UNCHANGED <<dbVars, storeActive, lock, using, got, sallaVars, hooks, faults>>

(* Rate limited, 5xx or unreachable: a transient failure.                  *)
SallaUnavailable(p) ==
    /\ pc[p] = "call"
    /\ Goto(p, "release")
    /\ UNCHANGED <<dbVars, storeActive, lock, using, got, sallaVars, hooks, faults>>

(* Mutant: only the access token is written.                               *)
UpdateAccessTokenOnly(p) ==
    /\ pc[p] = "save"
    /\ status' = "connected"
    /\ expiring' = FALSE
    /\ Goto(p, "release")
    /\ UNCHANGED <<stored, storeActive, lock, using, got, sallaVars, hooks, faults>>

UpdateTokens(p) ==
    /\ pc[p] = "save"
    /\ stored' = got[p]
    /\ status' = "connected"
    /\ expiring' = FALSE
    /\ Goto(p, "release")
    /\ UNCHANGED <<storeActive, lock, using, got, sallaVars, hooks, faults>>

(* Mutant: a status outside the enum; updateOne runs no validators.        *)
MarkExpiredAsError(p) ==
    /\ pc[p] = "mark"
    /\ status' = "expired"
    /\ Goto(p, "release")
    /\ UNCHANGED <<stored, expiring, storeActive, lock, using, got, sallaVars,
                   hooks, faults>>

MarkTokenExpired(p) ==
    /\ pc[p] = "mark"
    /\ status' = "token_expired"
    /\ Goto(p, "release")
    /\ UNCHANGED <<stored, expiring, storeActive, lock, using, got, sallaVars,
                   hooks, faults>>

EndCall(p) ==
    /\ Goto(p, "idle")
    /\ using' = [using EXCEPT ![p] = 0]
    /\ got' = [got EXCEPT ![p] = 0]

(* A plain DEL: it deletes the lock of whoever owns it by now.             *)
ReleaseLock(p) ==
    /\ pc[p] = "release"
    /\ lock' = NoCaller
    /\ EndCall(p)
    /\ UNCHANGED <<dbVars, storeActive, sallaVars, hooks, faults>>

-------------------------------------------------------------------------------
(* Time.                                                                   *)

(* The stored access token enters the refresh window.                      *)
TokenAges ==
    /\ Fresh
    /\ expiring' = TRUE
    /\ UNCHANGED <<status, stored, storeActive, lock, callerVars, sallaVars,
                   hooks, faults>>

(* Mutant: the lock is set without EX.                                     *)
LockHasNoTtl == FALSE /\ UNCHANGED vars

(* The TTL of 30 s: it outlives a refresh unless the holder is slow.       *)
LockExpires ==
    /\ lock # NoCaller
    /\ IF Critical(lock) THEN Fault("slowHolder") ELSE UNCHANGED faults
    /\ lock' = NoCaller
    /\ UNCHANGED <<dbVars, storeActive, callerVars, sallaVars, hooks>>

-------------------------------------------------------------------------------
(* Salla and its webhooks.                                                 *)

(* Nothing is under way that this run keeps apart from a new webhook.      *)
Quiet ==
    /\ "webhook" \in Overlaps \/ hooks = {}
    /\ "refresh" \in Overlaps \/ \A p \in Callers : pc[p] = "idle"

(* The merchant installs the app again, or authorizes it again.            *)
SallaAuthorizes ==
    /\ Quiet
    /\ issued < MaxTokens
    /\ issued' = issued + 1
    /\ grant' = issued + 1
    /\ authorized' = TRUE
    /\ hooks' = hooks \cup
                  {[kind |-> "authorize", gen |-> issued + 1, step |-> "store"]}
    /\ UNCHANGED <<dbVars, storeActive, lock, callerVars, faults>>

SallaUninstalls ==
    /\ Quiet
    /\ grant # 0
    /\ grant' = 0
    /\ hooks' = hooks \cup
                  {[kind |-> "uninstalled", gen |-> grant, step |-> "disconnect"]}
    /\ UNCHANGED <<dbVars, storeActive, lock, callerVars, issued, authorized, faults>>

At(h, step) == h \in hooks /\ h.step = step
Advance(h, step) == hooks' = (hooks \ {h}) \cup {[h EXCEPT !.step = step]}
Finish(h) == hooks' = hooks \ {h}

(* Mutant: the upsert leaves the status of an existing store alone.        *)
UpsertStoreKeepsStatus(h) ==
    /\ At(h, "store")
    /\ Advance(h, "link")
    /\ UNCHANGED <<dbVars, storeActive, lock, callerVars, sallaVars, faults>>

(* upsertByMerchantId, with the status active of the mapped store.         *)
UpsertStore(h) ==
    /\ At(h, "store")
    /\ storeActive' = TRUE
    /\ Advance(h, "link")
    /\ UNCHANGED <<dbVars, lock, callerVars, sallaVars, faults>>

(* linkAndActivate names connectedAt in both $set and $setOnInsert, which  *)
(* MongoDB refuses (ConflictingUpdateOperators): the request ends with an  *)
(* error, the store active and the integration as it was.                  *)
LinkAndActivate(h) ==
    /\ At(h, "link")
    /\ Finish(h)
    /\ UNCHANGED <<dbVars, storeActive, lock, callerVars, sallaVars, faults>>

(* Mutant: the status changes and the tokens stay.                         *)
MarkDisconnectedKeepsTokens(h) ==
    /\ At(h, "disconnect")
    /\ status' = "disconnected"
    /\ Advance(h, "deactivate")
    /\ UNCHANGED <<stored, expiring, storeActive, lock, callerVars, sallaVars,
                   faults>>

MarkDisconnected(h) ==
    /\ At(h, "disconnect")
    /\ status' = "disconnected"
    /\ stored' = 0
    /\ expiring' = FALSE
    /\ Advance(h, "deactivate")
    /\ UNCHANGED <<storeActive, lock, callerVars, sallaVars, faults>>

DeactivateStore(h) ==
    /\ At(h, "deactivate")
    /\ storeActive' = FALSE
    /\ Finish(h)
    /\ UNCHANGED <<dbVars, lock, callerVars, sallaVars, faults>>

-------------------------------------------------------------------------------
(* Faults.                                                                 *)

(* CacheService swallows the error: setIfNotExists answers false, ttl      *)
(* answers -2 (no such key), and a failed DEL leaves the lock to its TTL.  *)
RedisError(p) ==
    /\ Fault("redisError")
    /\ \/ pc[p] = "lock" /\ Goto(p, "poll") /\ UNCHANGED <<using, got>>
       \/ pc[p] = "ttl" /\ Goto(p, "recheck") /\ UNCHANGED <<using, got>>
       \/ pc[p] \in {"relock", "release"} /\ EndCall(p)
    /\ UNCHANGED <<dbVars, storeActive, lock, sallaVars, hooks>>

(* Salla rotates the pair and the answer is lost: a transient failure.     *)
ResponseLost(p) ==
    /\ Rotates(p)
    /\ Fault("responseLost")
    /\ Goto(p, "release")
    /\ UNCHANGED <<dbVars, storeActive, lock, using, got, hooks>>

(* findById throws: a waiting call ends, a holder goes on to the finally.  *)
ReadError(p) ==
    /\ Fault("readError")
    /\ \/ pc[p] \in {"poll", "recheck"} /\ EndCall(p)
       \/ pc[p] = "reload" /\ Goto(p, "release") /\ UNCHANGED <<using, got>>
    /\ UNCHANGED <<dbVars, storeActive, lock, sallaVars, hooks>>

SaveError(p) ==
    /\ pc[p] = "save"
    /\ Fault("saveError")
    /\ Goto(p, "release")
    /\ UNCHANGED <<dbVars, storeActive, lock, using, got, sallaVars, hooks>>

MarkError(p) ==
    /\ pc[p] = "mark"
    /\ Fault("markError")
    /\ Goto(p, "release")
    /\ UNCHANGED <<dbVars, storeActive, lock, using, got, sallaVars, hooks>>

(* Between the answer of Salla and updateTokens the new pair is in memory. *)
Crash(p) ==
    /\ pc[p] # "idle"
    /\ Fault(IF pc[p] = "save" THEN "crashBeforeSave" ELSE "crash")
    /\ EndCall(p)
    /\ UNCHANGED <<dbVars, storeActive, lock, sallaVars, hooks>>

(* The request fails at any of its steps; nothing takes it up again.       *)
WebhookError(h) ==
    /\ h \in hooks
    /\ Fault("webhookError")
    /\ Finish(h)
    /\ UNCHANGED <<dbVars, storeActive, lock, callerVars, sallaVars>>

-------------------------------------------------------------------------------
WaitStep(p) ==
    \/ AcquireLock(p) \/ PollToken(p) \/ PollLock(p) \/ Recheck(p) \/ Relock(p)

RefreshStep(p) ==
    \/ Reload(p) \/ SallaRefreshes(p) \/ SallaRejects(p) \/ SallaUnavailable(p)
    \/ UpdateTokens(p) \/ MarkTokenExpired(p) \/ ReleaseLock(p)

CallerFault(p) ==
    \/ RedisError(p) \/ ReadError(p) \/ ResponseLost(p) \/ SaveError(p)
    \/ MarkError(p) \/ Crash(p)

WebhookStep(h) ==
    \/ UpsertStore(h) \/ LinkAndActivate(h)
    \/ MarkDisconnected(h) \/ DeactivateStore(h)

Next ==
    \/ \E p \in Callers :
          Begin(p) \/ WaitStep(p) \/ Deadline(p) \/ RefreshStep(p) \/ CallerFault(p)
    \/ TokenAges \/ LockExpires \/ SallaAuthorizes \/ SallaUninstalls
    \/ \E h \in hooks : WebhookStep(h) \/ WebhookError(h)

(* Calls return (every client has a timeout), a poll loop that never finds *)
(* the lock free still passes its deadline, and Redis expires keys.        *)
Fairness ==
    /\ \A p \in Callers : WF_vars(WaitStep(p) \/ RefreshStep(p))
    /\ \A p \in Callers : SF_vars(Deadline(p))
    /\ WF_vars(LockExpires)

Spec == Init /\ [][Next]_vars
FairSpec == Spec /\ Fairness

-------------------------------------------------------------------------------
(* At most one caller is between acquiring and releasing the lock, so a    *)
(* refresh token is never spent by two processes at the same time          *)
(* (docs/architecture/integrations/salla.md, line 312).                    *)
OneRefresher ==
    \A p, q \in Callers : Critical(p) /\ Critical(q) => p = q

(* token_expired says that Salla no longer accepts the stored refresh      *)
(* token and only a new authorization helps (salla.md, line 299).          *)
ExpiredIsRevoked == ~(status = "token_expired" /\ stored = grant /\ grant # 0)

(* A connected integration holds the pair Salla accepts, unless the next   *)
(* one is about to be saved or a webhook about to be handled (salla.md,    *)
(* line 297), until the merchant authorizes the app anew: that pair Salla  *)
(* hands out and linkAndActivate cannot store.                             *)
ConnectedIsUsable ==
    status = "connected" /\ hooks = {} /\ ~authorized =>
        stored = grant \/ \E p \in Callers : pc[p] = "save" /\ got[p] = grant

(* Once an uninstallation has been handled the integration stays           *)
(* disconnected and without tokens until Salla authorizes the app again    *)
(* (salla.md, line 298).                                                   *)
UninstallIsFinal ==
    grant = 0 /\ hooks = {} => status = "disconnected" /\ stored = 0

(* Between webhooks the store is active exactly while the app is           *)
(* installed, although store and integration are written separately.       *)
StoreFollowsInstallation == hooks = {} => (storeActive <=> grant # 0)

(* Every call returns or throws, whoever crashed with the lock.            *)
RefreshEnds == \A p \in Callers : pc[p] # "idle" ~> pc[p] = "idle"

(* The lock never stays taken for good.                                    *)
LockIsFreed == lock # NoCaller ~> lock = NoCaller
===============================================================================
