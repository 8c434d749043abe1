-------------------------- MODULE TokenRefreshProofs --------------------------
(***************************************************************************)
(* Proofs about TokenRefresh for every number of callers, generations and  *)
(* faults.  The lock protects the refresh as long as no holder outlives    *)
(* its TTL; what it protects is the truth of the status token_expired.     *)
(***************************************************************************)
EXTENDS TokenRefresh, TLAPS

(* Every holder has the lock: no TTL elapses under a holder, so nothing    *)
(* but the holder's own release or crash ends its tenure.                  *)
LockInv ==
    /\ pc \in [Callers -> Labels]
    /\ lock \in Callers \cup {NoCaller}
    /\ \A p \in Callers : Critical(p) => lock = p

(* While a refresh is under way nothing else writes tokens, so the refresh *)
(* token in use is the stored one, and what Salla has rejected is still    *)
(* what is stored when the integration is marked.                          *)
RevokedInv ==
    /\ LockInv
    /\ stored \in Nat /\ issued \in Nat /\ grant \in Nat
    /\ stored <= issued /\ grant <= issued
    /\ hooks \subseteq HooksFor(Nat)
    /\ \A h \in hooks : h.gen <= issued
    /\ using \in [Callers -> Nat] /\ got \in [Callers -> Nat]
    /\ \A p \in Callers : pc[p] # "idle" => hooks = {}
    /\ \A p \in Callers : got[p] <= issued
    /\ \A p \in Callers : pc[p] = "call" => using[p] = stored
    /\ \A p \in Callers : pc[p] = "mark" => stored # grant
    /\ ExpiredIsRevoked

LEMMA LockStep ==
    ASSUME "slowHolder" \notin FaultKinds, LockInv, [Next]_vars
    PROVE  LockInv'
<1> USE DEF LockInv, Critical, Goto, Labels
<1>1. ASSUME NEW p \in Callers, Begin(p)
      PROVE  LockInv'
  BY <1>1 DEF Begin
<1>2. ASSUME NEW p \in Callers, WaitStep(p) PROVE LockInv'
  BY <1>2, TokenConstants
     DEF WaitStep, AcquireLock, PollToken, PollLock, Recheck, Relock
<1>3. ASSUME NEW p \in Callers, Deadline(p) PROVE LockInv'
  BY <1>3 DEF Deadline
<1>4. ASSUME NEW p \in Callers, RefreshStep(p) PROVE LockInv'
  BY <1>4 DEF RefreshStep, Reload, Rotates, SallaRefreshes, SallaRejects,
     SallaUnavailable, UpdateTokens, MarkTokenExpired, ReleaseLock, EndCall
<1>5. ASSUME NEW p \in Callers, CallerFault(p) PROVE LockInv'
  BY <1>5 DEF CallerFault, RedisError, ReadError, ResponseLost, Rotates, SaveError,
     MarkError, Crash, EndCall
<1>6. ASSUME LockExpires PROVE LockInv'
  BY <1>6 DEF LockExpires, Fault, callerVars
<1>7. ASSUME TokenAges \/ SallaAuthorizes \/ SallaUninstalls PROVE LockInv'
  BY <1>7 DEF TokenAges, SallaAuthorizes, SallaUninstalls, callerVars
<1>8. ASSUME NEW h \in hooks, WebhookStep(h) \/ WebhookError(h) PROVE LockInv'
  BY <1>8 DEF WebhookStep, UpsertStore, LinkAndActivate, MarkDisconnected,
     DeactivateStore, WebhookError, callerVars
<1>9. CASE UNCHANGED vars
  BY <1>9 DEF vars
<1> QED
  BY <1>1, <1>2, <1>3, <1>4, <1>5, <1>6, <1>7, <1>8, <1>9 DEF Next

(* Two callers never refresh at the same time unless a holder outlives     *)
(* the TTL of its lock: crashes, Redis errors and webhooks do no harm.     *)
THEOREM RefreshIsExclusive ==
    ASSUME "slowHolder" \notin FaultKinds
    PROVE  Spec => []OneRefresher
<1>1. Init => LockInv
  BY DEF Init, LockInv, Critical, Labels
<1>2. LockInv /\ [Next]_vars => LockInv'
  BY LockStep
<1>3. LockInv => OneRefresher
  BY DEF LockInv, OneRefresher
<1> QED
  BY <1>1, <1>2, <1>3, PTL DEF Spec

LEMMA RevokedStep ==
    ASSUME "slowHolder" \notin FaultKinds, Overlaps = {},
           RevokedInv, [Next]_vars
    PROVE  RevokedInv'
<1>0. LockInv'
  BY LockStep DEF RevokedInv
<1> USE <1>0, TokenConstants
        DEF RevokedInv, LockInv, ExpiredIsRevoked, Critical, Goto,
            HooksFor, dbVars, callerVars, sallaVars
<1>1. ASSUME NEW p \in Callers, Begin(p)
      PROVE  RevokedInv'
  BY <1>1 DEF Begin
<1>2. ASSUME NEW p \in Callers, WaitStep(p) PROVE RevokedInv'
  BY <1>2 DEF WaitStep, AcquireLock, PollToken, PollLock, Recheck, Relock
<1>3. ASSUME NEW p \in Callers, Deadline(p) PROVE RevokedInv'
  BY <1>3 DEF Deadline
<1>4. ASSUME NEW p \in Callers, RefreshStep(p) PROVE RevokedInv'
  <2>1. CASE Reload(p)
    BY <2>1 DEF Reload
  <2>2. CASE SallaRefreshes(p)
    BY <2>2 DEF SallaRefreshes, Rotates
  <2>3. CASE SallaRejects(p)
    BY <2>3 DEF SallaRejects
  <2>4. CASE SallaUnavailable(p)
    BY <2>4 DEF SallaUnavailable
  <2>5. CASE UpdateTokens(p)
    BY <2>5 DEF UpdateTokens
  <2>6. CASE MarkTokenExpired(p)
    BY <2>6 DEF MarkTokenExpired
  <2>7. CASE ReleaseLock(p)
    BY <2>7 DEF ReleaseLock, EndCall
  <2> QED
    BY <1>4, <2>1, <2>2, <2>3, <2>4, <2>5, <2>6, <2>7 DEF RefreshStep
<1>5. ASSUME NEW p \in Callers, CallerFault(p) PROVE RevokedInv'
  <2>1. CASE RedisError(p)
    BY <2>1 DEF RedisError, EndCall
  <2>2. CASE ResponseLost(p)
    BY <2>2 DEF ResponseLost, Rotates
  <2>3. CASE SaveError(p)
    BY <2>3 DEF SaveError
  <2>4. CASE MarkError(p)
    BY <2>4 DEF MarkError
  <2>5. CASE Crash(p)
    BY <2>5 DEF Crash, EndCall
  <2>6. CASE ReadError(p)
    BY <2>6 DEF ReadError, EndCall
  <2> QED
    BY <1>5, <2>1, <2>2, <2>3, <2>4, <2>5, <2>6 DEF CallerFault
<1>6. ASSUME LockExpires \/ TokenAges PROVE RevokedInv'
  BY <1>6 DEF LockExpires, TokenAges
<1>7. ASSUME SallaAuthorizes PROVE RevokedInv'
  BY <1>7 DEF SallaAuthorizes, Quiet
<1>8. ASSUME SallaUninstalls PROVE RevokedInv'
  BY <1>8 DEF SallaUninstalls, Quiet
<1>9. ASSUME NEW h \in hooks, WebhookStep(h) \/ WebhookError(h)
      PROVE  RevokedInv'
  <2> USE DEF At, Advance, Finish
  <2>1. CASE UpsertStore(h)
    BY <2>1 DEF UpsertStore
  <2>2. CASE LinkAndActivate(h)
    BY <2>2 DEF LinkAndActivate
  <2>3. CASE MarkDisconnected(h)
    BY <2>3 DEF MarkDisconnected
  <2>4. CASE DeactivateStore(h)
    BY <2>4 DEF DeactivateStore
  <2>5. CASE WebhookError(h)
    BY <2>5 DEF WebhookError
  <2> QED
    BY <1>9, <2>1, <2>2, <2>3, <2>4, <2>5 DEF WebhookStep
<1>10. CASE UNCHANGED vars
  BY <1>10 DEF vars
<1> QED
  BY <1>1, <1>2, <1>3, <1>4, <1>5, <1>6, <1>7, <1>8, <1>9, <1>10 DEF Next

(* Apart from overlapping webhooks and slow holders, token_expired is the  *)
(* truth: Salla does not accept what is stored.  Crashes, lost answers and *)
(* failed writes are all allowed.                                          *)
THEOREM TokenExpiredIsTrue ==
    ASSUME "slowHolder" \notin FaultKinds, Overlaps = {}
    PROVE  Spec => []ExpiredIsRevoked
<1>1. Init => RevokedInv
  BY DEF Init, RevokedInv, LockInv, Critical, Labels, ExpiredIsRevoked, HooksFor
<1>2. RevokedInv /\ [Next]_vars => RevokedInv'
  BY RevokedStep
<1>3. RevokedInv => ExpiredIsRevoked
  BY DEF RevokedInv
<1> QED
  BY <1>1, <1>2, <1>3, PTL DEF Spec
-------------------------------------------------------------------------------
(* The webhook that is handled, if any, and the store's status: an         *)
(* uninstallation is handled while the app is not installed, and an        *)
(* authorization while it is.                                              *)
HookInv ==
    /\ pc \in [Callers -> Labels]
    /\ using \in [Callers -> Nat] /\ got \in [Callers -> Nat]
    /\ stored \in Nat /\ issued \in Nat /\ grant \in Nat
    /\ hooks \subseteq HooksFor(Nat)
    /\ \A h, k \in hooks : h = k
    /\ \A h \in hooks :
         \/ h.kind = "authorize" /\ h.gen # 0 /\ grant # 0
            /\ h.step \in {"store", "link"} /\ (h.step = "link" => storeActive)
         \/ h.kind = "uninstalled" /\ grant = 0 /\ h.step \in {"disconnect", "deactivate"}
    /\ \A p \in Callers : pc[p] = "call" => using[p] # 0
    /\ StoreFollowsInstallation

(* Every step keeps HookInv, unless webhooks overlap or fail.              *)
LEMMA HookStep ==
    ASSUME "webhook" \notin Overlaps, "webhookError" \notin FaultKinds,
           HookInv, [Next]_vars
    PROVE  HookInv'
<1> USE TokenConstants
        DEF HookInv, StoreFollowsInstallation, Labels,
            Goto, HooksFor, dbVars, callerVars, sallaVars
<1>1. ASSUME NEW p \in Callers, Begin(p) \/ WaitStep(p) \/ Deadline(p)
      PROVE  HookInv'
  BY <1>1 DEF Begin, Deadline, WaitStep, AcquireLock, PollToken, PollLock,
     Recheck, Relock
<1>2. ASSUME NEW p \in Callers, RefreshStep(p) PROVE HookInv'
  <2>1. CASE Reload(p)
    BY <2>1 DEF Reload
  <2>2. CASE SallaRefreshes(p)
    BY <2>2 DEF SallaRefreshes, Rotates
  <2>3. CASE SallaRejects(p) \/ SallaUnavailable(p)
    BY <2>3 DEF SallaRejects, SallaUnavailable
  <2>4. CASE UpdateTokens(p)
    BY <2>4 DEF UpdateTokens
  <2>5. CASE MarkTokenExpired(p)
    BY <2>5 DEF MarkTokenExpired
  <2>6. CASE ReleaseLock(p)
    BY <2>6 DEF ReleaseLock, EndCall
  <2> QED
    BY <1>2, <2>1, <2>2, <2>3, <2>4, <2>5, <2>6 DEF RefreshStep
<1>3. ASSUME NEW p \in Callers, CallerFault(p) PROVE HookInv'
  <2> USE DEF Fault
  <2>1. CASE RedisError(p)
    BY <2>1 DEF RedisError, EndCall
  <2>2. CASE ResponseLost(p)
    BY <2>2 DEF ResponseLost, Rotates
  <2>3. CASE SaveError(p) \/ MarkError(p)
    BY <2>3 DEF SaveError, MarkError
  <2>4. CASE Crash(p)
    BY <2>4 DEF Crash, EndCall
  <2>5. CASE ReadError(p)
    BY <2>5 DEF ReadError, EndCall
  <2> QED
    BY <1>3, <2>1, <2>2, <2>3, <2>4, <2>5 DEF CallerFault
<1>4. ASSUME LockExpires \/ TokenAges PROVE HookInv'
  BY <1>4 DEF LockExpires, TokenAges, Fresh, Fault
<1>5. ASSUME SallaAuthorizes PROVE HookInv'
  <2> DEFINE new == [kind |-> "authorize", gen |-> issued + 1, step |-> "store"]
  <2>1. hooks' = {new} /\ new \in HooksFor(Nat)
    BY <1>5 DEF SallaAuthorizes, Quiet
  <2>2. new.kind = "authorize" /\ new.gen = issued + 1 /\ new.step = "store"
    OBVIOUS
  <2> HIDE DEF new
  <2> QED BY <1>5, <2>1, <2>2 DEF SallaAuthorizes, Quiet
<1>6. ASSUME SallaUninstalls PROVE HookInv'
  <2> DEFINE new == [kind |-> "uninstalled", gen |-> grant, step |-> "disconnect"]
  <2>1. hooks' = {new} /\ new \in HooksFor(Nat)
    BY <1>6 DEF SallaUninstalls, Quiet
  <2>2. new.kind = "uninstalled" /\ new.gen = grant /\ new.step = "disconnect"
    OBVIOUS
  <2> HIDE DEF new
  <2> QED BY <1>6, <2>1, <2>2 DEF SallaUninstalls, Quiet
<1>7. ASSUME NEW h \in hooks, WebhookStep(h) \/ WebhookError(h)
      PROVE  HookInv'
  <2> USE DEF At, Advance, Finish
  <2>1. CASE UpsertStore(h)
    BY <2>1 DEF UpsertStore
  <2>2. CASE LinkAndActivate(h)
    BY <2>2 DEF LinkAndActivate
  <2>3. CASE MarkDisconnected(h)
    BY <2>3 DEF MarkDisconnected
  <2>4. CASE DeactivateStore(h)
    BY <2>4 DEF DeactivateStore
  <2>5. CASE WebhookError(h)
    BY <2>5 DEF WebhookError, Fault
  <2> QED
    BY <1>7, <2>1, <2>2, <2>3, <2>4, <2>5 DEF WebhookStep
<1>8. CASE UNCHANGED vars
  BY <1>8 DEF vars
<1> QED
  BY <1>1, <1>2, <1>3, <1>4, <1>5, <1>6, <1>7, <1>8 DEF Next

(* Unless webhooks overlap or one fails half-way, the store is active      *)
(* between webhooks exactly while the app is installed, although its       *)
(* status is written apart from the integration (salla-integration.        *)
(* service.ts); refreshes may overlap the webhooks.                        *)
THEOREM StoreIsActiveWhileInstalled ==
    ASSUME "webhook" \notin Overlaps, "webhookError" \notin FaultKinds
    PROVE  Spec => []StoreFollowsInstallation
<1>1. Init => HookInv
  BY DEF Init, HookInv, StoreFollowsInstallation, Labels, HooksFor
<1>2. HookInv /\ [Next]_vars => HookInv'
  BY HookStep
<1>3. HookInv => StoreFollowsInstallation
  BY DEF HookInv
<1> QED
  BY <1>1, <1>2, <1>3, PTL DEF Spec

(* Without overlaps, whoever holds a refresh token or a new pair holds it  *)
(* of an installed app, so that nothing is written after uninstallation.   *)
UninstallInv ==
    /\ \A p \in Callers : pc[p] # "idle" => hooks = {}
    /\ \A p \in Callers : pc[p] \in {"call", "save", "mark"} => grant # 0
    /\ \A h \in hooks : h.step = "deactivate" => status = "disconnected" /\ stored = 0
    /\ UninstallIsFinal

(* Every step keeps UninstallInv, unless webhooks overlap or fail.         *)
LEMMA UninstallStep ==
    ASSUME Overlaps = {}, "webhookError" \notin FaultKinds,
           HookInv, UninstallInv, [Next]_vars
    PROVE  UninstallInv'
<1> USE TokenConstants
        DEF HookInv, UninstallInv, UninstallIsFinal, Labels, Goto, HooksFor,
            dbVars, callerVars, sallaVars
<1>1. ASSUME NEW p \in Callers, Begin(p) \/ WaitStep(p) \/ Deadline(p)
      PROVE  UninstallInv'
  BY <1>1 DEF Begin, Deadline, WaitStep, AcquireLock, PollToken, PollLock,
     Recheck, Relock
<1>2. ASSUME NEW p \in Callers, RefreshStep(p) PROVE UninstallInv'
  <2>1. CASE Reload(p)
    BY <2>1 DEF Reload
  <2>2. CASE SallaRefreshes(p)
    BY <2>2 DEF SallaRefreshes, Rotates
  <2>3. CASE SallaRejects(p) \/ SallaUnavailable(p)
    BY <2>3 DEF SallaRejects, SallaUnavailable
  <2>4. CASE UpdateTokens(p)
    BY <2>4 DEF UpdateTokens
  <2>5. CASE MarkTokenExpired(p)
    BY <2>5 DEF MarkTokenExpired
  <2>6. CASE ReleaseLock(p)
    BY <2>6 DEF ReleaseLock, EndCall
  <2> QED
    BY <1>2, <2>1, <2>2, <2>3, <2>4, <2>5, <2>6 DEF RefreshStep
<1>3. ASSUME NEW p \in Callers, CallerFault(p) PROVE UninstallInv'
  <2> USE DEF Fault
  <2>1. CASE RedisError(p)
    BY <2>1 DEF RedisError, EndCall
  <2>2. CASE ResponseLost(p)
    BY <2>2 DEF ResponseLost, Rotates
  <2>3. CASE SaveError(p) \/ MarkError(p)
    BY <2>3 DEF SaveError, MarkError
  <2>4. CASE Crash(p)
    BY <2>4 DEF Crash, EndCall
  <2>5. CASE ReadError(p)
    BY <2>5 DEF ReadError, EndCall
  <2> QED
    BY <1>3, <2>1, <2>2, <2>3, <2>4, <2>5 DEF CallerFault
<1>4. ASSUME LockExpires \/ TokenAges PROVE UninstallInv'
  BY <1>4 DEF LockExpires, TokenAges, Fresh, Fault
<1>5. ASSUME SallaAuthorizes PROVE UninstallInv'
  <2> DEFINE new == [kind |-> "authorize", gen |-> issued + 1, step |-> "store"]
  <2>1. hooks' = {new} /\ new \in HooksFor(Nat)
    BY <1>5 DEF SallaAuthorizes, Quiet
  <2>2. new.kind = "authorize" /\ new.gen = issued + 1 /\ new.step = "store"
    OBVIOUS
  <2> HIDE DEF new
  <2> QED BY <1>5, <2>1, <2>2 DEF SallaAuthorizes, Quiet
<1>6. ASSUME SallaUninstalls PROVE UninstallInv'
  <2> DEFINE new == [kind |-> "uninstalled", gen |-> grant, step |-> "disconnect"]
  <2>1. hooks' = {new} /\ new \in HooksFor(Nat)
    BY <1>6 DEF SallaUninstalls, Quiet
  <2>2. new.kind = "uninstalled" /\ new.gen = grant /\ new.step = "disconnect"
    OBVIOUS
  <2> HIDE DEF new
  <2> QED BY <1>6, <2>1, <2>2 DEF SallaUninstalls, Quiet
<1>7. ASSUME NEW h \in hooks, WebhookStep(h) \/ WebhookError(h)
      PROVE  UninstallInv'
  <2> USE DEF At, Advance, Finish
  <2>1. CASE UpsertStore(h)
    BY <2>1 DEF UpsertStore
  <2>2. CASE LinkAndActivate(h)
    BY <2>2 DEF LinkAndActivate
  <2>3. CASE MarkDisconnected(h)
    BY <2>3 DEF MarkDisconnected
  <2>4. CASE DeactivateStore(h)
    BY <2>4 DEF DeactivateStore
  <2>5. CASE WebhookError(h)
    BY <2>5 DEF WebhookError, Fault
  <2> QED
    BY <1>7, <2>1, <2>2, <2>3, <2>4, <2>5 DEF WebhookStep
<1>8. CASE UNCHANGED vars
  BY <1>8 DEF vars
<1> QED
  BY <1>1, <1>2, <1>3, <1>4, <1>5, <1>6, <1>7, <1>8 DEF Next
(* Without overlaps and webhooks that fail, an integration whose app is    *)
(* uninstalled stays disconnected and without tokens (markDisconnected of  *)
(* salla-integration.service.ts), whoever was refreshing before.           *)
THEOREM UninstalledStaysDisconnected ==
    ASSUME Overlaps = {}, "webhookError" \notin FaultKinds
    PROVE  Spec => []UninstallIsFinal
<1>1. Init => HookInv /\ UninstallInv
  BY DEF Init, HookInv, StoreFollowsInstallation, Labels, HooksFor,
     UninstallInv, UninstallIsFinal
<1>2. HookInv /\ UninstallInv /\ [Next]_vars => HookInv' /\ UninstallInv'
  BY HookStep, UninstallStep
<1>3. UninstallInv => UninstallIsFinal
  BY DEF UninstallInv
<1> QED
  BY <1>1, <1>2, <1>3, PTL DEF Spec

(* Every pair that Salla issues is stored, and one at a time.              *)
NothingHalfDone ==
    /\ Overlaps = {}
    /\ FaultKinds \cap {"slowHolder", "webhookError", "responseLost", "saveError",
                        "crashBeforeSave"} = {}

(* What is about to be saved is the pair that Salla accepts now, and an    *)
(* authorization that is handled is one of the merchant's.                 *)
UsableInv ==
    /\ \A p \in Callers : pc[p] = "save" => got[p] = grant
    /\ \A h \in hooks : h.kind = "authorize" => authorized
    /\ ConnectedIsUsable

(* Every step keeps UsableInv, if nothing is half done: the lock keeps     *)
(* another refresh from issuing a pair over the one about to be saved.     *)
LEMMA UsableStep ==
    ASSUME NothingHalfDone, HookInv, UninstallInv, LockInv, UsableInv,
           [Next]_vars
    PROVE  UsableInv'
<1> USE TokenConstants
        DEF NothingHalfDone, HookInv, UninstallInv, LockInv, Critical, UsableInv,
            ConnectedIsUsable, Labels, Goto, HooksFor,
            dbVars, callerVars, sallaVars
<1>1. ASSUME NEW p \in Callers, Begin(p) \/ WaitStep(p) \/ Deadline(p)
      PROVE  UsableInv'
  BY <1>1 DEF Begin, Deadline, WaitStep, AcquireLock, PollToken, PollLock,
     Recheck, Relock
<1>2. ASSUME NEW p \in Callers, RefreshStep(p) PROVE UsableInv'
  <2>1. CASE Reload(p)
    BY <2>1 DEF Reload
  <2>2. CASE SallaRefreshes(p)
    BY <2>2 DEF SallaRefreshes, Rotates
  <2>3. CASE SallaRejects(p) \/ SallaUnavailable(p)
    BY <2>3 DEF SallaRejects, SallaUnavailable
  <2>4. CASE UpdateTokens(p)
    BY <2>4 DEF UpdateTokens
  <2>5. CASE MarkTokenExpired(p)
    BY <2>5 DEF MarkTokenExpired
  <2>6. CASE ReleaseLock(p)
    BY <2>6 DEF ReleaseLock, EndCall
  <2> QED
    BY <1>2, <2>1, <2>2, <2>3, <2>4, <2>5, <2>6 DEF RefreshStep
<1>3. ASSUME NEW p \in Callers, CallerFault(p) PROVE UsableInv'
  <2> USE DEF Fault
  <2>1. CASE RedisError(p)
    BY <2>1 DEF RedisError, EndCall
  <2>2. CASE ResponseLost(p)
    BY <2>2 DEF ResponseLost, Rotates
  <2>3. CASE SaveError(p) \/ MarkError(p)
    BY <2>3 DEF SaveError, MarkError
  <2>4. CASE Crash(p)
    BY <2>4 DEF Crash, EndCall
  <2>5. CASE ReadError(p)
    BY <2>5 DEF ReadError, EndCall
  <2> QED
    BY <1>3, <2>1, <2>2, <2>3, <2>4, <2>5 DEF CallerFault
<1>4. ASSUME LockExpires \/ TokenAges PROVE UsableInv'
  BY <1>4 DEF LockExpires, TokenAges, Fresh, Fault
<1>5. ASSUME SallaAuthorizes PROVE UsableInv'
  <2> DEFINE new == [kind |-> "authorize", gen |-> issued + 1, step |-> "store"]
  <2>1. hooks' = {new} /\ new \in HooksFor(Nat)
    BY <1>5 DEF SallaAuthorizes, Quiet
  <2>2. new.kind = "authorize" /\ new.gen = issued + 1 /\ new.step = "store"
    OBVIOUS
  <2> HIDE DEF new
  <2> QED BY <1>5, <2>1, <2>2 DEF SallaAuthorizes, Quiet
<1>6. ASSUME SallaUninstalls PROVE UsableInv'
  <2> DEFINE new == [kind |-> "uninstalled", gen |-> grant, step |-> "disconnect"]
  <2>1. hooks' = {new} /\ new \in HooksFor(Nat)
    BY <1>6 DEF SallaUninstalls, Quiet
  <2>2. new.kind = "uninstalled" /\ new.gen = grant /\ new.step = "disconnect"
    OBVIOUS
  <2> HIDE DEF new
  <2> QED BY <1>6, <2>1, <2>2 DEF SallaUninstalls, Quiet
<1>7. ASSUME NEW h \in hooks, WebhookStep(h) \/ WebhookError(h)
      PROVE  UsableInv'
  <2> USE DEF At, Advance, Finish
  <2>1. CASE UpsertStore(h)
    BY <2>1 DEF UpsertStore
  <2>2. CASE LinkAndActivate(h)
    BY <2>2 DEF LinkAndActivate
  <2>3. CASE MarkDisconnected(h)
    BY <2>3 DEF MarkDisconnected
  <2>4. CASE DeactivateStore(h)
    BY <2>4 DEF DeactivateStore
  <2>5. CASE WebhookError(h)
    BY <2>5 DEF WebhookError, Fault
  <2> QED
    BY <1>7, <2>1, <2>2, <2>3, <2>4, <2>5 DEF WebhookStep
<1>8. CASE UNCHANGED vars
  BY <1>8 DEF vars
<1> QED
  BY <1>1, <1>2, <1>3, <1>4, <1>5, <1>6, <1>7, <1>8 DEF Next
(* As long as no pair is lost on its way to MongoDB, no webhook fails or   *)
(* overlaps, no holder outlives its lock, and the merchant does not        *)
(* authorize the app anew (linkAndActivate cannot store that pair), a      *)
(* connected integration has the refresh token Salla accepts               *)
(* (performRefresh of salla-token.service.ts), however often it is         *)
(* refreshed: crashes elsewhere, Redis errors and failing reads do no      *)
(* harm.                                                                   *)
THEOREM ConnectedHoldsTheNewestPair ==
    ASSUME NothingHalfDone
    PROVE  Spec => []ConnectedIsUsable
<1> DEFINE Inv == HookInv /\ UninstallInv /\ LockInv /\ UsableInv
<1>1. Init => Inv
  BY DEF Init, HookInv, StoreFollowsInstallation, Labels, HooksFor,
     UninstallInv, UninstallIsFinal, LockInv, Critical, UsableInv, ConnectedIsUsable
<1>2. Inv /\ [Next]_vars => Inv'
  BY HookStep, UninstallStep, LockStep, UsableStep DEF NothingHalfDone
<1>3. Inv => ConnectedIsUsable
  BY DEF UsableInv
<1> QED
  BY <1>1, <1>2, <1>3, PTL DEF Spec
(* Every step keeps the types, whatever overlaps and fails.                *)
LEMMA TypeStep ==
    ASSUME TokenTypeOK, [Next]_vars
    PROVE  TokenTypeOK'
<1> USE TokenConstants
        DEF TokenTypeOK, Statuses, Generations, Labels, Goto, HooksFor,
            dbVars, callerVars, sallaVars
<1>1. ASSUME NEW p \in Callers, Begin(p) \/ WaitStep(p) \/ Deadline(p)
      PROVE  TokenTypeOK'
  BY <1>1 DEF Begin, Deadline, WaitStep, AcquireLock, PollToken, PollLock,
     Recheck, Relock
<1>2. ASSUME NEW p \in Callers, RefreshStep(p) PROVE TokenTypeOK'
  <2>1. CASE Reload(p)
    BY <2>1 DEF Reload
  <2>2. CASE SallaRefreshes(p)
    BY <2>2 DEF SallaRefreshes, Rotates
  <2>3. CASE SallaRejects(p) \/ SallaUnavailable(p)
    BY <2>3 DEF SallaRejects, SallaUnavailable
  <2>4. CASE UpdateTokens(p)
    BY <2>4 DEF UpdateTokens
  <2>5. CASE MarkTokenExpired(p)
    BY <2>5 DEF MarkTokenExpired
  <2>6. CASE ReleaseLock(p)
    BY <2>6 DEF ReleaseLock, EndCall
  <2> QED
    BY <1>2, <2>1, <2>2, <2>3, <2>4, <2>5, <2>6 DEF RefreshStep
<1>3. ASSUME NEW p \in Callers, CallerFault(p) PROVE TokenTypeOK'
  <2> USE DEF Fault
  <2>1. CASE RedisError(p)
    BY <2>1 DEF RedisError, EndCall
  <2>2. CASE ResponseLost(p)
    BY <2>2 DEF ResponseLost, Rotates
  <2>3. CASE SaveError(p) \/ MarkError(p)
    BY <2>3 DEF SaveError, MarkError
  <2>4. CASE Crash(p)
    BY <2>4 DEF Crash, EndCall
  <2>5. CASE ReadError(p)
    BY <2>5 DEF ReadError, EndCall
  <2> QED
    BY <1>3, <2>1, <2>2, <2>3, <2>4, <2>5 DEF CallerFault
<1>4. ASSUME LockExpires \/ TokenAges PROVE TokenTypeOK'
  <2>1. CASE LockExpires
    BY <2>1 DEF LockExpires, Fault
  <2>2. CASE TokenAges
    BY <2>2 DEF TokenAges
  <2> QED BY <1>4, <2>1, <2>2
<1>5. ASSUME SallaAuthorizes PROVE TokenTypeOK'
  <2> DEFINE new == [kind |-> "authorize", gen |-> issued + 1, step |-> "store"]
  <2>1. hooks' = hooks \cup {new} /\ new \in HooksFor(0..MaxTokens)
    BY <1>5 DEF SallaAuthorizes, Quiet
  <2>2. new.kind = "authorize" /\ new.gen = issued + 1 /\ new.step = "store"
    OBVIOUS
  <2> HIDE DEF new
  <2> QED BY <1>5, <2>1, <2>2 DEF SallaAuthorizes, Quiet
<1>6. ASSUME SallaUninstalls PROVE TokenTypeOK'
  <2> DEFINE new == [kind |-> "uninstalled", gen |-> grant, step |-> "disconnect"]
  <2>1. hooks' = hooks \cup {new} /\ new \in HooksFor(0..MaxTokens)
    BY <1>6 DEF SallaUninstalls, Quiet
  <2>2. new.kind = "uninstalled" /\ new.gen = grant /\ new.step = "disconnect"
    OBVIOUS
  <2> HIDE DEF new
  <2> QED BY <1>6, <2>1, <2>2 DEF SallaUninstalls, Quiet
<1>7. ASSUME NEW h \in hooks, WebhookStep(h) \/ WebhookError(h)
      PROVE  TokenTypeOK'
  <2> USE DEF At, Advance, Finish
  <2>1. CASE UpsertStore(h)
    BY <2>1 DEF UpsertStore
  <2>2. CASE LinkAndActivate(h)
    BY <2>2 DEF LinkAndActivate
  <2>3. CASE MarkDisconnected(h)
    <3>1. stored' \in 0..MaxTokens /\ expiring' = FALSE
      BY <2>3 DEF MarkDisconnected
    <3>2. hooks' \subseteq HooksFor(0..MaxTokens)
      BY <2>3 DEF MarkDisconnected
    <3> QED BY <2>3, <3>1, <3>2 DEF MarkDisconnected
  <2>4. CASE DeactivateStore(h)
    BY <2>4 DEF DeactivateStore
  <2>5. CASE WebhookError(h)
    BY <2>5 DEF WebhookError, Fault
  <2> QED
    BY <1>7, <2>1, <2>2, <2>3, <2>4, <2>5 DEF WebhookStep
<1>8. CASE UNCHANGED vars
  BY <1>8 DEF vars
<1> QED
  BY <1>1, <1>2, <1>3, <1>4, <1>5, <1>6, <1>7, <1>8 DEF Next

(* Every variable keeps its type, under any faults and overlaps.           *)
THEOREM TokenTypes == Spec => []TokenTypeOK
<1>1. Init => TokenTypeOK
  <2>1. 1 \in Generations /\ 0..MaxTokens \cap {0, 1} = {0, 1} /\ 0 \in 0..MaxFaults
    BY TokenConstants DEF Generations
  <2> QED BY <2>1 DEF Init, TokenTypeOK, Statuses, Labels
<1> QED
  BY <1>1, TypeStep, PTL DEF Spec
===============================================================================
