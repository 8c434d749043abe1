------------------------------ MODULE Dashboard ------------------------------
(***************************************************************************)
(* The billing page and the overview of one store (src/modules/dashboard/  *)
(* dashboard.service.ts): several reads, some at the same time, some of    *)
(* them through the cache of plans, while the subscription changes, chats  *)
(* are counted, time passes and a new process seeds the plans.             *)
(*                                                                         *)
(* The pages compute on their own what SubscriptionsService decides a chat *)
(* by.  Product slots and features are left out: slots follow the formulas *)
(* of the messages, features are looked up in a table.                     *)
(***************************************************************************)
EXTENDS PlanCache

CONSTANTS
    Period,      \* length of a subscription, in half days
    MaxUsed,     \* bound: messages counted before the behaviour
    MaxChanges   \* bound: events, chats, half days and seedings in a behaviour

(* A trial is treated as an active subscription by all that is here.       *)
Statuses == {"active", "canceled", "expired"}
Accessible == {"active", "canceled"}
NoSubscription == [status |-> "none", plan |-> PlanSeeds[1], ends |-> 0]

VARIABLES
    sub, used, now,   \* the subscription, messages in its period, the clock
    page,             \* [kind, at, sub, usage, failed]
    shown,            \* what the page showed
    calm,             \* ghost: nothing but the page has changed anything since it began
    changes

storeVars == <<sub, used, now, changes>>
vars == <<planVars, storeVars, page, shown, calm>>

NoPage == [kind |-> "billing", at |-> "idle", sub |-> NoSubscription, usage |-> -1, failed |-> {}]
NothingShown == [access |-> FALSE, days |-> 0, limit |-> 0, listed |-> 0, used |-> 0,
                 remaining |-> 0, percent |-> 0]

Init ==
    /\ PlansInit
    /\ \/ sub = NoSubscription /\ used = 0
       \/ /\ sub = [status |-> "active", plan |-> PlanSeeds[1], ends |-> Period]
          /\ used \in 0..MaxUsed
    /\ now = 0 /\ changes = 0
    /\ page = NoPage /\ shown = NothingShown /\ calm = TRUE

-------------------------------------------------------------------------------
(* What decides about a chat: SubscriptionsService.                        *)

HasAccess(s) == s.status \in Accessible /\ s.ends > now

(* The plan that getById returns now.                                      *)
LimitNow == IF IsCached(sub.plan) THEN byId[sub.plan] ELSE plans[sub.plan]

ChatAllowed == HasAccess(sub) /\ (LimitNow = Unlimited \/ used < LimitNow)

-------------------------------------------------------------------------------
(* What a page shows.                                                      *)

AtLeast0(n) == IF n < 0 THEN 0 ELSE n

(* Math.ceil of the days.                                                  *)
DaysRemaining(ends) == AtLeast0(ends - now + 1) \div 2

(* Mutant: the percentage may exceed 100.                                  *)
PercentUncapped(n, limit) == IF limit <= 0 THEN 0 ELSE (200 * n + limit) \div (2 * limit)

(* Math.round of the percentage.                                           *)
CalculateUsagePercent(n, limit) ==
    IF limit <= 0 THEN 0
    ELSE IF n >= limit THEN 100 ELSE (200 * n + limit) \div (2 * limit)

(* Mutant: the page shows access by the status alone.                      *)
ShowsAccessByStatus(s) == s.status \in {"active", "canceled"}

ShowsAccess(s) == s.status \in {"active", "canceled"} /\ s.ends > now

PlanLimit == lookup["plan"].got

MessagesRemaining(limit, n) == IF limit = Unlimited THEN Unlimited ELSE AtLeast0(limit - n)

Shown ==
    [access |-> ShowsAccess(page.sub), days |-> DaysRemaining(page.sub.ends),
     limit |-> PlanLimit, used |-> AtLeast0(page.usage),
     listed |-> IF page.kind = "billing" THEN lookup["list"].got[page.sub.plan] ELSE PlanLimit,
     remaining |-> MessagesRemaining(PlanLimit, AtLeast0(page.usage)),
     percent |-> CalculateUsagePercent(AtLeast0(page.usage), PlanLimit)]

-------------------------------------------------------------------------------
(* A page.                                                                 *)

(* Mutant: the error of the subscription is not caught in an overview.     *)
Rejects(kind, read) == kind = "billing" \/ read \in {"store", "subscription"}

(* A read that fails is fatal to a billing page; an overview goes on       *)
(* without it, unless it is the store.                                     *)
IsFatal(kind, read) == kind = "billing" \/ read = "store"

Without(p, read) ==
    IF IsFatal(p.kind, read)
    THEN [NoPage EXCEPT !.kind = p.kind, !.at = "error", !.failed = {read}]
    ELSE [p EXCEPT !.failed = @ \cup {read}, !.at = "reads"]

Lost(read) == page' = Without(page, read)

(* First of all the store is read (the billing page reads its subscription *)
(* at the same time).                                                      *)
BeginPage ==
    /\ page.at \in {"idle", "built", "error"}
    /\ \A r \in Lookups : lookup[r].at \notin {"miss", "found"}
    /\ \E kind \in {"billing", "overview"} :
         LET begun == [NoPage EXCEPT !.kind = kind] IN
           \/ Succeeds /\ page' = [begun EXCEPT !.at = "subscription"]
           \/ Fails /\ page' = Without(begun, "store")
    /\ lookup' = [r \in Lookups |-> Idle]
    /\ shown' = NothingShown /\ calm' = TRUE
    /\ UNCHANGED <<plans, byId, list, seeding, met, storeVars>>

(* A billing page of a store without a subscription is not found.          *)
ReadSubscription ==
    /\ page.at = "subscription"
    /\ page' = IF sub = NoSubscription /\ page.kind = "billing"
               THEN [page EXCEPT !.at = "error"]
               ELSE [page EXCEPT !.at = "reads", !.sub = sub]
    /\ UNCHANGED <<planVars, storeVars, shown, calm>>

SubscriptionFails ==
    /\ page.at = "subscription" /\ Fails
    /\ Lost("subscription")
    /\ UNCHANGED <<plans, byId, list, seeding, lookup, met, storeVars, shown, calm>>

(* Without a subscription there is no plan and no usage to read.           *)
Reads == page.at = "reads" /\ page.sub # NoSubscription

LookUp ==
    /\ Reads
    /\ Get("plan", page.sub.plan) \/ (page.kind = "billing" /\ Get("list", AllPlans))
    /\ UNCHANGED <<storeVars, page, shown, calm>>

(* The lookups of a page that has failed go on.                            *)
ReadPlans ==
    /\ \E r \in Lookups : Read(r)
    /\ UNCHANGED <<storeVars, page, shown, calm>>

ReadPlansFails ==
    /\ \E r \in Lookups :
         FindFails(r) /\ IF page.at = "reads" THEN Lost(r) ELSE UNCHANGED page
    /\ UNCHANGED <<storeVars, shown, calm>>

ReadUsage ==
    /\ Reads /\ page.usage = -1 /\ "usage" \notin page.failed
    /\ \/ Succeeds /\ page' = [page EXCEPT !.usage = used]
       \/ Fails /\ Lost("usage")
    /\ UNCHANGED <<plans, byId, list, seeding, lookup, met, storeVars, shown, calm>>

Build ==
    /\ page.at = "reads"
    /\ Reads => /\ page.usage # -1 \/ "usage" \in page.failed
                /\ lookup["plan"].at \in {"done", "failed"}
                /\ page.kind = "billing" => lookup["list"].at = "done"
    /\ shown' = Shown
    /\ page' = [NoPage EXCEPT !.kind = page.kind, !.at = "built", !.failed = page.failed]
    /\ lookup' = [r \in Lookups |-> Idle]
    /\ UNCHANGED <<plans, byId, list, seeding, errors, met, storeVars, calm>>

-------------------------------------------------------------------------------
(* What happens to the store.                                              *)

Change ==
    /\ changes < MaxChanges /\ changes' = changes + 1
    /\ calm' = FALSE /\ UNCHANGED <<page, shown>>

StoreChange == Change /\ UNCHANGED planVars

(* A new period has its own count.                                         *)
SubscriptionEvent ==
    /\ StoreChange
    /\ \E status \in Statuses, plan \in PlanIds :
         \/ /\ sub' = [status |-> status, plan |-> plan, ends |-> now + Period]
            /\ used' = 0
         \/ /\ sub # NoSubscription /\ sub' = [sub EXCEPT !.status = status]
            /\ UNCHANGED used
    /\ UNCHANGED now

CountMessage == StoreChange /\ ChatAllowed /\ used' = used + 1 /\ UNCHANGED <<sub, now>>

TimePasses == StoreChange /\ now' = now + 1 /\ UNCHANGED <<sub, used>>

SeedPlans ==
    \/ Change /\ StartProcess /\ UNCHANGED <<sub, used, now>>
    \/ Seed /\ calm' = FALSE /\ UNCHANGED <<storeVars, page, shown>>

Next ==
    \/ BeginPage \/ ReadSubscription \/ SubscriptionFails
    \/ LookUp \/ ReadPlans \/ ReadPlansFails \/ ReadUsage \/ Build
    \/ SubscriptionEvent \/ CountMessage \/ TimePasses \/ SeedPlans

Spec == Init /\ [][Next]_vars

-------------------------------------------------------------------------------
DashboardTypeOK ==
    /\ Seeding \/ \E version \in DOMAIN Releases : plans = Releases[version]
    /\ sub = NoSubscription \/ (sub.status \in Statuses /\ sub.plan \in PlanIds)
    /\ page.at \in {"idle", "subscription", "reads", "built", "error"}
    /\ \A r \in Lookups : lookup[r].at \in {"idle", "miss", "found", "done", "failed"}
    /\ shown.percent \in 0..100 /\ shown.days \in 0..Period
    /\ met \subseteq {"crossed", "undeleted"}

(* The page is of one state of the store and of the plans.                 *)
Settled == page.at = "built" /\ calm /\ met = {} /\ ~Seeding

(* The billing page promises a chat exactly when the guard of the chat     *)
(* route lets it through, and its two places for the current plan tell the *)
(* same limit, whichever copies of the plan they come from.                *)
BillingAgrees ==
    (Settled /\ page.kind = "billing") =>
        /\ (shown.access /\ shown.remaining # 0) = ChatAllowed
        /\ shown.access => shown.days > 0
        /\ shown.listed = shown.limit

(* An overview is shown whatever else cannot be read, once the store is.   *)
(* It never promises access that the store does not have; what was read is *)
(* told as it is, and a quota that is used up shows as 100 percent.        *)
OverviewAgrees ==
    page.kind = "overview" =>
        /\ page.at = "error" => page.failed = {"store"}
        /\ Settled =>
             /\ shown.access => HasAccess(sub)
             /\ "subscription" \notin page.failed => shown.access = HasAccess(sub)
             /\ (page.failed = {} /\ shown.access /\ ~ChatAllowed /\ shown.limit > 0)
                    => shown.percent = 100

(* Both pages tell what the services that decide about a chat would say.   *)
PagesAgree == BillingAgrees /\ OverviewAgrees
===============================================================================
