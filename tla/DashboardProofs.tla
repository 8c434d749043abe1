---------------------------- MODULE DashboardProofs ----------------------------
(***************************************************************************)
(* Theorems about Dashboard and the plan cache it reads through, for any   *)
(* plans, releases and number of failing commands.  The plans rest on      *)
(* PlanInv, the pages on PageInv: what a page under way has read of the    *)
(* store and of the plans is what they are now, unless something changed.  *)
(***************************************************************************)
EXTENDS Dashboard, TLAPS

Places == {"idle", "miss", "found", "done", "failed"}

(* Some sets that what is stored and looked up comes from: that updates of *)
(* parts of a function or a record change just these parts rests on it.    *)
Shape(K, V) ==
    /\ plans \in [PlanIds -> V] /\ byId \in [PlanIds -> V]
    /\ lookup \in [Lookups -> [at : Places, key : K, got : V]]
    /\ seeding \in [table : V, left : V, pending : SUBSET {"byId", "list"}]

ShapeInv == \E K, V : Shape(K, V)

(* As long as nothing crosses and no deletion fails, a lookup that is      *)
(* about to store a plan holds the one of now, and a key is out of date    *)
(* only while its deletion is due.                                         *)
FreshInv ==
    met = {} =>
        /\ \A r \in Lookups :
             lookup[r].at = "found" => lookup[r].got = Stored(lookup[r].key)
        /\ "list" \notin seeding.pending => list \in {NoList, plans}
        /\ "byId" \notin seeding.pending =>
             \A p \in PlanIds : byId[p] \in {Absent, plans[p]}

PlanInv == ShapeInv /\ FreshInv

--------------------------------------------------------------------------------
(* At first nothing is cached and nothing is looked up.                    *)
LEMMA PlanInvInit ==
    ASSUME NEW V, Releases[1] \in [PlanIds -> V], Init
    PROVE  PlanInv
<1> USE DEF Init, PlansInit
<1>1. Shape({AllPlans}, V \cup {plans, <<>>, NoPlan, Absent})
    BY DEF Shape, NoList, Idle, Places
<1>2. FreshInv
    BY DEF FreshInv, NoList, Idle
<1> QED BY <1>1, <1>2 DEF PlanInv, ShapeInv

(* One lookup moves and the others stay.                                   *)
Moved(K, V, r, at, got) ==
    /\ lookup' \in [Lookups -> [at : Places, key : K, got : V \cup {got}]]
    /\ lookup'[r].at = at /\ lookup'[r].got = got
    /\ lookup'[r].key = lookup[r].key
    /\ \A q \in Lookups \ {r} : lookup'[q] = lookup[q]

(* The two parts of a lookup that Moves changes are changed by two updates *)
(* of a record, one after the other.                                       *)
LEMMA MovesShape ==
    ASSUME NEW K, NEW V, lookup \in [Lookups -> [at : Places, key : K, got : V]],
           NEW r \in Lookups, NEW at \in Places, NEW got, Moves(r, at, got)
    PROVE  Moved(K, V, r, at, got)
<1> DEFINE first == [lookup EXCEPT ![r].at = at]
<1>1. lookup[r] \in [at : Places, key : K, got : V]
    OBVIOUS
<1>2. /\ first \in [Lookups -> [at : Places, key : K, got : V]]
      /\ first[r].at = at /\ first[r].key = lookup[r].key
      /\ \A q \in Lookups \ {r} : first[q] = lookup[q]
    BY <1>1
<1>3. lookup' = [first EXCEPT ![r].got = got]
    BY DEF Moves
<1> HIDE DEF first
<1>4. first[r] \in [at : Places, key : K, got : V]
    BY <1>2
<1> QED BY <1>2, <1>3, <1>4 DEF Moved

(* A lookup stores a plan of now, or has been crossed.                     *)
LEMMA LookupStep ==
    ASSUME PlanInv, NEW r \in Lookups, UNCHANGED <<plans, seeding, met>>,
           \/ \E key : Get(r, key)
           \/ Find(r) \/ FindFails(r) \/ Fill(r)
    PROVE  PlanInv'
<1>0. PICK K, V : Shape(K, V)
    BY DEF PlanInv, ShapeInv
<1>1. ASSUME NEW key, Get(r, key) PROVE PlanInv'
    <2>1. ASSUME NEW got, NEW at \in {"done", "miss"},
                 lookup' = [lookup EXCEPT ![r] = [at |-> at, key |-> key, got |-> got]]
          PROVE  PlanInv'
        <3>1. Shape(K \cup {key}, V \cup {got})'
            BY <1>0, <1>1, <2>1 DEF Shape, Get, Places
        <3>2. FreshInv'
            BY <1>0, <1>1, <2>1 DEF Shape, Get, FreshInv, PlanInv, Stored
        <3> QED BY <3>1, <3>2 DEF PlanInv, ShapeInv
    <2>2. \/ lookup' = [lookup EXCEPT ![r] = [at |-> "done", key |-> key, got |-> Cached(key)]]
          \/ lookup' = [lookup EXCEPT ![r] = [at |-> "miss", key |-> key, got |-> NoPlan]]
        BY <1>1 DEF Get
    <2> QED BY <2>1, <2>2
<1>2. ASSUME NEW got, NEW at \in {"found", "failed"}, Moves(r, at, got),
             at = "found" => got = Stored(lookup[r].key), UNCHANGED <<byId, list>>
      PROVE  PlanInv'
    <2>1. Moved(K, V, r, at, got)
        <3>1. at \in Places
            BY DEF Places
        <3> QED BY <1>0, <1>2, <3>1, MovesShape DEF Shape
    <2>2. Shape(K, V \cup {got})'
        BY <1>0, <1>2, <2>1 DEF Shape, Moved
    <2>3. FreshInv'
        BY <1>0, <1>2, <2>1 DEF Moved, FreshInv, PlanInv, Stored
    <2> QED BY <2>2, <2>3 DEF PlanInv, ShapeInv
<1>3. CASE Find(r)
    BY <1>2, <1>3 DEF Find
<1>4. CASE FindFails(r)
    BY <1>2, <1>4 DEF FindFails
<1>5. CASE Fill(r)
    <2> DEFINE key == lookup[r].key
               got == lookup[r].got
    <2>1. lookup[r].at = "found" /\ Moves(r, "done", got) /\ got \in V
        BY <1>0, <1>5 DEF Fill, Shape
    <2>2. \/ UNCHANGED <<byId, list>>
          \/ key = AllPlans /\ list' = got /\ UNCHANGED byId
          \/ key # AllPlans /\ byId' = [byId EXCEPT ![key] = got] /\ UNCHANGED list
        BY <1>5 DEF Fill
    <2>3. Moved(K, V, r, "done", got)
        <3>1. "done" \in Places
            BY DEF Places
        <3> QED BY <1>0, <2>1, <3>1, MovesShape DEF Shape
    <2> HIDE DEF key, got
    <2>4. Shape(K, V)'
        <3>1. V \cup {got} = V
            BY <2>1
        <3>2. byId' \in [PlanIds -> V]
            BY <1>0, <2>1, <2>2 DEF Shape
        <3> QED BY <1>0, <2>3, <3>1, <3>2 DEF Shape, Moved
    <2>5. FreshInv'
        BY <1>0, <2>1, <2>2, <2>3 DEF Shape, Moved, FreshInv, PlanInv, Stored, key, got
    <2> QED BY <2>4, <2>5 DEF PlanInv, ShapeInv
<1> QED BY <1>1, <1>3, <1>4, <1>5

(* A plan that is written has both of its keys deleted afterwards, and a   *)
(* key that has expired is not out of date.                                *)
LEMMA SeedStep ==
    ASSUME PlanInv, UNCHANGED lookup, Seed \/ StartProcess
    PROVE  PlanInv'
<1>0. PICK K, V : Shape(K, V)
    BY DEF PlanInv, ShapeInv
<1> USE DEF PlanInv, ShapeInv, FreshInv, Stored
<1>1. CASE StartProcess
    <2>1. PICK v \in DOMAIN Releases :
              seeding' = [table |-> Releases[v], left |-> PlanSeeds, pending |-> {}]
        BY <1>1 DEF StartProcess
    <2>2. Shape(K, V \cup {Releases[v], PlanSeeds})'
        BY <1>0, <1>1, <2>1 DEF Shape, StartProcess
    <2> QED BY <1>0, <1>1, <2>1, <2>2 DEF Shape, StartProcess, Seeding
<1>2. CASE UpsertPlan
    <2>0. PICK limit, rest :
              limit = seeding.table[Head(seeding.left)] /\ rest = Tail(seeding.left)
        OBVIOUS
    <2>1. Shape(K, V \cup {limit, rest})'
        <3>1. seeding' = [seeding EXCEPT !.left = rest, !.pending = KeysToDelete]
            BY <1>2, <2>0 DEF UpsertPlan
        <3>2. seeding' \in [table : V, left : V \cup {rest},
                            pending : SUBSET {"byId", "list"}]
            BY <1>0, <3>1 DEF Shape, KeysToDelete
        <3>3. plans' = [plans EXCEPT ![Head(seeding.left)] = limit] /\ byId' = byId
            BY <1>2, <2>0 DEF UpsertPlan
        <3>4. plans' \in [PlanIds -> V \cup {limit}]
            BY <1>0, <3>3 DEF Shape
        <3> QED BY <1>0, <3>2, <3>3, <3>4 DEF Shape
    <2>2. seeding'.pending = {"byId", "list"}
        BY <1>0, <1>2 DEF Shape, UpsertPlan, KeysToDelete
    <2>3. ASSUME met' = {}, NEW r \in Lookups, lookup[r].at = "found"
          PROVE  met = {} /\ plans' = plans
        BY <1>2, <2>3 DEF UpsertPlan
    <2>4. FreshInv'
        BY <2>2, <2>3
    <2> QED BY <2>1, <2>4
<1>3. CASE DelList
    <2>1. Shape(K, V)'
        BY <1>0, <1>3 DEF Shape, DelList, Deleted
    <2>2. FreshInv'
        BY <1>0, <1>3 DEF Shape, DelList, Deleted
    <2> QED BY <2>1, <2>2
<1>4. CASE DelByPattern
    <2>1. Shape(K, V \cup {Absent})'
        BY <1>0, <1>4 DEF Shape, DelByPattern, Deleted, NoList
    <2>2. FreshInv'
        BY <1>0, <1>4 DEF Shape, DelByPattern, Deleted, NoList
    <2> QED BY <2>1, <2>2
<1>5. CASE ExpirePlan
    <2>1. Shape(K, V \cup {Absent})'
        BY <1>0, <1>5 DEF Shape, ExpirePlan
    <2>2. FreshInv'
        BY <1>0, <1>5 DEF Shape, ExpirePlan
    <2> QED BY <2>1, <2>2
<1> QED BY <1>1, <1>2, <1>3, <1>4, <1>5 DEF Seed

(* Pages and the store leave the cache alone.                              *)
LEMMA ElsewhereStep ==
    ASSUME PlanInv, UNCHANGED <<plans, byId, list, seeding, met>>,
           lookup' = lookup \/ lookup' = [r \in Lookups |-> Idle]
    PROVE  PlanInv'
<1>0. PICK K, V : Shape(K, V)
    BY DEF PlanInv, ShapeInv
<1>1. Shape(K \cup {AllPlans}, V \cup {NoPlan})'
    BY <1>0 DEF Shape, Idle, Places
<1>2. FreshInv'
    BY DEF PlanInv, FreshInv, Stored, Idle
<1> QED BY <1>1, <1>2 DEF PlanInv, ShapeInv

(* Every step keeps PlanInv.                                               *)
LEMMA PlanInvStep == PlanInv /\ [Next]_vars => PlanInv'
<1> SUFFICES ASSUME PlanInv, [Next]_vars PROVE PlanInv'
    OBVIOUS
<1>1. CASE BeginPage
    BY <1>1, ElsewhereStep DEF BeginPage
<1>2. CASE ReadSubscription
    BY <1>2, ElsewhereStep DEF ReadSubscription, planVars
<1>3. CASE SubscriptionFails
    BY <1>3, ElsewhereStep DEF SubscriptionFails
<1>4. CASE LookUp
    BY <1>4, LookupStep DEF LookUp, Get, Lookups
<1>5. CASE ReadPlans
    BY <1>5, LookupStep DEF ReadPlans, Read, Find, Fill
<1>6. CASE ReadPlansFails
    BY <1>6, LookupStep DEF ReadPlansFails, FindFails
<1>7. CASE ReadUsage
    BY <1>7, ElsewhereStep DEF ReadUsage
<1>8. CASE Build
    BY <1>8, ElsewhereStep DEF Build
<1>9. CASE SubscriptionEvent \/ CountMessage \/ TimePasses
    BY <1>9, ElsewhereStep
       DEF SubscriptionEvent, CountMessage, TimePasses, StoreChange, planVars
<1>10. CASE SeedPlans
    BY <1>10, SeedStep
       DEF SeedPlans, Seed, StartProcess, UpsertPlan, DelList, DelByPattern, ExpirePlan
<1>11. CASE UNCHANGED vars
    BY <1>11, ElsewhereStep DEF vars, planVars
<1> QED
    BY <1>1, <1>2, <1>3, <1>4, <1>5, <1>6, <1>7, <1>8, <1>9, <1>10, <1>11 DEF Next

(* After a start of any release, whatever is read of the plans is what was *)
(* seeded, unless a lookup crossed the seeding or a deletion failed        *)
(* (cached and invalidateCache of plans.service.ts).                       *)
THEOREM PlansAreAsSeeded ==
    ASSUME NEW V, Releases[1] \in [PlanIds -> V]
    PROVE  Spec => []SeededPlansAreUsed
<1>1. Init => PlanInv
    BY PlanInvInit
<1>2. PlanInv => SeededPlansAreUsed
    BY DEF PlanInv, FreshInv, SeededPlansAreUsed, Seeding
<1> QED BY <1>1, PlanInvStep, <1>2, PTL DEF Spec
--------------------------------------------------------------------------------
(* What the pages show, for plans whose limits are numbers.                *)

Limits == [PlanIds -> Int]

PlansAreNumbers ==
    /\ PlanSeeds \in Seq(PlanIds) /\ PlanSeeds # <<>>
    /\ AllPlans \notin PlanIds
    /\ 1 \in DOMAIN Releases
    /\ \A version \in DOMAIN Releases : Releases[version] \in Limits
    /\ Period \in Nat /\ MaxUsed \in Nat

SubscriptionRecords == {NoSubscription} \cup [status : Statuses, plan : PlanIds, ends : Int]

StoreInv ==
    /\ sub \in SubscriptionRecords /\ sub.ends <= now + Period
    /\ used \in Nat /\ now \in Nat

(* A plan that has still to be seeded is among those that are left.        *)
CacheTypeInv ==
    /\ plans \in Limits /\ byId \in Limits /\ list \in Limits
    /\ seeding \in [table : Limits, left : Seq(PlanIds), pending : SUBSET {"byId", "list"}]
    /\ \E version \in DOMAIN Releases : seeding.table = Releases[version]
    /\ \A p \in PlanIds :
         plans[p] = seeding.table[p] \/ \E i \in 1..Len(seeding.left) : seeding.left[i] = p
    /\ met \subseteq {"crossed", "undeleted"}

LookupTypeInv ==
    /\ lookup \in [Lookups -> [at : Places, key : PlanIds \cup {AllPlans}, got : Int \cup Limits]]
    /\ lookup["plan"].got \in Int
    /\ lookup["plan"].at # "idle" => lookup["plan"].key \in PlanIds
    /\ lookup["list"].at # "idle" => lookup["list"].key = AllPlans
    /\ lookup["list"].at = "found" => lookup["list"].got \in Limits

(* Nothing but the page has changed anything, and the plans are settled.   *)
Still == calm /\ met = {} /\ ~Seeding

PageRecords ==
    [kind : {"billing", "overview"}, at : {"idle", "subscription", "reads", "built", "error"},
     sub : SubscriptionRecords, usage : Nat \cup {-1},
     failed : SUBSET {"store", "subscription", "plan", "list", "usage"}]

PageTypeInv ==
    /\ page \in PageRecords
    /\ page.sub.ends <= now + Period
    /\ shown.percent \in 0..100 /\ shown.days \in 0..Period

(* Where a page of either kind can be, with what read and what looked up.  *)
PlaceInv ==
    /\ page.kind = "overview" /\ page.at = "error" => page.failed = {"store"}
    /\ page.kind = "billing" /\ page.at # "error" => page.failed = {}
    /\ page.kind = "billing" /\ page.at = "reads" => page.sub # NoSubscription
    /\ page.at = "subscription" => page.failed = {}
    /\ page.at \in {"subscription", "built"} => \A r \in Lookups : lookup[r].at = "idle"
    /\ page.at # "reads" => page.sub = NoSubscription /\ page.usage = -1
    /\ page.at = "reads" =>
         /\ page.sub = NoSubscription => \A r \in Lookups : lookup[r].at = "idle"
         /\ lookup["plan"].at # "idle" => lookup["plan"].key = page.sub.plan
         /\ \A r \in Lookups : lookup[r].at = "failed" => r \in page.failed

(* What a page has read while nothing else moved is what there is.         *)
ReadInv ==
    page.at = "reads" /\ Still =>
        /\ page.sub = IF "subscription" \in page.failed THEN NoSubscription ELSE sub
        /\ page.usage \in {-1, used}
        /\ \A r \in Lookups : lookup[r].at = "done" => lookup[r].got = Stored(lookup[r].key)

(* So is what a page shows.                                                *)
ShownInv ==
    Settled =>
        /\ shown.access = ("subscription" \notin page.failed /\ HasAccess(sub))
        /\ page.kind = "billing" => /\ sub # NoSubscription
                                    /\ shown.days = DaysRemaining(sub.ends)
                                    /\ shown.listed = plans[sub.plan]
        /\ page.failed = {} /\ sub # NoSubscription =>
             /\ shown.limit = plans[sub.plan]
             /\ shown.remaining = MessagesRemaining(plans[sub.plan], used)
             /\ shown.percent = CalculateUsagePercent(used, plans[sub.plan])

PageInv ==
    /\ PlanInv /\ StoreInv /\ CacheTypeInv /\ LookupTypeInv /\ PageTypeInv
    /\ PlaceInv /\ ReadInv /\ ShownInv

--------------------------------------------------------------------------------
(* The numbers on a page are in their bounds.                              *)

(* A quotient that is less than its divisor times a number is less than it.*)
LEMMA QuotientBelow ==
    ASSUME NEW a \in Nat, NEW d \in Nat \ {0}, NEW n \in Nat, a < d * n
    PROVE  a \div d \in 0..(n - 1)
<1> DEFINE q == a \div d
<1>1. q \in Int /\ d * q <= a
    OBVIOUS
<1>2. q \in Nat
    OBVIOUS
<1> HIDE DEF q
<1>3. q < n
    <2> SUFFICES ASSUME q >= n PROVE FALSE
        BY <1>2
    <2>1. d * q >= d * n
        BY <1>2
    <2>2. d * q \in Int /\ d * n \in Int
        BY <1>2
    <2> QED BY <1>1, <2>1, <2>2
<1>4. q \in 0..(n - 1)
    BY <1>2, <1>3
<1> QED BY <1>4 DEF q

(* A percentage is one.                                                    *)
LEMMA PercentBound ==
    ASSUME NEW n \in Nat, NEW limit \in Int
    PROVE  CalculateUsagePercent(n, limit) \in 0..100
<1>1. CASE limit <= 0 \/ n >= limit
    BY <1>1 DEF CalculateUsagePercent
<1>2. CASE limit > 0 /\ n < limit
    <2>1. 200 * n + limit \in Nat /\ 2 * limit \in Nat \ {0}
        BY <1>2
    <2>2. 200 * n + limit < (2 * limit) * 101
        BY <1>2
    <2>3. (200 * n + limit) \div (2 * limit) \in 0..100
        BY ONLY <2>1, <2>2, QuotientBelow
    <2> QED BY <1>2, <2>3 DEF CalculateUsagePercent
<1> QED BY <1>1, <1>2

(* No more days remain than a subscription has, and some remain before it  *)
(* ends.                                                                   *)
LEMMA DaysBound ==
    ASSUME NEW ends \in Int, now \in Nat, Period \in Nat, ends <= now + Period
    PROVE  /\ DaysRemaining(ends) \in 0..Period
           /\ ends > now => DaysRemaining(ends) > 0
BY DEF DaysRemaining, AtLeast0

--------------------------------------------------------------------------------
(* The types of the store, the cache and the lookups.                      *)

(* The store keeps its type.                                               *)
LEMMA StoreStep ==
    ASSUME PlansAreNumbers, StoreInv, [Next]_vars
    PROVE  StoreInv'
<1> USE DEF StoreInv, SubscriptionRecords, PlansAreNumbers
<1>1. CASE SubscriptionEvent
    <2>1. PICK status \in Statuses, plan \in PlanIds :
              \/ /\ sub' = [status |-> status, plan |-> plan, ends |-> now + Period]
                 /\ used' = 0
              \/ /\ sub # NoSubscription /\ sub' = [sub EXCEPT !.status = status]
                 /\ UNCHANGED used
        BY <1>1 DEF SubscriptionEvent
    <2>2. now' = now
        BY <1>1 DEF SubscriptionEvent
    <2>3. CASE sub' = [status |-> status, plan |-> plan, ends |-> now + Period] /\ used' = 0
        BY <2>2, <2>3
    <2>4. CASE sub # NoSubscription /\ sub' = [sub EXCEPT !.status = status] /\ UNCHANGED used
        BY <2>2, <2>4
    <2> QED BY <2>1, <2>3, <2>4
<1>2. CASE CountMessage
    BY <1>2 DEF CountMessage, StoreChange
<1>3. CASE TimePasses
    <2>1. sub.ends \in Int
        BY DEF NoSubscription
    <2> QED BY <1>3, <2>1 DEF TimePasses
<1>4. CASE UNCHANGED <<sub, used, now>>
    BY <1>4
<1> QED BY <1>1, <1>2, <1>3, <1>4
        DEF Next, vars, storeVars, BeginPage, ReadSubscription, SubscriptionFails, LookUp,
            ReadPlans, ReadPlansFails, ReadUsage, Build, SeedPlans

(* The cache keeps its type when a lookup stores what it has found.        *)
LEMMA FillCacheType ==
    ASSUME PlansAreNumbers, CacheTypeInv, LookupTypeInv, NEW r \in Lookups, Fill(r)
    PROVE  CacheTypeInv'
<1>1. UNCHANGED <<plans, seeding, met>>
    BY DEF Fill
<1>2. lookup[r].key \in PlanIds => r = "plan"
    BY DEF LookupTypeInv, Lookups, Fill, PlansAreNumbers
<1>3. byId' \in Limits
    <2>1. CASE lookup[r].key = AllPlans
        BY <2>1 DEF Fill, CacheTypeInv
    <2>2. CASE lookup[r].key # AllPlans
        <3>1. r = "plan" /\ lookup[r].got \in Int
            BY <2>2 DEF LookupTypeInv, Lookups, Fill
        <3>2. byId' = byId \/ byId' = [byId EXCEPT ![lookup[r].key] = lookup[r].got]
            BY <2>2 DEF Fill
        <3> QED BY <3>1, <3>2 DEF CacheTypeInv, Limits
    <2> QED BY <2>1, <2>2
<1>4. list' \in Limits
    <2>1. CASE lookup[r].key = AllPlans
        <3>1. r = "list"
            BY <2>1 DEF LookupTypeInv, Lookups, Fill, PlansAreNumbers
        <3> QED BY <2>1, <3>1 DEF Fill, CacheTypeInv, LookupTypeInv
    <2>2. CASE lookup[r].key # AllPlans
        BY <2>2 DEF Fill, CacheTypeInv
    <2> QED BY <2>1, <2>2
<1> QED BY <1>1, <1>3, <1>4 DEF CacheTypeInv

(* And when plans are seeded.                                              *)
LEMMA SeedCacheType ==
    ASSUME PlansAreNumbers, CacheTypeInv, Seed \/ StartProcess
    PROVE  CacheTypeInv'
<1>0. NoList \in Limits
    BY DEF NoList, Absent, Limits
<1>1. CASE StartProcess
    <2>1. PICK v \in DOMAIN Releases :
              seeding' = [table |-> Releases[v], left |-> PlanSeeds, pending |-> {}]
        BY <1>1 DEF StartProcess
    <2>2. \A p \in PlanIds : \E i \in 1..Len(PlanSeeds) : PlanSeeds[i] = p
        BY DEF PlanIds, PlansAreNumbers
    <2>3. seeding' \in [table : Limits, left : Seq(PlanIds), pending : SUBSET {"byId", "list"}]
        BY <2>1 DEF PlansAreNumbers
    <2> QED BY <1>1, <2>1, <2>2, <2>3 DEF CacheTypeInv, StartProcess
<1>2. CASE UpsertPlan
    <2> DEFINE left == seeding.left
               p == Head(left)
    <2>1. /\ left \in Seq(PlanIds) /\ left # <<>> /\ seeding.table \in Limits
          /\ p \in PlanIds /\ Tail(left) \in Seq(PlanIds)
        BY <1>2 DEF CacheTypeInv, UpsertPlan
    <2>2. plans' = [plans EXCEPT ![p] = seeding.table[p]]
        BY <1>2 DEF UpsertPlan
    <2>3. plans' \in Limits
        BY <2>1, <2>2 DEF CacheTypeInv, Limits
    <2>4. PICK rest : rest = Tail(left)
        OBVIOUS
    <2>5. seeding' = [seeding EXCEPT !.left = rest, !.pending = KeysToDelete]
        BY <1>2, <2>4 DEF UpsertPlan
    <2>6. /\ seeding' \in [table : Limits, left : Seq(PlanIds), pending : SUBSET {"byId", "list"}]
          /\ seeding'.table = seeding.table /\ seeding'.left = rest
        BY <2>1, <2>4, <2>5 DEF CacheTypeInv, KeysToDelete
    <2>7. ASSUME NEW q \in PlanIds, plans'[q] # seeding.table[q]
          PROVE  \E i \in 1..Len(rest) : rest[i] = q
        <3>1. q # p /\ plans[q] # seeding.table[q]
            BY <2>1, <2>2, <2>7 DEF CacheTypeInv, Limits
        <3>2. PICK i \in 1..Len(left) : left[i] = q
            BY <3>1 DEF CacheTypeInv
        <3>3. i # 1
            BY <2>1, <3>1, <3>2
        <3>4. i - 1 \in 1..Len(rest) /\ rest[i - 1] = left[i]
            <4> HIDE DEF left, p
            <4> QED BY <2>1, <2>4, <3>2, <3>3
        <3> QED BY <3>2, <3>4
    <2>8. UNCHANGED <<byId, list>> /\ met' \subseteq {"crossed", "undeleted"}
        BY <1>2 DEF UpsertPlan, CacheTypeInv
    <2>9. \E version \in DOMAIN Releases : seeding'.table = Releases[version]
        BY <2>6 DEF CacheTypeInv
    <2> HIDE DEF left, p
    <2> QED BY <2>3, <2>6, <2>7, <2>8, <2>9 DEF CacheTypeInv
<1>3. ASSUME NEW keys \in {"byId", "list"}, Deleted(keys), plans' = plans,
             byId' \in Limits, list' \in Limits, met' \subseteq {"crossed", "undeleted"}
      PROVE  CacheTypeInv'
    <2>1. /\ seeding' \in [table : Limits, left : Seq(PlanIds), pending : SUBSET {"byId", "list"}]
          /\ seeding'.table = seeding.table /\ seeding'.left = seeding.left
        BY <1>3 DEF CacheTypeInv, Deleted
    <2> QED BY <1>3, <2>1 DEF CacheTypeInv
<1>4. CASE DelList
    BY <1>0, <1>3, <1>4 DEF DelList, CacheTypeInv
<1>5. CASE DelByPattern
    <2>1. byId' \in Limits
        BY <1>0, <1>5 DEF DelByPattern, CacheTypeInv, Limits, Absent
    <2> QED BY <1>3, <1>5, <2>1 DEF DelByPattern, CacheTypeInv
<1>6. CASE ExpirePlan
    <2>1. byId' \in Limits /\ list' \in Limits
        BY <1>0, <1>6 DEF ExpirePlan, CacheTypeInv, Limits, Absent
    <2> QED BY <1>6, <2>1 DEF ExpirePlan, CacheTypeInv
<1> QED BY <1>1, <1>2, <1>4, <1>5, <1>6 DEF Seed

(* Every step keeps the type of the cache.                                 *)
LEMMA CacheTypeStep ==
    ASSUME PlansAreNumbers, CacheTypeInv, LookupTypeInv, [Next]_vars
    PROVE  CacheTypeInv'
<1>1. CASE UNCHANGED <<plans, byId, list, seeding, met>>
    BY <1>1 DEF CacheTypeInv
<1>2. CASE ReadPlans
    BY <1>1, <1>2, FillCacheType DEF ReadPlans, Read, Find
<1>3. CASE SeedPlans
    BY <1>3, SeedCacheType DEF SeedPlans
<1> QED BY <1>1, <1>2, <1>3
        DEF Next, vars, planVars, BeginPage, ReadSubscription, SubscriptionFails, LookUp, Get,
            ReadPlansFails, FindFails, ReadUsage, Build, StoreChange,
            SubscriptionEvent, CountMessage, TimePasses

(* What a GET leaves of the lookups.                                       *)
LEMMA GetMoves ==
    ASSUME PlansAreNumbers, CacheTypeInv, LookupTypeInv, NEW r \in Lookups,
           NEW key, Get(r, key),
           \/ r = "plan" /\ key \in PlanIds
           \/ r = "list" /\ key = AllPlans
    PROVE  /\ LookupTypeInv'
           /\ lookup'[r].at \in {"done", "miss"} /\ lookup'[r].key = key
           /\ lookup'[r].at = "done" => IsCached(key) /\ lookup'[r].got = Cached(key)
           /\ \A q \in Lookups \ {r} : lookup'[q] = lookup[q]
<1>1. PICK at, got :
          /\ at \in {"done", "miss"}
          /\ lookup' = [lookup EXCEPT ![r] = [at |-> at, key |-> key, got |-> got]]
          /\ at = "done" => IsCached(key) /\ got = Cached(key)
          /\ at = "miss" => got = NoPlan
    BY DEF Get
<1>2. got \in Int \cup Limits /\ (r = "plan" => got \in Int)
    <2>1. CASE at = "done"
        BY <1>1, <2>1 DEF Cached, IsCached, CacheTypeInv, Limits, PlansAreNumbers
    <2>2. CASE at = "miss"
        BY <1>1, <2>2 DEF NoPlan
    <2>3. at = "done" \/ at = "miss"
        BY <1>1
    <2> QED BY <2>1, <2>2, <2>3
<1>3. [at |-> at, key |-> key, got |-> got]
          \in [at : Places, key : PlanIds \cup {AllPlans}, got : Int \cup Limits]
    <2>1. at \in Places
        BY <1>1 DEF Places
    <2>2. key \in PlanIds \cup {AllPlans}
        OBVIOUS
    <2>3. got \in Int \cup Limits
        BY <1>2
    <2> QED BY <2>1, <2>2, <2>3, Zenon
<1>4. lookup' \in [Lookups -> [at : Places, key : PlanIds \cup {AllPlans}, got : Int \cup Limits]]
    BY <1>1, <1>3 DEF LookupTypeInv
<1>5. lookup'[r] = [at |-> at, key |-> key, got |-> got]
      /\ \A q \in Lookups \ {r} : lookup'[q] = lookup[q]
    BY <1>1 DEF LookupTypeInv
<1> QED BY <1>1, <1>2, <1>4, <1>5 DEF LookupTypeInv, Lookups, PlansAreNumbers

(* What a find, or a SET, leaves of the lookups.                           *)
LEMMA ReadMoves ==
    ASSUME PlansAreNumbers, CacheTypeInv, LookupTypeInv, NEW r \in Lookups,
           Read(r) \/ FindFails(r)
    PROVE  /\ LookupTypeInv'
           /\ lookup[r].at \in {"miss", "found"}
           /\ lookup'[r].at \in {"found", "done", "failed"}
           /\ Read(r) => lookup'[r].at # "failed"
           /\ lookup'[r].at = "done" => lookup[r].at = "found" /\ lookup'[r].got = lookup[r].got
           /\ lookup'[r].key = lookup[r].key
           /\ \A q \in Lookups \ {r} : lookup'[q] = lookup[q]
<1> DEFINE K == PlanIds \cup {AllPlans}
           V == Int \cup Limits
<1>1. ASSUME NEW at \in Places, NEW got \in V, Moves(r, at, got), lookup[r].at # "idle",
             at # "idle", r = "plan" => got \in Int, r = "list" /\ at = "found" => got \in Limits
      PROVE  /\ LookupTypeInv' /\ lookup'[r].at = at /\ lookup'[r].got = got
             /\ lookup'[r].key = lookup[r].key
             /\ \A q \in Lookups \ {r} : lookup'[q] = lookup[q]
    <2>1. lookup \in [Lookups -> [at : Places, key : K, got : V]]
        BY DEF LookupTypeInv
    <2> HIDE DEF K, V
    <2>2. Moved(K, V, r, at, got)
        BY <1>1, <2>1, MovesShape
    <2>3. V \cup {got} = V
        BY <1>1
    <2>4. lookup' \in [Lookups -> [at : Places, key : K, got : V]]
        BY <2>2, <2>3 DEF Moved
    <2> USE DEF K, V
    <2> QED BY <1>1, <2>2, <2>4 DEF Moved, LookupTypeInv, Lookups
<1>2. lookup[r].at # "idle" => /\ r = "plan" => lookup[r].key \in PlanIds
                               /\ r = "list" => lookup[r].key = AllPlans
    BY DEF LookupTypeInv
<1>3. CASE Find(r)
    <2> DEFINE got == Stored(lookup[r].key)
    <2>1. /\ got \in V /\ (r = "plan" => got \in Int) /\ (r = "list" => got \in Limits)
          /\ lookup[r].at = "miss" /\ Moves(r, "found", got)
        BY <1>2, <1>3 DEF Find, Stored, CacheTypeInv, Limits, PlansAreNumbers, Lookups
    <2> HIDE DEF got
    <2>2. "found" \in Places
        BY DEF Places
    <2> QED BY <1>1, <2>1, <2>2
<1>4. CASE FindFails(r) /\ ~Read(r)
    <2>1. lookup[r].at = "miss" /\ Moves(r, "failed", NoPlan)
        BY <1>4 DEF FindFails
    <2>2. "failed" \in Places /\ NoPlan \in V /\ NoPlan \in Int
        BY DEF Places, NoPlan
    <2> QED BY <1>1, <1>4, <2>1, <2>2
<1>5. CASE Fill(r)
    <2>1. lookup[r].at = "found" /\ Moves(r, "done", lookup[r].got)
        BY <1>5 DEF Fill
    <2>2. "done" \in Places /\ lookup[r].got \in V /\ (r = "plan" => lookup[r].got \in Int)
        BY DEF Places, LookupTypeInv
    <2> QED BY <1>1, <2>1, <2>2
<1> QED BY <1>3, <1>4, <1>5 DEF Read

(* Every step keeps the type of the lookups.                               *)
LEMMA LookupTypeStep ==
    ASSUME PlansAreNumbers, CacheTypeInv, LookupTypeInv, PageTypeInv, [Next]_vars
    PROVE  LookupTypeInv'
<1>1. CASE UNCHANGED lookup
    BY <1>1 DEF LookupTypeInv
<1>2. CASE lookup' = [r \in Lookups |-> Idle]
    BY <1>2 DEF LookupTypeInv, Idle, Places, Lookups, NoPlan
<1>3. CASE LookUp
    <2>1. page.sub.plan \in PlanIds
        BY <1>3 DEF LookUp, Reads, PageTypeInv, PageRecords, SubscriptionRecords
    <2> QED BY <1>3, <2>1, GetMoves DEF LookUp, Lookups
<1>4. CASE ReadPlans \/ ReadPlansFails
    BY <1>4, ReadMoves DEF ReadPlans, ReadPlansFails
<1> QED BY <1>1, <1>2, <1>3, <1>4
        DEF Next, vars, planVars, BeginPage, ReadSubscription, SubscriptionFails, ReadUsage,
            Build, StoreChange, SubscriptionEvent, CountMessage, TimePasses, SeedPlans, Seed,
            StartProcess, UpsertPlan, DelList, DelByPattern, ExpirePlan

--------------------------------------------------------------------------------
(* The types and the places of a page.                                     *)

(* The updates of a page one by one.                                       *)
LEMMA NewPage ==
    ASSUME NEW kind \in {"billing", "overview"}, NEW at
    PROVE  LET new == [NoPage EXCEPT !.kind = kind, !.at = at]
           IN  new = [kind |-> kind, at |-> at, sub |-> NoSubscription, usage |-> -1, failed |-> {}]
<1> DEFINE first == [NoPage EXCEPT !.kind = kind]
<1>1. first = [kind |-> kind, at |-> "idle", sub |-> NoSubscription, usage |-> -1, failed |-> {}]
    BY DEF NoPage
<1>2. [NoPage EXCEPT !.kind = kind, !.at = at] = [first EXCEPT !.at = at]
    OBVIOUS
<1> HIDE DEF first
<1>3. [first EXCEPT !.at = at] = [kind |-> kind, at |-> at, sub |-> NoSubscription,
                                  usage |-> -1, failed |-> {}]
    BY <1>1
<1> QED BY <1>2, <1>3

(* What is left of a page whose read was fatal.                            *)
LEMMA FatalPage ==
    ASSUME NEW p, p.kind \in {"billing", "overview"}, NEW read, IsFatal(p.kind, read)
    PROVE  Without(p, read) = [kind |-> p.kind, at |-> "error", sub |-> NoSubscription,
                               usage |-> -1, failed |-> {read}]
<1> DEFINE new == [NoPage EXCEPT !.kind = p.kind, !.at = "error"]
<1>1. new = [kind |-> p.kind, at |-> "error", sub |-> NoSubscription,
             usage |-> -1, failed |-> {}]
    BY NewPage
<1>2. Without(p, read) = [new EXCEPT !.failed = {read}]
    BY DEF Without
<1> HIDE DEF new
<1> QED BY <1>1, <1>2

(* A read that is lost.                                                    *)
LEMMA LostPage ==
    ASSUME page \in PageRecords, NEW read \in {"subscription", "plan", "list", "usage"}, Lost(read)
    PROVE  /\ page' \in PageRecords
           /\ page'.kind = page.kind
           /\ page.kind = "billing" =>
                page' = [kind |-> "billing", at |-> "error", sub |-> NoSubscription,
                         usage |-> -1, failed |-> {read}]
           /\ page.kind = "overview" =>
                page' = [kind |-> "overview", at |-> "reads", sub |-> page.sub,
                         usage |-> page.usage, failed |-> page.failed \cup {read}]
<1>1. CASE page.kind = "billing"
    <2>1. page' = [kind |-> "billing", at |-> "error", sub |-> NoSubscription,
                   usage |-> -1, failed |-> {read}]
        BY <1>1, FatalPage DEF Lost, IsFatal
    <2> QED BY <1>1, <2>1 DEF PageRecords, SubscriptionRecords
<1>2. CASE page.kind = "overview"
    <2> DEFINE new == [page EXCEPT !.failed = @ \cup {read}]
    <2>1. page' = [new EXCEPT !.at = "reads"]
        BY <1>2 DEF Lost, Without, IsFatal
    <2>2. new = [kind |-> page.kind, at |-> page.at, sub |-> page.sub, usage |-> page.usage,
                 failed |-> page.failed \cup {read}]
        BY DEF PageRecords
    <2>3. page' = [kind |-> "overview", at |-> "reads", sub |-> page.sub, usage |-> page.usage,
                   failed |-> page.failed \cup {read}]
        BY <1>2, <2>1, <2>2
    <2> HIDE DEF new
    <2> QED BY <1>2, <2>3 DEF PageRecords
<1> QED BY <1>1, <1>2 DEF PageRecords

(* A page that begins, or does not get to the store.                       *)
LEMMA BeginsPage ==
    ASSUME BeginPage
    PROVE  \E kind \in {"billing", "overview"} :
               \/ page' = [kind |-> kind, at |-> "subscription", sub |-> NoSubscription,
                           usage |-> -1, failed |-> {}]
               \/ page' = [kind |-> kind, at |-> "error", sub |-> NoSubscription,
                           usage |-> -1, failed |-> {"store"}]
<1>1. PICK kind \in {"billing", "overview"} :
          \/ page' = [[NoPage EXCEPT !.kind = kind] EXCEPT !.at = "subscription"]
          \/ page' = Without([NoPage EXCEPT !.kind = kind], "store")
    BY DEF BeginPage
<1>2. [NoPage EXCEPT !.kind = kind].kind = kind
    BY DEF NoPage
<1>3. CASE page' = [[NoPage EXCEPT !.kind = kind] EXCEPT !.at = "subscription"]
    BY <1>3, NewPage
<1>4. CASE page' = Without([NoPage EXCEPT !.kind = kind], "store")
    <2> DEFINE begun == [NoPage EXCEPT !.kind = kind]
    <2>1. begun.kind = kind /\ IsFatal(begun.kind, "store")
        BY <1>2 DEF IsFatal
    <2> HIDE DEF begun
    <2>2. Without(begun, "store") = [kind |-> begun.kind, at |-> "error", sub |-> NoSubscription,
                                     usage |-> -1, failed |-> {"store"}]
        BY <2>1, FatalPage
    <2>3. page' = Without(begun, "store")
        BY <1>4 DEF begun
    <2> QED BY <2>1, <2>2, <2>3
<1> QED BY <1>1, <1>3, <1>4

(* A page that is built.                                                   *)
LEMMA BuildsPage ==
    ASSUME page \in PageRecords, Build
    PROVE  page' = [kind |-> page.kind, at |-> "built", sub |-> NoSubscription,
                    usage |-> -1, failed |-> page.failed]
<1> DEFINE new == [NoPage EXCEPT !.kind = page.kind, !.at = "built"]
<1>1. new = [kind |-> page.kind, at |-> "built", sub |-> NoSubscription,
              usage |-> -1, failed |-> {}]
    BY NewPage DEF PageRecords
<1>2. page' = [new EXCEPT !.failed = page.failed]
    BY DEF Build
<1> HIDE DEF new
<1> QED BY <1>1, <1>2

(* What a page has read of the subscription.                               *)
LEMMA ReadsPage ==
    ASSUME page \in PageRecords, sub \in SubscriptionRecords, ReadSubscription
    PROVE  /\ page' \in PageRecords /\ page'.kind = page.kind
           /\ page'.failed = page.failed /\ page'.usage = page.usage
           /\ \/ /\ page'.at = "error" /\ page'.sub = page.sub
                 /\ page.kind = "billing"
              \/ /\ page'.at = "reads" /\ page'.sub = sub
                 /\ page.kind = "billing" => sub # NoSubscription
<1>1. CASE sub = NoSubscription /\ page.kind = "billing"
    BY <1>1 DEF ReadSubscription, PageRecords
<1>2. CASE ~(sub = NoSubscription /\ page.kind = "billing")
    <2> DEFINE first == [page EXCEPT !.at = "reads"]
    <2>1. first \in PageRecords /\ first.at = "reads" /\ first.kind = page.kind
          /\ first.failed = page.failed /\ first.usage = page.usage
        BY DEF PageRecords
    <2>2. page' = [first EXCEPT !.sub = sub]
        BY <1>2 DEF ReadSubscription
    <2> HIDE DEF first
    <2> QED BY <1>2, <2>1, <2>2 DEF PageRecords
<1> QED BY <1>1, <1>2

(* And of the usage.                                                       *)
LEMMA UsagePage ==
    ASSUME page \in PageRecords, used \in Nat, ReadUsage
    PROVE  \/ Lost("usage")
           \/ /\ page' \in PageRecords /\ page'.usage = used
              /\ page'.kind = page.kind /\ page'.at = page.at
              /\ page'.sub = page.sub /\ page'.failed = page.failed
BY DEF ReadUsage, PageRecords

(* A page keeps its type.                                                  *)
LEMMA PageTypeStep ==
    ASSUME PlansAreNumbers, StoreInv, LookupTypeInv, PageTypeInv, [Next]_vars
    PROVE  PageTypeInv'
<1>0. /\ now \in Nat /\ Period \in Nat /\ NoSubscription.ends = 0
      /\ NoSubscription \in SubscriptionRecords
    BY DEF StoreInv, PlansAreNumbers, SubscriptionRecords, NoSubscription
<1>1. ASSUME UNCHANGED now, page' \in PageRecords,
             page'.sub \in {page.sub, NoSubscription, sub},
             shown' \in {shown, NothingShown}
      PROVE  PageTypeInv'
    BY <1>0, <1>1 DEF PageTypeInv, StoreInv, NothingShown
<1>2. CASE BeginPage
    <2>1. PICK kind \in {"billing", "overview"} :
               \/ page' = [kind |-> kind, at |-> "subscription", sub |-> NoSubscription,
                           usage |-> -1, failed |-> {}]
               \/ page' = [kind |-> kind, at |-> "error", sub |-> NoSubscription,
                           usage |-> -1, failed |-> {"store"}]
        BY <1>2, BeginsPage
    <2> QED BY <1>0, <1>1, <1>2, <2>1 DEF BeginPage, storeVars, PageRecords
<1>3. CASE ReadSubscription
    BY <1>1, <1>3, ReadsPage DEF ReadSubscription, storeVars, PageTypeInv, StoreInv
<1>4. ASSUME NEW read \in {"subscription", "plan", "list", "usage"}, Lost(read),
             UNCHANGED <<now, shown>>
      PROVE  PageTypeInv'
    BY <1>1, <1>4, LostPage DEF PageTypeInv, PageRecords
<1>5. CASE SubscriptionFails
    BY <1>4, <1>5 DEF SubscriptionFails, storeVars
<1>6. CASE UNCHANGED <<now, page, shown>>
    BY <1>1, <1>6 DEF PageTypeInv
<1>7. CASE ReadPlansFails
    BY <1>4, <1>6, <1>7 DEF ReadPlansFails, Lookups, storeVars
<1>8. CASE ReadUsage
    BY <1>1, <1>4, <1>8, UsagePage DEF ReadUsage, PageTypeInv, StoreInv, storeVars
<1>9. CASE Build
    <2>1. page' \in PageRecords /\ page'.sub = NoSubscription /\ now' = now
        BY <1>0, <1>9, BuildsPage DEF PageTypeInv, PageRecords, Build, storeVars
    <2>2. AtLeast0(page.usage) \in Nat /\ PlanLimit \in Int
        BY DEF AtLeast0, PlanLimit, PageTypeInv, PageRecords, LookupTypeInv
    <2>3. Shown.percent \in 0..100
        BY <2>2, PercentBound DEF Shown
    <2>4. Shown.days \in 0..Period
        BY <1>0, DaysBound DEF Shown, PageTypeInv, PageRecords, SubscriptionRecords
    <2> QED BY <1>0, <1>9, <2>1, <2>3, <2>4 DEF PageTypeInv, Build
<1>10. CASE TimePasses
    <2>1. page.sub.ends \in Int /\ page.sub.ends <= now + Period
        BY <1>0 DEF PageTypeInv, PageRecords, SubscriptionRecords
    <2> QED BY <1>0, <1>10, <2>1 DEF TimePasses, StoreChange, Change, PageTypeInv
<1> QED BY <1>2, <1>3, <1>5, <1>6, <1>7, <1>8, <1>9, <1>10
        DEF Next, vars, storeVars, LookUp, ReadPlans, StoreChange, Change, SubscriptionEvent,
            CountMessage, SeedPlans

(* A page keeps to its places.                                             *)
LEMMA PlaceStep ==
    ASSUME PlansAreNumbers, StoreInv, CacheTypeInv, LookupTypeInv, PageTypeInv, PlaceInv,
           [Next]_vars
    PROVE  PlaceInv'
<1>0. page \in PageRecords /\ sub \in SubscriptionRecords /\ used \in Nat
    BY DEF PageTypeInv, StoreInv
<1>1. CASE UNCHANGED <<page, lookup>>
    BY <1>1 DEF PlaceInv
<1>2. CASE BeginPage
    <2>1. PICK kind \in {"billing", "overview"} :
               \/ page' = [kind |-> kind, at |-> "subscription", sub |-> NoSubscription,
                           usage |-> -1, failed |-> {}]
               \/ page' = [kind |-> kind, at |-> "error", sub |-> NoSubscription,
                           usage |-> -1, failed |-> {"store"}]
        BY <1>2, BeginsPage
    <2>2. \A r \in Lookups : lookup'[r].at = "idle"
        BY <1>2 DEF BeginPage, Idle
    <2> QED BY <2>1, <2>2 DEF PlaceInv
<1>3. CASE ReadSubscription
    <2>1. page.at = "subscription" /\ lookup' = lookup
        BY <1>3 DEF ReadSubscription, planVars
    <2>2. "plan" \in Lookups
        BY DEF Lookups
    <2> QED BY <1>0, <1>3, <2>1, <2>2, ReadsPage DEF PlaceInv
<1>4. CASE SubscriptionFails
    <2>1. page.at = "subscription" /\ lookup' = lookup /\ Lost("subscription")
        BY <1>4 DEF SubscriptionFails
    <2>2. "plan" \in Lookups
        BY DEF Lookups
    <2> QED BY <1>0, <2>1, <2>2, LostPage DEF PlaceInv, PageRecords
<1>5. CASE LookUp
    <2>1. page' = page /\ page.at = "reads" /\ page.sub # NoSubscription
        BY <1>5 DEF LookUp, Reads
    <2>2. page.sub.plan \in PlanIds
        BY <1>0, <2>1 DEF PageRecords, SubscriptionRecords
    <2>3. "plan" \in Lookups /\ "list" \in Lookups
        BY DEF Lookups
    <2>4. CASE Get("plan", page.sub.plan)
        <3>1. /\ lookup'["plan"].at \in {"done", "miss"}
              /\ lookup'["plan"].key = page.sub.plan
              /\ \A q \in Lookups \ {"plan"} : lookup'[q] = lookup[q]
            BY <2>2, <2>3, <2>4, GetMoves
        <3> QED BY <2>1, <2>3, <3>1 DEF PlaceInv
    <2>5. CASE Get("list", AllPlans)
        <3>1. /\ lookup'["list"].at \in {"done", "miss"}
              /\ \A q \in Lookups \ {"list"} : lookup'[q] = lookup[q]
            BY <2>3, <2>5, GetMoves
        <3> QED BY <2>1, <2>3, <3>1 DEF PlaceInv
    <2> QED BY <1>5, <2>4, <2>5 DEF LookUp
<1>6. ASSUME NEW r \in Lookups,
             \/ Read(r) /\ UNCHANGED page
             \/ FindFails(r) /\ IF page.at = "reads" THEN Lost(r) ELSE UNCHANGED page
      PROVE  PlaceInv'
    <2>1. /\ lookup[r].at \in {"miss", "found"}
          /\ Read(r) => lookup'[r].at # "failed"
          /\ lookup'[r].key = lookup[r].key
          /\ \A q \in Lookups \ {r} : lookup'[q] = lookup[q]
        BY <1>6, ReadMoves
    <2>2. "plan" \in Lookups /\ r \in {"plan", "list"}
        BY DEF Lookups
    <2>3. CASE page.at = "reads" /\ Lost(r)
        <3>1. page.sub # NoSubscription
            BY <2>1, <2>3 DEF PlaceInv
        <3>2. CASE page.kind = "billing"
            BY <1>0, <2>2, <2>3, <3>2, LostPage DEF PlaceInv
        <3>3. CASE page.kind = "overview"
            BY <1>0, <2>1, <2>2, <2>3, <3>1, <3>3, LostPage DEF PlaceInv
        <3> QED BY <1>0, <3>2, <3>3 DEF PageRecords
    <2>4. CASE page' = page /\ (Read(r) \/ page.at # "reads")
        BY <2>1, <2>2, <2>4 DEF PlaceInv
    <2> QED BY <1>6, <2>3, <2>4
<1>7. CASE ReadPlans
    BY <1>6, <1>7 DEF ReadPlans
<1>8. CASE ReadPlansFails
    BY <1>6, <1>8 DEF ReadPlansFails
<1>9. CASE ReadUsage
    <2>1. page.at = "reads" /\ page.sub # NoSubscription /\ lookup' = lookup
        BY <1>9 DEF ReadUsage, Reads
    <2>2. CASE Lost("usage")
        BY <1>0, <2>1, <2>2, LostPage DEF PlaceInv, PageRecords
    <2>3. CASE ~Lost("usage")
        BY <1>0, <1>9, <2>1, <2>3, UsagePage DEF PlaceInv
    <2> QED BY <2>2, <2>3
<1>10. CASE Build
    <2>1. \A r \in Lookups : lookup'[r].at = "idle"
        BY <1>10 DEF Build, Idle
    <2>2. page.at = "reads"
        BY <1>10 DEF Build
    <2> QED BY <1>0, <1>10, <2>1, <2>2, BuildsPage DEF PlaceInv
<1> QED BY <1>1, <1>2, <1>3, <1>4, <1>5, <1>7, <1>8, <1>9, <1>10
        DEF Next, vars, planVars, StoreChange, Change, SubscriptionEvent, CountMessage,
            TimePasses, SeedPlans, Seed, StartProcess, UpsertPlan, DelList, DelByPattern,
            ExpirePlan

--------------------------------------------------------------------------------
(* What a page has read and what it shows are of now.                      *)

(* A copy is of now, once the plans are settled.                           *)
LEMMA CopiesAreOfNow ==
    ASSUME PlanInv, met = {}, ~Seeding, NEW key \in PlanIds \cup {AllPlans}, IsCached(key)
    PROVE  Cached(key) = Stored(key)
BY DEF PlanInv, FreshInv, Seeding, IsCached, Cached, Stored

(* So is the plan that decides about a chat.                               *)
LEMMA LimitIsOfNow ==
    ASSUME PlanInv, met = {}, ~Seeding, sub.plan \in PlanIds, AllPlans \notin PlanIds
    PROVE  LimitNow = plans[sub.plan]
BY CopiesAreOfNow DEF LimitNow, Cached, Stored

(* A step that is still moves nothing that a page depends on.              *)
LEMMA StillStep ==
    ASSUME [Next]_vars, Still', ~BeginPage
    PROVE  /\ Still /\ UNCHANGED <<plans, seeding, met, sub, used, now, calm>>
           /\ \/ ReadSubscription \/ SubscriptionFails \/ LookUp \/ ReadPlans \/ ReadPlansFails
              \/ ReadUsage \/ Build \/ UNCHANGED vars
BY DEF Next, vars, planVars, storeVars, Still, Seeding, ReadSubscription, SubscriptionFails,
       LookUp, Get, ReadPlans, Read, Find, Fill, ReadPlansFails, FindFails, ReadUsage, Build,
       StoreChange, Change, SubscriptionEvent, CountMessage, TimePasses, SeedPlans

(* What a page has read stays what there is.                               *)
LEMMA ReadStep ==
    ASSUME PlansAreNumbers, PageInv, [Next]_vars
    PROVE  ReadInv'
<1> SUFFICES ASSUME page'.at = "reads", Still' PROVE ReadInv'
    BY DEF ReadInv
<1>0. /\ page \in PageRecords /\ sub \in SubscriptionRecords /\ used \in Nat
      /\ PlanInv /\ CacheTypeInv /\ LookupTypeInv /\ PlaceInv /\ ReadInv
    BY DEF PageInv, PageTypeInv, StoreInv
<1>1. ~BeginPage
    BY BeginsPage
<1>2. Still /\ UNCHANGED <<plans, seeding, met, sub, used, now, calm>>
    BY <1>1, StillStep
<1>3. \A key : Stored(key)' = Stored(key)
    BY <1>2 DEF Stored
<1>4. CASE ReadSubscription
    <2>1. page.at = "subscription" /\ lookup' = lookup
        BY <1>4 DEF ReadSubscription, planVars
    <2>2. page.failed = {} /\ page.usage = -1 /\ \A r \in Lookups : lookup[r].at = "idle"
        BY <1>0, <2>1 DEF PlaceInv
    <2> QED BY <1>0, <1>2, <1>4, <2>1, <2>2, ReadsPage DEF ReadInv
<1>5. CASE SubscriptionFails
    <2>1. page.at = "subscription" /\ lookup' = lookup /\ Lost("subscription")
        BY <1>5 DEF SubscriptionFails
    <2>2. /\ page.sub = NoSubscription /\ page.usage = -1
          /\ \A r \in Lookups : lookup[r].at = "idle"
        BY <1>0, <2>1 DEF PlaceInv
    <2>3. page.kind = "overview"
        BY <1>0, <2>1, LostPage DEF PageRecords
    <2> QED BY <1>0, <2>1, <2>2, <2>3, LostPage DEF ReadInv
<1>6. ASSUME page' = page, NEW r \in Lookups,
             \A q \in Lookups \ {r} : lookup'[q] = lookup[q],
             lookup'[r].at = "done" => lookup'[r].got = Stored(lookup'[r].key)
      PROVE  ReadInv'
    <2>1. page.at = "reads"
        BY <1>6
    <2> QED BY <1>0, <1>2, <1>3, <1>6, <2>1 DEF ReadInv
<1>7. CASE LookUp
    <2>1. page' = page /\ page.sub.plan \in PlanIds
        BY <1>0, <1>7 DEF LookUp, Reads, PageRecords, SubscriptionRecords
    <2>2. "plan" \in Lookups /\ "list" \in Lookups
        BY DEF Lookups
    <2>3. CASE Get("plan", page.sub.plan)
        <3>1. /\ lookup'["plan"].key = page.sub.plan
              /\ lookup'["plan"].at = "done" =>
                     IsCached(page.sub.plan) /\ lookup'["plan"].got = Cached(page.sub.plan)
              /\ \A q \in Lookups \ {"plan"} : lookup'[q] = lookup[q]
            BY <1>0, <2>1, <2>2, <2>3, GetMoves
        <3>2. IsCached(page.sub.plan) => Cached(page.sub.plan) = Stored(page.sub.plan)
            BY <1>0, <1>2, <2>1, CopiesAreOfNow DEF Still
        <3> QED BY <1>6, <2>1, <2>2, <3>1, <3>2
    <2>4. CASE Get("list", AllPlans)
        <3>1. /\ lookup'["list"].key = AllPlans
              /\ lookup'["list"].at = "done" =>
                     IsCached(AllPlans) /\ lookup'["list"].got = Cached(AllPlans)
              /\ \A q \in Lookups \ {"list"} : lookup'[q] = lookup[q]
            BY <1>0, <2>2, <2>4, GetMoves
        <3>2. IsCached(AllPlans) => Cached(AllPlans) = Stored(AllPlans)
            BY <1>0, <1>2, CopiesAreOfNow DEF Still
        <3> QED BY <1>6, <2>1, <2>2, <3>1, <3>2
    <2> QED BY <1>7, <2>3, <2>4 DEF LookUp
<1>8. ASSUME NEW r \in Lookups, Read(r) \/ FindFails(r)
      PROVE  /\ \A q \in Lookups \ {r} : lookup'[q] = lookup[q]
             /\ lookup'[r].at = "done" => lookup'[r].got = Stored(lookup'[r].key)
    <2>1. met = {}
        BY <1>2 DEF Still
    <2> QED BY <1>0, <1>8, <2>1, ReadMoves DEF PlanInv, FreshInv
<1>9. CASE ReadPlans
    BY <1>6, <1>8, <1>9 DEF ReadPlans
<1>10. CASE ReadPlansFails
    <2>1. PICK r \in Lookups :
              FindFails(r) /\ IF page.at = "reads" THEN Lost(r) ELSE UNCHANGED page
        BY <1>10 DEF ReadPlansFails
    <2>2. CASE page.at = "reads" /\ Lost(r)
        <3>1. r \in {"plan", "list"}
            BY DEF Lookups
        <3>2. page.kind = "overview"
            BY <1>0, <2>2, <3>1, LostPage DEF PageRecords
        <3>3. /\ page'.sub = page.sub /\ page'.usage = page.usage
              /\ "subscription" \in page'.failed <=> "subscription" \in page.failed
            BY <1>0, <2>2, <3>1, <3>2, LostPage
        <3>4. /\ \A q \in Lookups \ {r} : lookup'[q] = lookup[q]
              /\ lookup'[r].at = "done" => lookup'[r].got = Stored(lookup'[r].key)
            BY <1>8, <2>1
        <3> QED BY <1>0, <1>2, <1>3, <2>2, <3>3, <3>4 DEF ReadInv
    <2>3. CASE page' = page
        BY <1>6, <1>8, <2>1, <2>3
    <2> QED BY <2>1, <2>2, <2>3
<1>11. CASE ReadUsage
    <2>1. page.at = "reads" /\ lookup' = lookup
        BY <1>11 DEF ReadUsage, Reads
    <2>2. CASE Lost("usage")
        <3>1. page.kind = "overview"
            BY <1>0, <2>2, LostPage DEF PageRecords
        <3>2. /\ page'.sub = page.sub /\ page'.usage = page.usage
              /\ "subscription" \in page'.failed <=> "subscription" \in page.failed
            BY <1>0, <2>2, <3>1, LostPage
        <3> QED BY <1>0, <1>2, <1>3, <2>1, <3>2 DEF ReadInv
    <2>3. CASE ~Lost("usage")
        <3>1. page'.usage = used /\ page'.sub = page.sub /\ page'.failed = page.failed
            BY <1>0, <1>11, <2>3, UsagePage
        <3> QED BY <1>0, <1>2, <1>3, <2>1, <3>1 DEF ReadInv
    <2> QED BY <2>2, <2>3
<1>12. CASE Build
    BY <1>0, <1>12, BuildsPage
<1>13. CASE UNCHANGED vars
    BY <1>0, <1>2, <1>3, <1>13 DEF ReadInv, vars, planVars
<1> QED BY <1>1, <1>4, <1>5, <1>7, <1>9, <1>10, <1>11, <1>12, <1>13, StillStep

(* A page is built from what it has read.                                  *)
LEMMA BuildShows ==
    ASSUME PlansAreNumbers, PageInv, Build, Still, Still', UNCHANGED <<plans, sub, used, now>>
    PROVE  ShownInv'
<1>0. /\ page \in PageRecords /\ sub \in SubscriptionRecords /\ used \in Nat
      /\ PlaceInv /\ ReadInv /\ page.at = "reads"
    BY DEF PageInv, PageTypeInv, StoreInv, Build
<1>1. /\ page' = [kind |-> page.kind, at |-> "built", sub |-> NoSubscription,
                  usage |-> -1, failed |-> page.failed]
      /\ shown' = Shown
    BY <1>0, BuildsPage DEF Build
<1>2. /\ page.sub = IF "subscription" \in page.failed THEN NoSubscription ELSE sub
      /\ page.usage \in {-1, used}
      /\ \A r \in Lookups : lookup[r].at = "done" => lookup[r].got = Stored(lookup[r].key)
    BY <1>0 DEF ReadInv
<1>3. shown'.access = ("subscription" \notin page.failed /\ HasAccess(sub))
    BY <1>1, <1>2 DEF Shown, ShowsAccess, HasAccess, Accessible, NoSubscription
<1>4. ASSUME page.failed = {}, sub # NoSubscription
      PROVE  /\ shown'.limit = plans[sub.plan]
             /\ shown'.remaining = MessagesRemaining(plans[sub.plan], used)
             /\ shown'.percent = CalculateUsagePercent(used, plans[sub.plan])
    <2>1. page.sub = sub /\ Reads
        BY <1>0, <1>2, <1>4 DEF Reads
    <2>2. page.usage = used /\ lookup["plan"].at = "done"
        BY <1>0, <1>2, <1>4, <2>1 DEF Build, PlaceInv, Lookups
    <2>3. /\ lookup["plan"].key = sub.plan /\ sub.plan # AllPlans
        BY <1>0, <1>4, <2>1, <2>2 DEF PlaceInv, SubscriptionRecords, PlansAreNumbers
    <2>4. PlanLimit = plans[sub.plan]
        BY <1>2, <2>2, <2>3 DEF PlanLimit, Stored, Lookups
    <2>5. AtLeast0(page.usage) = used
        BY <1>0, <2>2 DEF AtLeast0
    <2> QED BY <1>1, <2>4, <2>5 DEF Shown
<1>5. ASSUME page.kind = "billing"
      PROVE  /\ sub # NoSubscription
             /\ shown'.days = DaysRemaining(sub.ends)
             /\ shown'.listed = plans[sub.plan]
    <2>1. page.failed = {} /\ page.sub = sub /\ sub # NoSubscription /\ Reads
        BY <1>0, <1>2, <1>5 DEF PlaceInv, Reads
    <2>2. lookup["list"].at = "done" /\ lookup["list"].key = AllPlans
        BY <1>5, <2>1 DEF Build, PageInv, LookupTypeInv
    <2>3. lookup["list"].got = plans
        BY <1>2, <2>2 DEF Stored, Lookups
    <2> QED BY <1>1, <1>5, <2>1, <2>3 DEF Shown
<1>6. HasAccess(sub)' = HasAccess(sub) /\ DaysRemaining(sub.ends)' = DaysRemaining(sub.ends)
    BY DEF HasAccess, DaysRemaining
<1> QED BY <1>1, <1>3, <1>4, <1>5, <1>6 DEF ShownInv

(* What is shown stays what there is.                                      *)
LEMMA ShownStep ==
    ASSUME PlansAreNumbers, PageInv, [Next]_vars
    PROVE  ShownInv'
<1> SUFFICES ASSUME page'.at = "built", Still' PROVE ShownInv'
    BY DEF ShownInv, Settled, Still
<1>0. page \in PageRecords /\ sub \in SubscriptionRecords /\ used \in Nat /\ PlaceInv /\ ShownInv
    BY DEF PageInv, PageTypeInv, StoreInv
<1>1. ~BeginPage
    BY BeginsPage
<1>2. Still /\ UNCHANGED <<plans, seeding, met, sub, used, now, calm>>
    BY <1>1, StillStep
<1>3. ASSUME UNCHANGED <<page, shown>> PROVE ShownInv'
    <2>1. Settled
        BY <1>2, <1>3 DEF Settled, Still
    <2> QED BY <1>0, <1>2, <1>3, <2>1 DEF ShownInv, HasAccess, DaysRemaining
<1>4. CASE Build
    BY <1>2, <1>4, BuildShows
<1>5. CASE ReadSubscription
    BY <1>0, <1>5, ReadsPage
<1>6. ASSUME NEW read \in {"subscription", "plan", "list", "usage"}, Lost(read) PROVE FALSE
    BY <1>0, <1>6, LostPage DEF PageRecords
<1>7. CASE ReadUsage
    <2>1. page'.at = page.at
        BY <1>0, <1>6, <1>7, UsagePage
    <2> QED BY <1>7, <2>1 DEF ReadUsage, Reads
<1> QED BY <1>1, <1>3, <1>4, <1>5, <1>6, <1>7, StillStep
        DEF SubscriptionFails, LookUp, ReadPlans, ReadPlansFails, Lookups, vars

(* At the start no page is shown.                                          *)
LEMMA PageInvInit == PlansAreNumbers /\ Init => PageInv
<1> SUFFICES ASSUME PlansAreNumbers, Init PROVE PageInv
    OBVIOUS
<1> USE DEF Init, PlansInit
<1>1. PlanInv
    BY PlanInvInit DEF PlansAreNumbers, Limits
<1>2. PlanSeeds[1] \in PlanIds
    BY DEF PlansAreNumbers, PlanIds
<1>3. StoreInv
    BY <1>2 DEF StoreInv, SubscriptionRecords, Statuses, NoSubscription, PlansAreNumbers
<1>4. CacheTypeInv
    <2>1. NoList \in Limits /\ <<>> \in Seq(PlanIds)
        BY DEF NoList, Absent, Limits
    <2> QED BY <2>1 DEF CacheTypeInv, PlansAreNumbers
<1>5. LookupTypeInv
    BY DEF LookupTypeInv, Idle, Places, Lookups, NoPlan
<1>6. PageTypeInv
    <2>1. NoPage \in PageRecords /\ NoPage.sub.ends = 0
        BY DEF NoPage, PageRecords, SubscriptionRecords, NoSubscription
    <2> QED BY <2>1 DEF PageTypeInv, NothingShown, PlansAreNumbers
<1>7. PlaceInv /\ ReadInv /\ ShownInv
    BY DEF PlaceInv, ReadInv, ShownInv, Settled, NoPage, Idle
<1> QED BY <1>1, <1>3, <1>4, <1>5, <1>6, <1>7 DEF PageInv

(* And every step keeps all this.                                          *)
LEMMA PageInvStep == PlansAreNumbers /\ PageInv /\ [Next]_vars => PageInv'
<1> SUFFICES ASSUME PlansAreNumbers, PageInv, [Next]_vars PROVE PageInv'
    OBVIOUS
<1>1. /\ PlanInv' /\ StoreInv' /\ CacheTypeInv' /\ LookupTypeInv' /\ PageTypeInv'
      /\ PlaceInv'
    BY PlanInvStep, StoreStep, CacheTypeStep, LookupTypeStep, PageTypeStep, PlaceStep
       DEF PageInv
<1>2. ReadInv' /\ ShownInv'
    BY ReadStep, ShownStep
<1> QED BY <1>1, <1>2 DEF PageInv

(* A page that tells what there is agrees with what decides about a chat.  *)
LEMMA PageInvAgrees == PlansAreNumbers /\ PageInv => PagesAgree
<1> SUFFICES ASSUME PlansAreNumbers, PageInv PROVE PagesAgree
    OBVIOUS
<1>0. /\ page \in PageRecords /\ used \in Nat /\ now \in Nat /\ Period \in Nat
      /\ PlaceInv /\ ShownInv /\ PlanInv
      /\ sub \in SubscriptionRecords /\ sub.ends <= now + Period
    BY DEF PageInv, PageTypeInv, StoreInv, PlansAreNumbers
<1>1. ASSUME sub # NoSubscription
      PROVE  /\ plans[sub.plan] \in Int /\ sub.ends \in Int
             /\ Settled => LimitNow = plans[sub.plan]
    <2>1. sub.plan \in PlanIds /\ sub.ends \in Int
        BY <1>0, <1>1 DEF SubscriptionRecords
    <2> QED BY <1>0, <2>1, LimitIsOfNow
            DEF Settled, PageInv, CacheTypeInv, Limits, PlansAreNumbers
<1>2. HasAccess(sub) => sub # NoSubscription
    BY DEF HasAccess, NoSubscription, Accessible
<1>3. Settled => (shown.access <=> "subscription" \notin page.failed /\ HasAccess(sub))
    BY <1>0, Zenon DEF ShownInv
<1>4. ASSUME Settled, page.kind = "billing"
      PROVE  /\ (shown.access /\ shown.remaining # 0) = ChatAllowed
             /\ shown.access => shown.days > 0
             /\ shown.listed = shown.limit
    <2>1. /\ page.failed = {} /\ sub # NoSubscription
          /\ shown.days = DaysRemaining(sub.ends)
          /\ shown.listed = plans[sub.plan] /\ shown.limit = plans[sub.plan]
          /\ shown.remaining = MessagesRemaining(plans[sub.plan], used)
        BY <1>0, <1>4 DEF PlaceInv, ShownInv, Settled
    <2>2. shown.access <=> HasAccess(sub)
        BY <1>3, <1>4, <2>1
    <2>3. (shown.remaining # 0) = (LimitNow = Unlimited \/ used < LimitNow)
        BY <1>0, <1>1, <1>4, <2>1 DEF MessagesRemaining, AtLeast0, Unlimited
    <2>4. HasAccess(sub) => DaysRemaining(sub.ends) > 0
        BY <1>0, <1>1, <2>1, DaysBound DEF HasAccess
    <2> QED BY <2>1, <2>2, <2>3, <2>4 DEF ChatAllowed
<1>5. ASSUME Settled, page.failed = {}, shown.access, ~ChatAllowed, shown.limit > 0
      PROVE  shown.percent = 100
    <2>1. HasAccess(sub) /\ sub # NoSubscription
        BY <1>0, <1>2, <1>5 DEF ShownInv
    <2>2. /\ shown.limit = plans[sub.plan] /\ LimitNow = plans[sub.plan]
          /\ shown.percent = CalculateUsagePercent(used, plans[sub.plan])
        BY <1>0, <1>1, <1>5, <2>1 DEF ShownInv
    <2>3. used >= plans[sub.plan]
        BY <1>0, <1>1, <1>5, <2>1, <2>2 DEF ChatAllowed
    <2> QED BY <1>0, <1>1, <1>5, <2>1, <2>2, <2>3 DEF CalculateUsagePercent
<1>6. BillingAgrees
    BY <1>4 DEF BillingAgrees
<1>7. OverviewAgrees
    <2>1. page.kind = "overview" /\ page.at = "error" => page.failed = {"store"}
        BY <1>0 DEF PlaceInv
    <2>2. ASSUME Settled
          PROVE  /\ shown.access => HasAccess(sub)
                 /\ "subscription" \notin page.failed => shown.access = HasAccess(sub)
        <3>1. shown.access = ("subscription" \notin page.failed /\ HasAccess(sub))
            BY <1>0, <2>2, Zenon DEF ShownInv
        <3>2. "subscription" \notin page.failed =>
                  ("subscription" \notin page.failed /\ HasAccess(sub)) = HasAccess(sub)
            BY DEF HasAccess
        <3> QED BY <3>1, <3>2, Zenon
    <2> QED BY <1>5, <2>1, <2>2 DEF OverviewAgrees
<1> QED BY <1>6, <1>7 DEF PagesAgree

(* Its types are those of the code.                                        *)
LEMMA PageInvTypes == PlansAreNumbers /\ PageInv => DashboardTypeOK
<1> SUFFICES ASSUME PlansAreNumbers, PageInv PROVE DashboardTypeOK
    OBVIOUS
<1> USE DEF PageInv
<1>1. Seeding \/ \E version \in DOMAIN Releases : plans = Releases[version]
    <2> SUFFICES ASSUME ~Seeding PROVE \E version \in DOMAIN Releases : plans = Releases[version]
        OBVIOUS
    <2>1. PICK version \in DOMAIN Releases : seeding.table = Releases[version]
        BY DEF CacheTypeInv
    <2>2. \A p \in PlanIds : plans[p] = seeding.table[p]
        BY DEF CacheTypeInv, Seeding
    <2>3. plans \in Limits /\ seeding.table \in Limits
        BY DEF CacheTypeInv
    <2>4. plans = seeding.table
        BY <2>2, <2>3 DEF Limits
    <2> QED BY <2>1, <2>4
<1>2. sub = NoSubscription \/ (sub.status \in Statuses /\ sub.plan \in PlanIds)
    BY DEF StoreInv, SubscriptionRecords
<1>3. page.at \in {"idle", "subscription", "reads", "built", "error"}
    BY DEF PageTypeInv, PageRecords
<1>4. \A r \in Lookups : lookup[r].at \in {"idle", "miss", "found", "done", "failed"}
    BY DEF LookupTypeInv, Places
<1> QED BY <1>1, <1>2, <1>3, <1>4 DEF DashboardTypeOK, PageTypeInv, CacheTypeInv

(* A billing page promises a chat exactly when the guard of the chat route *)
(* lets it through, and an overview never promises access that the store   *)
(* does not have and only fails with the read of the store                 *)
(* (dashboard.service.ts), for all plans and periods: of pages that        *)
(* nothing changed under while they were built, and as long as no lookup   *)
(* of the plans crossed a seeding and no deletion of its copies failed.    *)
THEOREM PagesTellTheTruth ==
    ASSUME PlansAreNumbers
    PROVE  Spec => []PagesAgree
BY PageInvInit, PageInvStep, PageInvAgrees, PTL DEF Spec

(* What the pages show keeps within its bounds, and outside of a seeding   *)
(* the plans are those of one release.                                     *)
THEOREM DashboardTypes ==
    ASSUME PlansAreNumbers
    PROVE  Spec => []DashboardTypeOK
BY PageInvInit, PageInvStep, PageInvTypes, PTL DEF Spec
===============================================================================
