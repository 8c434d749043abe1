------------------------------ MODULE PlanCache ------------------------------
(***************************************************************************)
(* The plans: a collection that every start of a process writes anew, plan *)
(* by plan, and their copies in Redis, one per plan and one of all, which  *)
(* readers fill and the seeding deletes (src/modules/subscriptions:        *)
(* plans.seeder.ts, plans.service.ts, plans.repository.ts).                *)
(*                                                                         *)
(* A plan is its messagesLimit.  Every command to Redis or MongoDB is a    *)
(* step.  The copies by slug are left out: only the _id is taken of them,  *)
(* which never changes.                                                    *)
(***************************************************************************)
EXTENDS Integers, Sequences

CONSTANTS
    PlanSeeds,    \* the plans in the order in which they are seeded
    Releases,     \* what each version of the program seeds: from plan to limit
    MaxErrors     \* bound: failing commands

PlanIds == {PlanSeeds[i] : i \in DOMAIN PlanSeeds}

Unlimited == -1
Absent == -2
NoList == [p \in PlanIds |-> Absent]

AllPlans == "plans:all"

(* A billing page looks up the plan of its store and the list of all.      *)
Lookups == {"plan", "list"}

NoPlan == 0
Idle == [at |-> "idle", key |-> AllPlans, got |-> NoPlan]

VARIABLES
    plans,      \* MongoDB: from plan to limit
    byId,       \* Redis: the copy of each plan, or Absent
    list,       \* Redis: the copy of all plans, or NoList
    seeding,    \* [table, left: the plans to write, pending: the keys to delete]
    lookup,     \* how far each lookup is, and what it has got
    errors,     \* number of failed commands, for the bound
    met         \* ghost: what may leave an old plan in Redis

planVars == <<plans, byId, list, seeding, lookup, errors, met>>

PlansInit ==
    /\ plans = Releases[1]
    /\ byId = NoList /\ list = NoList
    /\ seeding = [table |-> plans, left |-> <<>>, pending |-> {}]
    /\ lookup = [r \in Lookups |-> Idle]
    /\ errors = 0 /\ met = {}

Seeding == seeding.left # <<>> \/ seeding.pending # {}

Succeeds == UNCHANGED errors
Fails == errors < MaxErrors /\ errors' = errors + 1

-------------------------------------------------------------------------------
(* getById and getAll: GET, and after a miss find and SET.                 *)

IsCached(key) == IF key = AllPlans THEN list # NoList ELSE byId[key] # Absent
Cached(key) == IF key = AllPlans THEN list ELSE byId[key]
Stored(key) == IF key = AllPlans THEN plans ELSE plans[key]

Moves(r, at, got) == lookup' = [lookup EXCEPT ![r].at = at, ![r].got = got]

(* A GET that fails counts as a miss.                                      *)
Get(r, key) ==
    /\ lookup[r].at = "idle"
    /\ \/ Succeeds /\ IsCached(key)
          /\ lookup' = [lookup EXCEPT ![r] = [at |-> "done", key |-> key, got |-> Cached(key)]]
       \/ /\ IF IsCached(key) THEN Fails ELSE Succeeds
          /\ lookup' = [lookup EXCEPT ![r] = [at |-> "miss", key |-> key, got |-> NoPlan]]
    /\ UNCHANGED <<plans, byId, list, seeding, met>>

Find(r) ==
    /\ lookup[r].at = "miss"
    /\ Moves(r, "found", Stored(lookup[r].key))
    /\ UNCHANGED <<plans, byId, list, seeding, errors, met>>

FindFails(r) ==
    /\ lookup[r].at = "miss" /\ Fails
    /\ Moves(r, "failed", NoPlan)
    /\ UNCHANGED <<plans, byId, list, seeding, met>>

(* A SET that fails is logged, and the plan is returned all the same.      *)
Fill(r) ==
    /\ lookup[r].at = "found"
    /\ Moves(r, "done", lookup[r].got)
    /\ LET key == lookup[r].key
           got == lookup[r].got
       IN  \/ Succeeds /\ list' = (IF key = AllPlans THEN got ELSE list)
                       /\ byId' = (IF key = AllPlans THEN byId ELSE [byId EXCEPT ![key] = got])
           \/ Fails /\ UNCHANGED <<byId, list>>
    /\ UNCHANGED <<plans, seeding, met>>

Read(r) == Find(r) \/ Fill(r)

-------------------------------------------------------------------------------
(* The seeding.                                                            *)

StartProcess ==
    /\ ~Seeding
    /\ \E version \in DOMAIN Releases :
         seeding' = [table |-> Releases[version], left |-> PlanSeeds, pending |-> {}]
    /\ UNCHANGED <<plans, byId, list, lookup, errors, met>>

(* Mutant: the pattern plan:* is taken to match plans:all.                 *)
KeysToDeleteById == {"byId"}

KeysToDelete == {"byId", "list"}

UpsertPlan ==
    /\ seeding.pending = {} /\ seeding.left # <<>>
    /\ plans' = [plans EXCEPT ![Head(seeding.left)] = seeding.table[Head(seeding.left)]]
    /\ seeding' = [seeding EXCEPT !.left = Tail(@), !.pending = KeysToDelete]
    /\ met' = IF plans' # plans /\ \E r \in Lookups : lookup[r].at = "found"
              THEN met \cup {"crossed"} ELSE met
    /\ UNCHANGED <<byId, list, lookup, errors>>

Deleted(keys) == seeding' = [seeding EXCEPT !.pending = @ \ {keys}]

(* Both are sent at once, and a failure of either is logged.  The keys by  *)
(* id are scanned and deleted in batches, so that some may be deleted.     *)
DelList ==
    /\ "list" \in seeding.pending /\ Deleted("list")
    /\ \/ Succeeds /\ list' = NoList /\ UNCHANGED met
       \/ Fails /\ met' = met \cup {"undeleted"} /\ UNCHANGED list
    /\ UNCHANGED <<plans, byId, lookup>>

DelByPattern ==
    /\ "byId" \in seeding.pending /\ Deleted("byId")
    /\ \/ Succeeds /\ byId' = NoList /\ UNCHANGED met
       \/ Fails /\ met' = met \cup {"undeleted"}
          /\ \E kept \in SUBSET PlanIds :
               byId' = [p \in PlanIds |-> IF p \in kept THEN byId[p] ELSE Absent]
    /\ UNCHANGED <<plans, list, lookup>>

(* PLAN_CACHE_TTL_SECONDS after they were stored.                          *)
ExpirePlan ==
    /\ \/ list # NoList /\ list' = NoList /\ UNCHANGED byId
       \/ \E p \in PlanIds : byId[p] # Absent /\ byId' = [byId EXCEPT ![p] = Absent] /\ UNCHANGED list
    /\ UNCHANGED <<plans, seeding, lookup, errors, met>>

Seed == UpsertPlan \/ DelList \/ DelByPattern \/ ExpirePlan

-------------------------------------------------------------------------------
(* After a process has started, quotas and retentions are those it has     *)
(* seeded, by whichever key a plan is read: unless a lookup had read the   *)
(* old plan and not stored it yet, or a deletion failed.  Otherwise an old *)
(* limit may decide for a day.                                             *)
SeededPlansAreUsed ==
    (met = {} /\ ~Seeding) =>
        /\ list \in {NoList, plans}
        /\ \A p \in PlanIds : byId[p] \in {Absent, plans[p]}
===============================================================================
