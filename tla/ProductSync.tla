----------------------------- MODULE ProductSync -----------------------------
(***************************************************************************)
(* How the products of one connected store follow its catalogue in Salla:  *)
(* the full sync that a started subscription or the nightly job asks for,  *)
(* the sync of one product after a webhook, and the deletion               *)
(* (src/modules/integrations/salla/queue, src/modules/products).           *)
(*                                                                         *)
(* A worker is one consumer callback; every await of a handler that reads  *)
(* or writes shared state is a step. The sync of one product and the       *)
(* deletion run in a MongoDB transaction that holds the product it has     *)
(* written until it commits, and starts again when it meets another        *)
(* writer. A full sync runs in none. How a message is retried,             *)
(* deduplicated and dead-lettered is the subject of MessageHandler: here   *)
(* a handler that throws has its message back in the queue or dropped.     *)
(***************************************************************************)
EXTENDS Integers, FiniteSets

CONSTANTS
    N,           \* products 1..N, in the order Salla lists them
    Varied,      \* products with two variants, which take two slots
    Limits,      \* productsLimit of the plans that have one
    Workers,     \* concurrent consumer callbacks
    MaxEvents,   \* bound: changes by the merchant and failed calls together
    MaxQueue     \* bound: messages of a kind that wait at once

Products == 1..N
Unlimited == -1
Plans == Limits \cup {Unlimited}

ASSUME SyncAssumption ==
    /\ N \in Nat \ {0}
    /\ Varied \subseteq Products
    /\ Limits \subseteq Nat
    /\ MaxEvents \in Nat
    /\ MaxQueue \in Nat

Versions == 0..(MaxEvents + 1)
Jobs == [kind : {"changed", "deleted"}, product : Products]
            \cup [kind : {"full"}, product : {0}]
FullJob == [kind |-> "full", product |-> 0]

VARIABLES
    salla,     \* Salla's catalogue: the version of each product, and is it live
    limit,     \* what getProductsLimit returns
    queue,     \* messages waiting for a consumer
    stored,    \* the products collection
    index,     \* the version of each product that Meilisearch can find, or 0
    step,      \* where each worker is
    sync,      \* the local variables of its handler
    calm,      \* history: full syncs nothing has interfered with so far
    whole,     \* history: full syncs that lost no product of the listing so far
    events     \* changes and failed calls so far

shared == <<salla, limit, queue, stored, index>>
vars == <<salla, limit, queue, stored, index, step, sync, calm, whole, events>>

(* "fresh" stands for lastSyncedAt: the full syncs still running that      *)
(* started before it. Version 0 is no document.                            *)
Documents == [version : Versions, visible : BOOLEAN, fresh : SUBSET Workers]
NoDocument == [version |-> 0, visible |-> FALSE, fresh |-> {}]

FullSteps == {"limit", "count", "list", "bulk", "readback", "docs", "hide", "done"}
TxSteps == {"fetch", "find", "room", "upsert", "meili", "mark", "commit"}

Locals == [job : Jobs, product : 0..N, got : Versions, limit : Nat \cup {Unlimited},
           used : Nat, page : Products, pages : 0..N, cut : BOOLEAN,
           clash : BOOLEAN, write : Documents]
Blank(j) == [job |-> j, product |-> j.product, got |-> 0, limit |-> 0,
             used |-> 0, page |-> 1, pages |-> 0, cut |-> FALSE,
             clash |-> FALSE, write |-> NoDocument]

ProductTypeOK ==
    /\ salla \in [Products -> [version : Versions, live : BOOLEAN]]
    /\ limit \in Plans \cup {0}
    /\ queue \in [Jobs -> Nat]
    /\ stored \in [Products -> Documents]
    /\ index \in [Products -> Versions]
    /\ step \in [Workers -> {"idle"} \cup FullSteps \cup TxSteps]
    /\ sync \in [Workers -> Locals]
    /\ \A w \in Workers : step[w] \in {"bulk", "readback", "docs"} \cup TxSteps
                              => sync[w].product \in Products
    /\ calm \subseteq whole
    /\ whole \subseteq Workers
    /\ events \in 0..MaxEvents

Live == {p \in Products : salla[p].live}
Visible == {p \in Products : stored[p].version # 0 /\ stored[p].visible}

(* A product takes a slot for each variant, or one if it has none.         *)
Slots(p) == IF p \in Varied THEN 2 ELSE 1
SlotsOf(P) == Cardinality(P) + Cardinality(P \cap Varied)
Usage == SlotsOf(Visible)

(* Mutant: the slots the product itself takes are left out.                *)
ExceedsBefore(max, used, p) == max # Unlimited /\ used >= max

Exceeds(max, used, p) == max # Unlimited /\ used + Slots(p) > max

Init ==
    /\ salla \in [Products -> {[version |-> 0, live |-> FALSE],
                               [version |-> 1, live |-> TRUE]}]
    /\ limit \in Plans \cup {0}
    /\ queue = [j \in Jobs |-> 0]
    /\ stored = [p \in Products |-> NoDocument]
    /\ index = [p \in Products |-> 0]
    /\ step = [w \in Workers |-> "idle"]
    /\ sync = [w \in Workers |-> Blank(FullJob)]
    /\ calm = {} /\ whole = {}
    /\ events = 0

-------------------------------------------------------------------------------
(* What the merchant does in Salla, and the messages it leads to. A change *)
(* and its message are one action: a message may wait for as long as the   *)
(* webhook may have taken.                                                 *)

FullSyncs == {w \in Workers : step[w] \in FullSteps}

Enqueue(j) == /\ queue[j] < MaxQueue
              /\ queue' = [queue EXCEPT ![j] = @ + 1]

Event == /\ events < MaxEvents
         /\ events' = events + 1

CreateOrUpdate(p) ==
    /\ Event
    /\ calm' = {}
    /\ salla[p].version = 0 \/ salla[p].live
    /\ salla' = [salla EXCEPT ![p] = [version |-> @.version + 1, live |-> TRUE]]
    /\ Enqueue([kind |-> "changed", product |-> p])
    /\ UNCHANGED <<limit, stored, index, step, sync, whole>>

Delete(p) ==
    /\ Event
    /\ calm' = {}
    /\ salla[p].live
    /\ salla' = [salla EXCEPT ![p].live = FALSE]
    /\ Enqueue([kind |-> "deleted", product |-> p])
    /\ whole' = {}
    /\ UNCHANGED <<limit, stored, index, step, sync>>

(* getProductsLimit is 0 for every status but active, so for a trial too.  *)
StartPlan(l) ==
    /\ Event
    /\ calm' = {}
    /\ limit' = l
    /\ Enqueue(FullJob)
    /\ UNCHANGED <<salla, stored, index, step, sync, whole>>

EndPlan ==
    /\ Event
    /\ calm' = {}
    /\ limit # 0
    /\ limit' = 0
    /\ UNCHANGED <<salla, queue, stored, index, step, sync, whole>>

(* Bound: a full sync takes less than a day. Two of them still overlap,    *)
(* when a plan starts.                                                     *)
RunDailyReconciliation ==
    /\ FullSyncs = {}
    /\ Enqueue(FullJob)
    /\ UNCHANGED <<salla, limit, stored, index, step, sync, calm, whole,
                   events>>

-------------------------------------------------------------------------------
(* The steps of a worker.                                                  *)

At(w, label) == step[w] = label
Goto(w, label) == step' = [step EXCEPT ![w] = label]
Local(w, fields) == sync' = [sync EXCEPT ![w] = fields]

Locked(p) == \E v \in Workers : step[v] \in {"meili", "commit"} /\ sync[v].product = p

(* A write to P outside w fails the transactions that have already looked, *)
(* and interferes with the other full syncs.                               *)
LocalAfterWrite(w, fields, P) ==
    /\ sync' = [v \in Workers |->
          IF v = w THEN fields
          ELSE IF step[v] \in {"room", "upsert"} /\ sync[v].product \in P
          THEN [sync[v] EXCEPT !.clash = TRUE]
          ELSE sync[v]]
    /\ calm' = calm \cap {w}

(* The worker is free. What was newer than the start of its full sync no   *)
(* longer matters.                                                         *)
Done(w) == /\ Goto(w, "idle")
           /\ calm' = calm \ {w}
           /\ whole' = whole \ {w}
Forgotten(doc, w) == [doc EXCEPT !.fresh = @ \ {w}]
Leave(w) ==
    /\ Done(w)
    /\ sync' = [v \in Workers |->
          IF v = w THEN Blank(FullJob)
          ELSE [sync[v] EXCEPT !.write = Forgotten(@, w)]]
    /\ stored' = [p \in Products |-> Forgotten(stored[p], w)]

Throws(w) ==
    /\ Leave(w)
    /\ \/ Enqueue(sync[w].job)
       \/ UNCHANGED queue

Take(w, j) ==
    /\ At(w, "idle")
    /\ queue[j] > 0
    /\ queue' = [queue EXCEPT ![j] = @ - 1]
    /\ Goto(w, CASE j.kind = "full" -> "limit"
                 [] j.kind = "changed" -> "fetch"
                 [] j.kind = "deleted" -> "mark")
    /\ Local(w, Blank(j))
    /\ IF j.kind = "full" THEN calm' = calm \cup {w} /\ whole' = whole \cup {w}
       ELSE UNCHANGED <<calm, whole>>
    /\ UNCHANGED <<salla, limit, stored, index, events>>

(* A call to Salla, MongoDB or RabbitMQ fails: the transaction is aborted, *)
(* a full sync stops where it is.                                          *)
Fails(w) ==
    /\ ~At(w, "idle")
    /\ Event
    /\ Throws(w)
    /\ UNCHANGED <<salla, limit, index>>

-------------------------------------------------------------------------------
(* SallaProductSyncConsumer.processFullSync, one product to a page.        *)

ReadLimit(w) ==
    /\ At(w, "limit")
    /\ Local(w, [sync[w] EXCEPT !.limit = limit])
    /\ Goto(w, "count")
    /\ UNCHANGED <<shared, calm, whole, events>>

ReadUsage(w) ==
    /\ At(w, "count")
    /\ Local(w, [sync[w] EXCEPT !.used = Usage])
    /\ Goto(w, "list")
    /\ UNCHANGED <<shared, calm, whole, events>>

(* Salla lists the live products of the moment, page by page.              *)
Position(p) == Cardinality({q \in Live : q <= p})
OnPage(k) == {p \in Live : Position(p) = k}

(* Mutant: the page is compared before it is advanced.                     *)
MorePagesLate(page, pages) == page <= pages

(* Mutant: the last page is not asked for.                                 *)
MorePagesEarly(page, pages) == page + 1 < pages

MorePages(page, pages) == page + 1 <= pages

(* What outlives a turn of the loop is the limit, the usage and the page.  *)
AfterTurn(fields, page) ==
    [Blank(FullJob) EXCEPT !.limit = fields.limit, !.used = fields.used, !.page = page]
Turn(w, fields) ==
    IF MorePages(fields.page, fields.pages)
    THEN Local(w, AfterTurn(fields, fields.page + 1)) /\ Goto(w, "list")
    ELSE Local(w, AfterTurn(fields, 1)) /\ Goto(w, "hide")

Listed(w) == [sync[w] EXCEPT !.pages = Cardinality(Live)]

ListNothing(w) ==
    /\ At(w, "list")
    /\ OnPage(sync[w].page) = {}
    /\ Turn(w, Listed(w))
    /\ UNCHANGED <<shared, calm, whole, events>>

ListTooMany(w) ==
    /\ At(w, "list")
    /\ \E p \in OnPage(sync[w].page) : Exceeds(sync[w].limit, sync[w].used, p)
    /\ Local(w, [AfterTurn(sync[w], 1) EXCEPT !.cut = TRUE])
    /\ Goto(w, "hide")
    /\ UNCHANGED <<shared, calm, whole, events>>

ListProduct(w) ==
    /\ At(w, "list")
    /\ \E p \in OnPage(sync[w].page) :
          /\ ~Exceeds(sync[w].limit, sync[w].used, p)
          /\ Local(w, [Listed(w) EXCEPT !.product = p, !.got = salla[p].version,
                                        !.used = @ + Slots(p)])
    /\ Goto(w, "bulk")
    /\ UNCHANGED <<shared, calm, whole, events>>

(* The mapper throws on what Salla returned: the product is skipped.       *)
SkipProduct(w) ==
    /\ At(w, "list")
    /\ OnPage(sync[w].page) # {}
    /\ Event
    /\ sync[w].limit = Unlimited \/ sync[w].used < sync[w].limit
    /\ Turn(w, Listed(w))
    /\ calm' = calm \ {w} /\ whole' = whole \ {w}
    /\ UNCHANGED shared

BulkUpsert(w) ==
    /\ At(w, "bulk")
    /\ ~Locked(sync[w].product)
    /\ stored' = [stored EXCEPT ![sync[w].product] =
          [version |-> sync[w].got, visible |-> TRUE, fresh |-> FullSyncs]]
    /\ LocalAfterWrite(w, sync[w], {sync[w].product})
    /\ Goto(w, "readback")
    /\ UNCHANGED <<salla, limit, queue, index, whole, events>>

Searchable(doc) == IF doc.visible THEN doc.version ELSE 0

ReadBack(w) ==
    /\ At(w, "readback")
    /\ Local(w, [sync[w] EXCEPT !.got = Searchable(stored[sync[w].product])])
    /\ Goto(w, "docs")
    /\ UNCHANGED <<shared, calm, whole, events>>

AddDocuments(w) ==
    /\ At(w, "docs")
    /\ index' = [index EXCEPT ![sync[w].product] = sync[w].got]
    /\ Turn(w, sync[w])
    /\ calm' = calm \cap {w}
    /\ UNCHANGED <<salla, limit, queue, stored, whole, events>>

(* Reading back or indexing fails, is logged, and the next page follows.   *)
DocumentsFail(w) ==
    /\ step[w] \in {"readback", "docs"}
    /\ Event
    /\ Turn(w, sync[w])
    /\ calm' = calm \ {w}
    /\ UNCHANGED <<shared, whole>>

(* Mutant: the filter on status is the wrong way round.                    *)
StaleIfHidden(w) == {p \in Products \ Visible : w \notin stored[p].fresh}

Stale(w) == {p \in Visible : w \notin stored[p].fresh}

HideStale(w) ==
    /\ At(w, "hide")
    /\ \A p \in Stale(w) : ~Locked(p)
    /\ stored' = [p \in Products |->
          IF p \in Stale(w) THEN [stored[p] EXCEPT !.visible = FALSE] ELSE stored[p]]
    /\ LocalAfterWrite(w, Blank(FullJob), Stale(w))
    /\ Goto(w, "done")
    /\ UNCHANGED <<salla, limit, queue, index, whole, events>>

EndFullSync(w) ==
    /\ At(w, "done")
    /\ Leave(w)
    /\ UNCHANGED <<salla, limit, queue, index, events>>

-------------------------------------------------------------------------------
(* processIncrementalSync and upsertFromIntegration, in a transaction.     *)

FetchProduct(w) ==
    /\ At(w, "fetch")
    /\ salla[sync[w].product].live
    /\ Local(w, [sync[w] EXCEPT !.got = salla[sync[w].product].version, !.clash = FALSE])
    /\ Goto(w, "find")
    /\ UNCHANGED <<shared, calm, whole, events>>

(* SALLA_RESOURCE_NOT_FOUND is not retried.                                *)
ProductNotFound(w) ==
    /\ At(w, "fetch")
    /\ ~salla[sync[w].product].live
    /\ Leave(w)
    /\ UNCHANGED <<salla, limit, queue, index, events>>

FindByExternalId(w) ==
    /\ At(w, "find")
    /\ Goto(w, IF stored[sync[w].product].version = 0 THEN "room" ELSE "upsert")
    /\ UNCHANGED <<shared, sync, calm, whole, events>>

CheckRoom(w) ==
    /\ At(w, "room")
    /\ ~Exceeds(limit, Usage, sync[w].product)
    /\ Goto(w, "upsert")
    /\ UNCHANGED <<shared, sync, calm, whole, events>>

(* PRODUCTS_LIMIT_EXCEEDED is retried like any unknown error.              *)
LimitExceeded(w) ==
    /\ At(w, "room")
    /\ Exceeds(limit, Usage, sync[w].product)
    /\ Throws(w)
    /\ UNCHANGED <<salla, limit, index, events>>

(* Mutant: the sync of one product leaves lastSyncedAt alone.              *)
UpsertUndated(w) ==
    /\ At(w, "upsert")
    /\ ~sync[w].clash /\ ~Locked(sync[w].product)
    /\ Local(w, [sync[w] EXCEPT !.write =
          [version |-> sync[w].got, visible |-> TRUE,
           fresh |-> stored[sync[w].product].fresh]])
    /\ Goto(w, "meili")
    /\ UNCHANGED <<shared, calm, whole, events>>

Upsert(w) ==
    /\ At(w, "upsert")
    /\ ~sync[w].clash /\ ~Locked(sync[w].product)
    /\ Local(w, [sync[w] EXCEPT !.write =
          [version |-> sync[w].got, visible |-> TRUE, fresh |-> FullSyncs]])
    /\ Goto(w, "meili")
    /\ UNCHANGED <<shared, calm, whole, events>>

(* Another writer was first: the driver runs the transaction again.        *)
WriteConflict(w) ==
    /\ \/ At(w, "upsert") /\ (sync[w].clash \/ Locked(sync[w].product))
       \/ At(w, "mark") /\ Locked(sync[w].product)
    /\ Goto(w, IF At(w, "mark") THEN "mark" ELSE "fetch")
    /\ UNCHANGED <<shared, sync, calm, whole, events>>

SyncToMeilisearch(w) ==
    /\ At(w, "meili")
    /\ \/ /\ index' = [index EXCEPT ![sync[w].product] = sync[w].got]
          /\ UNCHANGED events
       \/ Event /\ UNCHANGED index
    /\ Goto(w, "commit")
    /\ calm' = {}
    /\ UNCHANGED <<salla, limit, queue, stored, sync, whole>>

(* markDeletedByExternalId.                                                *)
MarkHidden(w) ==
    /\ At(w, "mark")
    /\ stored[sync[w].product].version # 0
    /\ ~Locked(sync[w].product)
    /\ Local(w, [sync[w] EXCEPT !.write =
          [stored[sync[w].product] EXCEPT !.visible = FALSE, !.fresh = FullSyncs]])
    /\ Goto(w, "commit")
    /\ UNCHANGED <<shared, calm, whole, events>>

NothingToHide(w) ==
    /\ At(w, "mark")
    /\ stored[sync[w].product].version = 0
    /\ ~Locked(sync[w].product)
    /\ Leave(w)
    /\ UNCHANGED <<salla, limit, queue, index, events>>

Commit(w) ==
    /\ At(w, "commit")
    /\ stored' = [stored EXCEPT ![sync[w].product] = sync[w].write]
    /\ LocalAfterWrite(w, Blank(FullJob), {sync[w].product})
    /\ Goto(w, "idle")
    /\ UNCHANGED <<salla, limit, queue, index, whole, events>>

-------------------------------------------------------------------------------
Merchant ==
    \/ \E p \in Products : CreateOrUpdate(p) \/ Delete(p)
    \/ \E l \in Plans \cup {0} : StartPlan(l)
    \/ EndPlan

FullSync(w) ==
    \/ ReadLimit(w) \/ ReadUsage(w)
    \/ ListNothing(w) \/ ListTooMany(w) \/ ListProduct(w)
    \/ BulkUpsert(w) \/ ReadBack(w) \/ AddDocuments(w)
    \/ HideStale(w) \/ EndFullSync(w)

ProductChange(w) ==
    \/ FetchProduct(w) \/ ProductNotFound(w) \/ FindByExternalId(w)
    \/ CheckRoom(w) \/ LimitExceeded(w) \/ Upsert(w) \/ WriteConflict(w)
    \/ SyncToMeilisearch(w) \/ MarkHidden(w) \/ NothingToHide(w) \/ Commit(w)

Process(w) == FullSync(w) \/ ProductChange(w)

Next ==
    \/ Merchant
    \/ RunDailyReconciliation
    \/ \E w \in Workers : \/ \E j \in Jobs : Take(w, j)
                          \/ Process(w)
                          \/ SkipProduct(w) \/ DocumentsFail(w) \/ Fails(w)

Spec == Init /\ [][Next]_vars

-------------------------------------------------------------------------------
(* Properties.                                                             *)

Hides(w) == At(w, "hide") /\ step'[w] = "done"

(* A full sync that nothing interfered with and no limit cut short leaves  *)
(* exactly the live products visible, each in the version Salla has, and   *)
(* that version is the one Meilisearch finds: it lists every page, indexes *)
(* what it has written and hides what it did not meet (processFullSync).   *)
FullSyncReconciles ==
    [][\A w \in Workers : Hides(w) /\ w \in calm /\ ~sync[w].cut =>
          /\ Visible' = Live
          /\ \A p \in Live : /\ stored'[p].version = salla[p].version
                             /\ index[p] = salla[p].version]_vars

(* Whatever else the merchant, webhooks and other full syncs do meanwhile, *)
(* a full sync hides no product that is live, unless it was cut short,     *)
(* skipped an item, or a deletion moved the listing under it               *)
(* (hideStaleSince compares lastSyncedAt with the start of this sync).     *)
SweepSparesLive ==
    [][\A w \in Workers : Hides(w) /\ w \in whole /\ ~sync[w].cut =>
          Visible \ Visible' \subseteq Products \ Live]_vars

(* A full sync that nothing interfered with leaves the store within the    *)
(* limit it has read, also when the store was over it before.              *)
FullSyncWithinLimit ==
    [][\A w \in Workers : Hides(w) /\ w \in calm /\ sync[w].limit # Unlimited =>
          Usage' <= sync[w].limit]_vars

(* What a full sync hides is stale, as hideProductsNotSyncedSince logs:    *)
(* where the whole catalogue fits in the plan, no live product is hidden.  *)
HiddenIsStale ==
    [][\A w \in Workers :
          Hides(w) /\ w \in calm /\ SlotsOf(Live) <= sync[w].limit =>
              Visible \ Visible' \subseteq Products \ Live]_vars

===============================================================================
