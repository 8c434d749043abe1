# TLA+ models of lary

lary is a NestJS backend that gives merchants of the Salla e-commerce platform
an AI shopping assistant. It keeps OAuth tokens and webhooks of each store,
synchronises product catalogues through RabbitMQ, answers chat messages with an
LLM, and meters usage against subscription plans. State lives in MongoDB (the
truth), Redis (locks, caches, chat sessions), RabbitMQ (work) and Meilisearch
(a search index). Any number of processes run the same code, so every `await`
is a point where another process, another consumer callback or another request
may act. Paths below are relative to the repository's `src/`.

## 1. The system

| Component | State it keeps | Operations | How it meets the others |
|---|---|---|---|
| RabbitMQ message handling (`infrastructure/rabbitmq`) | queues, retry queues, dead-letter queues; `processed_messages` records | publish, `execute`, `executeWithoutTransaction`, retry policy | every consumer runs inside it |
| Salla token refresh (`salla-token.service.ts`) | tokens and status of an integration; a lock in Redis | `getValidAccessToken`, refresh, wait, release | consumers and requests call it; it writes the integration that webhooks write |
| Integration lifecycle (`salla-integration.service.ts`, webhooks) | integration status, store status | authorize, uninstall | shares its document with the refresh |
| Subscriptions and usage | one subscription per store, usage per period | webhook upsert, status change, renewal; chat allowance, tracking | webhooks write, chat and product sync read |
| Product synchronisation | products per store, search index | full, incremental and deletion sync, daily reconciliation | runs in the message handler, asks for tokens, reads the products limit |
| Chat conversation | the messages of a session in Redis, with a TTL | a turn: rounds of requests to Gemini and of tool calls, the reply with its product cards, the append | calls the tools, triggers the summary and the archive, is metered by subscriptions |
| Chat summary | a summary and the count of summarised messages in Redis, with TTLs of their own | the summary job | a message consumer; every prompt holds the summary |
| Chat archive | conversations and messages in MongoDB, with an expiry | the archive job, the expiry | a message consumer; the dashboard shows it |
| Product search | - | search, details, categories, cards | tools call it; it reads the index and the collection that product synchronisation writes |
| Assistant settings | one document per store, a copy in Redis | update, cached read | prompts, the widget, the dashboard and the tool for store policies read them |
| Plans | a collection written at every start of a process, copies in Redis | seeding, cached reads | quotas, retentions and the dashboard read them |
| Dashboard | - | billing, overview, conversations | reads subscription, usage, plans and archive at the same time |
| Stores, users | single documents | CRUD, two writes from webhooks | webhooks |
| Authentication, platform | none | stateless | - |

What is hard in it:

* **redelivery and retries**: the broker delivers again what was not settled,
  the handler publishes its own retries, and a record in MongoDB decides which
  copy may run. The three are separate calls;
* **a lock with a TTL and no owner**, around a call that rotates a secret which
  can be spent once;
* **several writers of one document** (refresh, authorize, uninstall) that set
  the status unconditionally;
* **webhooks** that arrive late, twice or out of order and are compared by a
  timestamp of one second's resolution;
* **check-then-act** on quotas, with an LLM call of seconds in between;
* **full sync against incremental sync and deletion**, each working from a copy
  of the catalogue it fetched earlier;
* **three Redis keys per conversation** that expire one by one, summary jobs
  that overlap, and Redis errors that are logged and taken for an empty answer;
* **tool calls that run at once** and finish in any order, in a protocol where
  each call has to be answered, and a history cut at a number of messages;
* **two stores of the same catalogue** read one after the other: what the index
  finds is not what the documents say;
* **cache-aside copies** of settings and plans, filled by readers while writers
  replace or delete them;
* **formulas stated twice**: the dashboard computes by its own what the guards
  decide by.

`PROJECT.json` lists each hazard with its line.

## 2. Modules

| Module | What it is |
|---|---|
| `MessageHandler` | the message handling component: state, one action per awaited call, faults, properties |
| `MessageHandlerInvariants` | the inductive invariants of that component |
| `MCMessageHandler` | what only TLC needs: symmetry, and the choice between all faults and those that leave the record a lock |
| `DeliveryContract` | the abstract promise: one outcome per published message |
| `MessageHandlerRefinement` | the mapping from `MessageHandler` to `DeliveryContract`, claimed while the store answers |
| `MessageHandlerProofs` | theorems about `MessageHandler`, about the choice of `MCMessageHandler` and about the refinement |
| `TokenRefresh` | integration, tokens, lock, webhooks |
| `TokenRefreshProofs` | theorems about `TokenRefresh` |
| `Subscriptions` | the subscription record of a store under webhooks, and the quota of its chats |
| `MCSubscriptions` | symmetry for TLC, and what its run leaves out |
| `SubscriptionsProofs` | theorems about `Subscriptions` |
| `ProductSync` | the products of a store and the search index against its catalogue in Salla |
| `MCProductSync` | symmetry for TLC |
| `ProductSyncProofs` | theorems about `ProductSync` |
| `Selections` | what a filter leaves of a list, told by the positions it keeps |
| `ProductSearch` | search, details and cards: operators over an index and documents |
| `PromptContents` | from the messages of a conversation to the contents of a request to Gemini, and back |
| `AssistantTools` | the tools, their declarations, and what executing one returns |
| `ChatTurn` | the turns of one conversation, on top of these three |
| `ChatTurnProofs` | theorems about `ChatTurn` |
| `Conversation` | the keys of a session in Redis, the turns that append to them and the summary jobs |
| `ChatArchive` | the archive of one conversation, its expiry, and the pages the dashboard shows |
| `AssistantSettings` | the settings, their copy in Redis and the requests that read and write both |
| `ChatArchiveProofs` | theorems about `ChatArchive` |
| `PlanCache` | the plans, their copies in Redis, lookups and seeding |
| `Dashboard` | the billing page and the overview, on top of `PlanCache` |
| `DashboardProofs` | theorems about `PlanCache` as `Dashboard` runs it, and about the pages |
| `MCChat` | the five machines of the chat and the dashboard for TLC: `Conversation`, which it extends, and instances of the four others |
| `ChatProofs` | theorems about `Conversation` and `AssistantSettings`, and about `MCChat` what the theorems about its parts come to there |

`Dashboard` extends `PlanCache`, whose lookups are part of its pages, and
`ChatTurn` extends the operators of the tools and of the prompt. `MCChat` puts
`ChatTurn`, `AssistantSettings`, `Conversation`, `ChatArchive` and `Dashboard`
side by side: none of them reads what another one writes, so a behaviour is one
of the part that is chosen in its initial state (`part`) and the others rest.
`ChatInit`, `ChatNext` and `ChatSpec` are the whole; `Init` and `Next` are those
of `Conversation`.

Definitions whose comment starts with "Mutant:" are not part of a model. Each
is a plausible wrong version of the definition that follows it, and makes one
property fail.

### MessageHandler

A *copy* is a message identifier with an attempt number. `ready` and `delayed`
count copies in the main and retry queues: RabbitMQ keeps no useful order here,
since consumers run concurrently and retries rejoin at the end. A *worker* is
one consumer callback, and `pc[w]` names the call it is about to make:

| label | code (`rabbitmq.message-handler.ts` and `idempotency/`) |
|---|---|
| create, find, delete, recreate, reclaim | the calls of `startProcessing` |
| handle | the handler; with `execute`, also the commit of handler and `markCompleted` |
| complete | `markCompleted` of `executeWithoutTransaction` |
| publish, release | `handleRetryableError`: the retry copy, then the delete of the record |
| fail | `markFailed` |
| ack, nack, requeue | what the callback returns or throws |

`record` is the idempotency document: absent, processing, overdue (processing
with `startedAt` older than `processingTimeoutMs`), completed, failed. `held` is
what the broker still counts as outstanding: a worker whose channel is gone
goes on running and its ack or nack has no effect. `TxMessages` are those whose
consumer uses `execute` (incremental sync, deletion, chat archive); full sync
and summary use `executeWithoutTransaction`. A MongoDB transaction is one step:
its handler's writes and `markCompleted` commit together, and a write conflict
makes the driver rerun the callback before it.

Faults are `FaultKinds`, at most `MaxFaults` in a behaviour: a MongoDB call
that is refused (`storeError`, `markFailedError`), a publication that fails, a
delay that elapses before the record is released (`slowRelease`), five minutes
that pass under a running handler (`timeout`), a lost channel, a crash. A
handler that throws is not a fault: it may happen at any attempt. A call that
fails has changed nothing: that MongoDB or RabbitMQ carries a call out and its
answer is lost is not modelled, except for what a crash after the call, or a
redelivery, makes of it.

### TokenRefresh

One integration. A token pair is its generation number; Salla accepts the
newest one (`grant`), once. Callers go through `refreshAccessToken` label by
label (lock, poll, ttl, recheck, relock, then reload, call, save or mark,
release). A webhook is a record in `hooks` with the step it is at, so webhooks
overlap refreshes and each other when `Overlaps` says so. `expiring` stands for
"within the refresh window", which both an expired and a nearly expired token
satisfy. The store's status is the one field of another document that the same
webhooks write.

The profile requests and the creation of the merchant's user precede the writes
of the authorize webhook and touch nothing else here; they appear as
`WebhookError`, a webhook that fails at any step. The statuses `pending` and
`error` of the enum are never written by the code.

An authorization never connects. `linkAndActivate` names `connectedAt` in both
`$set` and `$setOnInsert`, which MongoDB refuses, so the webhook ends with an
error after it has written the store. `Init` is therefore an integration that
was connected before, and `SallaAuthorizes` is for good: Salla accepts the pair
of the new authorization alone, `authorized` remembers it, and the stored pair
stays the older one. What Salla sends again of a webhook that failed, and when,
is not modelled: a repeated authorization that comes after an uninstallation
would write the store active again.

### Subscriptions

| Model | Code |
|---|---|
| `log` | what Salla has to say about a store, in the order it happened; `at` is `created_at`, which may repeat |
| `Deliver` | one webhook request; any event may be handled again, or by two requests at once |
| `ApplyMatching`, `ApplyIgnored` | one `findOneAndUpdate` of `upsert`, `updateStatusByStoreId` or `extendPeriod`, with its filter `Matches` |
| `ApplyAbsent`, `Insert` | an upsert that finds no document inserts one: the server looks and inserts in two steps, and its own retry does not cover a filter with `$or`; the loser gets 11000 |
| `TriggerFullSync`, `WebhookFails` | the publication that follows a start, and a request that ends without success and is repeated |
| `ValidateAccess`, `CheckUsage` | the reads of `validateChatAllowanceOrThrow` in the guard of the chat route |
| `Answer`, `TrackRead`, `RecordConversation`, `TrackFails` | the answer, and `trackNewConversation`, which it does not wait for |
| `PeriodBegins`, `PeriodEnds` | the clock passes the `startDate` and the `endDate` of a period |
| `CurrentUsage` | `findCurrentUsage`: of the periods the clock is in (`Running`), the usage document created last |

A period is named by the index of the event that announced it; its usage
document by the period. A period begins when its event is sent or later: Salla
may announce a renewal before the period it is for. Until then its usage
document is written, since `trackNewConversation` takes the period of the
subscription, and not found; `since` is what has been counted after the period
began. `created` keeps the order of creation, by which `findCurrentUsage`
sorts. Times are ranks, and a time grows by at most one from
one event to the next, which loses no order and no tie.

`Disorders` says what may go wrong with the order: an event handled before an
older one (`reorder`), two with one time (`tie`), a period that begins while the
clock is in another (`overlap`), two inserts at once (`race`). `met` records
which occurred, so that one run checks under all of them, and each property
says which it excuses. Repeated, concurrent and failed requests are no
disorder: they are always there.

The store is linked and the plan metered; `created_at` is present and readable,
the plan is seeded. `unpriced` is a start whose plan name cannot be resolved:
it is answered with success and does nothing. `extended` is a renewal with such
a name.

### ProductSync

One connected store. A product is the version Salla has of it; `stored` is the
`products` collection, `index` what Meilisearch finds.

| Model | Code |
|---|---|
| `CreateOrUpdate`, `Delete` | the merchant in Salla and the webhook that queues the message (`handleProductChanged`, `handleProductDeleted`) |
| `StartPlan`, `EndPlan` | a subscription event, for what it does to `getProductsLimit` and the full sync it queues |
| `RunDailyReconciliation` | `SallaReconciliationJob` |
| limit, count, list, bulk, readback, docs, hide, done | the awaits of `processFullSync` and `bulkUpsertFromIntegration` |
| fetch, find, room, upsert, meili, commit | `processIncrementalSync` and `upsertFromIntegration` inside `execute` |
| mark, commit | `markDeletedByExternalId` inside `execute` |
| `WriteConflict` | MongoDB aborts the later of two transactions, the driver runs its callback again |
| `Fails`, `LimitExceeded`, `ProductNotFound` | a handler that throws: its message is queued again or dropped |
| `SkipProduct`, `DocumentsFail` | the two errors that are caught and logged |

`lastSyncedAt` is only ever compared with the start of a full sync, so `fresh`
keeps, for each document, the running full syncs that started before it; a
transaction takes it when it writes and not when it commits. `calm` and `whole`
are history variables: the full syncs nobody has interfered with, and those
whose listing has lost no product.

A page holds one product; Salla lists in one order; an id is not used again;
every live product is on sale (one that the merchant hides is written as hidden
by the same steps, and would only be a second way to be invisible).
The mapper is data: that an item may be refused is `SkipProduct`. The position
of a product in the listing is computed when its page is read, so changes shift
the pages under a running sync.

### ChatTurn, with ProductSearch, AssistantTools and PromptContents

| Model | Code |
|---|---|
| `StartTurn`, `GenerationFails`, `Answer`, `RequestTools` | `handleMessage` up to the first request; an answer of Gemini without text and calls, with calls, or an error |
| `Refuse`, `ReadIndex`, `ReadDocuments`, `ExecutionFails` | `ToolExecutor.execute` of one call, with the read of Meilisearch and the read of MongoDB as two steps |
| `CollectResults` | the end of `Promise.all`; after the last round, the turn is over |
| `UpsertProduct`, `FinishUpsert` | the two writes of an upsert: `bulkUpsertFromIntegration` writes MongoDB, reads it back and writes the index, `upsertFromIntegration` writes the index before its transaction commits; the second write may fail |
| `HideProduct` | `markDeletedByExternalId` or the sweep of a full sync: MongoDB changes and the index does not |
| `Sanitized`, `ContentOf`, `ToGeminiContents` | `sanitizeHistoricalToolMessages`, `toGeminiContents` |
| `PickBestVariant`, `SearchCards`, `DetailCards` | `pickBestVariant`, `searchForChat`, the card mapper |

A text is the set of what it mentions, product ids among it; a tag
`[DISPLAY_CARDS: ...]` is the ids in it, and cleaning a text takes them out.
Gemini may answer anything of `Responses`: every tool, alone and together,
unknown and refused calls, blank answers, answers with tags of known and unknown
products. What Meilisearch finds is any list, in any order, of entries its
filters allow. The conversation has no summary; `Conversation` has.

The catalogue changes at any time, also between the index read and the document
read of one search. A card is then as the document says when it is read; that it
is also what was asked for can only be said of a product whose entry was that of
its document when the index was read and whose document has not been written
since. `steady` holds these, and `SearchKeepsPromise` has it as its premise.

### Conversation

| Model | Code |
|---|---|
| `list`, `count`, `summary` and their TTLs | the three keys of `conversation-store.ts` |
| `AppendMessages`, `AppendFails` | `RPUSH` and `EXPIRE` in one pipeline; an error is logged and reads as length 0 |
| `ReadHistory`, `ReadSummary`, `ReadLastSummarizedCount` | the three reads with which a turn begins; a failed GET is logged and reads as null or 0 |
| `TurnPrompt` | what the turn makes of them |
| `TriggerSummary` | `checkAndTriggerSummary`, later than the append and with the count of that moment, or 0 if its GET fails; the publication may fail and is only logged |
| `TakeJob`, `CheckCount`, `Summarize`, `SetLastSummarizedCount`, `SetSummary` | the commands of `processSummarize`, in its order; either GET may fail |
| `EmptySummary`, `SetFails` | an answer without text, a failed SET |
| `JobFails` | a failed LRANGE or request, or a process that stops: the message handler retries the job, until no attempt is left and it is dead-lettered |
| `Tick` | time passes; each key is deleted when its own time is over |

Jobs write between the reads of a turn. The reads change nothing and what a turn
answers is data, so a turn is its append, and of the turns that read it is
enough to follow one, which may be any: `reading` is what that turn has read so
far. `met` records what may cost the assistant its memory: two jobs that write
over each other (*overtaken*), a count or a job that is still there when the
messages it is about have expired (*outlived*), a count or summary that expires
before them (*expired*), and the commands that fail (*summary lost*, *count
lost*, *append failed*). `lost` is the totals of the jobs that nobody will do:
not published, or dead-lettered. Each property names what it excuses; under
everything else it is checked.

`NothingForgotten` is two statements. `SummaryCovers`: what the count says has
been summarised is in the summary, once the job has written both. `TurnIsTold`:
what the turn has read tells all that was said when it read the messages. It
holds with a count that could not be read or stored, and whatever jobs write
between the reads, unless the count that was read is not the one of the summary
that was read: a job stored its count after the turn had read the summary, or
the GET of the summary failed (`reading.count <= reading.covers`). It excuses
every entry of `met` but *count lost*, and messages beyond
`HISTORY_TAIL_CEILING`. `SummaryKeepsUp` excuses *count lost*, *expired*,
*overtaken*, *outlived*, and a lost job for the messages there are: the next
turn asks again.

### ChatArchive

`ChooseExpiry` reads the retention of the plan, `ArchiveTurn` is the transaction
of the archive job (reserve two sequence numbers, insert two messages),
`RejectTurn` a reply without text, which the schema refuses. MongoDB's TTL
monitor deletes each document at a time of its own. Turns are archived in any
order; delivery is `MessageHandler`'s. `Page` is one page of the dashboard, by
its size and number. Like `listMessages` it takes all that is stored, expired
messages that are not deleted yet included, and two messages of one number in
either order, the same for every page (`ties`). `TranscriptReadsAsSaid` reads
page after page: every stored message is on one place, and what can be read
comes as it was said. `met`: a turn archived before an earlier one
(*overtaken*), a plan with limited retention after one without (*limited*),
numbers that start again, because the conversation is deleted, over messages
that are still there (*restarted*); from then on only what is retained has an
order. The pages are of one moment: messages that are deleted between two
requests move the later ones up, and a reader may miss some. That the dashboard
does not find a conversation that is deleted is `RetainedIsFound`.

### AssistantSettings

A field has the number of the update that set it, 0 by default. `Get`, `Fetch`
and `Fill` are `getCachedOrFetch`; `Upsert`, `CacheUpdate` and
`MarkOnboardingCompleted` are a PATCH request; each is one command to Redis or
MongoDB, and a failing one is `Command(TRUE)`. `met`: an update while another
request is about to store an older view (*crossed*), a view that could not be
stored (*unsaved*).

### PlanCache and Dashboard

A plan is its limit of messages. `StartProcess` seeds one of `Releases`,
`UpsertPlan` writes one plan, `DelList` and `DelByPattern` are the two deletions
after it, of one process at a time. `Get`, `Find`, `Fill` are a cached lookup. A
page (`BeginPage` to `Build`) reads the store and the subscription, then the
plan, the list of plans and the usage at the same time; in a billing page a read
that fails is fatal, in an overview it is left out, unless it is that of the
store (`IsFatal`). `SubscriptionEvent`, `CountMessage`, `TimePasses` and
`SeedPlans` go on meanwhile. `met`: a lookup that holds a plan written since
(*crossed*), a deletion that failed (*undeleted*). `calm` says that nothing
happened while the page was built.

## 3. What the runs check

All passing runs are exhaustive, two of them under a constraint. `Focus` of
`MCSubscriptions` is a bound: chats and the clock see of a webhook no more than
the document it has written, so once one of them has moved the events are of
`QuotaKinds`, at times of their own and handled one at a time. `Focus` of
`MCChat` leaves nothing out: a turn that has been told, or that read in a session
that is over or met what `TurnIsTold` excuses, is judged where it is and followed
no further, and the same behaviour without its reads goes on. `chat` is one run of five parts, and
`MCTypeOK` the type invariants of all of them. A run's faults are those under
which its properties are true of the code; section 5 says what happens under
the others.

| Run | Bounds | Shows |
|---|---|---|
| `delivery` | 2 messages (one transactional), 2 workers, 2 retry delays, 2 faults among publishError, storeError, timeout; fair | `TypeOK`; `NothingLost`: a published message is executed, dead-lettered or still carried; `CompletedMeansExecuted`, of the message whose handler and `markCompleted` are two steps; `IgnoredIsDuplicateOrActive`: a copy is only turned away when that is harmless; `EventuallySettled`; `ImplementsContract`, in the behaviours without storeError |
| `all_faults` | 1 message, 3 workers, 2 delays, 3 faults of any kind | `Conservation`: each fault adds at most one execution or dead letter; `LockedAtMostOnce`, `LockedSoleOwner`: without overdue records and redelivery by the broker, the record is a lock |
| `lost_dead_letter` | 1 message, one lost connection | violation of `FailedIsDeadLettered` |
| `token_consistent` | 3 callers, 4 generations, redisError, readError, markError, crash (2 faults), no overlap of webhooks with refreshes | `OneRefresher`, `ExpiredIsRevoked`, `ConnectedIsUsable`, `UninstallIsFinal`, `StoreFollowsInstallation` |
| `refresh_ends` | 2 callers, 2 generations, any one fault, any overlap; fair | `TokenTypeOK`, `RefreshEnds`, `LockIsFreed` |
| `uninstalled_connected` | 1 caller, no fault, refresh overlaps the webhook | violation of `UninstallIsFinal` |
| `subscription` | 2 events of 6 kinds (3 of them with chats), 2 webhook requests, 2 chats, limit 1, all disorders | `SubTypeOK`, `LastEventMonotone`, `LatestEventDecides`, `NewestStartWins`, `TrialEndSparesPaid`, `StartIsSynced`, `UsageWithinLimit`, `RefusalMeansExceeded` |
| `start_ignored` | 2 starts, 2 requests | violation of `IgnoredIsStale` |
| `product_sync` | 3 products (one of two variants), 2 consumers, limits 0, 2 and none, 2 changes or failures, 1 waiting message of a kind | `ProductTypeOK`, `FullSyncReconciles`, `SweepSparesLive`, `FullSyncWithinLimit` |
| `hidden_live` | 2 products, 1 consumer, no change, no failure | violation of `HiddenIsStale` |
| `chat`, turns | 3 turns, a product with four variants and one without, 7 responses of Gemini, 2 rounds of tools, 3 calls, history of 5 messages; turns and changes of the catalogue are 3 together | `PromptsAreSound`: every request is one Gemini accepts, it holds the last turn, and no call made as declared is refused; `SearchKeepsPromise`: budget, stock and status of the cards of a search, whatever is written between its reads; `TaggedAreShownOnce` |
| `chat`, memory | 3 turns of 2 or 4 messages, a summary every 4, history of 8, 2 turns and 2 jobs at a time, TTL 2, 2 ticks, 1 failure | `NothingForgotten`: nothing is lost between the messages and the summary; `SummaryKeepsUp`: no summary that is due is forgotten |
| `chat`, archive | 3 turns, retentions of 1, 2 days and none, 2 days, 1 change of plan, pages of 1, 3 and 9 under a maximum of 4 | `ArchiveIsShown`: what is retained is found, and what is stored is listed whole and in its order, whatever the size of a page |
| `chat`, settings | 1 reader, 2 writers, 2 updates, 1 failing command; fair | `SettingsAreCurrent`: what is served is one state of the document, and the current one unless requests crossed; `StaleHeals` |
| `chat`, pages | 2 plans, 2 releases, subscription of one half day, 3 counts of use, 1 change, 1 failing read or command | `SeededPlansAreUsed`; `PagesAgree`: the pages tell what the guards would say |
| `earlier_ids` | as `chat`, 1 writer | violation of `EarlierIdsKnown` |

Why the bounds are enough. Two workers are what every race on one record needs;
a third (`all_faults`) lets a copy be delivered while two others overlap. Two
retry delays reach first retry, last retry and exhaustion. A second message
only interferes by occupying a worker, which two messages show. Three callers
give a holder, a waiter and a newcomer; four generations cover refreshes, a new
authorization and the refresh that is rejected after it. Two events give every pair that can be
swapped, tied, raced or overlapped, two webhook requests every race on one
document, two chats every pair of messages in flight; the theorems hold for any
number of each. Three products are one that is listed, one that shifts and one
behind them; two consumers give every pair of handlers, two events a change
under a running sync and another one, or a failure, on top. The nightly job is
held back while a full sync runs (a sync takes less than a day): full syncs
overlap when a plan starts. A history of 5 messages cuts a turn with a
tool call in the middle, three turns put two earlier ones into it; two rounds
reach the last one with results of an earlier one; two calls of a round finish
in both orders. Two jobs are every pair of jobs, and with an interval of 4 a
summary is due after one turn of 4 messages or two of 2. A subscription of one
half day begins, runs and ends within the bound, and with 0, 1 and 2 messages counted against limits of 1, 2
and none, usage is below, at and above the limit. `CHECK_DEADLOCK FALSE` is said where a
system comes to rest: all messages settled, nothing left to publish, all usage
at its bound.

**Fairness.** `MessageHandler`: a callback is run to its end, because every
client it calls has a timeout and an exception is also an end; the broker
delivers to an idle consumer; a TTL elapses. Publishing and faults are never
obliged. `TokenRefresh`: a call returns; the deadline of the poll loop passes
although the loop alternates between two labels (strong fairness: the deadline
is looked at once per round, and wall-clock time does not stop); Redis expires
keys. Webhooks and new refreshes are never obliged. `Subscriptions` promises
nothing eventual: whether Salla repeats a failed webhook is not up to the code.
`ProductSync` states what a full sync leaves behind when it ends, not that it
ends: that is `EventuallySettled` of the message it runs in.
`AssistantSettings`: requests end, for the same reason as callbacks, and what is
in Redis expires. Nobody has to read or to update, and commands may fail; but
updates are finitely many, as `StaleHeals` is about what follows the last one.

## 4. What is proved

For every number of messages, workers, delays, callers, generations, events,
requests, readers, writers, plans, releases, products, jobs, turns and days:

| Theorem | Assumes | Argument |
|---|---|---|
| `TypeCorrect` | - | `TypeOK` is inductive; one step per action. `ShouldRetry` bounds the attempt of a retry copy |
| `CompletedRecordsAreTrue` | - | `CompletedInv` adds that a callback about to call `markCompleted` without a transaction has run its handler |
| `NothingIsLost` | `FaultKinds` within `ToleratedFaults` | `NothingLostInv`: see below |
| `IgnoredIsHarmless` | `FaultKinds` within `ToleratedFaults` | `NothingLostInv`: a copy turned away meets a record that is completed, or one whose owner is at work or has another copy on its way |
| `EffectsHappenOnce`, `RecordIsALock` | no overdue record, lost connection or crash | `LockedInv`: see below; they are `AtMostOnce` and `SoleOwner` |
| `LockedEffectsHappenOnce`, `LockedRecordIsALock` | - | the same of the run `all_faults`, whatever its faults: a behaviour that chose to be locking takes the steps of `LockingStep`, which keep `LockedInv` |
| `MessagesAreConserved` | - | `ConservationInv`: see below |
| `OutcomesAreFinal` | `FaultKinds` within `ToleratedFaults` | `OneOutcome`: see below; the safety half of `ImplementsContract` |
| `RefreshIsExclusive` | no slow holder | `LockInv`: whoever is in the critical section is the value of `lock`, so two cannot be |
| `TokenExpiredIsTrue` | no slow holder, no overlap | `RevokedInv`: while a caller holds a token other than Salla's, the stored one is also another; nothing changes it before the mark |
| `TokenTypes` | - | `TokenTypeOK` is inductive |
| `StoreIsActiveWhileInstalled` | no overlapping webhooks, no failing webhook | `HookInv`: at most one webhook is under way, and it tells what the merchant did last |
| `UninstalledStaysDisconnected` | no overlap at all, no failing webhook | `UninstallInv`, on `HookInv`: a caller between Salla and the last write of its refresh works for a store that is installed |
| `ConnectedHoldsTheNewestPair` | nothing is done by half: no overlap, slow holder, failing webhook, lost response, failed save or crash before the save | `UsableInv`, on `LockInv`: until the merchant authorizes the app anew, either the stored pair is Salla's, or the one caller in the critical section is about to save it |
| `SubscriptionTypes` | - | `RecordInv`: times grow by one at most, a document has a period, a chat under way has seen a document |
| `RecordNeverGoesBack` | - | only a webhook writes (`OnlyWebhooksWrite`), through a filter that compares times or into no document (`SubStep`) |
| `StartsAreSynced` | - | `HookInv`: only starts reach the sync step, and nothing else answers a start |
| `PaidSurvivesTrial` | - | `EndedBy`: the only write that ends a paid record comes of a paid event |
| `NewestStartDecides` | - | `RaceInv`: before two inserts race, the request about to insert is alone and there is no document |
| `UsageStaysNearLimit` | a finite set of chats, not empty | `UsageInv`, on `PeriodInv` and `OneRunning`: see below |
| `RefusalsAreForTheQuota` | - | `PeriodInv`, `OneRunning`: without overlap the clock is in one period at most, so that the document found is that of this period or none |
| `HandledOnceInOrder` | - | `OrderInv`: see below |
| `ProductTypes` | - | `TypeInv`: `ProductTypeOK` with the shape of the records and `KnownInv`, `FreshInv` |
| `SweepNeverHidesLive` | - | `SweepInv`: see below |
| `CatalogueIsReconciled`, `StoreFitsThePlan` | - | `CalmInv`, `BudgetInv`: a full sync that nothing interferes with has brought every page before its page up to date, wrote only live products, and counts the slots of what it wrote |
| `SummariesKeepUp`, `NothingIsForgotten` | - | `MemoryInv` and `ReadingInv`: see below |
| `SummariesKeepUpInRun`, `NothingIsForgottenInRun` | - | a step of another part of `MCChat` leaves the memory alone |
| `ServedSettingsAreCurrent`, and of the run `ServedSettingsAreCurrentInRun` | - | `CacheInv`: whatever is held or cached has been a state of the document; until requests cross, a request about to store a view holds the current one |
| `PlansAreAsSeeded`, and of the run `PlansAreAsSeededInRun` | the first release gives every plan a limit, as it does in the run | `PlanInv`: until something crosses, a lookup about to store a plan has the one of now, and a key is out of date only while its deletion is due |
| `ArchiveIsShownAsSaid`, `SequencesStayDistinct`, `ArchiveTypes`, and of the run `ArchiveIsShownInRun` | retentions of at most 1000 days, sizes of pages that are integers | `WholeInv`: see below |
| `PagesTellTheTruth`, `DashboardTypes`, and of the run `PagesAgreeInRun` | `PlansAreNumbers`: limits are numbers or none, seeded plans have a key of their own | `PageInv`: see below |
| `SearchesKeepTheirPromise`, `TaggedCardsAreShownOnce`, `ChatTypes` | `Sound`: a finite catalogue of documents, responses and topics made of names, and history and rounds of at least one | `TurnInv`: see below |
| `PromptsAreAccepted` | `Sound` | `PromptInv`: see below |
| `SearchesKeepTheirPromiseInRun`, `TaggedCardsAreShownOnceInRun`, `PromptsAreAcceptedInRun` | - | the catalogue and the responses of `MCChat` are `Sound`; a step of another part leaves the turn alone |
| `TypesInRun` | no request both reads and writes, bounds that are numbers, a positive `TTL` | the type invariants of the five parts, each from its own theorem |

`NothingLost` is not inductive: that some callback carries a message says
nothing of what that callback will do. `Carried(m)` is the strengthening. A
message is settled; or a callback is *committed* to it, past
`startProcessing`, so that it executes, retries or dead-letters it whatever
becomes of the record; or a callback is about to release the record while the
retry copy waits; or the record is free and some copy is on its way to it. The
proof is that each action moves a message among these cases. `DeliveryHeld`
(no callback has lost its channel) makes the nack of a committed callback
count, and `Fresh` (an unpublished message has left no trace) starts the
argument at `Publish`.

`LockedInv` says when the record is a lock. Counting copies alone does not do:
once the retry copy is out, a failing release and a failing `markFailed` leave
two. But then the record stays PROCESSING with no owner, and both copies are
acknowledged. So the invariant ties the count to the record: an owner holds the
only copy until it has published the retry copy, and a record that is free or
FAILED meets at most one copy, so that the delete and the create of
`startProcessing` cannot be overtaken by those of another callback.

`ConservationInv` counts. `InQueues(m)` and `Bearers(m)` are the copies of a
message in the queues and the callbacks that have not decided its fate yet; that
both are finite has to be carried along, as a cardinality says nothing
otherwise. Each step moves one of them, turns it into an execution or a dead
letter, or adds one and is a fault.

`OneOutcome` is what the refinement rests on. The contract's `Execute` and
`DeadLetter` ask that a message has no outcome yet, and nothing in the handler
looks at that: it follows from the way copies and the record go together. While
the store answers, one callback or one queue has the message (`OneHasIt`), and
who has it finds the record free and the message without an outcome, up to the
effect of a handler that has still to be marked (`Undone`). The abstract step is
then read off: `OutcomeNow` changes with the commit of the handler, or with
the nack that dead-letters. What the contract promises in the end
(`EventuallySettled`) is liveness and checked by TLC.

`RaceInv` is why `NewestStartWins` excuses the race: in every other case the
filter on `lastEventAt` decides, and then a request that is ignored has met a
newer record.

`UsageInv` bounds the messages that can still be counted in a period since it
began. While it runs, whoever may count in it has passed the check or is about
to, and the check passes only below the limit; what was counted in it before,
the check finds too, and is only the stricter for it. When it ends, some have read the
subscription of before: they are at most all the chats once more. A set of
chats that grows with what may still be counted makes the bound inductive; the
count alone is not. `PeriodInv` ties periods, usage documents and the log
together, and `OneRunning` says what the absence of overlap means: the clock is
in one period at most.

`OrderInv` says of which prefix of the log the record is the outcome. `Outcome`
is a function on `0..MaxEvents`, and the proof needs that it exists
(`HistoryExists`): without induction, by the least prefix that would have none.
An event that comes again is older than the record, or changes nothing, since
`TakenInTurn` of it is the record already.

`SweepInv` says where the products are that a full sync would hide wrongly if
it hid now: at the page to be read or behind it. What makes it hold is that
positions are distinct and none falls while nothing is deleted; that what a
transaction is about to commit is counted with what is stored (`Due`), since it
was fetched earlier; and that whatever is stored has been in Salla
(`KnownInv`).

`MemoryInv` has four parts. `BoundInv`: a total, that is a number of messages
that a turn or a job works with, is a number of messages that are there, and a
turn begins behind it. `DueInv`: while a summary is due, whoever asks for the
newest one is still under way, or its job is lost; the next turn makes the list
longer, and is under way itself. `CoverInv`: what is counted has been told to the
summary, at the latest by the job that has counted it; its texts are those of
`count` to its total. `SaidInv`: what was said is in the list. Each part has the
exceptions it needs and no others, and together these are the exceptions of the
two properties. `ReadingInv` follows a turn through its three reads: the messages
it read are the beginning of those there are, until it has read the count; what
was said then is in them; and of as many of them as `reading.covers` says, the
summary it read tells. So a count read later that is no greater hides nothing.
That the prompt is told all that is left is a lemma about `PromptHistory`
(`PromptTells`): it begins at the first message of a customer, and a boundary is
one.

`CacheInv` and `PlanInv` carry the same idea: the property speaks of the cache,
but the danger is in what a request holds and has not stored yet. Both say of
each request what it is about to write. `PlanInv` also needs the shape of
functions and records (`ShapeInv`) without saying what a limit is, so that the
theorem does not depend on the values of the plans.

`PageInv` follows one page through its reads. `Still` says that nothing has
happened since the page began: no event, no message counted, no seeding under
way and no key left out of date. While it holds, what the page has read is what
there is (`ReadInv`), since a lookup reads either MongoDB or a key that `PlanInv`
says is current. Once the page is built, what it shows is computed from the
subscription, plan and usage of that moment (`ShownInv`), and the formula of the
page and that of the guard then agree by arithmetic. `PlaceInv` says which reads
a page of either kind can be at, and which of them it may lack; an overview ends
with an error only for the store.

`WholeInv` is `ArchiveInv` with three more parts. `ArchiveInv` holds because the
expiry of a conversation never falls below that of a message in it; the case
where it does, a plan without a limit replaced by one with a limit (*limited*),
is excepted. `TurnsInv`: a turn is archived once, and its customer comes before
its assistant. `OrderInv`: until numbers start again, the conversation has
counted what is stored; and until a turn is archived before an earlier one, the
numbers of what can be read are in the order of turns. `CountInv` bounds the
numbers. Expiry deletes messages one by one, so nothing is said about where a
message is in the sort. It is enough that `Before` is a strict order for every
choice of ties: a place for every message and a message for every place follow
by counting what is before it, and the pages cut the places into stretches that
meet.

`TurnInv` carries what makes a search keep its promise (`PromiseInv`): of a
product whose entry was that of its document when the index was read, the entry
of its document still passes the filters of that search, as long as nobody has
written the document. Every write of a document takes its product out of
`steady`, so that no step can break it, and reading the documents makes the card
of such a product from a document the filters allow. The cards of a reply are
positions in the list of what was found: the first of each id, so that they are
as many as the ids.

`PromptInv` says that a prompt is what is left of the history, then what the
customer said, then rounds (`Asking`, `Rounds`): requests for tools, each
followed by one result per call in the order of the calls and with its id
(`Answered`). Of the history the
proof only needs that it is a list of messages and that its cut begins with the
customer; `Sent` says what sanitizing leaves of it, the texts of customer and
assistant. So the first content is the customer's, no result is without its call
and no call without its result (`ContentsAccepted`), whatever was cut. While tools run, the messages are a
prompt with one request behind it, and `CollectResults` makes a round of it.

Proofs about `MCChat` use the theorems about its parts through instances of the
proof modules (`PagesProofs`, `ArchiveProofs`, `TurnProofs`), which are the parts
once their definitions are expanded; those about the settings are in
`ChatProofs` itself.

Some operators are written so that they can be reasoned about: a filter of a list
by the set of positions it keeps (`Selections`), the sort of the archive by
counting what comes before, contents as a choice by role. None of them is a
recursion, so no theorem needs an induction over data.

Proving gave `Conversation` the assumption that `SUMMARY_MESSAGE_INTERVAL` is
positive (`chat.constants.ts`): the boundaries of the summary are its multiples.

Every invariant and action property that a passing run checks is stated by a
theorem. Model-checked only is what happens eventually, which is out of the
provers' reach: `EventuallySettled`, `RefreshEnds`, `LockIsFreed`, `StaleHeals`,
and the liveness half of `ImplementsContract`, whose safety half is
`OutcomesAreFinal`.

## 5. What the model found

Where code and documentation disagree, a run shows it:

* `lost_dead_letter`: the channel closes while a handler runs. The redelivered
  copy meets PROCESSING and is acknowledged; the handler fails, marks FAILED,
  and its nack goes to a closed channel. A failed message is in no queue.
* `uninstalled_connected`: `updateTokens` sets `connected` whatever the status
  is, so a refresh whose answer arrives after the uninstallation undoes it.
* `start_ignored`: two first events of a store are handled together and neither
  finds a document. The older insert wins, the newer one fails with 11000,
  which `upsert` takes for "stale/duplicate". The store keeps the older
  subscription, and Salla has its answer.

* `hidden_live`: a full sync starts from the usage of the last one and counts
  every product again. A store above half of its plan reaches the limit before
  the end of its catalogue, and the sweep hides live products it never listed.
  The next night they fit again.
* `earlier_ids`: the declaration of `get_product_details` tells the model to
  give the id that appeared earlier in the conversation. The kept reply has lost
  its tags and the tool results of earlier turns are not sent, so in the turn
  after a reply with cards the model knows none of their ids.

The same models show these, each by adding one fault or overlap to the cfg of
the run that holds without it:

* a crash after `createProcessing`: the copy redelivered within five minutes is
  acknowledged as active and the message is never handled
  (`IgnoredIsDuplicateOrActive` and `NothingLost` with `crash`);
* a MongoDB call that fails after the retry copy is out: the message is
  requeued besides its retry, and may be executed and dead-lettered
  (`ImplementsContract` with `storeFails`);
* `slowRelease`: a retry copy delivered before its record is released is
  acknowledged and the message is lost;
* a handler that overruns five minutes and is overtaken finds no PROCESSING
  record, takes it for a failure, and `releaseForRetry` deletes the COMPLETED
  record of the other one: the message runs again (`AtMostOnce` with `timeout`);
* a refresh slower than the 30 s TTL of the lock: two processes spend one
  refresh token (`OneRefresher` with `slowHolder`);
* a refresh that overlaps a new authorization: Salla rejects the old token and
  `markTokenExpired` marks the integration just connected (`ExpiredIsRevoked`
  with `Overlaps = {"refresh"}`);
* events handled out of order: an expiry that comes before the start it ends
  finds no document and is dropped (`LatestEventDecides` under `reorder`); the
  second of two events of one second is dropped (under `tie`);
* overlapping periods, as after an upgrade in mid-term: `findCurrentUsage`
  ignores the period it is given, so the exhausted document of the older period
  refuses chats of the new one (`RefusalMeansExceeded` under `overlap`), or,
  created last, hides the newer count so that the limit is never reached
  (`UsageWithinLimit` under `overlap` with a limit of 2);
* a renewal that is announced before its period begins: chats are counted in a
  document that `findCurrentUsage` does not find yet, so until then no quota
  holds (`UsageWithinLimit` with `usage` in place of `since`);
* a deletion in Salla while its pages are read, or an item the mapper refuses:
  a live product is not listed and the sweep hides it (`SweepSparesLive` without
  `whole`);
* a deletion handled between the fetch and the write of an older sync: the
  product is visible again until the next full sync, as `FullSyncReconciles`
  says it then is not;
* a hidden product stays in the search index, and `searchForChat` does not look
  at the status of what it reads by id: the assistant finds and shows it
  (`SearchKeepsPromise` without the premise `steady`);
* a product that is written between the index read and the document read of a
  search: the index found it within the budget, and now no variant is;
  `pickBestVariant` falls back to one above it, and the card shows that (the
  same);
* two summary jobs of one conversation each start from the summary both have
  read, and the one that writes last decides; the count is written before the
  summary, so that it may belong to the other job (`NothingForgotten` without
  *overtaken*);
* a turn reads the summary, a job stores both of its keys, and the turn reads the
  count: it leaves out messages that no summary tells of. The same when the GET
  of the summary fails and that of the count does not (`TurnIsTold` without
  `reading.count <= reading.covers`);
* the messages expire and the count, or a queued job, does not: the next session
  begins with messages that count as summarised and are in no prompt (without
  *outlived*); or the summary expires first, and what it told is gone (without
  *expired*);
* a history in which one turn alone is longer than the 30 messages that are sent
  is cut inside that turn; no message of a customer is left and the history of
  the prompt is empty (`LastTurnReplayed` says from when on);
* a reply that is nothing but a tag is blank once it is cleaned, the schema of
  the archive requires a content, and the turn is dead-lettered (`dead`);
* a plan without a limit of retention that is replaced by one with a limit: the
  conversation gets an expiry that its older messages do not have, is deleted,
  and its sequence numbers start again over them (`RetainedIsFound` without
  *limited*);
* an expired conversation that is deleted before its expired messages, and a new
  turn: its numbers start at 0 among those of the old messages, and until these
  are deleted the dashboard lists both in one (`TranscriptReadsAsSaid` with
  `messages` in place of `Readable`);
* an update of the settings while a reader is between its read and its SET, or
  while another update is: the older view is served until the TTL is over
  (`FreshUnlessCrossed` without *crossed*; `StaleHeals` says that it ends);
* the same for plans: a lookup that crosses the seeding, or a failed DEL, lets
  an old limit decide for a day. And during a rollout a process of the older
  version that starts last seeds the older limits (`SeededPlansAreUsed` speaks
  of the last seeding);
* the billing page shows the limit of products of a plan whose subscription is
  canceled or in its trial, while `getProductsLimit` grants none unless the
  status is active (`subscriptions.service.ts:149`); and `Math.round` shows
  100 % at 499 of 500 messages. Both are read in the code and outside of
  `PagesAgree`, which is about chats.

And one that needs no run: `linkAndActivate` names `connectedAt` in both `$set`
and `$setOnInsert` (`salla-integration.repository.ts:52` and `:56`), which
MongoDB refuses as a conflict of paths (ConflictingUpdateOperators, 40). So
`app.store.authorize`, which "creates or activates the integration"
(`docs/architecture/integrations/salla.md:61`), creates and activates nothing:
every authorization ends with an error after the store was written, and a
merchant who authorizes anew is left with the pair that Salla has revoked. The
model does what the code does (`LinkAndActivate`); a store that is connected is
one that was connected otherwise.

## 6. What is not modelled, and the plan

Next, in this order:

1. `ProductSync`: the liveness that a fair nightly sync brings collection and
   index in line for good once the merchant of an unlimited store stops (it needs
   a run of one product without symmetry).
2. A composition of the webhook entry, the publisher, `MessageHandler` and the
   sync consumer, abstracted to what each promises (`DeliveryContract`).

Left out of modelled parts: the text of the system prompt and of the summary
prompt, token usage, the refusal of a disabled assistant, copies of plans by
slug (only an `_id` that never changes is taken of them), product slots,
features, labels and the history of usage on the dashboard, which are formulas
or tables over the same reads; the configuration of Meilisearch.

Left out for good: `wrap` and the interceptor of the cache (nothing uses them),
authentication and guards other than the subscription's (stateless), encryption
(data), logging, configuration and health, the declarations of indexes and of
API documentation. Stores and users are single-document CRUD except for the
writes that webhooks make.
