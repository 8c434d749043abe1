---------------------------- MODULE Subscriptions ----------------------------
(***************************************************************************)
(* The subscription record of one store, written by webhooks that Salla    *)
(* sends at least once and compared by the time of the event, and the      *)
(* chat requests whose quota depends on it (src/modules/subscriptions, and *)
(* handleSubscriptionEvent of salla-webhook.service.ts).                   *)
(*                                                                         *)
(* log is what Salla says, in the order it happened.  Handlers and chats   *)
(* are requests: each call to MongoDB or the LLM is a step of its own.     *)
(***************************************************************************)
EXTENDS Integers, Sequences, FiniteSets

CONSTANTS
    Kinds,      \* the kinds of event Salla sends in this instance
    MaxEvents,  \* bound: events Salla sends
    Handlers,   \* webhook requests handled at the same time
    Chats,      \* chat requests handled at the same time
    Limit,      \* messagesLimit of the plan
    MaxUsage,   \* bound: messages recorded in one period
    Disorders   \* what may go wrong with the events

(* "extended" is a renewal, and "unpriced" a start, whose plan the code    *)
(* cannot resolve; the others are named as Salla names them.               *)
AllKinds == {"trial.started", "started", "unpriced", "renewed", "extended",
             "trial.expired", "trial.canceled", "expired", "canceled"}

(* "reorder": an event is handled before an older one has been.  "tie":    *)
(* two events with the same time.  "overlap": a period that begins before  *)
(* another has ended.  "race": two requests find no document at the same   *)
(* time.                                                                   *)
ASSUME SubscriptionConstants ==
    /\ Kinds \subseteq AllKinds
    /\ MaxEvents \in Nat \ {0} /\ Limit \in Nat /\ MaxUsage \in Nat
    /\ Disorders \subseteq {"reorder", "tie", "overlap", "race"}

VARIABLES
    log,      \* events Salla has sent: [kind, at, period]
    acked,    \* indexes of the events answered with success
    sub,      \* the subscription document; at = 0 is no document
    synced,   \* indexes of the events that have triggered a full sync
    hook,     \* each webhook request: the event it handles and its step
    usage,    \* aiMessagesCount, by period
    since,    \* how much of it was counted after the period had begun
    created,  \* the periods with a usage document, oldest document first
    begun,    \* periods whose start has passed
    ended,    \* periods whose end has passed
    chat,     \* each chat request: its step and the period it has read
    met       \* the disorders that have occurred

webhookVars == <<acked, sub, synced, hook>>
chatVars == <<usage, since, created, chat>>
clockVars == <<begun, ended>>
vars == <<log, acked, sub, synced, hook, usage, since, created, begun, ended,
          chat, met>>

Events == 1..MaxEvents
Idle == [step |-> "idle", ev |-> 0]
NoChat == [step |-> "idle", period |-> 0]

Statuses == {"NONE", "TRIALING", "ACTIVE", "CANCELED", "EXPIRED"}

NoSub == [at |-> 0, status |-> "NONE", trial |-> FALSE, period |-> 0]

SubTypeOK ==
    /\ log \in Seq([kind : Kinds, at : Events, period : Events])
    /\ Len(log) <= MaxEvents
    /\ acked \subseteq DOMAIN log
    /\ sub \in [at : 0..MaxEvents, status : Statuses, trial : BOOLEAN,
                period : 0..MaxEvents]
    /\ synced \subseteq DOMAIN log
    /\ hook \in [Handlers -> [step : {"idle", "apply", "insert", "sync"},
                              ev : {0} \cup DOMAIN log]]
    /\ \A h \in Handlers : hook[h].step # "idle" => hook[h].ev \in DOMAIN log
    /\ usage \in [Events -> Nat] /\ since \in [Events -> Nat]
    /\ created \in Seq(Events)
    /\ begun \subseteq Events /\ ended \subseteq Events
    /\ chat \in [Chats -> [step : {"idle", "usage", "answer", "track", "record"},
                           period : 0..MaxEvents]]
    /\ \A c \in Chats : chat[c].step = "record" => chat[c].period \in Events
    /\ met \subseteq Disorders

(* A store that is linked and has no subscription yet.                     *)
Init ==
    /\ log = <<>>
    /\ acked = {}
    /\ sub = NoSub
    /\ synced = {}
    /\ hook = [h \in Handlers |-> Idle]
    /\ usage = [p \in Events |-> 0]
    /\ since = [p \in Events |-> 0]
    /\ created = <<>>
    /\ begun = {}
    /\ ended = {}
    /\ chat = [c \in Chats |-> NoChat]
    /\ met = {}

(* met' after a step that shows the disorder d if the condition holds.     *)
Meets(d, condition) ==
    IF condition THEN d \in Disorders /\ met' = met \cup {d} ELSE met' = met

-------------------------------------------------------------------------------
(* What the events mean.                                                   *)

Upserts == {"trial.started", "started", "renewed"}
Starts == {"trial.started", "started"}
TrialEnds == {"trial.expired", "trial.canceled"}
Expires == {"trial.expired", "expired"}
Cancels == {"trial.canceled", "canceled"}
Ends == Expires \cup Cancels
NewPeriods == Upserts \cup {"extended"}

StatusOf(kind) ==
    CASE kind \in Expires -> "EXPIRED"
      [] kind \in Cancels -> "CANCELED"
      [] kind = "trial.started" -> "TRIALING"
      [] OTHER -> "ACTIVE"

(* newerThan: a document without lastEventAt is older than any event, and  *)
(* the comparison is strict.                                               *)
NewerThan(e, s) == s.at < e.at

(* Mutant: the comparison by time is left out.                             *)
MatchesAnyTime(e, s) ==
    /\ s.at > 0 /\ e.kind # "unpriced"
    /\ e.kind \in TrialEnds => s.trial

(* Mutant: onlyTrial is not passed on.                                     *)
MatchesPaid(e, s) ==
    /\ s.at > 0 /\ e.kind # "unpriced"
    /\ NewerThan(e, s)

(* The filters of the three updates, on an existing document.  An unpriced *)
(* start reaches none of them.                                             *)
Matches(e, s) ==
    /\ s.at > 0 /\ e.kind # "unpriced"
    /\ NewerThan(e, s)
    /\ e.kind \in TrialEnds => s.trial

Upserted(e) ==
    [at |-> e.at, status |-> StatusOf(e.kind),
     trial |-> e.kind = "trial.started", period |-> e.period]

Updated(e, s) ==
    CASE e.kind \in Upserts -> Upserted(e)
      [] e.kind = "extended" ->
            [s EXCEPT !.at = e.at, !.status = "ACTIVE", !.period = e.period]
      [] OTHER -> [s EXCEPT !.at = e.at, !.status = StatusOf(e.kind)]

-------------------------------------------------------------------------------
(* Salla.                                                                  *)

LastAt == IF log = <<>> THEN 0 ELSE log[Len(log)].at

(* The next event; the index of a period is the index of its event.        *)
Emit(kind) ==
    /\ Len(log) < MaxEvents
    /\ \E at \in {LastAt, LastAt + 1} :
          /\ at > 0
          /\ log' = Append(log, [kind |-> kind, at |-> at, period |-> Len(log) + 1])
          /\ Meets("tie", at = LastAt)
    /\ UNCHANGED <<webhookVars, chatVars, clockVars>>

(* The periods that the clock is in.                                       *)
Running == begun \ ended

(* The start of a period passes, at the moment of its event or later: a    *)
(* renewal may come before the period it is for.                           *)
PeriodBegins(p) ==
    /\ p \in DOMAIN log \ begun
    /\ log[p].kind \in NewPeriods
    /\ begun' = begun \cup {p}
    /\ Meets("overlap", Running # {})
    /\ UNCHANGED <<log, webhookVars, chatVars, ended>>

(* The end of a period passes.                                             *)
PeriodEnds(p) ==
    /\ p \in Running
    /\ ended' = ended \cup {p}
    /\ UNCHANGED <<log, webhookVars, chatVars, begun, met>>

(* Salla calls the webhook for an event it has sent: the first time, again *)
(* after a failure, again after a success, or twice at the same time.      *)
Deliver(h, i) ==
    /\ hook[h].step = "idle"
    /\ i \in DOMAIN log
    /\ hook' = [hook EXCEPT ![h] = [step |-> "apply", ev |-> i]]
    /\ Meets("reorder", \E j \in 1..(i - 1) : j \notin acked)
    /\ UNCHANGED <<log, acked, sub, synced, chatVars, clockVars>>

-------------------------------------------------------------------------------
(* handleSubscriptionEvent, for a linked store.                            *)

(* Mutant: a start that was ignored is answered without a full sync.       *)
AppliedUnlessIgnored(h) ==
    IF log[hook[h].ev].kind \in Starts /\ sub' # sub
    THEN /\ hook' = [hook EXCEPT ![h].step = "sync"]
         /\ UNCHANGED acked
    ELSE /\ hook' = [hook EXCEPT ![h] = Idle]
         /\ acked' = acked \cup {hook[h].ev}

(* A start whose event was ignored goes on to the full sync like another.  *)
Applied(h) ==
    IF log[hook[h].ev].kind \in Starts
    THEN /\ hook' = [hook EXCEPT ![h].step = "sync"]
         /\ UNCHANGED acked
    ELSE /\ hook' = [hook EXCEPT ![h] = Idle]
         /\ acked' = acked \cup {hook[h].ev}

(* findOneAndUpdate matches the document.                                  *)
ApplyMatching(h) ==
    /\ hook[h].step = "apply"
    /\ Matches(log[hook[h].ev], sub)
    /\ sub' = Updated(log[hook[h].ev], sub)
    /\ Applied(h)
    /\ UNCHANGED <<log, synced, chatVars, clockVars, met>>

(* No match: an upsert that finds a document fails on the unique storeId   *)
(* (11000) and returns null, an update does nothing.                       *)
ApplyIgnored(h) ==
    /\ hook[h].step = "apply"
    /\ ~Matches(log[hook[h].ev], sub)
    /\ sub.at > 0 \/ log[hook[h].ev].kind \notin Upserts
    /\ UNCHANGED sub
    /\ Applied(h)
    /\ UNCHANGED <<log, synced, chatVars, clockVars, met>>

(* An upsert that finds no document inserts one, in a second step.         *)
ApplyAbsent(h) ==
    /\ hook[h].step = "apply"
    /\ sub.at = 0 /\ log[hook[h].ev].kind \in Upserts
    /\ hook' = [hook EXCEPT ![h].step = "insert"]
    /\ Meets("race", \E g \in Handlers : hook[g].step = "insert")
    /\ UNCHANGED <<log, acked, sub, synced, chatVars, clockVars>>

Insert(h) ==
    /\ hook[h].step = "insert"
    /\ sub' = IF sub.at = 0 THEN Upserted(log[hook[h].ev]) ELSE sub
    /\ Applied(h)
    /\ UNCHANGED <<log, synced, chatVars, clockVars, met>>

(* triggerFullSync publishes the job; the webhook succeeds.                *)
TriggerFullSync(h) ==
    /\ hook[h].step = "sync"
    /\ synced' = synced \cup {hook[h].ev}
    /\ acked' = acked \cup {hook[h].ev}
    /\ hook' = [hook EXCEPT ![h] = Idle]
    /\ UNCHANGED <<log, sub, chatVars, clockVars, met>>

(* A step throws, or the process stops: no answer, and Salla retries.      *)
WebhookFails(h) ==
    /\ hook[h].step # "idle"
    /\ hook' = [hook EXCEPT ![h] = Idle]
    /\ UNCHANGED <<log, acked, sub, synced, chatVars, clockVars, met>>

-------------------------------------------------------------------------------
(* Chat requests.                                                          *)

Accessible == {"ACTIVE", "TRIALING", "CANCELED"}

(* Mutant: the end of the period is not compared with the time.            *)
HasAccessByStatus == sub.at > 0 /\ sub.status \in Accessible

(* Mutant: a list of refused statuses instead of one of accepted ones.     *)
HasAccessUnlessExpired == sub.status # "EXPIRED" /\ sub.period \notin ended

(* The document exists, and hasAccess of it.                               *)
HasAccess ==
    /\ sub.at > 0
    /\ sub.status \in Accessible
    /\ sub.period \notin ended

(* The count of the newest of the documents at these places.               *)
CountOf(places) ==
    IF places = {} THEN 0
    ELSE usage[created[CHOOSE k \in places : \A l \in places : l <= k]]

(* Mutant: the start of the period is not compared with the time.          *)
UsageBeforeEnd == CountOf({k \in DOMAIN created : created[k] \notin ended})

(* The count of the newest document of a running period, whichever period  *)
(* the caller asked for.                                                   *)
CurrentUsage == CountOf({k \in DOMAIN created : created[k] \in Running})

(* validateChatAllowanceOrThrow, its two reads.                            *)
ValidateAccess(c) ==
    /\ chat[c].step = "idle"
    /\ HasAccess
    /\ chat' = [chat EXCEPT ![c].step = "usage"]
    /\ UNCHANGED <<log, webhookVars, usage, since, created, clockVars, met>>

CheckUsage(c) ==
    /\ chat[c].step = "usage"
    /\ chat' = [chat EXCEPT ![c].step =
                    IF CurrentUsage >= Limit THEN "idle" ELSE "answer"]
    /\ UNCHANGED <<log, webhookVars, usage, since, created, clockVars, met>>

(* The answer of the LLM; a failure, here or in a read, ends the request.  *)
Answer(c) ==
    /\ chat[c].step = "answer"
    /\ \E step \in {"idle", "track"} : chat' = [chat EXCEPT ![c].step = step]
    /\ UNCHANGED <<log, webhookVars, usage, since, created, clockVars, met>>

(* trackNewConversation, which the answer does not wait for: the period is *)
(* that of the document as it is now.                                      *)
TrackRead(c) ==
    /\ chat[c].step = "track"
    /\ chat' = [chat EXCEPT ![c] = [step |-> "record", period |-> sub.period]]
    /\ UNCHANGED <<log, webhookVars, usage, since, created, clockVars, met>>

RecordConversation(c) ==
    LET p == chat[c].period IN
    /\ chat[c].step = "record"
    /\ usage[p] < MaxUsage
    /\ usage' = [usage EXCEPT ![p] = @ + 1]
    /\ since' = IF p \in begun THEN [since EXCEPT ![p] = @ + 1] ELSE since
    /\ created' = IF usage[p] = 0 THEN Append(created, p) ELSE created
    /\ chat' = [chat EXCEPT ![c] = NoChat]
    /\ UNCHANGED <<log, webhookVars, clockVars, met>>

(* An error of either call is logged.                                      *)
TrackFails(c) ==
    /\ chat[c].step \in {"track", "record"}
    /\ chat' = [chat EXCEPT ![c] = NoChat]
    /\ UNCHANGED <<log, webhookVars, usage, since, created, clockVars, met>>

-------------------------------------------------------------------------------
WebhookStep(h) ==
    \/ ApplyMatching(h) \/ ApplyIgnored(h) \/ ApplyAbsent(h)
    \/ Insert(h) \/ TriggerFullSync(h) \/ WebhookFails(h)

ChatStep(c) ==
    \/ ValidateAccess(c) \/ CheckUsage(c) \/ Answer(c)
    \/ TrackRead(c) \/ RecordConversation(c) \/ TrackFails(c)

Next ==
    \/ \E kind \in Kinds : Emit(kind)
    \/ \E p \in Events : PeriodBegins(p) \/ PeriodEnds(p)
    \/ \E h \in Handlers, i \in Events : Deliver(h, i)
    \/ \E h \in Handlers : WebhookStep(h)
    \/ \E c \in Chats : ChatStep(c)

Spec == Init /\ [][Next]_vars

-------------------------------------------------------------------------------
(* Properties.                                                             *)

(* newerThan in every filter: whatever the order, the repetition or the    *)
(* overlap of webhooks, a step that changes the subscription moves it to   *)
(* an event of a later time.                                               *)
LastEventMonotone == [][sub' # sub => sub'.at > sub.at]_vars

(* What an event means to a document when each is taken in its turn: no    *)
(* times are compared.                                                     *)
TakenInTurn(e, s) ==
    CASE s.at = 0 -> IF e.kind \in Upserts THEN Upserted(e) ELSE s
      [] s.at > 0 /\ (\/ e.kind = "unpriced"
                      \/ e.kind \in TrialEnds /\ ~s.trial) -> s
      [] OTHER -> Updated(e, s)

(* The document after the first k events, each taken in its turn.          *)
Outcome[k \in 0..MaxEvents] ==
    IF k = 0 THEN NoSub ELSE TakenInTurn(log[k], Outcome[k - 1])

(* While Salla keeps the order and times are distinct, retries and repeats *)
(* of webhooks leave what handling every event once, in order, would have: *)
(* the record of a prefix of the log that holds all that was answered.     *)
LatestEventDecides ==
    {"reorder", "tie"} \cap met = {} =>
        \E k \in 0..Len(log) : acked \subseteq 1..k /\ sub = Outcome[k]

(* A start or renewal answered with success is in the record or is older   *)
(* than it, in whatever order webhooks came, unless two requests raced to  *)
(* insert the first record.                                                *)
AnsweredIsNotNewer ==
    \A i \in acked : log[i].kind \in Upserts => log[i].at <= sub.at

NewestStartWins == "race" \notin met => AnsweredIsNotNewer

(* "Stale/duplicate event ignored" (subscriptions.service.ts:32): an event *)
(* that is answered and not applied is not newer than the record.          *)
IgnoredIsStale == AnsweredIsNotNewer

(* onlyTrial: the end of a trial that arrives late does not end the paid   *)
(* subscription that followed; a paid record ends by a paid event alone.   *)
TrialEndSparesPaid ==
    sub.status \in {"EXPIRED", "CANCELED"} /\ ~sub.trial =>
        \E i \in DOMAIN log :
            log[i].kind \in Ends \ TrialEnds /\ log[i].at = sub.at

(* A start answered with success has published its full sync, also when an *)
(* earlier attempt had applied it and failed before publishing.            *)
StartIsSynced == \A i \in acked : log[i].kind \in Starts => i \in synced

(* Without overlapping periods, the messages counted in one since it began *)
(* exceed the limit by the requests in flight at most: those that passed   *)
(* the check together, and those that read the subscription as its period  *)
(* ended.  What a renewal that came early has counted before is not seen   *)
(* by the check until the period begins, and is without limit.             *)
UsageWithinLimit ==
    "overlap" \notin met =>
        \A p \in Events : since[p] < Limit + 2 * Cardinality(Chats)

(* A running period is at its limit, and it is the one the store is        *)
(* subscribed to if that one is running.                                   *)
QuotaIsUsedUp ==
    \E p \in Running :
        usage[p] >= Limit /\ (sub.period \in Running => p = sub.period)

(* Without overlapping periods, a chat that is refused for its quota finds *)
(* a running period at its limit: neither what older periods have used     *)
(* counts, nor what an early renewal has.                                  *)
RefusalMeansExceeded ==
    [][\A c \in Chats :
          "overlap" \notin met /\ chat[c].step = "usage" /\ chat'[c].step = "idle"
              => Limit = 0 \/ QuotaIsUsedUp]_vars
===============================================================================
