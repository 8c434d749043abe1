------------------------- MODULE SubscriptionsProofs --------------------------
(***************************************************************************)
(* Proofs about Subscriptions for every log of events, any number of       *)
(* webhook and chat requests and any disorder among them.                  *)
(***************************************************************************)
EXTENDS Subscriptions, SequenceTheorems, FiniteSetTheorems, TLAPS

Event == [kind : Kinds, at : Events, period : Events]

(* Times of events grow by one at most, a document has a period, and chats *)
(* under way have read a document, which is never deleted.                 *)
RecordInv ==
    /\ \A i \in DOMAIN log : log[i].at <= i
    /\ sub.at > 0 => sub.period \in Events
    /\ \A c \in Chats : chat[c].step # "idle" => sub.at > 0

(* The steps of a webhook that only some kinds reach.                      *)
HookInv ==
    \A h \in Handlers :
        /\ hook[h].step = "insert" => log[hook[h].ev].kind \in Upserts
        /\ hook[h].step = "sync" => log[hook[h].ev].kind \in Starts

(* Until two requests race, the one about to insert is alone and there is  *)
(* no document; what it or a sync step has handled is in the record.       *)
RaceInv ==
    "race" \notin met =>
        /\ AnsweredIsNotNewer
        /\ \A h \in Handlers :
              hook[h].step = "sync" => log[hook[h].ev].at <= sub.at
        /\ \A h \in Handlers :
              hook[h].step = "insert" =>
                  /\ sub.at = 0
                  /\ \A g \in Handlers : hook[g].step = "insert" => g = h

-------------------------------------------------------------------------------
(* A new event leaves the ones before it as they are.                      *)
LEMMA EventsStay ==
    ASSUME SubTypeOK, RecordInv, NEW kind \in Kinds, Emit(kind)
    PROVE  /\ log' \in Seq(Event) /\ Len(log') <= MaxEvents
           /\ DOMAIN log \subseteq DOMAIN log'
           /\ \A i \in DOMAIN log : log'[i] = log[i]
           /\ \A i \in DOMAIN log' : log'[i].at <= i
<1> DEFINE Sent(at) == [kind |-> kind, at |-> at, period |-> Len(log) + 1]
<1>1. log \in Seq(Event) /\ Len(log) \in Nat /\ Len(log) < MaxEvents
      /\ DOMAIN log = 1..Len(log)
  BY DEF SubTypeOK, Event, Emit
<1>2. PICK at \in {LastAt, LastAt + 1} : at > 0 /\ log' = Append(log, Sent(at))
  BY DEF Emit
<1>3. LastAt \in 0..Len(log)
  <2>1. CASE log = <<>>
    BY <2>1, <1>1 DEF LastAt
  <2>2. CASE log # <<>>
    <3>1. Len(log) \in DOMAIN log
      BY <2>2, <1>1
    <3>2. log[Len(log)] \in Event /\ log[Len(log)].at <= Len(log)
      BY <3>1, <1>1, ElementOfSeq DEF RecordInv
    <3>3. log[Len(log)].at \in 0..Len(log)
      BY <3>2, <1>1 DEF Event, Events
    <3> QED
      BY <2>2, <3>3 DEF LastAt
  <2> QED
    BY <2>1, <2>2
<1>4. at \in 1..(Len(log) + 1) /\ Sent(at) \in Event
  BY <1>1, <1>2, <1>3, SubscriptionConstants DEF Event, Events
<1> HIDE DEF Sent
<1>5. /\ log' \in Seq(Event)
      /\ Len(log') = Len(log) + 1
      /\ \A i \in 1..Len(log) : log'[i] = log[i]
      /\ log'[Len(log) + 1] = Sent(at)
  BY <1>1, <1>2, <1>4, AppendProperties
<1>6. Sent(at).at <= Len(log) + 1
  BY <1>1, <1>4 DEF Sent
<1>7. DOMAIN log' = 1..(Len(log) + 1)
  BY <1>1, <1>5
<1>8. \A i \in DOMAIN log' : log'[i].at <= i
  BY <1>1, <1>5, <1>6, <1>7 DEF RecordInv
<1> QED
  BY <1>1, <1>5, <1>7, <1>8, SubscriptionConstants

(* Events are events, and their times are numbers.                         *)
LEMMA LogEvents ==
    ASSUME SubTypeOK
    PROVE  \A i \in DOMAIN log : log[i] \in Event /\ log[i].at \in Nat
<1>1. log \in Seq(Event) /\ DOMAIN log = 1..Len(log)
  BY DEF SubTypeOK, Event
<1>2. \A i \in DOMAIN log : log[i] \in Event
  BY <1>1, ElementOfSeq
<1> QED
  BY <1>2, SubscriptionConstants DEF Event, Events

(* The event that a busy request handles.                                  *)
LEMMA Handled ==
    ASSUME SubTypeOK, NEW h \in Handlers, hook[h].step # "idle"
    PROVE  /\ hook[h].ev \in DOMAIN log
           /\ log[hook[h].ev] \in Event
<1>1. hook[h].ev \in DOMAIN log
  BY DEF SubTypeOK
<1> QED
  BY <1>1, LogEvents

(* What the updates make of a document.                                    *)
LEMMA Updates ==
    ASSUME SubTypeOK, NEW e \in Event
    PROVE  /\ Upserted(e) \in [at : 1..MaxEvents, status : Statuses,
                               trial : BOOLEAN, period : Events]
           /\ Upserted(e).at = e.at
           /\ Matches(e, sub) =>
                 /\ Updated(e, sub) \in [at : 1..MaxEvents, status : Statuses,
                                         trial : BOOLEAN, period : 0..MaxEvents]
                 /\ Updated(e, sub).at = e.at
                 /\ Updated(e, sub).period \in {sub.period} \cup Events
                 /\ sub.at > 0 /\ e.at > sub.at
<1>1. e.at \in 1..MaxEvents /\ e.period \in Events /\ e.kind \in Kinds
  BY DEF Event, Events
<1>2. StatusOf(e.kind) \in Statuses
  BY DEF StatusOf, Statuses
<1>3. /\ Upserted(e) \in [at : 1..MaxEvents, status : Statuses,
                          trial : BOOLEAN, period : Events]
      /\ Upserted(e).at = e.at
      /\ Upserted(e).period \in Events
  BY <1>1, <1>2 DEF Upserted
<1>4. ASSUME Matches(e, sub)
      PROVE  /\ Updated(e, sub) \in [at : 1..MaxEvents, status : Statuses,
                                     trial : BOOLEAN, period : 0..MaxEvents]
             /\ Updated(e, sub).at = e.at
             /\ Updated(e, sub).period \in {sub.period} \cup Events
             /\ sub.at > 0 /\ e.at > sub.at
  <2>1. sub.at > 0 /\ e.at > sub.at
    BY <1>1, <1>4 DEF Matches, NewerThan, SubTypeOK
  <2>2. /\ MaxEvents \in Nat /\ Events = 1..MaxEvents
        /\ sub \in [at : 0..MaxEvents, status : Statuses, trial : BOOLEAN,
                   period : 0..MaxEvents]
    BY SubscriptionConstants DEF Events, SubTypeOK
  <2>3. CASE e.kind \in Upserts
    <3>1. Updated(e, sub) = Upserted(e)
      BY <2>3 DEF Updated, Upserts
    <3> QED
      BY <2>1, <2>2, <3>1, <1>3
  <2>4. CASE e.kind = "extended"
    <3>1. Updated(e, sub) = [sub EXCEPT !.at = e.at, !.status = "ACTIVE",
                                        !.period = e.period]
      BY <2>4 DEF Updated, Upserts
    <3>2. /\ e.at \in 1..MaxEvents /\ "ACTIVE" \in Statuses
          /\ e.period \in 0..MaxEvents /\ sub.trial \in BOOLEAN
      BY <2>2, <1>1 DEF Statuses
    <3>3. Updated(e, sub) = [at |-> e.at, status |-> "ACTIVE",
                             trial |-> sub.trial, period |-> e.period]
      BY <2>2, <3>1
    <3> QED
      BY <2>1, <3>2, <3>3, <1>1
  <2>5. CASE e.kind \notin NewPeriods
    <3>1. Updated(e, sub) = [sub EXCEPT !.at = e.at, !.status = StatusOf(e.kind)]
      BY <2>5 DEF Updated, NewPeriods
    <3> QED
      BY <2>1, <2>2, <3>1, <1>1, <1>2
  <2> QED
    BY <2>3, <2>4, <2>5 DEF NewPeriods
<1> QED
  BY <1>3, <1>4

-------------------------------------------------------------------------------
(* What a webhook step does to the record.                                 *)
LEMMA SubStep ==
    ASSUME SubTypeOK, NEW h \in Handlers, WebhookStep(h), sub' # sub
    PROVE  LET e == log[hook[h].ev] IN
           /\ hook[h].ev \in DOMAIN log /\ e \in Event
           /\ \/ hook[h].step = "apply" /\ Matches(e, sub) /\ sub' = Updated(e, sub)
              \/ hook[h].step = "insert" /\ sub.at = 0 /\ sub' = Upserted(e)
<1>1. hook[h].step # "idle"
  BY DEF WebhookStep, ApplyMatching, ApplyIgnored, ApplyAbsent, Insert,
     TriggerFullSync, WebhookFails
<1> QED
  BY <1>1, Handled DEF WebhookStep, ApplyMatching, ApplyIgnored, ApplyAbsent,
     Insert, TriggerFullSync, WebhookFails

(* The clock moves nothing but its periods.                                *)
LEMMA ClockFrame ==
    ASSUME NEW p \in Events, PeriodBegins(p) \/ PeriodEnds(p)
    PROVE  /\ UNCHANGED <<log, acked, sub, synced, hook, usage, since, created, chat>>
           /\ met' \in {met, met \cup {"overlap"}} /\ met \subseteq met'
BY DEF PeriodBegins, PeriodEnds, Meets, webhookVars, chatVars

(* Only a webhook step writes the record.                                  *)
LEMMA OnlyWebhooksWrite ==
    ASSUME [Next]_vars, sub' # sub
    PROVE  \E h \in Handlers : WebhookStep(h)
<1> USE DEF webhookVars
<1>1. ~ \E kind \in Kinds : Emit(kind)
  BY DEF Emit
<1>2. ~ \E p \in Events : PeriodBegins(p) \/ PeriodEnds(p)
  BY ClockFrame
<1>3. ~ \E h \in Handlers, i \in Events : Deliver(h, i)
  BY DEF Deliver
<1>4. ~ \E c \in Chats : ChatStep(c)
  BY DEF ChatStep, ValidateAccess, CheckUsage, Answer, TrackRead,
     RecordConversation, TrackFails
<1> QED
  BY <1>1, <1>2, <1>3, <1>4 DEF Next, vars

(* A write of the record is of a later time, and keeps it well formed.     *)
LEMMA RecordGrows ==
    ASSUME SubTypeOK, RecordInv, [Next]_vars, sub' # sub
    PROVE  /\ sub' \in [at : 1..MaxEvents, status : Statuses,
                        trial : BOOLEAN, period : 0..MaxEvents]
           /\ sub'.period \in Events
           /\ sub'.at > sub.at
<1>1. PICK h \in Handlers : WebhookStep(h)
  BY OnlyWebhooksWrite
<1> DEFINE e == log[hook[h].ev]
<1>2. /\ e \in Event
      /\ \/ Matches(e, sub) /\ sub' = Updated(e, sub)
         \/ sub.at = 0 /\ sub' = Upserted(e)
  BY <1>1, SubStep
<1> HIDE DEF e
<1>3. CASE Matches(e, sub) /\ sub' = Updated(e, sub)
  BY <1>2, <1>3, Updates DEF RecordInv
<1>4. CASE sub.at = 0 /\ sub' = Upserted(e)
  <2>1. sub' \in [at : 1..MaxEvents, status : Statuses,
                  trial : BOOLEAN, period : Events]
    BY <1>2, <1>4, Updates
  <2> QED
    BY <1>4, <2>1, SubscriptionConstants DEF Events
<1> QED
  BY <1>2, <1>3, <1>4

(* SubTypeOK and RecordInv hold initially and every step keeps them.       *)
LEMMA TypeInit == Init => SubTypeOK /\ RecordInv
<1> SUFFICES ASSUME Init PROVE SubTypeOK /\ RecordInv
  OBVIOUS
<1>1. log = <<>> /\ log \in Seq(Event) /\ DOMAIN log = {} /\ Len(log) = 0
  BY DEF Init
<1>2. created \in Seq(Events)
  BY DEF Init
<1> QED
  BY <1>1, <1>2, SubscriptionConstants
     DEF Init, SubTypeOK, RecordInv, NoSub, Statuses, Idle, NoChat, Event, Events

LEMMA TypeStep ==
    ASSUME SubTypeOK, RecordInv, [Next]_vars
    PROVE  SubTypeOK' /\ RecordInv'
<1>1. /\ sub' \in [at : 0..MaxEvents, status : Statuses, trial : BOOLEAN,
                   period : 0..MaxEvents]
      /\ sub.at > 0 => sub'.at > 0
      /\ sub'.at > 0 => sub'.period \in Events
  <2>1. CASE sub' = sub
    BY <2>1 DEF SubTypeOK, RecordInv
  <2>2. CASE sub' # sub
    <3>1. /\ sub' \in [at : 1..MaxEvents, status : Statuses, trial : BOOLEAN,
                        period : 0..MaxEvents]
          /\ sub'.period \in Events
      BY <2>2, RecordGrows
    <3>2. MaxEvents \in Nat
      BY SubscriptionConstants
    <3> QED
      BY ONLY <3>1, <3>2
  <2> QED
    BY <2>1, <2>2
<1>2. ASSUME NEW kind \in Kinds, Emit(kind) PROVE SubTypeOK' /\ RecordInv'
  <2>1. /\ log' \in Seq(Event) /\ Len(log') <= MaxEvents
        /\ DOMAIN log \subseteq DOMAIN log'
        /\ \A i \in DOMAIN log' : log'[i].at <= i
    BY <1>2, EventsStay
  <2>2. met' \subseteq Disorders
    BY <1>2 DEF Emit, Meets, SubTypeOK
  <2> QED
    BY <1>1, <1>2, <2>1, <2>2
       DEF Emit, SubTypeOK, RecordInv, Event, webhookVars, chatVars, clockVars
<1>3. ASSUME NEW p \in Events, PeriodBegins(p) \/ PeriodEnds(p)
      PROVE  SubTypeOK' /\ RecordInv'
  <2>1. UNCHANGED <<log, acked, sub, synced, hook, usage, since, created, chat>>
    BY <1>3, ClockFrame
  <2>2. begun' \subseteq Events /\ ended' \subseteq Events /\ met' \subseteq Disorders
    BY <1>3 DEF PeriodBegins, PeriodEnds, Meets, SubTypeOK
  <2> QED
    BY <2>1, <2>2 DEF SubTypeOK, RecordInv
<1>4. ASSUME NEW h \in Handlers, NEW i \in Events, Deliver(h, i)
      PROVE  SubTypeOK' /\ RecordInv'
  BY <1>4 DEF Deliver, Meets, SubTypeOK, RecordInv, chatVars, clockVars
<1>5. ASSUME NEW h \in Handlers, WebhookStep(h) PROVE SubTypeOK' /\ RecordInv'
  <2>1. hook[h].ev \in DOMAIN log
    <3>1. hook[h].step # "idle"
      BY <1>5 DEF WebhookStep, ApplyMatching, ApplyIgnored, ApplyAbsent, Insert,
         TriggerFullSync, WebhookFails
    <3> QED
      BY <3>1, Handled
  <2>2. UNCHANGED <<log, chatVars, clockVars>>
    BY <1>5 DEF WebhookStep, ApplyMatching, ApplyIgnored, ApplyAbsent, Insert,
       TriggerFullSync, WebhookFails
  <2>3. acked' \subseteq DOMAIN log /\ synced' \subseteq DOMAIN log
    BY <1>5, <2>1 DEF SubTypeOK, WebhookStep, ApplyMatching, ApplyIgnored,
       ApplyAbsent, Insert, TriggerFullSync, WebhookFails, Applied
  <2>4. met' \subseteq Disorders
    BY <1>5 DEF SubTypeOK, WebhookStep, ApplyMatching, ApplyIgnored,
       ApplyAbsent, Insert, TriggerFullSync, WebhookFails, Meets
  <2>5. /\ hook' \in [Handlers -> [step : {"idle", "apply", "insert", "sync"},
                                   ev : {0} \cup DOMAIN log]]
        /\ \A g \in Handlers : hook'[g].step # "idle" => hook'[g].ev \in DOMAIN log
    <3>1. \/ hook' = [hook EXCEPT ![h] = Idle]
          \/ hook' = [hook EXCEPT ![h].step = "sync"]
          \/ hook' = [hook EXCEPT ![h].step = "insert"]
      BY <1>5 DEF WebhookStep, ApplyMatching, ApplyIgnored, ApplyAbsent, Insert,
         TriggerFullSync, WebhookFails, Applied
    <3>2. /\ hook \in [Handlers -> [step : {"idle", "apply", "insert", "sync"},
                                     ev : {0} \cup DOMAIN log]]
          /\ \A g \in Handlers : hook[g].step # "idle" => hook[g].ev \in DOMAIN log
      BY DEF SubTypeOK
    <3>3. CASE hook' = [hook EXCEPT ![h] = Idle]
      BY <3>2, <3>3 DEF Idle
    <3>4. CASE hook' = [hook EXCEPT ![h].step = "sync"]
      BY <2>1, <3>2, <3>4
    <3>5. CASE hook' = [hook EXCEPT ![h].step = "insert"]
      BY <2>1, <3>2, <3>5
    <3> QED
      BY <3>1, <3>3, <3>4, <3>5
  <2> QED
    BY <1>1, <2>2, <2>3, <2>4, <2>5 DEF SubTypeOK, RecordInv, chatVars, clockVars
<1>6. ASSUME NEW c \in Chats, ChatStep(c) PROVE SubTypeOK' /\ RecordInv'
  <2> USE DEF SubTypeOK, RecordInv, webhookVars, clockVars
  <2>1. CASE ValidateAccess(c)
    BY <2>1 DEF ValidateAccess, HasAccess
  <2>2. CASE CheckUsage(c)
    BY <2>2 DEF CheckUsage
  <2>3. CASE Answer(c)
    BY <2>3 DEF Answer
  <2>4. CASE TrackRead(c)
    BY <2>4 DEF TrackRead
  <2>5. CASE RecordConversation(c)
    <3>1. chat[c].period \in Events
      BY <2>5 DEF RecordConversation
    <3>2. usage' \in [Events -> Nat] /\ since' \in [Events -> Nat]
      BY <2>5, <3>1 DEF RecordConversation
    <3>3. created' \in Seq(Events)
      BY <2>5, <3>1, AppendProperties DEF RecordConversation
    <3>4. chat' = [chat EXCEPT ![c] = NoChat] /\ 0 \in 0..MaxEvents
      BY <2>5, SubscriptionConstants DEF RecordConversation
    <3>5. UNCHANGED <<log, acked, sub, synced, hook, begun, ended, met>>
      BY <2>5 DEF RecordConversation
    <3>6. /\ chat' \in [Chats -> [step : {"idle", "usage", "answer", "track", "record"},
                                   period : 0..MaxEvents]]
          /\ \A d \in Chats : chat'[d] = chat[d] \/ chat'[d].step = "idle"
      BY <3>4 DEF NoChat
    <3> QED
      BY <3>2, <3>3, <3>5, <3>6
  <2>6. CASE TrackFails(c)
    BY <2>6, SubscriptionConstants DEF TrackFails, NoChat
  <2> QED
    BY <1>6, <2>1, <2>2, <2>3, <2>4, <2>5, <2>6 DEF ChatStep
<1>7. CASE UNCHANGED vars
  BY <1>7 DEF vars, SubTypeOK, RecordInv
<1> QED
  BY <1>2, <1>3, <1>4, <1>5, <1>6, <1>7 DEF Next

(* Whatever the webhooks and chats do, every variable keeps its type: a    *)
(* chat that counts its message has a period to count it in.               *)
THEOREM SubscriptionTypes == Spec => []SubTypeOK
<1>1. SubTypeOK /\ RecordInv /\ [Next]_vars => (SubTypeOK /\ RecordInv)'
  BY TypeStep
<1> QED
  BY <1>1, TypeInit, PTL DEF Spec

(* newerThan guards every write of the subscription: it never goes back in *)
(* time, in whatever order, how often and how concurrently webhooks come.  *)
THEOREM RecordNeverGoesBack == Spec => LastEventMonotone
<1>1. SubTypeOK /\ RecordInv /\ [Next]_vars => (SubTypeOK /\ RecordInv)'
  BY TypeStep
<1>2. SubTypeOK /\ RecordInv /\ [Next]_vars
        => [sub' # sub => sub'.at > sub.at]_vars
  BY RecordGrows
<1> QED
  BY <1>1, <1>2, TypeInit, PTL DEF Spec, LastEventMonotone

-------------------------------------------------------------------------------
(* The steps of Salla and of chats change nothing that webhooks rely on.   *)
LEMMA OthersKeep ==
    ASSUME SubTypeOK, RecordInv, [Next]_vars,
           ~ \E h \in Handlers : WebhookStep(h),
           ~ \E h \in Handlers, i \in Events : Deliver(h, i)
    PROVE  /\ UNCHANGED <<acked, sub, synced, hook>>
           /\ DOMAIN log \subseteq DOMAIN log'
           /\ \A i \in DOMAIN log : log'[i] = log[i]
           /\ "race" \in met => "race" \in met'
<1>1. ASSUME NEW kind \in Kinds, Emit(kind) PROVE
          /\ UNCHANGED <<acked, sub, synced, hook>>
          /\ "race" \in met => "race" \in met'
  BY <1>1 DEF Emit, Meets, webhookVars
<1>2. CASE \E p \in Events : PeriodBegins(p) \/ PeriodEnds(p)
  BY <1>2, ClockFrame
<1>3. CASE \E c \in Chats : ChatStep(c)
  BY <1>3 DEF ChatStep, ValidateAccess, CheckUsage, Answer, TrackRead,
     RecordConversation, TrackFails, webhookVars
<1>4. CASE UNCHANGED vars
  BY <1>4 DEF vars
<1> QED
  BY <1>1, <1>2, <1>3, <1>4, EventsStay DEF Next

LEMMA SyncedStep ==
    ASSUME SubTypeOK, RecordInv, HookInv, StartIsSynced, [Next]_vars
    PROVE  HookInv' /\ StartIsSynced'
<1>1. ASSUME NEW h \in Handlers, WebhookStep(h) PROVE HookInv' /\ StartIsSynced'
  <2> USE DEF HookInv, StartIsSynced, SubTypeOK
  <2>1. hook \in [Handlers -> [step : {"idle", "apply", "insert", "sync"},
                               ev : {0} \cup DOMAIN log]]
    OBVIOUS
  <2>2. CASE Applied(h) /\ UNCHANGED <<log, synced>>
    <3>1. CASE log[hook[h].ev].kind \in Starts
      <4>1. hook' = [hook EXCEPT ![h].step = "sync"] /\ acked' = acked
        BY <2>2, <3>1 DEF Applied
      <4> HIDE DEF SubTypeOK
      <4> QED
        BY <2>1, <2>2, <3>1, <4>1
    <3>2. CASE log[hook[h].ev].kind \notin Starts
      <4>1. hook' = [hook EXCEPT ![h] = Idle] /\ acked' = acked \cup {hook[h].ev}
        BY <2>2, <3>2 DEF Applied
      <4> HIDE DEF SubTypeOK
      <4> QED
        BY <2>1, <2>2, <3>2, <4>1 DEF Idle
    <3> QED
      BY <3>1, <3>2
  <2>3. CASE ApplyAbsent(h)
    BY <2>3 DEF ApplyAbsent
  <2>4. CASE TriggerFullSync(h)
    BY <2>4 DEF TriggerFullSync, Idle
  <2>5. CASE WebhookFails(h)
    BY <2>5 DEF WebhookFails, Idle
  <2> QED
    BY <1>1, <2>2, <2>3, <2>4, <2>5
       DEF WebhookStep, ApplyMatching, ApplyIgnored, Insert
<1>2. ASSUME NEW h \in Handlers, NEW i \in Events, Deliver(h, i)
      PROVE  HookInv' /\ StartIsSynced'
  BY <1>2 DEF Deliver, HookInv, StartIsSynced, SubTypeOK
<1>3. CASE /\ ~ \E h \in Handlers : WebhookStep(h)
           /\ ~ \E h \in Handlers, i \in Events : Deliver(h, i)
  BY <1>3, OthersKeep DEF HookInv, StartIsSynced, SubTypeOK
<1> QED
  BY <1>1, <1>2, <1>3

(* A start that is answered with success has published its full sync,      *)
(* whatever failed, was repeated or was ignored as stale before.           *)
THEOREM StartsAreSynced == Spec => []StartIsSynced
<1> DEFINE Inv == SubTypeOK /\ RecordInv /\ HookInv /\ StartIsSynced
<1>1. Init => Inv
  BY TypeInit DEF Init, HookInv, StartIsSynced, Idle
<1>2. Inv /\ [Next]_vars => Inv'
  BY TypeStep, SyncedStep
<1> QED
  BY <1>1, <1>2, PTL DEF Spec

-------------------------------------------------------------------------------
(* What a write of the record makes of a status that has ended.            *)
LEMMA EndedBy ==
    ASSUME SubTypeOK, HookInv,
           NEW h \in Handlers, WebhookStep(h), sub' # sub,
           sub'.status \in {"EXPIRED", "CANCELED"}, ~sub'.trial
    PROVE  /\ hook[h].ev \in DOMAIN log
           /\ log[hook[h].ev].kind \in Ends \ TrialEnds
           /\ log[hook[h].ev].at = sub'.at
<1> DEFINE e == log[hook[h].ev]
<1>1. /\ hook[h].ev \in DOMAIN log /\ e \in Event
      /\ \/ Matches(e, sub) /\ sub' = Updated(e, sub)
         \/ sub' = Upserted(e) /\ hook[h].step = "insert"
  BY SubStep
<1>2. hook[h].step = "insert" => e.kind \in Upserts
  BY DEF HookInv
<1> HIDE DEF e
<1>3. Upserted(e).status \notin {"EXPIRED", "CANCELED"} \/ e.kind \notin Upserts
  BY DEF Upserted, StatusOf, Upserts, Expires, Cancels
<1>4. Matches(e, sub) /\ sub' = Updated(e, sub)
  BY <1>1, <1>2, <1>3
<1>5. e.kind \notin Upserts
  BY <1>3, <1>4 DEF Updated
<1>6. e.kind # "extended"
  <2>1. ASSUME e.kind = "extended" PROVE FALSE
    <3>1. sub'.status = "ACTIVE"
      BY <1>4, <2>1 DEF Updated, Upserts, SubTypeOK
    <3> QED
      BY <3>1
  <2> QED
    BY <2>1
<1>7. /\ sub' = [sub EXCEPT !.at = e.at, !.status = StatusOf(e.kind)]
      /\ e.kind # "unpriced" /\ (e.kind \in TrialEnds => sub.trial)
  BY <1>4, <1>5, <1>6 DEF Updated, Matches
<1>8. sub'.at = e.at /\ sub'.trial = sub.trial
  BY <1>7 DEF SubTypeOK
<1>9. e.kind \notin TrialEnds
  BY <1>7, <1>8
<1>10. e.kind \in Ends
  BY <1>1, <1>5, <1>6, <1>7, SubscriptionConstants
     DEF Event, AllKinds, Upserts, Ends, Expires, Cancels
<1> QED
  BY <1>1, <1>8, <1>9, <1>10 DEF e

LEMMA TrialStep ==
    ASSUME SubTypeOK, RecordInv, HookInv, TrialEndSparesPaid, [Next]_vars
    PROVE  TrialEndSparesPaid'
<1>1. ASSUME NEW h \in Handlers, WebhookStep(h), sub' # sub
      PROVE  TrialEndSparesPaid'
  <2>1. UNCHANGED log
    BY <1>1 DEF WebhookStep, ApplyMatching, ApplyIgnored, ApplyAbsent, Insert,
       TriggerFullSync, WebhookFails
  <2> QED
    BY <1>1, <2>1, EndedBy DEF TrialEndSparesPaid
<1>2. ASSUME NEW h \in Handlers, WebhookStep(h), sub' = sub
      PROVE  TrialEndSparesPaid'
  <2>1. UNCHANGED log
    BY <1>2 DEF WebhookStep, ApplyMatching, ApplyIgnored, ApplyAbsent, Insert,
       TriggerFullSync, WebhookFails
  <2> QED
    BY <1>2, <2>1 DEF TrialEndSparesPaid
<1>3. ASSUME NEW h \in Handlers, NEW i \in Events, Deliver(h, i)
      PROVE  TrialEndSparesPaid'
  BY <1>3 DEF Deliver, TrialEndSparesPaid
<1>4. CASE /\ ~ \E h \in Handlers : WebhookStep(h)
           /\ ~ \E h \in Handlers, i \in Events : Deliver(h, i)
  BY <1>4, OthersKeep DEF TrialEndSparesPaid
<1> QED
  BY <1>1, <1>2, <1>3, <1>4

(* onlyTrial: whenever the end of a trial is handled, it never ends a paid *)
(* subscription, even one that replaced the trial.                         *)
THEOREM PaidSurvivesTrial == Spec => []TrialEndSparesPaid
<1> DEFINE Inv == /\ SubTypeOK /\ RecordInv /\ HookInv /\ StartIsSynced
                  /\ TrialEndSparesPaid
<1>1. Init => Inv
  BY TypeInit DEF Init, HookInv, StartIsSynced, Idle, TrialEndSparesPaid, NoSub
<1>2. Inv /\ [Next]_vars => Inv'
  BY TypeStep, SyncedStep, TrialStep
<1> QED
  BY <1>1, <1>2, PTL DEF Spec

-------------------------------------------------------------------------------
(* An upsert that is ignored is not newer than the record.                 *)
LEMMA IgnoredUpsert ==
    ASSUME SubTypeOK, NEW e \in Event, e.kind \in Upserts, sub.at > 0,
           ~Matches(e, sub)
    PROVE  e.at <= sub.at
<1>1. e.kind \notin TrialEnds /\ e.kind # "unpriced"
  BY DEF Upserts, TrialEnds
<1> QED
  BY <1>1, SubscriptionConstants DEF Matches, NewerThan, SubTypeOK, Event, Events

(* Handled upserts are in the record, by each step of a webhook.           *)
LEMMA RaceWebhook ==
    ASSUME SubTypeOK, RecordInv, HookInv, RaceInv,
           NEW h \in Handlers, WebhookStep(h), SubTypeOK', [Next]_vars
    PROVE  RaceInv'
<1> DEFINE e == log[hook[h].ev]
<1> SUFFICES ASSUME "race" \notin met'
             PROVE  /\ AnsweredIsNotNewer'
                    /\ \A g \in Handlers :
                          hook'[g].step = "sync" => log'[hook'[g].ev].at <= sub'.at
                    /\ \A g \in Handlers : hook'[g].step = "insert" =>
                          /\ sub'.at = 0
                          /\ \A f \in Handlers : hook'[f].step = "insert" => f = g
  BY DEF RaceInv
<1>1. /\ hook[h].step # "idle" /\ UNCHANGED log /\ "race" \notin met
      /\ \A g \in Handlers \ {h} : hook'[g] = hook[g]
  BY DEF WebhookStep, ApplyMatching, ApplyIgnored, ApplyAbsent, Insert,
     TriggerFullSync, WebhookFails, Meets, Applied, SubTypeOK
<1>2. hook[h].ev \in DOMAIN log /\ e \in Event /\ e.at \in Nat
  BY <1>1, Handled, LogEvents
<1>3. sub.at \in Nat /\ sub'.at \in Nat /\ sub.at <= sub'.at
  BY RecordGrows, SubscriptionConstants DEF SubTypeOK
<1>4. /\ \A i \in acked : log[i].kind \in Upserts => log[i].at <= sub'.at
      /\ \A g \in Handlers \ {h} :
            hook[g].step = "sync" => log[hook[g].ev].at <= sub'.at
  <2>1. /\ \A i \in acked : log[i].kind \in Upserts => log[i].at <= sub.at
        /\ \A g \in Handlers : hook[g].step = "sync" => log[hook[g].ev].at <= sub.at
    BY <1>1 DEF RaceInv, AnsweredIsNotNewer
  <2>2. /\ \A i \in acked : log[i].at \in Nat
        /\ \A g \in Handlers : hook[g].step = "sync" => log[hook[g].ev].at \in Nat
    BY LogEvents DEF SubTypeOK
  <2> QED
    BY <1>3, <2>1, <2>2
<1>5. hook \in [Handlers -> [step : {"idle", "apply", "insert", "sync"},
                             ev : {0} \cup DOMAIN log]]
  BY DEF SubTypeOK
<1>6. \A g \in Handlers : hook[g].step = "insert" =>
          sub.at = 0 /\ \A f \in Handlers : hook[f].step = "insert" => f = g
  BY <1>1 DEF RaceInv
<1>7. CASE ApplyMatching(h) \/ ApplyIgnored(h) \/ Insert(h)
  <2>1. Applied(h) /\ hook[h].step \in {"apply", "insert"}
    BY <1>7 DEF ApplyMatching, ApplyIgnored, Insert
  <2>2. e.kind \in Upserts => e.at <= sub'.at
    <3>1. CASE ApplyMatching(h)
      BY <3>1, <1>2, <1>3, Updates DEF ApplyMatching
    <3>2. CASE ApplyIgnored(h)
      BY <3>2, <1>2, <1>3, IgnoredUpsert DEF ApplyIgnored
    <3>3. CASE Insert(h)
      <4>1. sub.at = 0 /\ sub' = Upserted(e)
        BY <3>3, <1>6 DEF Insert
      <4> QED
        BY <4>1, <1>2, Updates
    <3> QED
      BY <1>7, <3>1, <3>2, <3>3
  <2>3. ASSUME NEW g \in Handlers \ {h}, hook[g].step = "insert"
        PROVE  sub' = sub
    <3>1. sub.at = 0 /\ hook[h].step # "insert"
      BY <2>3, <1>6
    <3> QED
      BY <3>1, <1>7 DEF ApplyMatching, ApplyIgnored, Insert, Matches
  <2>4. CASE e.kind \in Starts
    <3>1. hook' = [hook EXCEPT ![h].step = "sync"] /\ acked' = acked
      BY <2>1, <2>4 DEF Applied
    <3>2. hook'[h].step = "sync" /\ hook'[h].ev = hook[h].ev
      BY <3>1, <1>5
    <3>3. e.at <= sub'.at
      BY <2>2, <2>4 DEF Starts, Upserts
    <3> HIDE DEF e
    <3> QED
      BY <1>1, <1>4, <1>6, <2>3, <3>1, <3>2, <3>3 DEF AnsweredIsNotNewer, e
  <2>5. CASE e.kind \notin Starts
    <3>1. hook' = [hook EXCEPT ![h] = Idle] /\ acked' = acked \cup {hook[h].ev}
      BY <2>1, <2>5 DEF Applied
    <3>2. hook'[h].step = "idle"
      BY <3>1, <1>5 DEF Idle
    <3> QED
      BY <1>1, <1>4, <1>6, <2>2, <2>3, <3>1, <3>2 DEF AnsweredIsNotNewer
  <2> QED
    BY <2>4, <2>5
<1>8. CASE ApplyAbsent(h)
  <2>1. /\ hook' = [hook EXCEPT ![h].step = "insert"] /\ acked' = acked
        /\ sub' = sub /\ sub.at = 0 /\ \A g \in Handlers : hook[g].step # "insert"
    BY <1>8 DEF ApplyAbsent, Meets
  <2> QED
    BY <2>1, <1>1, <1>4, <1>5 DEF AnsweredIsNotNewer
<1>9. CASE TriggerFullSync(h)
  <2>1. /\ hook' = [hook EXCEPT ![h] = Idle] /\ acked' = acked \cup {hook[h].ev}
        /\ sub' = sub /\ e.at <= sub.at
    BY <1>9, <1>1 DEF TriggerFullSync, RaceInv
  <2> QED
    BY <2>1, <1>1, <1>4, <1>5, <1>6 DEF AnsweredIsNotNewer, Idle
<1>10. CASE WebhookFails(h)
  <2>1. hook' = [hook EXCEPT ![h] = Idle] /\ acked' = acked /\ sub' = sub
    BY <1>10 DEF WebhookFails
  <2> QED
    BY <2>1, <1>1, <1>4, <1>5, <1>6 DEF AnsweredIsNotNewer, Idle
<1> QED
  BY <1>7, <1>8, <1>9, <1>10 DEF WebhookStep

LEMMA RaceStep ==
    ASSUME SubTypeOK, RecordInv, HookInv, RaceInv, [Next]_vars
    PROVE  RaceInv'
<1>1. CASE \E h \in Handlers : WebhookStep(h)
  BY <1>1, TypeStep, RaceWebhook
<1>2. ASSUME NEW h \in Handlers, NEW i \in Events, Deliver(h, i)
      PROVE  RaceInv'
  BY <1>2 DEF Deliver, Meets, RaceInv, AnsweredIsNotNewer, SubTypeOK
<1>3. CASE /\ ~ \E h \in Handlers : WebhookStep(h)
           /\ ~ \E h \in Handlers, i \in Events : Deliver(h, i)
  BY <1>3, OthersKeep DEF RaceInv, AnsweredIsNotNewer, SubTypeOK
<1> QED
  BY <1>1, <1>2, <1>3

(* Until two requests race to insert the first document, a start or a      *)
(* renewal that was answered is in the record, or the record is newer,     *)
(* whatever the order in which webhooks came and failed.                   *)
THEOREM NewestStartDecides == Spec => []NewestStartWins
<1> DEFINE Inv == /\ SubTypeOK /\ RecordInv /\ HookInv /\ StartIsSynced
                  /\ RaceInv
<1>1. Init => Inv
  BY TypeInit DEF Init, HookInv, StartIsSynced, Idle, RaceInv, AnsweredIsNotNewer
<1>2. Inv /\ [Next]_vars => Inv'
  BY TypeStep, SyncedStep, RaceStep
<1>3. Inv => NewestStartWins
  BY DEF RaceInv, NewestStartWins
<1> QED
  BY <1>1, <1>2, <1>3, PTL DEF Spec

-------------------------------------------------------------------------------
(* The index of an event that opens a period.                              *)
Paid(p) == p \in DOMAIN log /\ log[p].kind \in NewPeriods

(* Times follow the log and a period is named by its event; the document's *)
(* period is not newer than the document, and no chat counts in a period   *)
(* the document has not reached; a document of usage is created with the   *)
(* first message it counts.                                                *)
PeriodInv ==
    /\ \A i \in DOMAIN log : log[i].period = i
    /\ \A i, j \in DOMAIN log : i <= j => log[i].at <= log[j].at
    /\ ended \subseteq begun /\ \A p \in begun : Paid(p)
    /\ sub.at = 0 => sub.period = 0
    /\ sub.at > 0 => Paid(sub.period) /\ log[sub.period].at <= sub.at
    /\ \A c \in Chats : chat[c].step = "record" =>
          Paid(chat[c].period) /\ chat[c].period <= sub.period
    /\ \A p \in Events : usage[p] > 0 <=> (\E k \in DOMAIN created : created[k] = p)
    /\ \A k \in DOMAIN created : Paid(created[k]) /\ created[k] <= sub.period
    /\ \A k, l \in DOMAIN created : created[k] = created[l] => k = l
    /\ \A p \in Events : since[p] <= usage[p] /\ (p \notin begun => since[p] = 0)

(* Without overlap, the clock is in one period at most.                    *)
OneRunning == "overlap" \notin met => \A p, q \in Running : p = q

(* The chats that may still count a message in the period p, and in p      *)
(* once it has ended, when those that have read nothing of it are past it. *)
Counting(p) == {c \in Chats : chat[c].step = "record" /\ chat[c].period = p}
MayCount(p) == {c \in Chats : chat[c].step \in {"answer", "track"}} \cup Counting(p)
MayCountLate(p) ==
    Counting(p) \cup
        {c \in Chats : sub.period <= p /\ chat[c].step \in {"usage", "answer", "track"}}

(* Chats are answered while the running period is below the limit, and a   *)
(* period that ends finds no more than all of them under way.              *)
UsageInv ==
    "overlap" \notin met =>
        /\ Limit = 0 => \A c \in Chats : chat[c].step \in {"idle", "usage"}
        /\ \A p \in begun :
              /\ p \notin ended =>
                    since[p] + Cardinality(MayCount(p)) < Limit + Cardinality(Chats)
              /\ p \in ended =>
                    since[p] + Cardinality(MayCountLate(p)) < Limit + 2 * Cardinality(Chats)

(* What a new event is, and what is noted of it.                           *)
LEMMA Emitted ==
    ASSUME SubTypeOK, RecordInv, PeriodInv, NEW kind \in Kinds, Emit(kind)
    PROVE  LET n == Len(log) + 1 IN
           /\ n \in Events /\ DOMAIN log = 1..Len(log) /\ DOMAIN log' = 1..n
           /\ \A i \in DOMAIN log : log'[i] = log[i]
           /\ log'[n].kind = kind /\ log'[n].period = n /\ log'[n].at \in Nat
           /\ \A i \in DOMAIN log : log[i].at <= log'[n].at
           /\ "tie" \notin met' =>
                 "tie" \notin met /\ log'[n].at = 1 + IF log = <<>> THEN 0 ELSE log[Len(log)].at
           /\ "overlap" \notin met' => "overlap" \notin met
           /\ "reorder" \in met => "reorder" \in met'
           /\ UNCHANGED <<acked, sub, synced, hook, usage, since, created, chat,
                          begun, ended>>
<1> DEFINE Sent(at) == [kind |-> kind, at |-> at, period |-> Len(log) + 1]
           n == Len(log) + 1
<1>1. /\ log \in Seq(Event) /\ Len(log) \in Nat /\ Len(log) < MaxEvents
      /\ DOMAIN log = 1..Len(log) /\ n \in Events
  BY SubscriptionConstants DEF SubTypeOK, Event, Emit, Events
<1>2. PICK at \in {LastAt, LastAt + 1} :
          /\ log' = Append(log, Sent(at))
          /\ met' = IF at = LastAt THEN met \cup {"tie"} ELSE met
  BY DEF Emit, Meets
<1>3. /\ LastAt = IF log = <<>> THEN 0 ELSE log[Len(log)].at
      /\ LastAt \in Nat /\ \A i \in DOMAIN log : log[i].at <= LastAt /\ log[i].at \in Nat
  <2>1. CASE log = <<>>
    BY <2>1 DEF LastAt
  <2>2. CASE log # <<>>
    <3>1. Len(log) \in DOMAIN log
      BY <2>2, <1>1
    <3> QED
      BY <2>2, <3>1, <1>1, LogEvents DEF LastAt, PeriodInv
  <2> QED
    BY <2>1, <2>2
<1>4. DOMAIN log' = 1..n /\ \A i \in 1..Len(log) : log'[i] = log[i]
  BY <1>1, <1>2, AppendProperties
<1>5. log'[n] = Sent(at)
  BY <1>1, <1>2, AppendProperties
<1>6. /\ "tie" \notin met' => "tie" \notin met /\ at = LastAt + 1
      /\ "overlap" \notin met' => "overlap" \notin met
      /\ "reorder" \in met => "reorder" \in met'
  BY <1>2
<1>7. UNCHANGED <<acked, sub, synced, hook, usage, since, created, chat, begun, ended>>
  BY DEF Emit, webhookVars, chatVars, clockVars
<1>8. at \in Nat /\ LastAt <= at /\ log'[n].kind = kind /\ log'[n].period = n /\ log'[n].at = at
  BY <1>2, <1>3, <1>5
<1>9. \A i \in DOMAIN log : log[i].at <= log'[n].at
  BY <1>3, <1>8
<1> HIDE DEF Sent
<1> QED
  BY <1>1, <1>3, <1>4, <1>6, <1>7, <1>8, <1>9

(* The period of the document changes to a newer one, the event's.         *)
LEMMA PeriodGrows ==
    ASSUME SubTypeOK, RecordInv, PeriodInv, HookInv,
           NEW h \in Handlers, WebhookStep(h), sub' # sub
    PROVE  /\ sub'.at > sub.at /\ sub'.at > 0
           /\ Paid(sub'.period) /\ log[sub'.period].at <= sub'.at
           /\ sub.period <= sub'.period
<1> DEFINE i == hook[h].ev
<1>1. /\ i \in DOMAIN log /\ log[i] \in Event
      /\ \/ Matches(log[i], sub) /\ sub' = Updated(log[i], sub)
         \/ sub.at = 0 /\ sub' = Upserted(log[i]) /\ log[i].kind \in Upserts
  BY SubStep DEF HookInv
<1>2. /\ i \in Nat /\ log[i].period = i /\ log[i].at \in Nat /\ sub.at \in Nat
      /\ \A j \in DOMAIN log : j \in Nat /\ log[j].at \in Nat
      /\ \A j \in DOMAIN log : log[j].at < log[i].at => j < i
  <2>1. /\ \A j \in DOMAIN log : j \in Nat /\ log[j].at \in Nat
        /\ log[i].period = i /\ sub.at \in Nat
    <3>1. sub.at \in Nat /\ log \in Seq(Event)
      BY SubscriptionConstants DEF SubTypeOK, Event
    <3>2. log[i].period = i
      BY <1>1 DEF PeriodInv
    <3> QED
      BY <3>1, <3>2, LogEvents
  <2>2. \A j \in DOMAIN log : i <= j => log[i].at <= log[j].at
    BY <1>1 DEF PeriodInv
  <2> QED
    BY <1>1, <2>1, <2>2
<1> HIDE DEF i
<1>3. CASE Matches(log[i], sub) /\ sub' = Updated(log[i], sub)
  <2>1. sub'.at = log[i].at /\ sub.at > 0 /\ log[i].at > sub.at
    BY <1>1, <1>3, Updates
  <2>2. Paid(sub.period) /\ log[sub.period].at <= sub.at /\ sub.period \in DOMAIN log
    BY <2>1 DEF PeriodInv, Paid
  <2>3. sub.period < i
    BY <1>2, <2>1, <2>2
  <2>4. CASE log[i].kind \in Upserts
    <3>1. sub'.period = i
      BY <1>2, <1>3, <2>4 DEF Updated, Upserted
    <3> QED
      BY <1>1, <1>2, <2>1, <2>2, <2>3, <2>4, <3>1 DEF Paid, NewPeriods
  <2>5. CASE log[i].kind = "extended"
    <3>1. sub' = [sub EXCEPT !.at = log[i].at, !.status = "ACTIVE", !.period = i]
      BY <1>2, <1>3, <2>5 DEF Updated, Upserts
    <3>2. sub'.period = i
      BY <3>1 DEF SubTypeOK
    <3> QED
      BY <1>1, <1>2, <2>1, <2>2, <2>3, <2>5, <3>2 DEF Paid, NewPeriods
  <2>6. CASE log[i].kind \notin NewPeriods
    <3>1. sub' = [sub EXCEPT !.at = log[i].at, !.status = StatusOf(log[i].kind)]
      BY <1>3, <2>6 DEF Updated, NewPeriods
    <3>2. sub'.period = sub.period
      BY <3>1 DEF SubTypeOK
    <3> QED
      BY <1>2, <2>1, <2>2, <3>2
  <2> QED
    BY <2>4, <2>5, <2>6 DEF NewPeriods
<1>4. CASE sub.at = 0 /\ sub' = Upserted(log[i]) /\ log[i].kind \in Upserts
  <2>1. sub'.period = i /\ sub'.at = log[i].at /\ log[i].at > 0 /\ sub.period = 0
    BY <1>1, <1>2, <1>4, SubscriptionConstants DEF Upserted, Event, Events, PeriodInv
  <2> QED
    BY <1>1, <1>2, <1>4, <2>1 DEF Paid, NewPeriods
<1> QED
  BY <1>1, <1>3, <1>4

(* A webhook step reads the log and writes neither usage nor periods.      *)
LEMMA WebhookFrame ==
    ASSUME NEW h \in Handlers, WebhookStep(h)
    PROVE  /\ UNCHANGED <<log, usage, since, created, chat, begun, ended>>
           /\ met' \in {met, met \cup {"race"}}
BY DEF WebhookStep, ApplyMatching, ApplyIgnored, ApplyAbsent, Insert,
   TriggerFullSync, WebhookFails, Meets, chatVars, clockVars

(* A chat step writes no document but usage.                               *)
LEMMA ChatFrame ==
    ASSUME NEW c \in Chats, ChatStep(c)
    PROVE  UNCHANGED <<log, acked, sub, synced, hook, begun, ended, met>>
BY DEF ChatStep, ValidateAccess, CheckUsage, Answer, TrackRead,
   RecordConversation, TrackFails, webhookVars, clockVars

LEMMA PeriodInit == Init => PeriodInv /\ OneRunning
BY SubscriptionConstants
   DEF Init, PeriodInv, OneRunning, Running, Paid, NoSub, NoChat, Events

LEMMA PeriodStep ==
    ASSUME SubTypeOK, RecordInv, HookInv, PeriodInv, OneRunning, [Next]_vars
    PROVE  PeriodInv' /\ OneRunning'
<1>1. ASSUME NEW kind \in Kinds, Emit(kind) PROVE PeriodInv' /\ OneRunning'
  <2> DEFINE n == Len(log) + 1
  <2>1. /\ n \in Events /\ DOMAIN log = 1..Len(log) /\ DOMAIN log' = 1..n
        /\ \A i \in DOMAIN log : log'[i] = log[i]
        /\ log'[n].kind = kind /\ log'[n].period = n /\ log'[n].at \in Nat
        /\ \A i \in DOMAIN log : log[i].at <= log'[n].at
        /\ "overlap" \notin met' => "overlap" \notin met
        /\ UNCHANGED <<acked, sub, synced, hook, usage, since, created, chat, begun, ended>>
    BY <1>1, Emitted
  <2>2. Len(log) \in Nat
    BY DEF SubTypeOK
  <2> HIDE DEF n
  <2>3. n = Len(log) + 1 /\ n \notin DOMAIN log /\ DOMAIN log' = DOMAIN log \cup {n}
    BY <2>1, <2>2 DEF n
  <2>4. \A p : Paid(p) => Paid(p)' /\ log'[p].at = log[p].at
    BY <2>1, <2>3 DEF Paid
  <2>5. \A i, j \in DOMAIN log' : i <= j => log'[i].at <= log'[j].at
    BY <2>1, <2>2, <2>3 DEF PeriodInv
  <2>6. PeriodInv'
    BY <2>1, <2>3, <2>4, <2>5 DEF PeriodInv
  <2>7. OneRunning'
    BY <2>1 DEF OneRunning, Running
  <2> QED
    BY <2>6, <2>7
<1>2. ASSUME NEW p \in Events, PeriodBegins(p) \/ PeriodEnds(p)
      PROVE  PeriodInv' /\ OneRunning'
  <2>1. UNCHANGED <<log, acked, sub, synced, hook, usage, since, created, chat>>
    BY <1>2, ClockFrame
  <2>2. CASE PeriodBegins(p)
    <3>1. /\ p \notin begun /\ Paid(p) /\ begun' = begun \cup {p} /\ ended' = ended
          /\ "overlap" \notin met' => "overlap" \notin met /\ Running = {}
      BY <2>2 DEF PeriodBegins, Paid, Meets
    <3>2. OneRunning'
      <4>1. Running' \subseteq Running \cup {p}
        BY <3>1 DEF Running
      <4> QED
        BY <3>1, <4>1 DEF OneRunning
    <3>3. /\ ended' \subseteq begun' /\ \A q \in begun' : Paid(q)
          /\ \A q \in Events : q \notin begun' => since[q] = 0
      BY <3>1 DEF PeriodInv
    <3> QED
      BY <2>1, <3>2, <3>3 DEF PeriodInv, Paid
  <2>3. CASE PeriodEnds(p)
    <3>1. /\ p \in begun /\ begun' = begun /\ ended' = ended \cup {p} /\ met' = met
      BY <2>3 DEF PeriodEnds, Running
    <3>2. OneRunning'
      BY <3>1 DEF OneRunning, Running
    <3> QED
      BY <2>1, <3>1, <3>2 DEF PeriodInv, Paid
  <2> QED
    BY <1>2, <2>2, <2>3
<1>3. ASSUME NEW h \in Handlers, NEW i \in Events, Deliver(h, i)
      PROVE  PeriodInv' /\ OneRunning'
  BY <1>3 DEF Deliver, Meets, PeriodInv, OneRunning, Running, Paid, chatVars, clockVars
<1>4. ASSUME NEW h \in Handlers, WebhookStep(h) PROVE PeriodInv' /\ OneRunning'
  <2>1. /\ UNCHANGED <<log, usage, since, created, chat, begun, ended>>
        /\ "overlap" \notin met' => "overlap" \notin met
    BY <1>4, WebhookFrame
  <2>2. CASE sub' = sub
    BY <2>1, <2>2 DEF PeriodInv, OneRunning, Running, Paid
  <2>3. CASE sub' # sub
    <3>1. /\ sub'.at > sub.at /\ sub'.at > 0
          /\ Paid(sub'.period) /\ log[sub'.period].at <= sub'.at
          /\ sub.period <= sub'.period
      BY <1>4, <2>3, PeriodGrows
    <3>2. /\ sub.period \in Nat /\ sub'.period \in Nat /\ \A i \in DOMAIN log : i \in Nat
          /\ sub'.at \in Nat
      <4>1. /\ sub'.at \in 1..MaxEvents /\ sub'.period \in Events
            /\ sub.period \in 0..MaxEvents /\ log \in Seq(Event)
        BY <2>3, RecordGrows DEF SubTypeOK, Event
      <4> QED
        BY <4>1, SubscriptionConstants DEF Events
    <3>3. \A p \in DOMAIN log : p <= sub.period => p <= sub'.period
      BY <3>1, <3>2
    <3>4. \A p : Paid(p)' <=> Paid(p)
      BY <2>1 DEF Paid
    <3>5. /\ sub'.at = 0 => sub'.period = 0
          /\ sub'.at > 0 => Paid(sub.period)' /\ log'[sub'.period].at <= sub'.at
      BY <2>1, <3>1, <3>2, <3>4
    <3>6. \A c \in Chats : chat[c].step = "record" =>
             Paid(chat[c].period) /\ chat[c].period <= sub'.period
      BY <3>3 DEF PeriodInv, Paid
    <3>7. \A k \in DOMAIN created : Paid(created[k]) /\ created[k] <= sub'.period
      BY <3>3 DEF PeriodInv, Paid
    <3> QED
      BY <2>1, <3>4, <3>5, <3>6, <3>7 DEF PeriodInv, OneRunning, Running
  <2> QED
    BY <2>2, <2>3
<1>5. ASSUME NEW c \in Chats, ChatStep(c) PROVE PeriodInv' /\ OneRunning'
  <2>1. UNCHANGED <<log, sub, begun, ended, met>>
    BY <1>5, ChatFrame
  <2>2. \A p : Paid(p)' <=> Paid(p)
    BY <2>1 DEF Paid
  <2>3. OneRunning'
    BY <2>1, <2>2 DEF OneRunning, Running
  <2>4. CASE UNCHANGED <<usage, since, created>>
    <3>1. \A d \in Chats : chat'[d].step = "record" =>
             Paid(chat'[d].period) /\ chat'[d].period <= sub.period
      <4>1. CASE TrackRead(c)
        <5>1. sub.at > 0 /\ Paid(sub.period) /\ sub.period \in Nat
          BY <4>1, SubscriptionConstants DEF TrackRead, RecordInv, PeriodInv, SubTypeOK
        <5>2. \A d \in Chats : chat'[d] = IF d = c THEN [step |-> "record", period |-> sub.period]
                                          ELSE chat[d]
          BY <4>1 DEF TrackRead, SubTypeOK
        <5> QED
          BY <5>1, <5>2 DEF PeriodInv
      <4>2. CASE ~TrackRead(c)
        <5>1. \A d \in Chats : chat'[d].step = "record" => chat'[d] = chat[d]
          BY <4>2, <1>5 DEF ChatStep, ValidateAccess, CheckUsage, Answer,
             RecordConversation, TrackFails, NoChat, SubTypeOK
        <5> QED
          BY <5>1 DEF PeriodInv
      <4> QED
        BY <4>1, <4>2
    <3> QED
      BY <2>1, <2>2, <2>3, <2>4, <3>1 DEF PeriodInv
  <2>5. CASE RecordConversation(c)
    <3> DEFINE p == chat[c].period
    <3>1. /\ chat[c].step = "record"
          /\ usage' = [usage EXCEPT ![p] = @ + 1]
          /\ since' = IF p \in begun THEN [since EXCEPT ![p] = @ + 1] ELSE since
          /\ created' = IF usage[p] = 0 THEN Append(created, p) ELSE created
          /\ chat' = [chat EXCEPT ![c] = NoChat]
      BY <2>5 DEF RecordConversation
    <3>2. /\ p \in Events /\ Paid(p) /\ p <= sub.period
          /\ usage \in [Events -> Nat] /\ created \in Seq(Events)
      BY <3>1 DEF SubTypeOK, PeriodInv
    <3> HIDE DEF p
    <3>3. \A q \in Events : usage'[q] = IF q = p THEN usage[p] + 1 ELSE usage[q]
      BY <3>1, <3>2
    <3>4. usage[p] \in Nat /\ DOMAIN created = 1..Len(created) /\ Len(created) \in Nat
      BY <3>2
    <3>5. /\ \A q \in Events : usage'[q] > 0 <=> (\E k \in DOMAIN created' : created'[k] = q)
          /\ \A k \in DOMAIN created' : created'[k] \in {p} \cup {created[l] : l \in DOMAIN created}
          /\ \A k, l \in DOMAIN created' : created'[k] = created'[l] => k = l
      <4>0. /\ \A q \in Events : usage[q] \in Nat
            /\ \A q \in Events : usage[q] > 0 <=> (\E k \in DOMAIN created : created[k] = q)
            /\ \A k, l \in DOMAIN created : created[k] = created[l] => k = l
        BY <3>2 DEF PeriodInv
      <4>1. CASE usage[p] = 0
        <5> DEFINE m == Len(created) + 1
        <5>1. created' = Append(created, p)
          BY <3>1, <4>1
        <5>2. /\ DOMAIN created' = DOMAIN created \cup {m} /\ m \notin DOMAIN created
              /\ \A k \in DOMAIN created : created'[k] = created[k]
              /\ created'[m] = p
          BY <5>1, <3>2, <3>4, AppendProperties
        <5>3. ~ \E k \in DOMAIN created : created[k] = p
          BY <3>2, <4>1 DEF PeriodInv
        <5> HIDE DEF m
        <5>4. \A k, l \in DOMAIN created' : created'[k] = created'[l] => k = l
          BY <4>0, <5>2, <5>3
        <5>5. \A q \in Events : usage'[q] > 0 <=> usage[q] > 0 \/ q = p
          BY <3>3, <3>4
        <5>6. \A q : (\E k \in DOMAIN created' : created'[k] = q)
                    <=> (\E k \in DOMAIN created : created[k] = q) \/ q = p
          BY <5>2
        <5>7. \A k \in DOMAIN created' : created'[k] \in {p} \cup {created[l] : l \in DOMAIN created}
          BY <5>2
        <5> QED
          BY <4>0, <5>4, <5>5, <5>6, <5>7
      <4>2. CASE usage[p] # 0
        <5>1. created' = created /\ usage[p] > 0
          BY <3>1, <3>4, <4>2
        <5>2. \A q \in Events : usage'[q] > 0 <=> usage[q] > 0
          BY <3>3, <3>4, <5>1
        <5> QED
          BY <4>0, <5>1, <5>2
      <4> QED
        BY <4>1, <4>2
    <3>6. \A d \in Chats : chat'[d].step = "record" => chat'[d] = chat[d]
      BY <3>1 DEF NoChat, SubTypeOK
    <3>7. \A k \in DOMAIN created' : Paid(created'[k]) /\ created'[k] <= sub.period
      BY <3>2, <3>5 DEF PeriodInv
    <3>8. \A q \in Events : since'[q] <= usage'[q] /\ (q \notin begun => since'[q] = 0)
      <4>1. /\ \A q \in Events : since[q] \in Nat /\ usage[q] \in Nat /\ since[q] <= usage[q]
            /\ \A q \in Events : q \notin begun => since[q] = 0
            /\ since \in [Events -> Nat]
        BY DEF SubTypeOK, PeriodInv
      <4>2. \A q \in Events : since'[q] = IF q = p /\ p \in begun THEN since[q] + 1
                                           ELSE since[q]
        BY <3>1, <3>2, <4>1
      <4> QED
        BY <3>3, <4>1, <4>2
    <3> QED
      BY <2>1, <2>2, <2>3, <3>5, <3>6, <3>7, <3>8 DEF PeriodInv
  <2>6. UNCHANGED <<usage, since, created>> \/ RecordConversation(c)
    BY <1>5 DEF ChatStep, ValidateAccess, CheckUsage, Answer, TrackRead, TrackFails
  <2> QED
    BY <2>4, <2>5, <2>6
<1>6. CASE UNCHANGED vars
  BY <1>6 DEF vars, PeriodInv, OneRunning, Running, Paid
<1> QED
  BY <1>1, <1>2, <1>3, <1>4, <1>5, <1>6 DEF Next

(* Sets of chats are finite, and count no more than all chats.             *)
LEMMA ChatsCount ==
    ASSUME IsFiniteSet(Chats), NEW A, NEW B, A \subseteq B, B \subseteq Chats
    PROVE  /\ Cardinality(A) \in Nat /\ Cardinality(B) \in Nat
           /\ Cardinality(Chats) \in Nat
           /\ Cardinality(A) <= Cardinality(B)
           /\ Cardinality(B) <= Cardinality(Chats)
BY FS_Subset, FS_CardinalityType

(* The usage read is a count, that of the running period.                  *)
LEMMA RunningUsage ==
    ASSUME SubTypeOK, PeriodInv, OneRunning, "overlap" \notin met
    PROVE  /\ CurrentUsage \in Nat
           /\ \A p \in Events \cap Running : usage[p] > 0 => CurrentUsage = usage[p]
           /\ CurrentUsage > 0 =>
                 \E p \in Events \cap Running : CurrentUsage = usage[p]
<1> DEFINE places == {k \in DOMAIN created : created[k] \in Running}
           last == CHOOSE k \in places : \A l \in places : l <= k
<1>1. CurrentUsage = IF places = {} THEN 0 ELSE usage[created[last]]
  BY DEF CurrentUsage, CountOf
<1>2. /\ \A k \in DOMAIN created : created[k] \in Events /\ k \in Nat
      /\ \A p \in Events : usage[p] \in Nat
  BY DEF SubTypeOK
<1>3. \A p, q \in Running : p = q
  BY DEF OneRunning
<1>4. \A k, l \in places : k = l
  BY <1>3 DEF PeriodInv
<1>5. places # {} => last \in places
  <2> SUFFICES ASSUME places # {} PROVE \E k \in places : \A l \in places : l <= k
    OBVIOUS
  <2> QED
    BY <1>2, <1>4
<1> HIDE DEF last
<1>6. CASE places = {}
  <2>1. \A p \in Events : usage[p] > 0 => p \notin Running
    BY <1>6 DEF PeriodInv
  <2> QED
    BY <1>1, <1>6, <2>1
<1>7. CASE places # {}
  <2> DEFINE q == created[last]
  <2>1. q \in Events \cap Running /\ CurrentUsage = usage[q]
    BY <1>1, <1>2, <1>5, <1>7
  <2> QED
    BY <1>2, <1>3, <2>1
<1> QED
  BY <1>6, <1>7

(* A chat that is answered found the running period below the limit.       *)
LEMMA BelowLimit ==
    ASSUME SubTypeOK, PeriodInv, OneRunning, "overlap" \notin met,
           CurrentUsage < Limit, NEW p \in Events \cap Running
    PROVE  since[p] < Limit
<1>1. /\ usage[p] \in Nat /\ Limit \in Nat /\ CurrentUsage \in Nat
      /\ since[p] \in Nat /\ since[p] <= usage[p]
  BY RunningUsage, SubscriptionConstants DEF SubTypeOK, PeriodInv
<1>2. usage[p] > 0 => CurrentUsage = usage[p]
  BY RunningUsage
<1> QED
  BY <1>1, <1>2

(* Fewer chats that may count, and no message more, keep the bounds.       *)
LEMMA FewerCount ==
    ASSUME SubTypeOK, IsFiniteSet(Chats), UsageInv, "overlap" \notin met,
           "overlap" \notin met', NEW p \in Events, p \in begun, since'[p] = since[p],
           p \in ended' <=> p \in ended,
           MayCount(p)' \subseteq MayCount(p), MayCountLate(p)' \subseteq MayCountLate(p)
    PROVE  /\ p \notin ended' => since'[p] + Cardinality(MayCount(p)')
                                     < Limit + Cardinality(Chats)
           /\ p \in ended' => since'[p] + Cardinality(MayCountLate(p)')
                                     < Limit + 2 * Cardinality(Chats)
<1>1. MayCount(p) \subseteq Chats /\ MayCountLate(p) \subseteq Chats
  BY DEF MayCount, MayCountLate, Counting
<1>2. /\ Cardinality(MayCount(p)') \in Nat /\ Cardinality(MayCount(p)) \in Nat
      /\ Cardinality(MayCount(p)') <= Cardinality(MayCount(p))
      /\ Cardinality(MayCountLate(p)') \in Nat /\ Cardinality(MayCountLate(p)) \in Nat
      /\ Cardinality(MayCountLate(p)') <= Cardinality(MayCountLate(p))
      /\ Cardinality(Chats) \in Nat
  BY <1>1, ChatsCount
<1>3. since[p] \in Nat /\ Limit \in Nat
  BY SubscriptionConstants DEF SubTypeOK
<1>4. CASE p \notin ended
  <2>1. since[p] + Cardinality(MayCount(p)) < Limit + Cardinality(Chats)
    BY <1>4 DEF UsageInv
  <2> QED
    BY <1>2, <1>3, <1>4, <2>1
<1>5. CASE p \in ended
  <2>1. since[p] + Cardinality(MayCountLate(p)) < Limit + 2 * Cardinality(Chats)
    BY <1>5 DEF UsageInv
  <2> QED
    BY <1>2, <1>3, <1>5, <2>1
<1> QED
  BY <1>4, <1>5

LEMMA UsageInit ==
    ASSUME IsFiniteSet(Chats), Chats # {} PROVE Init => UsageInv
<1> SUFFICES ASSUME Init PROVE UsageInv
  OBVIOUS
<1> QED
  BY DEF Init, UsageInv, Paid, NoChat

(* A period that begins leaves room for every chat under way.              *)
LEMMA NewPeriodHasRoom ==
    ASSUME SubTypeOK, IsFiniteSet(Chats), Chats # {}, UsageInv,
           "overlap" \notin met, NEW p \in Events, since[p] = 0
    PROVE  since[p] + Cardinality(MayCount(p)) < Limit + Cardinality(Chats)
<1>1. MayCount(p) \subseteq Chats /\ Limit \in Nat
  BY SubscriptionConstants DEF MayCount, Counting
<1>2. /\ Cardinality(MayCount(p)) \in Nat /\ Cardinality(Chats) \in Nat
      /\ Cardinality(MayCount(p)) <= Cardinality(Chats) /\ Cardinality(Chats) # 0
  BY <1>1, ChatsCount, FS_EmptySet
<1>3. CASE Limit > 0
  BY <1>1, <1>2, <1>3
<1>4. CASE Limit = 0
  <2>1. MayCount(p) = {}
    BY <1>4 DEF MayCount, Counting, UsageInv
  <2> QED
    BY <1>2, <1>4, <2>1, FS_EmptySet
<1> QED
  BY <1>1, <1>3, <1>4

LEMMA UsageChat ==
    ASSUME SubTypeOK, RecordInv, PeriodInv, OneRunning, IsFiniteSet(Chats),
           Chats # {}, UsageInv, NEW c \in Chats, ChatStep(c)
    PROVE  UsageInv'
<1>1. UNCHANGED <<log, sub, begun, ended, met>>
  BY ChatFrame
<1> SUFFICES ASSUME "overlap" \notin met PROVE UsageInv'
  BY <1>1 DEF UsageInv
<1>3. Limit = 0 => \A d \in Chats : chat'[d].step \in {"idle", "usage"}
  <2> SUFFICES ASSUME Limit = 0 PROVE \A d \in Chats : chat'[d].step \in {"idle", "usage"}
    OBVIOUS
  <2>1. \A d \in Chats : chat[d].step \in {"idle", "usage"}
    BY DEF UsageInv
  <2>2. \A d \in Chats : d # c => chat'[d] = chat[d]
    BY DEF ChatStep, ValidateAccess, CheckUsage, Answer, TrackRead,
       RecordConversation, TrackFails, SubTypeOK
  <2>3. CASE ValidateAccess(c)
    BY <2>1, <2>2, <2>3 DEF ValidateAccess, SubTypeOK
  <2>4. CASE CheckUsage(c)
    <3>1. CurrentUsage >= Limit
      BY RunningUsage
    <3> QED
      BY <2>1, <2>2, <2>4, <3>1 DEF CheckUsage, SubTypeOK
  <2> QED
    BY <2>1, <2>3, <2>4 DEF ChatStep, Answer, TrackRead, RecordConversation, TrackFails
<1>2. begun \subseteq Events
  BY DEF SubTypeOK
<1> SUFFICES ASSUME NEW p \in begun, p \in Events
             PROVE  /\ p \notin ended' => since'[p] + Cardinality(MayCount(p)')
                                              < Limit + Cardinality(Chats)
                    /\ p \in ended' => since'[p] + Cardinality(MayCountLate(p)')
                                              < Limit + 2 * Cardinality(Chats)
  BY <1>1, <1>2, <1>3 DEF UsageInv
<1>4. /\ chat \in [Chats -> [step : {"idle", "usage", "answer", "track", "record"},
                             period : 0..MaxEvents]]
      /\ since \in [Events -> Nat] /\ Limit \in Nat
  BY SubscriptionConstants DEF SubTypeOK
<1>5. CASE ValidateAccess(c)
  <2>1. /\ chat[c].step = "idle" /\ since' = since
        /\ chat' = [chat EXCEPT ![c].step = "usage"]
        /\ sub.at > 0 /\ sub.period \notin ended
    BY <1>5 DEF ValidateAccess, HasAccess
  <2>2. MayCount(p)' = MayCount(p)
    BY <1>4, <2>1 DEF MayCount, Counting
  <2>3. CASE p \in ended /\ sub.period < p
    <3>1. Counting(p) = {} /\ since[p] = 0 /\ Cardinality(Chats) # 0
      <4>1. \A d \in Chats : ~(chat[d].step = "record" /\ chat[d].period = p)
        BY <1>4, <2>3, SubscriptionConstants DEF PeriodInv, SubTypeOK, Events
      <4>2. \A k \in DOMAIN created : created[k] # p
        BY <1>4, <2>3, SubscriptionConstants DEF PeriodInv, SubTypeOK, Events
      <4>3. usage[p] \in Nat /\ ~(usage[p] > 0) /\ since[p] \in Nat /\ since[p] <= usage[p]
        BY <4>2 DEF PeriodInv, SubTypeOK
      <4>4. Cardinality(Chats) # 0
        BY FS_EmptySet
      <4> QED
        BY <4>1, <4>3, <4>4 DEF Counting
    <3>2. MayCountLate(p)' \subseteq Chats
      BY DEF MayCountLate, Counting
    <3>3. /\ Cardinality(MayCountLate(p)') \in Nat /\ Cardinality(Chats) \in Nat
          /\ Cardinality(MayCountLate(p)') <= Cardinality(Chats)
      BY <3>2, ChatsCount
    <3>4. 0 + Cardinality(MayCountLate(p)') < Limit + 2 * Cardinality(Chats)
      <4>1. Limit \in Nat /\ Cardinality(Chats) # 0
        BY <1>4, <3>1
      <4> QED
        BY ONLY <3>3, <4>1
    <3>5. since'[p] = 0 /\ ended' = ended
      BY <1>1, <2>1, <3>1
    <3> QED
      BY <2>3, <3>4, <3>5
  <2>4. CASE p \in ended /\ ~(sub.period < p)
    <3>1. p \in Int /\ sub.period \in Int /\ UNCHANGED sub
      BY <1>1, SubscriptionConstants DEF Events, SubTypeOK
    <3>2. Counting(p)' = Counting(p)
      BY <1>4, <2>1 DEF Counting
    <3>3. ~(sub.period <= p)
      BY <2>1, <2>4, <3>1
    <3>4. MayCountLate(p)' \subseteq MayCountLate(p)
      BY <3>1, <3>2, <3>3 DEF MayCountLate
    <3> QED
      BY <1>1, <2>1, <2>2, <2>4, <3>4, FewerCount
  <2>5. CASE p \notin ended
    BY <1>1, <2>1, <2>2, <2>5 DEF UsageInv
  <2> QED
    BY <2>3, <2>4, <2>5
<1>6. CASE CheckUsage(c)
  <2>1. /\ chat[c].step = "usage" /\ since' = since
        /\ chat' = [chat EXCEPT ![c].step = IF CurrentUsage >= Limit THEN "idle" ELSE "answer"]
    BY <1>6 DEF CheckUsage
  <2>2. \A d \in Chats : d # c => chat'[d] = chat[d]
    BY <1>4, <2>1
  <2>3. chat'[c].step \in {"idle", "answer"}
    BY <1>4, <2>1
  <2>4. MayCountLate(p)' \subseteq MayCountLate(p)
    BY <1>1, <2>1, <2>2, <2>3 DEF MayCountLate, Counting
  <2>5. CASE p \in ended \/ chat'[c].step = "idle"
    <3>1. CASE chat'[c].step = "idle"
      <4>1. MayCount(p)' \subseteq MayCount(p)
        BY <2>2, <3>1 DEF MayCount, Counting
      <4> QED
        BY <1>1, <2>1, <2>4, <4>1, FewerCount
    <3>2. CASE p \in ended
      <4>1. /\ MayCountLate(p) \subseteq Chats
            /\ since[p] + Cardinality(MayCountLate(p)) < Limit + 2 * Cardinality(Chats)
        BY <3>2 DEF UsageInv, MayCountLate, Counting
      <4>2. /\ Cardinality(MayCountLate(p)') \in Nat /\ Cardinality(MayCountLate(p)) \in Nat
            /\ Cardinality(MayCountLate(p)') <= Cardinality(MayCountLate(p))
            /\ Cardinality(Chats) \in Nat
        BY <2>4, <4>1, ChatsCount
      <4> QED
        BY <1>1, <1>4, <2>1, <3>2, <4>1, <4>2
    <3> QED
      BY <2>5, <3>1, <3>2
  <2>6. CASE p \notin ended /\ chat'[c].step # "idle"
    <3>1. CurrentUsage < Limit
      <4>1. ~(CurrentUsage >= Limit)
        BY <1>4, <2>1, <2>6
      <4> QED
        BY <4>1, <1>4, RunningUsage
    <3>2. since[p] < Limit
      BY <2>6, <3>1, BelowLimit DEF Running
    <3>3. MayCount(p)' \subseteq Chats
      BY DEF MayCount, Counting
    <3>4. /\ Cardinality(MayCount(p)') \in Nat /\ Cardinality(Chats) \in Nat
          /\ Cardinality(MayCount(p)') <= Cardinality(Chats)
      BY <3>3, ChatsCount
    <3> QED
      BY <1>1, <1>4, <2>1, <2>6, <3>2, <3>4
  <2> QED
    BY <2>5, <2>6
<1>7. CASE Answer(c) \/ TrackRead(c) \/ TrackFails(c)
  <2>1. since' = since /\ \A d \in Chats : d # c => chat'[d] = chat[d]
    BY <1>4, <1>7 DEF Answer, TrackRead, TrackFails
  <2>2. chat[c].step \in {"answer", "track", "record"}
    BY <1>7 DEF Answer, TrackRead, TrackFails
  <2>3. \/ chat'[c].step = "idle"
        \/ chat'[c].step = "track" /\ chat[c].step = "answer"
        \/ chat[c].step = "track" /\ chat'[c].step = "record" /\ chat'[c].period = sub.period
    BY <1>4, <1>7 DEF Answer, TrackRead, TrackFails, NoChat
  <2>4. MayCount(p)' \subseteq MayCount(p)
    BY <2>1, <2>2, <2>3 DEF MayCount, Counting
  <2>5. MayCountLate(p)' \subseteq MayCountLate(p)
    <3>1. p <= p /\ UNCHANGED sub
      BY <1>1, SubscriptionConstants DEF Events
    <3> QED
      BY <2>1, <2>2, <2>3, <3>1 DEF MayCountLate, Counting
  <2> QED
    BY <1>1, <2>1, <2>4, <2>5, FewerCount
<1>8. CASE RecordConversation(c)
  <2> DEFINE q == chat[c].period
  <2>1. /\ chat[c].step = "record" /\ q \in Events
        /\ since' = IF q \in begun THEN [since EXCEPT ![q] = @ + 1] ELSE since
        /\ chat' = [chat EXCEPT ![c] = NoChat]
    BY <1>8 DEF RecordConversation, SubTypeOK
  <2>2. \A d \in Chats : d # c => chat'[d] = chat[d]
    BY <1>4, <2>1
  <2>3. chat'[c].step = "idle"
    BY <1>4, <2>1 DEF NoChat
  <2>4. MayCount(p)' \subseteq MayCount(p) /\ MayCountLate(p)' \subseteq MayCountLate(p)
    BY <1>1, <2>2, <2>3 DEF MayCount, MayCountLate, Counting
  <2>5. CASE p # q
    <3>1. since'[p] = since[p]
      BY <1>4, <2>1, <2>5
    <3> QED
      BY <1>1, <2>4, <3>1, FewerCount
  <2>6. CASE p = q
    <3>1. since'[p] = since[p] + 1 /\ since[p] \in Nat
      BY <1>4, <2>1, <2>6
    <3>2. /\ c \in MayCount(p) /\ c \notin MayCount(p)'
          /\ c \in MayCountLate(p) /\ c \notin MayCountLate(p)'
      BY <2>1, <2>3, <2>6 DEF MayCount, MayCountLate, Counting
    <3>3. MayCount(p) \subseteq Chats /\ MayCountLate(p) \subseteq Chats
      BY DEF MayCount, MayCountLate, Counting
    <3>4. IsFiniteSet(MayCount(p)) /\ IsFiniteSet(MayCountLate(p))
      BY <3>3, FS_Subset
    <3>5. /\ Cardinality(MayCount(p) \ {c}) = Cardinality(MayCount(p)) - 1
          /\ Cardinality(MayCountLate(p) \ {c}) = Cardinality(MayCountLate(p)) - 1
      BY <3>2, <3>4, FS_RemoveElement
    <3>6. /\ MayCount(p)' \subseteq MayCount(p) \ {c}
          /\ MayCountLate(p)' \subseteq MayCountLate(p) \ {c}
      BY <2>4, <3>2
    <3>7. /\ Cardinality(MayCount(p)') <= Cardinality(MayCount(p)) - 1
          /\ Cardinality(MayCountLate(p)') <= Cardinality(MayCountLate(p)) - 1
          /\ Cardinality(MayCount(p)') \in Nat /\ Cardinality(MayCount(p)) \in Nat
          /\ Cardinality(MayCountLate(p)') \in Nat /\ Cardinality(MayCountLate(p)) \in Nat
          /\ Cardinality(Chats) \in Nat
      BY <3>3, <3>4, <3>5, <3>6, FS_Subset, FS_CardinalityType
    <3>8. CASE p \in ended
      <4>1. since[p] + Cardinality(MayCountLate(p)) < Limit + 2 * Cardinality(Chats)
        BY <3>8 DEF UsageInv
      <4> QED
        BY <1>1, <1>4, <3>1, <3>7, <3>8, <4>1
    <3>9. CASE p \notin ended
      <4>1. since[p] + Cardinality(MayCount(p)) < Limit + Cardinality(Chats)
        BY <3>9 DEF UsageInv
      <4> QED
        BY <1>1, <1>4, <3>1, <3>7, <3>9, <4>1
    <3> QED
      BY <3>8, <3>9
  <2> QED
    BY <2>5, <2>6
<1> QED
  BY <1>5, <1>6, <1>7, <1>8 DEF ChatStep

LEMMA UsageStep ==
    ASSUME SubTypeOK, RecordInv, HookInv, PeriodInv, OneRunning, UsageInv,
           IsFiniteSet(Chats), Chats # {}, [Next]_vars, SubTypeOK'
    PROVE  UsageInv'
<1>1. ASSUME NEW kind \in Kinds, Emit(kind) PROVE UsageInv'
  <2>1. /\ "overlap" \notin met' => "overlap" \notin met
        /\ UNCHANGED <<sub, usage, since, created, chat, begun, ended>>
    BY <1>1, Emitted
  <2> QED
    BY <2>1 DEF UsageInv, MayCount, MayCountLate, Counting
<1>2. ASSUME NEW q \in Events, PeriodBegins(q) \/ PeriodEnds(q) PROVE UsageInv'
  <2>1. /\ UNCHANGED <<log, sub, usage, since, created, chat>>
        /\ "overlap" \notin met' => "overlap" \notin met
    BY <1>2, ClockFrame
  <2>2. \A p : MayCount(p)' = MayCount(p) /\ MayCountLate(p)' = MayCountLate(p)
    BY <2>1 DEF MayCount, MayCountLate, Counting
  <2>3. CASE PeriodBegins(q)
    <3>1. q \notin begun /\ q \notin ended /\ begun' = begun \cup {q} /\ ended' = ended
      BY <2>3 DEF PeriodBegins, PeriodInv
    <3>2. since[q] = 0
      BY <3>1 DEF PeriodInv
    <3>3. "overlap" \notin met =>
              since[q] + Cardinality(MayCount(q)) < Limit + Cardinality(Chats)
      BY <3>2, NewPeriodHasRoom
    <3> QED
      BY <2>1, <2>2, <3>1, <3>3 DEF UsageInv
  <2>4. CASE PeriodEnds(q)
    <3>1. q \in begun /\ q \notin ended /\ begun' = begun /\ ended' = ended \cup {q}
      BY <2>4 DEF PeriodEnds, Running
    <3>2. ASSUME "overlap" \notin met
          PROVE  since[q] + Cardinality(MayCountLate(q)) < Limit + 2 * Cardinality(Chats)
      <4>1. MayCount(q) \subseteq Chats /\ MayCountLate(q) \subseteq Chats
        BY DEF MayCount, MayCountLate, Counting
      <4>2. /\ Cardinality(MayCount(q)) \in Nat /\ Cardinality(MayCountLate(q)) \in Nat
            /\ Cardinality(Chats) \in Nat /\ since[q] \in Nat /\ Limit \in Nat
            /\ Cardinality(MayCountLate(q)) <= Cardinality(Chats)
        BY <4>1, ChatsCount, SubscriptionConstants DEF SubTypeOK
      <4>3. since[q] + Cardinality(MayCount(q)) < Limit + Cardinality(Chats)
        BY <3>1, <3>2 DEF UsageInv
      <4> QED
        BY <4>2, <4>3
    <3> QED
      BY <2>1, <2>2, <3>1, <3>2 DEF UsageInv
  <2> QED
    BY <1>2, <2>3, <2>4
<1>3. ASSUME NEW h \in Handlers, NEW i \in Events, Deliver(h, i) PROVE UsageInv'
  BY <1>3 DEF Deliver, Meets, UsageInv, MayCount, MayCountLate, Counting, chatVars, clockVars
<1>4. ASSUME NEW h \in Handlers, WebhookStep(h) PROVE UsageInv'
  <2>1. /\ UNCHANGED <<log, usage, since, created, chat, begun, ended>>
        /\ "overlap" \notin met' => "overlap" \notin met
    BY <1>4, WebhookFrame
  <2>2. \A p \in Events : (sub'.period <= p => sub.period <= p)
    <3>1. CASE sub' = sub
      BY <3>1
    <3>2. CASE sub' # sub
      <4>1. sub.period <= sub'.period
        BY <1>4, <3>2, PeriodGrows
      <4> QED
        BY <4>1, SubscriptionConstants DEF SubTypeOK, Events
    <3> QED
      BY <3>1, <3>2
  <2>3. \A p \in Events : /\ MayCount(p)' \subseteq MayCount(p)
                          /\ MayCountLate(p)' \subseteq MayCountLate(p)
    BY <2>1, <2>2 DEF MayCount, MayCountLate, Counting
  <2> SUFFICES ASSUME "overlap" \notin met' PROVE UsageInv'
    BY DEF UsageInv
  <2>4. \A p \in Events \cap begun :
            /\ p \notin ended' =>
                  since'[p] + Cardinality(MayCount(p)') < Limit + Cardinality(Chats)
            /\ p \in ended' =>
                  since'[p] + Cardinality(MayCountLate(p)') < Limit + 2 * Cardinality(Chats)
    BY <2>1, <2>3, FewerCount
  <2> QED
    BY <2>1, <2>3, <2>4 DEF UsageInv, SubTypeOK
<1>5. CASE \E c \in Chats : ChatStep(c)
  BY <1>5, UsageChat
<1>6. CASE UNCHANGED vars
  BY <1>6 DEF vars, UsageInv, MayCount, MayCountLate, Counting
<1> QED
  BY <1>1, <1>2, <1>3, <1>4, <1>5, <1>6 DEF Next

(* However chats are interleaved with each other, with webhooks and with   *)
(* the start and the end of periods: without overlap, no period is charged *)
(* more, once it has begun, than the limit and two rounds of all the chats *)
(* that can be under way.                                                  *)
THEOREM UsageStaysNearLimit ==
    IsFiniteSet(Chats) /\ Chats # {} => (Spec => []UsageWithinLimit)
<1> SUFFICES ASSUME IsFiniteSet(Chats), Chats # {}
             PROVE  Spec => []UsageWithinLimit
  OBVIOUS
<1> DEFINE Inv == /\ SubTypeOK /\ RecordInv /\ HookInv /\ StartIsSynced
                  /\ PeriodInv /\ OneRunning /\ UsageInv
<1>1. Init => Inv
  BY TypeInit, PeriodInit, UsageInit DEF Init, HookInv, StartIsSynced, Idle
<1>2. Inv /\ [Next]_vars => Inv'
  BY TypeStep, SyncedStep, PeriodStep, UsageStep
<1>3. Inv => UsageWithinLimit
  <2> SUFFICES ASSUME Inv, "overlap" \notin met, NEW p \in Events
               PROVE  since[p] < Limit + 2 * Cardinality(Chats)
    BY DEF UsageWithinLimit
  <2>1. /\ MayCount(p) \subseteq Chats /\ MayCountLate(p) \subseteq Chats
        /\ since[p] \in Nat /\ Limit \in Nat
    BY SubscriptionConstants DEF MayCount, MayCountLate, Counting, SubTypeOK
  <2>2. /\ Cardinality(MayCount(p)) \in Nat /\ Cardinality(MayCountLate(p)) \in Nat
        /\ Cardinality(Chats) \in Nat /\ Cardinality(Chats) # 0
    BY <2>1, ChatsCount, FS_EmptySet
  <2>3. CASE p \in begun
    <3>1. \/ since[p] + Cardinality(MayCount(p)) < Limit + Cardinality(Chats)
          \/ since[p] + Cardinality(MayCountLate(p)) < Limit + 2 * Cardinality(Chats)
      BY <2>3 DEF UsageInv
    <3> QED
      BY <2>1, <2>2, <3>1
  <2>4. CASE p \notin begun
    <3>1. since[p] = 0
      BY <2>4 DEF PeriodInv
    <3> QED
      BY <2>1, <2>2, <3>1
  <2> QED
    BY <2>3, <2>4
<1> QED
  BY <1>1, <1>2, <1>3, PTL DEF Spec

(* A chat refused for its quota has read the usage of the running period.  *)
LEMMA RefusedAtLimit ==
    ASSUME SubTypeOK, RecordInv, PeriodInv, OneRunning, [Next]_vars, NEW c \in Chats,
           "overlap" \notin met, chat[c].step = "usage", chat'[c].step = "idle"
    PROVE  Limit = 0 \/ QuotaIsUsedUp
<1>1. CheckUsage(c)
  <2>1. chat' # chat
    OBVIOUS
  <2>2. PICK d \in Chats : ChatStep(d)
    <3>1. ~ \E kind \in Kinds : Emit(kind)
      BY <2>1 DEF Emit, chatVars, clockVars
    <3>2. ~ \E p \in Events : PeriodBegins(p) \/ PeriodEnds(p)
      BY <2>1, ClockFrame
    <3>3. ~ \E h \in Handlers, i \in Events : Deliver(h, i)
      BY <2>1 DEF Deliver, chatVars, clockVars
    <3>4. ~ \E h \in Handlers : WebhookStep(h)
      BY <2>1, WebhookFrame
    <3> QED
      BY <2>1, <3>1, <3>2, <3>3, <3>4 DEF Next, vars
  <2>3. \A e \in Chats \ {d} : chat'[e] = chat[e]
    BY <2>2 DEF ChatStep, ValidateAccess, CheckUsage, Answer, TrackRead,
       RecordConversation, TrackFails, SubTypeOK
  <2>4. d = c
    BY <2>3
  <2> QED
    BY <2>2, <2>4 DEF ChatStep, ValidateAccess, Answer, TrackRead,
       RecordConversation, TrackFails
<1>2. Limit \in Nat /\ CurrentUsage \in Nat
  BY RunningUsage, SubscriptionConstants
<1>3. CurrentUsage >= Limit
  BY <1>1, <1>2 DEF CheckUsage, SubTypeOK
<1>4. CASE CurrentUsage = 0
  BY <1>2, <1>3, <1>4
<1>5. CASE CurrentUsage > 0
  <2>1. PICK p \in Events \cap Running : CurrentUsage = usage[p]
    BY <1>5, RunningUsage
  <2>2. sub.period \in Running => p = sub.period
    BY <2>1 DEF OneRunning
  <2> QED
    BY <1>3, <2>1, <2>2 DEF QuotaIsUsedUp
<1> QED
  BY <1>2, <1>4, <1>5

(* A refusal for the quota is never owed to the messages of a period that  *)
(* has ended or has not begun: the usage that was read is that of the      *)
(* running period, also when the clock or the document has moved since     *)
(* access was granted.                                                     *)
THEOREM RefusalsAreForTheQuota == Spec => RefusalMeansExceeded
<1> DEFINE Inv == /\ SubTypeOK /\ RecordInv /\ HookInv /\ StartIsSynced
                  /\ PeriodInv /\ OneRunning
           Justified == \A c \in Chats :
              "overlap" \notin met /\ chat[c].step = "usage" /\ chat'[c].step = "idle"
                  => Limit = 0 \/ QuotaIsUsedUp
<1>1. Init => Inv
  BY TypeInit, PeriodInit DEF Init, HookInv, StartIsSynced, Idle
<1>2. Inv /\ [Next]_vars => Inv'
  BY TypeStep, SyncedStep, PeriodStep
<1>3. Inv /\ [Next]_vars => [Justified]_vars
  BY RefusedAtLimit
<1> HIDE DEF Inv
<1> QED
  BY <1>1, <1>2, <1>3, PTL DEF Spec, RefusalMeansExceeded

-------------------------------------------------------------------------------
(* A set of naturals that is not empty has a least element: the intervals  *)
(* from zero to its elements are finite sets, and inclusion is well        *)
(* founded on those.                                                       *)
LEMMA LeastElement ==
    ASSUME NEW T, T \subseteq Nat, T # {}
    PROVE  \E x \in T : \A y \in T : x <= y
<1> DEFINE I == {0..n : n \in T}
<1>1. I \subseteq FiniteSubsetsOf(Nat) /\ I # {}
  <2>1. \A n \in T : 0..n \subseteq Nat /\ IsFiniteSet(0..n)
    BY FS_Interval
  <2> QED
    BY <2>1 DEF FiniteSubsetsOf
<1>2. PICK J \in I : \A K \in I : ~ (<<K, J>> \in StrictSubsetOrdering(Nat))
  BY <1>1, WFMin, FS_StrictSubsetOrderingWellFounded
<1>3. PICK x \in T : J = 0..x
  BY <1>2
<1>4. \A y \in T : x <= y
  <2> SUFFICES ASSUME NEW y \in T, y < x PROVE FALSE
    OBVIOUS
  <2>1. 0..y \in I /\ 0..y \subseteq 0..x /\ x \in 0..x /\ x \notin 0..y
    OBVIOUS
  <2>2. ~ (<<0..y, J>> \in StrictSubsetOrdering(Nat))
    BY <1>2, <2>1
  <2> QED
    BY <1>3, <2>1, <2>2 DEF StrictSubsetOrdering
<1> QED
  BY <1>4

(* Induction over the naturals, for the set of those that have a property. *)
LEMMA SetInduction ==
    ASSUME NEW S, 0 \in S, \A n \in Nat : n \in S => n + 1 \in S
    PROVE  \A n \in Nat : n \in S
<1> DEFINE T == {n \in Nat : n \notin S}
<1>1. SUFFICES ASSUME T # {} PROVE FALSE
  OBVIOUS
<1>2. PICK x \in T : \A y \in T : x <= y
  BY <1>1, LeastElement
<1>3. x # 0 /\ x - 1 \in Nat /\ x - 1 \in S
  BY <1>2
<1> QED
  BY <1>2, <1>3

(* The documents after each event of the log l, up to the n-th.            *)
IsHistory(f, l, n) ==
    f = [k \in 0..n |-> IF k = 0 THEN NoSub ELSE TakenInTurn(l[k], f[k - 1])]

LEMMA HistoryExists == \A l : \A n \in Nat : \E f : IsHistory(f, l, n)
<1> SUFFICES ASSUME NEW l PROVE \A n \in Nat : \E f : IsHistory(f, l, n)
  OBVIOUS
<1> DEFINE S == {n \in Nat : \E f : IsHistory(f, l, n)}
<1>1. 0 \in S
  <2>1. IsHistory([k \in 0..0 |-> NoSub], l, 0)
    BY DEF IsHistory
  <2> QED
    BY <2>1
<1>2. ASSUME NEW n \in Nat, n \in S PROVE n + 1 \in S
  <2>1. PICK f : IsHistory(f, l, n)
    BY <1>2
  <2> DEFINE g == [k \in 0..(n + 1) |-> IF k = n + 1 THEN TakenInTurn(l[n + 1], f[n])
                                       ELSE f[k]]
  <2>2. ASSUME NEW k \in 0..(n + 1)
        PROVE  g[k] = IF k = 0 THEN NoSub ELSE TakenInTurn(l[k], g[k - 1])
    <3>1. CASE k = n + 1
      <4>1. g[k] = TakenInTurn(l[k], f[n]) /\ k - 1 = n /\ n \in 0..(n + 1) /\ n # n + 1
        BY <3>1
      <4> QED
        BY <4>1, <3>1
    <3>2. CASE k # n + 1
      <4>1. k \in 0..n /\ g[k] = f[k]
        BY <3>2
      <4>2. f[k] = IF k = 0 THEN NoSub ELSE TakenInTurn(l[k], f[k - 1])
        BY <2>1, <4>1 DEF IsHistory
      <4>3. k # 0 => k - 1 \in 0..(n + 1) /\ k - 1 # n + 1
        OBVIOUS
      <4>4. k # 0 => g[k - 1] = f[k - 1]
        BY <4>3
      <4> QED
        BY <4>1, <4>2, <4>4
    <3> QED
      BY <3>1, <3>2
  <2>3. g = [k \in 0..(n + 1) |-> g[k]]
    OBVIOUS
  <2> HIDE DEF g
  <2>4. IsHistory(g, l, n + 1)
    BY <2>2, <2>3 DEF IsHistory
  <2> QED
    BY <2>4
<1> HIDE DEF S
<1>3. \A n \in Nat : n \in S
  BY <1>1, <1>2, SetInduction
<1> QED
  BY <1>3 DEF S

(* Outcome is the history of the log.                                      *)
LEMMA OutcomeOfLog ==
    /\ Outcome[0] = NoSub
    /\ \A k \in 1..MaxEvents : Outcome[k] = TakenInTurn(log[k], Outcome[k - 1])
<1>1. PICK f : IsHistory(f, log, MaxEvents)
  BY HistoryExists, SubscriptionConstants
<1>2. IsHistory(Outcome, log, MaxEvents)
  BY <1>1 DEF Outcome, IsHistory
<1> QED
  BY <1>2, SubscriptionConstants DEF IsHistory

-------------------------------------------------------------------------------
(* Webhooks come in the order of the events, and no two share a time.      *)
Orderly == {"reorder", "tie"} \cap met = {}

(* Handled so far are the first k events: those answered are among them,   *)
(* those after the one in the record change nothing when they come again,  *)
(* and no request is further than at the next one.                         *)
PrefixOf(k) ==
    /\ k <= Len(log) /\ acked \subseteq 1..k
    /\ sub = Outcome[k] /\ sub.at <= k
    /\ \A i \in 1..k : i > sub.at => TakenInTurn(log[i], sub) = sub
    /\ \A h \in Handlers :
          /\ hook[h].step = "sync" => hook[h].ev <= k
          /\ hook[h].step = "insert" /\ sub.at > 0 => hook[h].ev <= k

OrderInv ==
    Orderly =>
        /\ \A i \in DOMAIN log : log[i].at = i
        /\ \A h \in Handlers : hook[h].step # "idle" => 1..(hook[h].ev - 1) \subseteq acked
        /\ \E k \in 0..MaxEvents : PrefixOf(k)

(* A new event does not change what those before it mean.                  *)
LEMMA OutcomeStays ==
    ASSUME SubTypeOK, RecordInv, NEW kind \in Kinds, Emit(kind)
    PROVE  \A k \in 0..Len(log) : Outcome'[k] = Outcome[k]
<1>1. /\ DOMAIN log \subseteq DOMAIN log' /\ \A i \in DOMAIN log : log'[i] = log[i]
      /\ Len(log) \in Nat /\ Len(log) <= MaxEvents /\ DOMAIN log = 1..Len(log)
  <2>1. log \in Seq(Event) /\ Len(log) <= MaxEvents
    BY DEF SubTypeOK, Event
  <2> QED
    BY <2>1, EventsStay
<1>2. PICK f : IsHistory(f, log', MaxEvents)
  BY HistoryExists, SubscriptionConstants
<1>3. IsHistory(Outcome', log', MaxEvents)
  BY <1>2 DEF Outcome, IsHistory
<1>4. /\ Outcome'[0] = NoSub
      /\ \A k \in 1..MaxEvents : Outcome'[k] = TakenInTurn(log'[k], Outcome'[k - 1])
  BY <1>3, SubscriptionConstants DEF IsHistory
<1> DEFINE S == {n \in Nat : n <= Len(log) => Outcome'[n] = Outcome[n]}
<1>5. 0 \in S
  BY <1>4, OutcomeOfLog
<1>6. ASSUME NEW n \in Nat, n \in S PROVE n + 1 \in S
  <2> SUFFICES ASSUME n + 1 <= Len(log) PROVE Outcome'[n + 1] = Outcome[n + 1]
    OBVIOUS
  <2>1. n + 1 \in 1..MaxEvents /\ n + 1 \in DOMAIN log /\ (n + 1) - 1 = n
    BY <1>1, SubscriptionConstants
  <2>2. Outcome'[n] = Outcome[n]
    BY <1>1, <1>6
  <2> QED
    BY <1>1, <1>4, <2>1, <2>2, OutcomeOfLog
<1> HIDE DEF S
<1>7. \A n \in Nat : n \in S
  BY <1>5, <1>6, SetInduction
<1> QED
  BY <1>1, <1>7 DEF S

(* An event that is newer than the document is applied by its filter       *)
(* exactly when it means something in its turn.                            *)
LEMMA NewerIsTaken ==
    ASSUME SubTypeOK, NEW e \in Event, e.at > sub.at
    PROVE  /\ Matches(e, sub) => /\ TakenInTurn(e, sub) = Updated(e, sub)
                                 /\ TakenInTurn(e, sub).at = e.at
           /\ ~Matches(e, sub) /\ (sub.at > 0 \/ e.kind \notin Upserts)
                 => TakenInTurn(e, sub) = sub
           /\ sub.at = 0 /\ e.kind \in Upserts
                 => /\ TakenInTurn(e, sub) = Upserted(e)
                    /\ TakenInTurn(e, sub).at = e.at
<1>1. sub.at \in Nat /\ e.at \in Nat
  BY SubscriptionConstants DEF SubTypeOK, Event, Events
<1>2. /\ Upserted(e).at = e.at
      /\ Matches(e, sub) => Updated(e, sub).at = e.at
  BY Updates
<1>3. CASE sub.at = 0
  <2>1. TakenInTurn(e, sub) = IF e.kind \in Upserts THEN Upserted(e) ELSE sub
    BY <1>3 DEF TakenInTurn
  <2> QED
    BY <1>2, <1>3, <2>1 DEF Matches
<1>4. CASE sub.at > 0
  <2>0. sub.at < e.at
    BY <1>1
  <2>1. Matches(e, sub) <=>
           ~(e.kind = "unpriced" \/ (e.kind \in TrialEnds /\ ~sub.trial))
    BY <1>4, <2>0, Zenon DEF Matches, NewerThan
  <2>2. TakenInTurn(e, sub) = IF Matches(e, sub) THEN Updated(e, sub) ELSE sub
    <3>1. sub.at # 0
      BY <1>1, <1>4
    <3>2. CASE Matches(e, sub)
      BY <1>4, <2>1, <3>1, <3>2, Zenon DEF TakenInTurn
    <3>3. CASE ~Matches(e, sub)
      BY <1>4, <2>1, <3>1, <3>3, Zenon DEF TakenInTurn
    <3> QED
      BY <3>2, <3>3
  <2> QED
    BY <1>1, <1>2, <1>4, <2>2
<1> QED
  BY <1>1, <1>3, <1>4

LEMMA OrderInit == Init => OrderInv
<1> SUFFICES ASSUME Init PROVE OrderInv
  OBVIOUS
<1>1. Len(log) = 0 /\ DOMAIN log = {} /\ 0 \in 0..MaxEvents
  BY SubscriptionConstants DEF Init
<1>2. PrefixOf(0)
  BY <1>1, OutcomeOfLog DEF Init, PrefixOf, NoSub, Idle
<1> QED
  BY <1>1, <1>2 DEF Init, OrderInv, Idle

(* What a webhook step makes of a prefix.                                  *)
LEMMA OrderWebhook ==
    ASSUME SubTypeOK, RecordInv, HookInv, Orderly, OrderInv,
           NEW h \in Handlers, WebhookStep(h), SubTypeOK',
           NEW k \in 0..MaxEvents, PrefixOf(k)
    PROVE  \E l \in 0..MaxEvents : PrefixOf(l)'
<1> DEFINE i == hook[h].ev
<1>1. /\ hook[h].step # "idle" /\ UNCHANGED log
      /\ \A g \in Handlers \ {h} : hook'[g] = hook[g]
  BY DEF WebhookStep, ApplyMatching, ApplyIgnored, ApplyAbsent, Insert,
     TriggerFullSync, WebhookFails, Applied, SubTypeOK
<1>2. /\ i \in DOMAIN log /\ log[i] \in Event /\ log[i].at = i
      /\ i \in Nat \ {0} /\ k \in Nat /\ sub.at \in Nat /\ Len(log) \in Nat
      /\ Len(log) <= MaxEvents /\ DOMAIN log = 1..Len(log) /\ i <= Len(log)
  <2>1. i \in DOMAIN log /\ log[i] \in Event
    BY <1>1, Handled
  <2>2. DOMAIN log = 1..Len(log) /\ Len(log) \in Nat /\ Len(log) <= MaxEvents
    BY DEF SubTypeOK
  <2>3. log[i].at = i
    BY <2>1 DEF OrderInv
  <2>4. sub.at \in Nat /\ k \in Nat
    BY SubscriptionConstants DEF SubTypeOK
  <2> HIDE DEF i
  <2> QED
    BY <2>1, <2>2, <2>3, <2>4
<1>3. \A g \in Handlers : hook[g].step # "idle" =>
         hook[g].ev \in Nat /\ hook[g].ev <= k + 1
  <2> SUFFICES ASSUME NEW g \in Handlers, hook[g].step # "idle"
               PROVE  hook[g].ev \in Nat /\ hook[g].ev <= k + 1
    OBVIOUS
  <2>1. hook[g].ev \in Nat \ {0}
    <3>1. hook[g].ev \in DOMAIN log
      BY DEF SubTypeOK
    <3> QED
      BY <3>1, <1>2
  <2>2. 1..(hook[g].ev - 1) \subseteq 1..k
    BY DEF OrderInv, PrefixOf
  <2> QED
    BY <1>2, <2>1, <2>2
<1>4. /\ k <= Len(log) /\ acked \subseteq 1..k /\ sub = Outcome[k] /\ sub.at <= k
      /\ \A j \in 1..k : j > sub.at => TakenInTurn(log[j], sub) = sub
      /\ \A g \in Handlers :
            /\ hook[g].step = "sync" => hook[g].ev <= k
            /\ hook[g].step = "insert" /\ sub.at > 0 => hook[g].ev <= k
  BY DEF PrefixOf
<1>5. Outcome' = Outcome
  BY <1>1 DEF Outcome
<1>6. hook \in [Handlers -> [step : {"idle", "apply", "insert", "sync"},
                             ev : {0} \cup DOMAIN log]]
  BY DEF SubTypeOK
<1>7. i <= k + 1
  BY <1>1, <1>3
<1> HIDE DEF i
<1>8. CASE ApplyMatching(h) \/ ApplyIgnored(h) \/ Insert(h)
  <2>1. Applied(h) /\ log[hook[h].ev] = log[i] /\ hook[h].ev = i
    BY <1>8 DEF ApplyMatching, ApplyIgnored, Insert, i
  <2>2. /\ acked' \subseteq acked \cup {i}
        /\ hook'[h].step \in {"sync", "idle"}
        /\ hook'[h].step = "sync" => hook'[h].ev = i
    <3>1. \/ hook' = [hook EXCEPT ![h].step = "sync"] /\ acked' = acked
          \/ hook' = [hook EXCEPT ![h] = Idle] /\ acked' = acked \cup {i}
      BY <2>1 DEF Applied
    <3> QED
      BY <1>6, <2>1, <3>1 DEF Idle
  <2>3. \/ Matches(log[i], sub) /\ sub' = Updated(log[i], sub)
        \/ /\ ~Matches(log[i], sub) /\ (sub.at > 0 \/ log[i].kind \notin Upserts)
           /\ sub' = sub
        \/ /\ hook[h].step = "insert" /\ log[i].kind \in Upserts
           /\ sub' = IF sub.at = 0 THEN Upserted(log[i]) ELSE sub
    BY <1>8, <2>1 DEF ApplyMatching, ApplyIgnored, Insert, HookInv
  <2>4. CASE i <= k
    <3>1. i > sub.at => TakenInTurn(log[i], sub) = sub
      BY <1>2, <1>4, <2>4
    <3>2. ~Matches(log[i], sub) /\ (sub.at = 0 => log[i].kind \notin Upserts)
      <4>1. CASE i > sub.at
        BY <1>2, <3>1, <4>1, NewerIsTaken
      <4>2. CASE ~(i > sub.at)
        BY <1>2, <4>2 DEF Matches, NewerThan
      <4> QED
        BY <4>1, <4>2
    <3>3. sub' = sub
      BY <2>3, <3>2
    <3>4. PrefixOf(k)'
      BY <1>1, <1>2, <1>4, <1>5, <2>2, <2>4, <3>3 DEF PrefixOf
    <3> QED
      BY <3>4
  <2>5. CASE i = k + 1
    <3>1. log[i].at > sub.at
      BY <1>2, <1>4, <2>5
    <3>2. sub' = TakenInTurn(log[i], sub) /\ sub'.at \in {sub.at, i}
      <4>1. hook[h].step = "insert" => sub.at = 0
        BY <1>2, <1>4, <2>1, <2>5
      <4> QED
        BY <1>2, <2>3, <3>1, <4>1, NewerIsTaken
    <3>3. sub' = Outcome[k + 1]
      <4>1. k + 1 \in 1..MaxEvents /\ (k + 1) - 1 = k
        BY <1>2, <2>5, SubscriptionConstants
      <4> QED
        BY <1>4, <2>5, <3>2, <4>1, OutcomeOfLog
    <3>4. \A j \in 1..(k + 1) : j > sub'.at => TakenInTurn(log[j], sub') = sub'
      <4>1. CASE sub'.at = i
        BY <1>2, <2>5, <4>1
      <4>2. CASE sub'.at # i
        <5>1. sub' = sub
          BY <1>2, <2>3, <3>1, <3>2, <4>2, NewerIsTaken
        <5>2. \A j \in 1..(k + 1) : j \in 1..k \/ j = i
          BY <1>2, <2>5
        <5> QED
          BY <1>4, <3>2, <5>1, <5>2
      <4> QED
        BY <4>1, <4>2
    <3>5. PrefixOf(k + 1)'
      <4>1. k + 1 <= Len(log) /\ acked' \subseteq 1..(k + 1) /\ sub'.at <= k + 1
        BY <1>2, <1>4, <2>2, <2>5, <3>2
      <4>2. \A g \in Handlers :
               /\ hook'[g].step = "sync" => hook'[g].ev <= k + 1
               /\ hook'[g].step = "insert" /\ sub'.at > 0 => hook'[g].ev <= k + 1
        <5>1. \A g \in Handlers \ {h} : hook'[g].step # "idle" => hook'[g].ev <= k + 1
          BY <1>1, <1>3
        <5>2. hook'[h].step = "sync" => hook'[h].ev <= k + 1
          BY <1>2, <2>2, <2>5
        <5> QED
          BY <2>2, <5>1, <5>2
      <4> QED
        BY <1>1, <1>5, <3>3, <3>4, <4>1, <4>2 DEF PrefixOf
    <3> QED
      BY <1>2, <2>5, <3>5, SubscriptionConstants
  <2> QED
    BY <1>2, <1>7, <2>4, <2>5
<1>9. CASE ApplyAbsent(h)
  <2>1. /\ hook' = [hook EXCEPT ![h].step = "insert"] /\ acked' = acked
        /\ sub' = sub /\ sub.at = 0
    BY <1>9 DEF ApplyAbsent
  <2>2. hook'[h].step = "insert"
    BY <1>6, <2>1
  <2>3. PrefixOf(k)'
    BY <1>1, <1>2, <1>4, <1>5, <2>1, <2>2 DEF PrefixOf
  <2> QED
    BY <2>3
<1>10. CASE TriggerFullSync(h) \/ WebhookFails(h)
  <2>1. /\ hook' = [hook EXCEPT ![h] = Idle] /\ sub' = sub
        /\ \/ acked' = acked
           \/ hook[h].step = "sync" /\ acked' = acked \cup {i}
    BY <1>10 DEF TriggerFullSync, WebhookFails, i
  <2>2. hook'[h].step = "idle"
    BY <1>6, <2>1 DEF Idle
  <2>3. acked' \subseteq 1..k
    <3>1. hook[h].step = "sync" => i \in 1..k
      BY <1>2, <1>4 DEF i
    <3> QED
      BY <1>4, <2>1, <3>1
  <2>4. PrefixOf(k)'
    BY <1>1, <1>2, <1>4, <1>5, <2>1, <2>2, <2>3 DEF PrefixOf
  <2> QED
    BY <2>4
<1> QED
  BY <1>8, <1>9, <1>10 DEF WebhookStep

LEMMA OrderStep ==
    ASSUME SubTypeOK, RecordInv, HookInv, PeriodInv, OrderInv, [Next]_vars, SubTypeOK'
    PROVE  OrderInv'
<1> SUFFICES ASSUME Orderly'
             PROVE  /\ \A i \in DOMAIN log' : log'[i].at = i
                    /\ \A h \in Handlers : hook'[h].step # "idle"
                          => 1..(hook'[h].ev - 1) \subseteq acked'
                    /\ \E k \in 0..MaxEvents : PrefixOf(k)'
  BY DEF OrderInv
<1>1. ASSUME NEW kind \in Kinds, Emit(kind), Orderly
      PROVE  /\ \A i \in DOMAIN log' : log'[i].at = i
             /\ \E k \in 0..MaxEvents : PrefixOf(k)'
             /\ UNCHANGED <<acked, hook>>
  <2> DEFINE n == Len(log) + 1
  <2>1. /\ n \in Events /\ DOMAIN log = 1..Len(log) /\ DOMAIN log' = 1..n
        /\ \A i \in DOMAIN log : log'[i] = log[i]
        /\ "tie" \notin met' =>
              log'[n].at = 1 + IF log = <<>> THEN 0 ELSE log[Len(log)].at
        /\ UNCHANGED <<acked, sub, hook>>
    BY <1>1, Emitted
  <2>2. Len(log) \in Nat /\ Len(log') = n
    <3>1. Len(log) \in Nat /\ log' \in Seq(Event)
      <4>1. log \in Seq(Event)
        BY DEF SubTypeOK, Event
      <4> QED
        BY <4>1, <1>1, EventsStay
    <3> QED
      BY <2>1, <3>1
  <2>3. log'[n].at = n
    <3>1. "tie" \notin met'
      BY DEF Orderly
    <3>2. CASE log = <<>>
      BY <2>1, <3>1, <3>2
    <3>3. CASE log # <<>>
      <4>1. Len(log) \in DOMAIN log
        BY <2>1, <2>2, <3>3 DEF SubTypeOK
      <4>2. log[Len(log)].at = Len(log)
        BY <1>1, <4>1 DEF OrderInv
      <4> QED
        BY <2>1, <2>2, <3>1, <3>3, <4>2
    <3> QED
      BY <3>2, <3>3
  <2> HIDE DEF n
  <2>4. DOMAIN log' = DOMAIN log \cup {n}
    BY <2>1, <2>2 DEF n
  <2>5. \A i \in DOMAIN log' : log'[i].at = i
    BY <1>1, <2>1, <2>3, <2>4 DEF OrderInv
  <2>6. PICK k \in 0..MaxEvents : PrefixOf(k)
    BY <1>1 DEF OrderInv
  <2>7. Outcome'[k] = Outcome[k] /\ k <= Len(log') /\ 1..k \subseteq DOMAIN log
    <3>1. k <= Len(log) /\ k \in 0..Len(log)
      BY <2>2, <2>6, SubscriptionConstants DEF PrefixOf
    <3>2. Outcome'[k] = Outcome[k]
      BY <1>1, <3>1, OutcomeStays
    <3> QED
      BY <2>1, <2>2, <3>1, <3>2 DEF n
  <2>8. PrefixOf(k)'
    BY <2>1, <2>6, <2>7 DEF PrefixOf
  <2> QED
    BY <2>1, <2>5, <2>8
<1>2. ASSUME NEW h \in Handlers, NEW i \in Events, Deliver(h, i), Orderly
      PROVE  /\ UNCHANGED <<log, acked, sub>>
             /\ \A j \in 1..(i - 1) : j \in acked
             /\ \A g \in Handlers : hook'[g] = IF g = h THEN [step |-> "apply", ev |-> i]
                                               ELSE hook[g]
  BY <1>2 DEF Deliver, Meets, Orderly, SubTypeOK
<1>3. Orderly
  <2>1. \A kind \in Kinds : Emit(kind) => met \subseteq met'
    BY DEF Emit, Meets
  <2>2. \A h \in Handlers, i \in Events : Deliver(h, i) => met \subseteq met'
    BY DEF Deliver, Meets
  <2>3. \A h \in Handlers : WebhookStep(h) => met \subseteq met'
    BY WebhookFrame
  <2>4. \A c \in Chats : ChatStep(c) => met \subseteq met'
    BY ChatFrame
  <2>5. \A p \in Events : PeriodBegins(p) \/ PeriodEnds(p) => met \subseteq met'
    BY ClockFrame
  <2>6. met \subseteq met'
    BY <2>1, <2>2, <2>3, <2>4, <2>5 DEF Next, vars
  <2> QED
    BY <2>6 DEF Orderly
<1>4. PICK k \in 0..MaxEvents : PrefixOf(k)
  BY <1>3 DEF OrderInv
<1>5. CASE \E kind \in Kinds : Emit(kind)
  BY <1>1, <1>3, <1>5 DEF OrderInv
<1>6. CASE \E h \in Handlers, i \in Events : Deliver(h, i)
  <2>1. PICK h \in Handlers, i \in Events : Deliver(h, i)
    BY <1>6
  <2>2. /\ UNCHANGED <<log, acked, sub>>
        /\ \A j \in 1..(i - 1) : j \in acked
        /\ \A g \in Handlers : hook'[g] = IF g = h THEN [step |-> "apply", ev |-> i]
                                          ELSE hook[g]
    BY <1>2, <1>3, <2>1
  <2>3. Outcome' = Outcome
    BY <2>2 DEF Outcome
  <2>4. PrefixOf(k)'
    BY <1>4, <2>2, <2>3 DEF PrefixOf
  <2> QED
    BY <1>3, <2>2, <2>4 DEF OrderInv
<1>7. ASSUME NEW h \in Handlers, WebhookStep(h)
      PROVE  /\ \A i \in DOMAIN log' : log'[i].at = i
             /\ \A g \in Handlers : hook'[g].step # "idle"
                   => 1..(hook'[g].ev - 1) \subseteq acked'
             /\ \E l \in 0..MaxEvents : PrefixOf(l)'
  <2>1. \E l \in 0..MaxEvents : PrefixOf(l)'
    BY <1>3, <1>4, <1>7, OrderWebhook
  <2>2. UNCHANGED log /\ acked \subseteq acked'
    BY <1>7 DEF WebhookStep, ApplyMatching, ApplyIgnored, ApplyAbsent, Insert,
       TriggerFullSync, WebhookFails, Applied
  <2>3. \A g \in Handlers : hook'[g].step # "idle" =>
            hook'[g].ev = hook[g].ev /\ hook[g].step # "idle"
    <3>1. /\ hook[h].step # "idle"
          /\ \/ hook' = [hook EXCEPT ![h] = Idle]
             \/ hook' = [hook EXCEPT ![h].step = "sync"]
             \/ hook' = [hook EXCEPT ![h].step = "insert"]
      BY <1>7 DEF WebhookStep, ApplyMatching, ApplyIgnored, ApplyAbsent, Insert,
         TriggerFullSync, WebhookFails, Applied
    <3>2. hook \in [Handlers -> [step : {"idle", "apply", "insert", "sync"},
                                 ev : {0} \cup DOMAIN log]]
      BY DEF SubTypeOK
    <3>3. \A g \in Handlers \ {h} : hook'[g] = hook[g]
      BY <3>1, <3>2
    <3>4. hook'[h].step = "idle" \/ hook'[h].ev = hook[h].ev
      BY <3>1, <3>2 DEF Idle
    <3> QED
      BY <3>1, <3>3, <3>4
  <2> QED
    BY <1>3, <2>1, <2>2, <2>3 DEF OrderInv
<1>8. CASE \/ \E c \in Chats : ChatStep(c)
           \/ \E p \in Events : PeriodBegins(p) \/ PeriodEnds(p)
           \/ UNCHANGED vars
  <2>1. UNCHANGED <<log, acked, sub, hook>>
    BY <1>8, ChatFrame, ClockFrame DEF vars
  <2>2. Outcome' = Outcome
    BY <2>1 DEF Outcome
  <2> QED
    BY <1>3, <1>4, <2>1, <2>2 DEF OrderInv, PrefixOf
<1> QED
  BY <1>5, <1>6, <1>7, <1>8 DEF Next

(* While Salla keeps the order of events and their times are distinct, the *)
(* record is what handling each event once in its turn would have left,    *)
(* however often webhooks failed, were repeated or ran at the same time.   *)
THEOREM HandledOnceInOrder == Spec => []LatestEventDecides
<1> DEFINE Inv == /\ SubTypeOK /\ RecordInv /\ HookInv /\ StartIsSynced
                  /\ PeriodInv /\ OneRunning /\ OrderInv
<1>1. Init => Inv
  BY TypeInit, PeriodInit, OrderInit DEF Init, HookInv, StartIsSynced, Idle
<1>2. Inv /\ [Next]_vars => Inv'
  BY TypeStep, SyncedStep, PeriodStep, OrderStep
<1>3. Inv => LatestEventDecides
  <2> SUFFICES ASSUME Inv, Orderly
               PROVE  \E k \in 0..Len(log) : acked \subseteq 1..k /\ sub = Outcome[k]
    BY DEF LatestEventDecides, Orderly
  <2>1. PICK k \in 0..MaxEvents : PrefixOf(k)
    BY DEF OrderInv
  <2>2. k \in 0..Len(log)
    BY <2>1, SubscriptionConstants DEF PrefixOf, SubTypeOK
  <2> QED
    BY <2>1, <2>2 DEF PrefixOf
<1> QED
  BY <1>1, <1>2, <1>3, PTL DEF Spec
===============================================================================
