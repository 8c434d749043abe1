--------------------------- MODULE AssistantSettings ---------------------------
(***************************************************************************)
(* The settings of one store's assistant: a document in MongoDB, and a     *)
(* copy of it in Redis that readers fill and updates replace               *)
(* (src/modules/assistant-settings).                                       *)
(*                                                                         *)
(* A field is given the number of the update that set it; 0 is its         *)
(* default.  Readers are the widget, the dashboard, a chat turn that       *)
(* builds its prompt and the assistant's tool for store policies; writers  *)
(* are PATCH requests.  Every command to Redis or MongoDB is a step.       *)
(***************************************************************************)
EXTENDS Integers, FiniteSets

CONSTANTS
    Readers, Writers,
    Changes,      \* the sets of fields that an update may hold
    MaxUpdates,   \* bound: updates in a behaviour
    MaxErrors     \* bound: failing commands to Redis

Fields == {"isEnabled", "customPersona", "storePolicies"}
NullableFields == {"customPersona", "storePolicies"}

Default == 0
Null == -1
Absent == <<>>

VARIABLES
    settings,    \* MongoDB: the document, from field to value
    cached,      \* Redis: a full view of the settings, or Absent
    onboarded,   \* the store's onboarding is completed
    pc,          \* where each request is
    held,        \* the view that each request holds
    updates,     \* number of updates
    errors,      \* number of failed commands, for the bound
    past,        \* ghost: all views of the document so far
    met          \* ghost: what may leave an old view in Redis

vars == <<settings, cached, onboarded, pc, held, updates, errors, past, met>>

(* Mutant: what is null is passed on.                                      *)
FullAsStored(doc) == doc

(* mapToFullSettings: null gives way to the default, where there is one.   *)
MapToFullSettings(doc) ==
    [f \in Fields |-> IF doc[f] = Null /\ f \notin NullableFields THEN Default ELSE doc[f]]

Current == MapToFullSettings(settings)

Init ==
    /\ settings = [f \in Fields |-> Default]
    /\ cached = Absent /\ onboarded = FALSE
    /\ pc = [x \in Readers \cup Writers |-> "idle"]
    /\ held = [x \in Readers \cup Writers |-> Absent]
    /\ updates = 0 /\ errors = 0
    /\ past = {Current} /\ met = {}

-------------------------------------------------------------------------------
(* getCachedOrFetch.                                                       *)

(* A failed GET counts as a miss.  A view that is cached is the answer.    *)
Get(r, failed) ==
    /\ pc[r] = "idle"
    /\ cached = Absent \/ failed
    /\ pc' = [pc EXCEPT ![r] = "fetch"]
    /\ UNCHANGED <<settings, cached, onboarded, held, updates, past, met>>

Fetch(r) ==
    /\ pc[r] = "fetch"
    /\ held' = [held EXCEPT ![r] = Current]
    /\ pc' = [pc EXCEPT ![r] = "fill"]
    /\ UNCHANGED <<settings, cached, onboarded, updates, errors, past, met>>

(* A failed SET is logged, and what is cached stays.                       *)
Stored(x, failed) ==
    /\ cached' = IF failed THEN cached ELSE held[x]
    /\ met' = IF failed /\ x \in Writers THEN met \cup {"unsaved"} ELSE met

Fill(r, failed) ==
    /\ pc[r] = "fill"
    /\ Stored(r, failed)
    /\ pc' = [pc EXCEPT ![r] = "idle"]
    /\ held' = [held EXCEPT ![r] = Absent]
    /\ UNCHANGED <<settings, onboarded, updates, past>>

-------------------------------------------------------------------------------
(* PATCH assistant-settings/me.                                            *)

(* Mutant: returnDocument is left out, the view is that of before.         *)
ViewBeforeUpdate(doc, fields) == Current

(* Mutant: the new view is the cached one with the change laid over it.    *)
ViewFromCache(doc, fields) ==
    [f \in Fields |-> IF f \in fields \/ cached = Absent THEN MapToFullSettings(doc)[f]
                      ELSE cached[f]]

ViewAfterUpdate(doc, fields) == MapToFullSettings(doc)

(* Only the fields of the request are set, of an object each key on its    *)
(* own, and null is a value.                                               *)
Upsert(w) ==
    /\ pc[w] = "idle" /\ updates < MaxUpdates
    /\ updates' = updates + 1
    /\ \E fields \in Changes, value \in {Null, updates + 1} :
         /\ settings' = [f \in Fields |-> IF f \in fields THEN value ELSE settings[f]]
         /\ held' = [held EXCEPT ![w] = ViewAfterUpdate(settings', fields)]
    /\ met' = IF \E x \in DOMAIN pc : pc[x] \in {"fill", "cache"} THEN met \cup {"crossed"} ELSE met
    /\ past' = past \cup {MapToFullSettings(settings')}
    /\ pc' = [pc EXCEPT ![w] = "cache"]
    /\ UNCHANGED <<cached, onboarded, errors>>

CacheUpdate(w, failed) ==
    /\ pc[w] = "cache"
    /\ Stored(w, failed)
    /\ pc' = [pc EXCEPT ![w] = "complete"]
    /\ UNCHANGED <<settings, onboarded, held, updates, past>>

(* The settings stay if this fails.                                        *)
MarkOnboardingCompleted(w) ==
    /\ pc[w] = "complete"
    /\ onboarded' \in {TRUE, onboarded}
    /\ pc' = [pc EXCEPT ![w] = "idle"]
    /\ held' = [held EXCEPT ![w] = Absent]
    /\ UNCHANGED <<settings, cached, updates, errors, past, met>>

-------------------------------------------------------------------------------
(* Mutant: the copy is stored without a time to live.                      *)
NeverExpires == FALSE /\ UNCHANGED vars

(* ASSISTANT_SETTINGS_CACHE_TTL_SECONDS after it was stored.               *)
Expire ==
    /\ cached # Absent /\ cached' = Absent
    /\ UNCHANGED <<settings, onboarded, pc, held, updates, errors, past, met>>

Command(failed) ==
    \/ \E r \in Readers : Get(r, failed) \/ Fill(r, failed)
    \/ \E w \in Writers : CacheUpdate(w, failed)

CommandSucceeds == Command(FALSE) /\ UNCHANGED errors
CommandFails == errors < MaxErrors /\ Command(TRUE) /\ errors' = errors + 1

Next ==
    \/ CommandSucceeds \/ CommandFails
    \/ \E r \in Readers : Fetch(r)
    \/ \E w \in Writers : Upsert(w) \/ MarkOnboardingCompleted(w)
    \/ Expire

Spec == Init /\ [][Next]_vars

Finishes(r) == Fetch(r) \/ (Fill(r, FALSE) /\ UNCHANGED errors)
Completes(w) == (CacheUpdate(w, FALSE) /\ UNCHANGED errors) \/ MarkOnboardingCompleted(w)

(* Requests end, and what is in Redis expires.                             *)
Fairness ==
    /\ \A r \in Readers : WF_vars(Finishes(r))
    /\ \A w \in Writers : WF_vars(Completes(w))
    /\ WF_vars(Expire)

-------------------------------------------------------------------------------
SettingsTypeOK ==
    /\ settings \in [Fields -> Null..MaxUpdates]
    /\ cached = Absent \/ (cached \in [Fields -> Null..MaxUpdates] /\ cached["isEnabled"] # Null)
    /\ onboarded \in BOOLEAN
    /\ \A x \in Readers \cup Writers :
         pc[x] \in IF x \in Readers THEN {"idle", "fetch", "fill"} ELSE {"idle", "cache", "complete"}
    /\ updates \in 0..MaxUpdates /\ errors \in 0..MaxErrors /\ met \subseteq {"crossed", "unsaved"}

(* What the cache and the requests hold, and so whatever is served, is one *)
(* state of the document, never parts of two, however updates and fills    *)
(* cross.                                                                  *)
ServedWasStored ==
    \A view \in {cached} \cup {held[x] : x \in DOMAIN held} :
        view # Absent => view \in past

(* Redis holds an old view only while an update is about to replace it:    *)
(* unless an update came between a fill or another update and its SET, or  *)
(* the SET of an update failed.                                            *)
FreshUnlessCrossed ==
    (met = {} /\ cached # Absent /\ \A w \in Writers : pc[w] # "cache") => cached = Current

(* What is served is one state of the document, and the current one unless *)
(* requests crossed.                                                       *)
SettingsAreCurrent == ServedWasStored /\ FreshUnlessCrossed

(* When there are no more updates, an old view disappears for good.        *)
StaleHeals == <>[](cached # Absent => cached = Current)
===============================================================================
