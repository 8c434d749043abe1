------------------------------- MODULE MCChat --------------------------------
(***************************************************************************)
(* Model checking of the machines of the chat, and of the dashboard that   *)
(* reports on it, on small instances.                                      *)
(* None of them reads what another one writes, so nothing is gained by     *)
(* interleaving them: a behaviour is one of the part chosen at its start,  *)
(* while the others stay in their initial state.  The memory of the chat   *)
(* is Conversation itself, so that its properties are looked at directly.  *)
(***************************************************************************)
EXTENDS Conversation

CONSTANTS Readers, Writers, Changes, MaxUpdates, MaxErrors    \* see AssistantSettings

VARIABLES
    part,
    docs, index, owed, changed, history, turn, stage, round, messages, saved, calls,
    progress, found, reply, steady, shown, made,
    settings, cached, onboarded, pc, held, updates, errors, past, crossed,
    conversation, archived, answered, blank, waiting, expiresOf, dead, retention,
    today, changes, spoilt,
    plans, byId, planList, seeding, lookup, failed, unclean, sub, used, now,
    page, onPage, calm, events

promptVars == <<docs, index, owed, changed, history, turn, stage, round, messages, saved,
                calls, progress, found, reply, steady, shown, made>>
settingsVars == <<settings, cached, onboarded, pc, held, updates, errors, past, crossed>>
archiveVars == <<conversation, archived, answered, blank, waiting, expiresOf, dead,
                 retention, today, changes, spoilt>>
pageVars == <<plans, byId, planList, seeding, lookup, failed, unclean, sub,
              used, now, page, onPage, calm, events>>
chatVars == <<part, promptVars, settingsVars, vars, archiveVars, pageVars>>

-------------------------------------------------------------------------------
(* A product with a variant that is out of stock, one that is hidden and   *)
(* one over the budget of the search, and a product without variants.      *)
Variant(id, status, price, inStock, options) ==
    [id |-> id, status |-> status, price |-> price, inStock |-> inStock, options |-> options]

Product(price, category, variants) ==
    [status |-> "available", price |-> price, inStock |-> TRUE, category |-> category,
     variants |-> variants]

SmallCatalogue ==
    [p1 |-> Product(0, "c1", <<Variant("v1", "available", 1, FALSE, {"red"}),
                               Variant("v2", "available", 5, TRUE, {"red"}),
                               Variant("v3", "hidden", 0, TRUE, {"red"}),
                               Variant("v4", "available", 2, TRUE, {"blue"})>>),
     p2 |-> Product(3, "c2", <<>>)]

(* The first product is written again: nothing of it is within the budget  *)
(* of the search any more, and what was out of stock is in stock.          *)
SmallUpdates ==
    [p1 |-> {Product(0, "c1", <<Variant("v1", "available", 4, TRUE, {"red"}),
                                Variant("v2", "hidden", 2, TRUE, {"red"}),
                                Variant("v4", "available", 6, FALSE, {"blue"})>>)},
     p2 |-> {}]

NoArgs == [query |-> "none", category |-> "none", maxPrice |-> -1, optionFilter |-> {},
           productName |-> "none", variantId |-> "none"]

Call(name, args) == [name |-> name, args |-> args]
Search(budget) ==
    Call("search_products",
         [NoArgs EXCEPT !.query = "q", !.maxPrice = budget, !.optionFilter = {"red"}])
Details(name, id) ==
    Call("get_product_details", [NoArgs EXCEPT !.productName = name, !.variantId = id])

(* With calls: every tool, unknown and refused ones, alone and together.   *)
SmallResponses ==
    {[text |-> {"words"}, calls |-> <<Search(-1)>>],
     [text |-> {}, calls |-> <<Call("get_store_categories", NoArgs),
                               Call("get_store_policies", NoArgs), Call("other", NoArgs)>>],
     [text |-> {"words"}, calls |-> <<Search(3), Details("none", "v1")>>],
     [text |-> {}, calls |-> <<Details("n", "none"), Search(3),
                               Call("search_products", [NoArgs EXCEPT !.category = "blank"])>>],
     [text |-> {}, calls |-> <<>>],
     [text |-> {"v2"}, calls |-> <<>>],
     [text |-> {"words", "v1", "p2"}, calls |-> <<>>]}

Turn == INSTANCE ChatTurn
            WITH Catalogue <- SmallCatalogue, Updates <- SmallUpdates,
                 Responses <- SmallResponses,
                 Topics <- <<"topic1", "topic2", "topic3">>,
                 HISTORY_TAIL_CEILING <- 5, MAX_TOOL_ROUNDS <- 2,
                 MaxCalls <- 3

Settings == INSTANCE AssistantSettings WITH met <- crossed

Archive == INSTANCE ChatArchive
               WITH MaxTurns <- 3, Retentions <- {0, 1, 2}, PageSizes <- {1, 3, 9},
                    MESSAGES_LIMIT_MAX <- 4, MaxDays <- 2, MaxPlanChanges <- 1,
                    messages <- archived, turns <- answered, met <- spoilt

Pages == INSTANCE Dashboard
             WITH PlanSeeds <- <<"basic", "max">>,
                  Releases <- <<[basic |-> 1, max |-> -1], [basic |-> 2, max |-> -1]>>,
                  MaxErrors <- 1, Period <- 1, MaxUsed <- 2,
                  MaxChanges <- 1, list <- planList, errors <- failed, met <- unclean,
                  shown <- onPage, changes <- events

-------------------------------------------------------------------------------
Parts == {"turn", "settings", "memory", "archive", "pages"}

ChatInit ==
    /\ part \in Parts
    /\ Init
    /\ Turn!Init /\ Settings!Init /\ Archive!Init /\ Pages!Init
    /\ part # "archive" => retention = 0
    /\ part # "pages" => used = 0 /\ sub.status = "none"

MemoryNext == part = "memory" /\ Next
                  /\ UNCHANGED <<part, promptVars, settingsVars, archiveVars, pageVars>>
TurnNext == part = "turn" /\ Turn!Next
                /\ UNCHANGED <<part, settingsVars, vars, archiveVars, pageVars>>
SettingsNext == part = "settings" /\ Settings!Next
                    /\ UNCHANGED <<part, promptVars, vars, archiveVars, pageVars>>
ArchiveNext == part = "archive" /\ Archive!Next
                   /\ UNCHANGED <<part, promptVars, settingsVars, vars, pageVars>>
PagesNext == part = "pages" /\ Pages!Next
                 /\ UNCHANGED <<part, promptVars, settingsVars, vars, archiveVars>>

ChatNext == MemoryNext \/ TurnNext \/ SettingsNext \/ ArchiveNext \/ PagesNext

ChatSpec == ChatInit /\ [][ChatNext]_chatVars /\ Settings!Fairness

(* A turn is followed as long as what it is told may still be judged: not  *)
(* when it has been told, and not in a session that is over or that met    *)
(* what TurnIsTold excuses.  Nothing else depends on what it has read.     *)
Focus ==
    reading.at = "none"
        \/ (reading.at # "told" /\ reading.said # {} /\ met \subseteq {"count lost"})

-------------------------------------------------------------------------------
(* The properties of the parts, each looked at while its part is on.       *)

(* Every variable keeps its type, in whichever part is on.                 *)
MCTypeOK ==
    /\ part = "turn" => Turn!ChatTypeOK
    /\ part = "settings" => Settings!SettingsTypeOK
    /\ part = "memory" => ConversationTypeOK
    /\ part = "archive" => Archive!ArchiveTypeOK
    /\ part = "pages" => Pages!DashboardTypeOK

(* The request to Gemini: see ChatTurn.                                    *)
PromptsAreSound == part = "turn" => Turn!PromptsAreSound

(* What a search shows: see ChatTurn.                                      *)
SearchKeepsPromise == Turn!SearchKeepsPromise

(* The cards of a reply: see ChatTurn.                                     *)
TaggedAreShownOnce == Turn!TaggedAreShownOnce

(* What the next turn knows of the cards: see ChatTurn.                    *)
EarlierIdsKnown == part = "turn" => Turn!EarlierIdsKnown

(* What the cache serves: see AssistantSettings.                           *)
SettingsAreCurrent == part = "settings" => Settings!SettingsAreCurrent

(* That the cache becomes current in the end: see AssistantSettings.       *)
StaleHeals == Settings!StaleHeals

(* What the archive shows: see ChatArchive.                                *)
ArchiveIsShown == part = "archive" => Archive!ArchiveIsShown

(* The plans in use after a start: see PlanCache.                          *)
SeededPlansAreUsed == part = "pages" => Pages!SeededPlansAreUsed

(* What the dashboard shows: see Dashboard.                                *)
PagesAgree == part = "pages" => Pages!PagesAgree
===============================================================================
