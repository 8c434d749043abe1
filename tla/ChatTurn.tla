------------------------------ MODULE ChatTurn ------------------------------
(***************************************************************************)
(* One conversation, turn by turn: the rounds of requests to Gemini and of *)
(* tool calls (chat-generation.service.ts), the reply with its product     *)
(* cards (chat-response.builder.ts) and the messages that are kept for the *)
(* next turn (chat.service.ts, all in src/modules/chat).                   *)
(*                                                                         *)
(* The calls of a round are executed concurrently, each reading the search *)
(* index and MongoDB at moments of its own, while products are written and *)
(* hidden.                                                                 *)
(* Gemini may respond with any of Responses, and fail.  The conversation   *)
(* is one without a summary: Conversation has those.                       *)
(***************************************************************************)
EXTENDS AssistantTools, PromptContents

CONSTANTS
    Catalogue,    \* the documents of the products, indexed when they start
    Updates,      \* the documents that may be written for each of them
    Responses,    \* what Gemini may respond: [text, calls], a call is [name, args]
    Topics,       \* what the customer says, turn by turn; bound: turns, and
                  \* changes of the catalogue, in a behaviour
    HISTORY_TAIL_CEILING,
    MAX_TOOL_ROUNDS,
    MaxCalls      \* bound: tool calls in a behaviour

VARIABLES
    docs,      \* MongoDB: the documents
    index,     \* Meilisearch: the entries
    owed,      \* the second writes of the upserts under way
    changed,   \* products written or hidden so far, for the bound
    history,   \* Redis: the messages of the finished turns
    turn,      \* number of turns begun
    stage,     \* "idle", "ask" (a request is with Gemini), "tools"
    round,     \* rounds of tools finished in this turn
    messages,  \* what is sent to Gemini
    saved,     \* what the turn will append to the history
    calls,     \* the calls of this round
    progress,  \* how far the execution of each is
    found,     \* the cards of all results, in the order of their completion
    reply,     \* what the customer was answered last
    steady,    \* ghost: <<i, p>> when the index had product p as it was when
               \* call i read it, and the document of p has not changed since
    shown,     \* ghost: the ids shown in the reply before the current turn
    made       \* tool calls so far, for the bound

data == <<docs, index, owed, changed>>
turnVars == <<turn, stage, round, messages, saved, calls, progress, found>>
vars == <<docs, index, owed, changed, history, turn, stage, round, messages, saved,
          calls, progress, found, reply, steady, shown, made>>

Versions(p) == {Catalogue[p]} \cup Updates[p]

Ids == DOMAIN Catalogue
         \cup UNION {UNION {{v.id : v \in ToSet(doc.variants)} : doc \in Versions(p)} :
                     p \in DOMAIN Catalogue}

NoReply == [status |-> "none", tagged |-> {}, cards |-> <<>>]

Executing(at, hits, result) == [at |-> at, hits |-> hits, result |-> result]

Init ==
    /\ docs = Catalogue
    /\ index = [p \in DOMAIN Catalogue |-> IndexEntry(Catalogue[p])]
    /\ owed = {} /\ changed = 0 /\ steady = {}
    /\ history = <<>> /\ turn = 0 /\ stage = "idle" /\ round = 0
    /\ messages = <<>> /\ saved = <<>>
    /\ calls = <<>> /\ progress = <<>> /\ found = <<>>
    /\ reply = NoReply /\ shown = {} /\ made = 0

-------------------------------------------------------------------------------
(* The reply.                                                              *)

(* Mutant: a card is shown once for every result it was in.                *)
EveryCard(cards) == cards

(* The first place a card was found at, and the last state of it.          *)
DeduplicateCards(cards) ==
    LET Same(i) == {j \in DOMAIN cards : cards[j].id = cards[i].id}
        latest == [i \in DOMAIN cards |-> cards[Max(Same(i))]]
    IN  Select(latest, {i \in DOMAIN cards : i = Min(Same(i))})

BuildResponse(text, cards) ==
    LET chosen == Select(cards, {i \in DOMAIN cards : cards[i].id \in text})
    IN  [status |-> "answered", tagged |-> text \cap Ids, cards |-> DeduplicateCards(chosen)]

CleanText(text) == text \ Ids

(* The turn is over: the reply is built and its messages are appended.     *)
Finish(text, keep) ==
    /\ reply' = BuildResponse(text, found)
    /\ history' = history \o keep \o <<Assistant(CleanText(text))>>
    /\ stage' = "idle" /\ round' = 0
    /\ messages' = <<>> /\ saved' = <<>> /\ found' = <<>>
    /\ calls' = <<>> /\ progress' = <<>> /\ steady' = {}

-------------------------------------------------------------------------------
(* The turn.                                                               *)

Room == turn + changed < Len(Topics)

StartTurn ==
    /\ stage = "idle" /\ Room
    /\ turn' = turn + 1 /\ stage' = "ask"
    /\ LET said == User({Topics[turn + 1]}) IN
         /\ messages' = Append(PromptHistory(history, HISTORY_TAIL_CEILING), said)
         /\ saved' = <<said>>
    /\ shown' = {c.id : c \in ToSet(reply.cards)} /\ reply' = NoReply
    /\ UNCHANGED <<data, history, round, calls, progress, found, steady, made>>

(* Gemini fails, in any round: the customer gets an error, 429, 503 or     *)
(* 500, and nothing of the turn is kept.                                   *)
GenerationFails ==
    /\ stage = "ask"
    /\ reply' = [NoReply EXCEPT !.status = "error"]
    /\ stage' = "idle" /\ round' = 0
    /\ messages' = <<>> /\ saved' = <<>> /\ found' = <<>>
    /\ UNCHANGED <<data, history, turn, calls, progress, steady, shown, made>>

(* A response without calls; an empty one is replaced by an apology.       *)
Answer ==
    /\ stage = "ask"
    /\ \E response \in Responses :
         /\ response.calls = <<>>
         /\ Finish(IF response.text = {} THEN {Words} ELSE response.text, saved)
    /\ UNCHANGED <<data, turn, shown, made>>

RequestTools ==
    /\ stage = "ask"
    /\ \E given \in Responses :
         LET parts == <<[kind |-> "text", text |-> given.text]>>
                        \o [i \in DOMAIN given.calls |-> [kind |-> "call", call |-> given.calls[i]]]
             response == ParseGeminiResponse(parts, <<turn, round>>)
             request == ToolRequest(response.text, response.calls)
         IN  /\ given.calls # <<>>
             /\ made + Len(response.calls) <= MaxCalls
             /\ made' = made + Len(response.calls)
             /\ calls' = response.calls
             /\ progress' = [i \in DOMAIN calls' |-> Executing("called", <<>>, NoResults)]
             /\ messages' = Append(messages, request)
             /\ saved' = Append(saved, request)
    /\ stage' = "tools"
    /\ UNCHANGED <<data, history, turn, round, found, reply, steady, shown>>

-------------------------------------------------------------------------------
(* The execution of call i.                                                *)

NameOf(i) == calls[i].call.name
ArgsOf(i) == calls[i].call.args

Done(i, result) ==
    /\ progress' = [progress EXCEPT ![i] = Executing("done", @.hits, result)]
    /\ found' = found \o result.cards
    /\ UNCHANGED steady

Reading(i) == stage = "tools" /\ i \in DOMAIN progress /\ progress[i].at = "called"

Refuse(i) ==
    /\ Reading(i) /\ Refuses(NameOf(i), ArgsOf(i))
    /\ Done(i, ModelError)

(* Is the entry of p that of its document?                                 *)
UpToDate(p) == index[p] = IndexEntry(docs[p])

(* Meilisearch answers; without a hit the call is over.                    *)
ReadIndex(i) ==
    LET name == NameOf(i)
        args == ArgsOf(i)
        Found(hits) == IF hits = <<>> THEN Done(i, NoResults)
                       ELSE /\ progress' = [progress EXCEPT ![i] = Executing("hits", hits, NoResults)]
                            /\ steady' = steady \cup {<<i, p>> : p \in {q \in ToSet(hits) : UpToDate(q)}}
                            /\ UNCHANGED found
    IN  /\ Reading(i) /\ ~Refuses(name, args)
        /\ \/ /\ name = "search_products"
              /\ \E hits \in Hits(index, SearchFilters(args), Cardinality(DOMAIN index)) :
                   Found(hits)
           \/ /\ name = "get_product_details"
              /\ ~FindsById(docs, args) /\ Given(args, "productName")
              /\ \E hits \in Hits(index, Filters(Nothing, NoMaximum, {}), 1) : Found(hits)

(* MongoDB answers a call that has its hits, or that needs none.           *)
ReadDocuments(i) ==
    LET name == NameOf(i)
        args == ArgsOf(i)
        p == progress[i]
    IN  /\ stage = "tools" /\ i \in DOMAIN progress
        /\ \/ /\ p.at = "hits" /\ name = "search_products"
              /\ Done(i, SearchResult(docs, p.hits, args))
           \/ /\ p.at = "hits" /\ name = "get_product_details"
              /\ Done(i, DetailsByHit(docs, p.hits))
           \/ /\ p.at = "called" /\ name = "get_product_details" /\ FindsById(docs, args)
              /\ \E result \in DetailsById(docs, args) : Done(i, result)
           \/ /\ p.at = "called" /\ name = "get_product_details" /\ ~Refuses(name, args)
              /\ ~FindsById(docs, args) /\ ~Given(args, "productName")
              /\ Done(i, NoResults)
           \/ /\ p.at = "called" /\ name = "get_store_categories"
              /\ Done(i, Categories(docs))
           \/ /\ p.at = "called" /\ name = "get_store_policies"
              /\ Done(i, Policies)

(* Reading fails: the model is told, the customer is not.                  *)
ExecutionFails(i) ==
    /\ stage = "tools" /\ i \in DOMAIN progress /\ progress[i].at # "done"
    /\ ~Refuses(NameOf(i), ArgsOf(i))
    /\ Done(i, ModelError)

Execute ==
    /\ \E i \in DOMAIN progress :
         Refuse(i) \/ ReadIndex(i) \/ ReadDocuments(i) \/ ExecutionFails(i)
    /\ UNCHANGED <<data, history, turn, stage, round, messages, saved, calls, reply,
                   shown, made>>

(* Mutant: the results are put together as they come in, so that those of  *)
(* calls without hits are first.                                           *)
ResultsAsCompleted ==
    LET Entry(i) == ToolResult(progress[i].result.text, calls[i].id)
        Without == SelectSeq([i \in DOMAIN calls |-> i], LAMBDA i : progress[i].hits = <<>>)
        With == SelectSeq([i \in DOMAIN calls |-> i], LAMBDA i : progress[i].hits # <<>>)
    IN  [k \in DOMAIN calls |-> Entry((Without \o With)[k])]

(* Promise.all: in the order of the calls, when the last one is done.      *)
ToolResults ==
    [i \in DOMAIN calls |-> ToolResult(progress[i].result.text, calls[i].id)]

(* Mutant: tools may be called once more than allowed.                     *)
OneRoundMore == round = MAX_TOOL_ROUNDS

LastRound == round = MAX_TOOL_ROUNDS - 1

CollectResults ==
    /\ stage = "tools"
    /\ \A i \in DOMAIN progress : progress[i].at = "done"
    /\ IF LastRound
         THEN Finish({Words}, saved \o ToolResults)
         ELSE /\ messages' = messages \o ToolResults
              /\ saved' = saved \o ToolResults
              /\ round' = round + 1 /\ stage' = "ask"
              /\ calls' = <<>> /\ progress' = <<>> /\ steady' = {}
              /\ UNCHANGED <<history, found, reply>>
    /\ UNCHANGED <<data, turn, shown, made>>

-------------------------------------------------------------------------------
(* The catalogue.                                                          *)

WriteDocument(p, doc) ==
    /\ docs' = [docs EXCEPT ![p] = doc]
    /\ steady' = {s \in steady : s[2] # p}

WriteEntry(p, doc) == index' = [index EXCEPT ![p] = IndexEntry(doc)]

Owed(to, p, doc) == [to |-> to, product |-> p, doc |-> doc]

Change == Room /\ changed' = changed + 1

(* An upsert writes the document and the index, one after the other: the   *)
(* bulk one MongoDB first, the other one the index, before the transaction *)
(* of its consumer commits.                                                *)
UpsertProduct ==
    /\ Change
    /\ \E p \in DOMAIN docs : \E doc \in Updates[p] :
         \/ /\ WriteDocument(p, doc)
            /\ owed' = owed \cup {Owed("index", p, doc)}
            /\ UNCHANGED index
         \/ /\ WriteEntry(p, doc)
            /\ owed' = owed \cup {Owed("document", p, doc)}
            /\ UNCHANGED <<docs, steady>>
    /\ UNCHANGED <<history, turnVars, reply, shown, made>>

(* The bulk upsert indexes what it reads back, which may be newer than     *)
(* what it wrote.  A failed call to Meilisearch is logged, and a           *)
(* transaction may be aborted: then the second write is not done.          *)
FinishUpsert ==
    /\ \E w \in owed :
         /\ owed' = owed \ {w}
         /\ \/ /\ w.to = "index"
               /\ \E doc \in {w.doc, docs[w.product]} : WriteEntry(w.product, doc)
               /\ UNCHANGED <<docs, steady>>
            \/ /\ w.to = "document"
               /\ WriteDocument(w.product, w.doc)
               /\ UNCHANGED index
            \/ UNCHANGED <<docs, index, steady>>
    /\ UNCHANGED <<changed, history, turnVars, reply, shown, made>>

(* A product is deleted in Salla, or found missing by a sync: hidden in    *)
(* MongoDB, while the index keeps its entry.                               *)
HideProduct ==
    /\ Change
    /\ \E p \in DOMAIN docs :
         /\ docs[p].status # Hidden
         /\ WriteDocument(p, [docs[p] EXCEPT !.status = Hidden])
    /\ UNCHANGED <<index, owed, history, turnVars, reply, shown, made>>

Next ==
    \/ StartTurn \/ GenerationFails \/ Answer \/ RequestTools
    \/ Execute \/ CollectResults
    \/ UpsertProduct \/ FinishUpsert \/ HideProduct

Spec == Init /\ [][Next]_vars

-------------------------------------------------------------------------------
ChatTypeOK ==
    /\ DOMAIN docs = DOMAIN Catalogue /\ DOMAIN index = DOMAIN Catalogue
    /\ stage \in {"idle", "ask", "tools"} /\ round \in 0..(MAX_TOOL_ROUNDS - 1)
    /\ turn \in 0..Len(Topics) /\ made \in 0..MaxCalls /\ changed \in 0..Len(Topics)
    /\ DOMAIN progress = DOMAIN calls
    /\ \A s \in steady : s[1] \in DOMAIN progress /\ s[2] \in DOMAIN docs
    /\ \A w \in owed : w.product \in DOMAIN docs
    /\ \A i \in DOMAIN progress : progress[i].at \in {"called", "hits", "done"}
    /\ \A m \in ToSet(history \o messages \o saved) : m.role \in {"user", "assistant", "tool"}
    /\ shown \subseteq Ids

(* What is sent to Gemini is a conversation it accepts, in every round of  *)
(* every turn: each call is answered once, by the next content, whatever   *)
(* order the executions ended in, and the cut at HISTORY_TAIL_CEILING and  *)
(* the clearing of earlier calls leave no call or result alone.            *)
RequestsWellFormed == stage = "ask" => WellFormed(ToGeminiContents(messages))

(* The last turn is part of the next prompt, unless it alone is longer     *)
(* than the history that is sent.                                          *)
LastTurnReplayed ==
    LET begins == SelectLastInSeq(history, IsUser) IN
    (/\ stage = "ask" /\ begins > 0
     /\ Len(history) - begins + 1 <= HISTORY_TAIL_CEILING)
        => history[begins].text \subseteq Mentions(ToGeminiContents(messages))

(* What a search shows comes from two moments.  Whatever happened between  *)
(* them, a card is as the document says when it is read, and a hidden      *)
(* variant is none; and if the index had the product right when it was     *)
(* asked and the document is the same since, the card is what the customer *)
(* asked for: not hidden, within the budget, and in stock if any variant   *)
(* within the budget is.                                                   *)
SearchKeepsPromise ==
    [][\A i \in DOMAIN progress :
          (/\ NameOf(i) = "search_products" /\ progress[i].at # "done"
           /\ i \in DOMAIN progress' /\ progress'[i].at = "done") =>
              \A card \in ToSet(progress'[i].result.cards) :
                  /\ card \in ToSet(DetailCards(card.product, docs[card.product]))
                  /\ <<i, card.product>> \in steady =>
                         KeepsPromise(card, docs, SearchFilters(ArgsOf(i)))]_vars

(* A call with the arguments its declaration requires is executed.         *)
DeclaredCallsAccepted ==
    \A i \in DOMAIN calls :
        (NameOf(i) \in ToolNames /\ \A p \in ToGeminiTool(NameOf(i)).required : Given(ArgsOf(i), p))
            => ~Refuses(NameOf(i), ArgsOf(i))

(* A request to Gemini is sound in all three: in what it holds of this     *)
(* turn, in what it holds of the last one, and in the tools it declares.   *)
PromptsAreSound == RequestsWellFormed /\ LastTurnReplayed /\ DeclaredCallsAccepted

(* Every product that the answer displays and that some tool found in this *)
(* turn is shown exactly once, and nothing else is.                        *)
TaggedAreShownOnce ==
    [][reply'.status = "answered" /\ stage' # stage =>
        LET tagged == reply'.tagged \cap {c.id : c \in ToSet(found)} IN
        /\ {c.id : c \in ToSet(reply'.cards)} = tagged
        /\ Len(reply'.cards) = Cardinality(tagged)]_vars

(* The declaration of get_product_details tells the model to give the      *)
(* variantId that appeared earlier in the conversation, in tool results or *)
(* in the tag of a reply.  Can it know the ids of the cards it has just    *)
(* shown?                                                                  *)
EarlierIdsKnown ==
    stage = "ask" => shown \subseteq Mentions(ToGeminiContents(messages))
===============================================================================
