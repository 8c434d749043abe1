---------------------------- MODULE AssistantTools ----------------------------
(***************************************************************************)
(* The tools the assistant offers to Gemini (tools/tool-definitions.ts),   *)
(* how they are declared in a request, and what executing one returns      *)
(* (services/tool-executor.ts of src/modules/chat).                        *)
(***************************************************************************)
EXTENDS ProductSearch

Blank == "blank"

(* The parameters of each tool with their types, and the required ones.    *)
ToolParameters ==
    [search_products |->
        [query |-> "string", category |-> "string", maxPrice |-> "number",
         optionFilter |-> "string"],
     get_product_details |-> [productName |-> "string", variantId |-> "string"],
     get_store_categories |-> <<>>,
     get_store_policies |-> <<>>]

Required ==
    [search_products |-> {"query"}, get_product_details |-> {"productName"},
     get_store_categories |-> {}, get_store_policies |-> {}]

ToolNames == DOMAIN ToolParameters

(* toGeminiType throws for a type that is not in this table.               *)
GeminiType ==
    [string |-> "STRING", number |-> "NUMBER", integer |-> "INTEGER",
     boolean |-> "BOOLEAN", array |-> "ARRAY", object |-> "OBJECT"]

(* A tool without parameters is declared without a schema.                 *)
ToGeminiTool(name) ==
    [properties |-> [p \in DOMAIN ToolParameters[name] |->
                        GeminiType[ToolParameters[name][p]]],
     required |-> IF DOMAIN ToolParameters[name] = {} THEN {} ELSE Required[name]]

-------------------------------------------------------------------------------
(* Arguments, as the model gives them and as the executor reads them.      *)

NoArguments ==
    [query |-> Nothing, category |-> Nothing, maxPrice |-> NoMaximum,
     optionFilter |-> {}, productName |-> Nothing, variantId |-> Nothing]

Given(args, p) ==
    CASE p = "maxPrice" -> args.maxPrice >= 0
      [] p = "optionFilter" -> args.optionFilter # {}
      [] OTHER -> args[p] \notin {Nothing, Blank}

ParseString(value) == IF value = Blank THEN Nothing ELSE value
ParseNumber(value) == IF value < 0 THEN NoMaximum ELSE value

SearchFilters(args) ==
    Filters(ParseString(args.category), ParseNumber(args.maxPrice), args.optionFilter)

(* The calls that are answered with an error before anything is read.      *)
Refuses(name, args) ==
    \/ /\ name = "search_products"
       /\ ~Given(args, "query") /\ ~Given(args, "category") /\ ~Given(args, "maxPrice")
    \/ /\ name = "get_product_details"
       /\ ~Given(args, "variantId") /\ ~Given(args, "productName")
    \/ name \notin ToolNames

-------------------------------------------------------------------------------
(* A result: the text for the model, "words" and the ids it lists, and the *)
(* cards that may be shown to the customer.                                *)

Result(cards) ==
    [text |-> {"words"} \cup {c.id : c \in ToSet(cards)}, cards |-> cards]

NoResults == Result(<<>>)
ModelError == Result(<<>>)

SearchResult(docs, hits, args) == Result(SearchCards(docs, hits, SearchFilters(args)))

(* What a call asks Meilisearch: a search does, and details by name, with  *)
(* limit 1, when no document carries the variant id.                       *)
FindsById(docs, args) ==
    Given(args, "variantId") /\ WithExternalId(docs, args.variantId) # {}

DetailsById(docs, args) ==
    {Result(DetailCards(p, docs[p])) : p \in WithExternalId(docs, args.variantId)}

DetailsByHit(docs, hits) ==
    IF hits # <<>> /\ hits[1] \in DOMAIN docs
    THEN Result(DetailCards(hits[1], docs[hits[1]])) ELSE NoResults

Categories(docs) ==
    [text |-> {"words"} \cup DistinctCategories(docs), cards |-> <<>>]

(* Policies, contacts and questions with answers, "not set" or blank.      *)
Policies == Result(<<>>)
===============================================================================
