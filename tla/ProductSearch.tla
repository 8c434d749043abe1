---------------------------- MODULE ProductSearch ----------------------------
(***************************************************************************)
(* How the assistant's tools read the catalogue: a search in Meilisearch   *)
(* that yields ids, the documents of these ids in MongoDB, and the product *)
(* cards made of them (src/modules/products/services/                      *)
(* products-chat.service.ts and mappers/product-card.mapper.ts).           *)
(*                                                                         *)
(* A catalogue maps a product to [status, price, category, variants], and  *)
(* a variant is [id, status, price, inStock, options]; inStock stands for  *)
(* isUnlimitedStock or a positive stockQuantity. What Meilisearch finds    *)
(* relevant, and in which order, is its own affair: the operators here     *)
(* take the hits or give every list of hits the filters allow.             *)
(***************************************************************************)
EXTENDS Selections

Hidden == "hidden"
Available == "available"

Nothing == "none"    \* a filter or an argument that is not given
NoMaximum == -1
NoMinimum == 1000    \* Math.min() of no price

Filters(category, maxPrice, options) ==
    [category |-> category, maxPrice |-> maxPrice, options |-> options]

HasVariants(doc) == doc.variants # <<>>

(* The positions of the variants that are not hidden.                      *)
Active(doc) == {i \in DOMAIN doc.variants : doc.variants[i].status # Hidden}

IsAvailable(x) == x.status = Available /\ x.inStock

-------------------------------------------------------------------------------
(* What is indexed: the lowest price of what is not hidden.                *)

MinPrice(doc) ==
    LET prices == {doc.variants[i].price : i \in Active(doc)}
    IN  IF ~HasVariants(doc) THEN doc.price
        ELSE IF prices = {} THEN NoMinimum
        ELSE Min(prices)

IndexEntry(doc) ==
    [status |-> doc.status, category |-> doc.category, minPrice |-> MinPrice(doc)]

Allows(entry, f) ==
    /\ entry.status # Hidden
    /\ f.category # Nothing => entry.category = f.category
    /\ f.maxPrice # NoMaximum => entry.minPrice <= f.maxPrice

(* Every answer of Meilisearch: some allowed ids, in some order.           *)
Hits(index, f, limit) ==
    LET allowed == {p \in DOMAIN index : Allows(index[p], f)}
    IN  {h \in UNION {SetToSeqs(s) : s \in SUBSET allowed} : Len(h) <= limit}

-------------------------------------------------------------------------------
(* Cards.  A product without variants is shown under its own id.           *)

StandardCard(p, doc) ==
    [product |-> p, id |-> p, price |-> doc.price, available |-> IsAvailable(doc)]

VariantCard(p, v) ==
    [product |-> p, id |-> v.id, price |-> v.price, available |-> IsAvailable(v)]

OrElse(S, T) == IF S = {} THEN T ELSE S

Score(v, options) == Cardinality(v.options \cap options)

(* Mutant: stock is looked at before the budget, so that what is in stock  *)
(* and too expensive wins.                                                 *)
PickInStockFirst(doc, f) ==
    doc.variants[Min(OrElse({i \in Active(doc) : IsAvailable(doc.variants[i])}, Active(doc)))]

(* The budget first, then what can be bought, then the options asked for;  *)
(* each wish is dropped when nothing fulfils it.                           *)
PickBestVariant(doc, f) ==
    LET affordable == {i \in Active(doc) :
                          f.maxPrice = NoMaximum \/ doc.variants[i].price <= f.maxPrice}
        base == OrElse(affordable, Active(doc))
        pool == OrElse({i \in base : IsAvailable(doc.variants[i])}, base)
        ScoreOf(i) == Score(doc.variants[i], f.options)
    IN  doc.variants[Min({i \in pool : \A j \in pool : ScoreOf(j) <= ScoreOf(i)})]

HasCard(doc) == HasVariants(doc) => Active(doc) # {}

CardOf(p, doc, f) ==
    IF HasVariants(doc) THEN VariantCard(p, PickBestVariant(doc, f)) ELSE StandardCard(p, doc)

(* findByIds and the cards: documents are not looked at again for status.  *)
SearchCards(docs, hits, f) ==
    LET shown == Select(hits, {i \in DOMAIN hits : /\ hits[i] \in DOMAIN docs
                                                  /\ HasCard(docs[hits[i]])})
    IN  [k \in DOMAIN shown |-> CardOf(shown[k], docs[shown[k]], f)]

-------------------------------------------------------------------------------
(* Details: all the variants that are not hidden.                          *)

DetailCards(p, doc) ==
    LET active == Select(doc.variants, Active(doc))
    IN  IF HasVariants(doc) THEN [k \in DOMAIN active |-> VariantCard(p, active[k])]
        ELSE <<StandardCard(p, doc)>>

Carries(p, doc, id) == id = p \/ \E v \in ToSet(doc.variants) : v.id = id

(* The products that findByProductOrVariantExternalId may return.          *)
WithExternalId(docs, id) ==
    {p \in DOMAIN docs : docs[p].status # Hidden /\ Carries(p, docs[p], id)}

DistinctCategories(docs) ==
    {docs[p].category : p \in {q \in DOMAIN docs : docs[q].status # Hidden}}
        \ {Nothing}

-------------------------------------------------------------------------------
(* What a card found by a search with filters f may show, if the index has *)
(* its product as it is: nothing hidden, nothing over the                  *)
(* budget, and nothing out of stock while another variant within the       *)
(* budget is in stock.                                                     *)
KeepsPromise(card, docs, f) ==
    LET doc == docs[card.product]
        affordable(x) == f.maxPrice = NoMaximum \/ x.price <= f.maxPrice
    IN  /\ doc.status # Hidden
        /\ f.category # Nothing => doc.category = f.category
        /\ affordable(card)
        /\ HasVariants(doc) =>
             LET shown == {v \in ToSet(doc.variants) : v.status # Hidden} IN
             /\ \E v \in shown : v.id = card.id /\ v.price = card.price
             /\ (\E v \in shown : IsAvailable(v) /\ affordable(v))
                    => card.available
===============================================================================
