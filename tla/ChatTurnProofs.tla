----------------------------- MODULE ChatTurnProofs -----------------------------
(***************************************************************************)
(* Theorems about ChatTurn.                                                *)
(***************************************************************************)
EXTENDS ChatTurn, FiniteSetTheorems, SequenceTheorems, WellFoundedInduction, TLAPS

CONSTANT Names    \* all the strings there are: ids, categories, arguments, what is said

-------------------------------------------------------------------------------
(* Numbers in their order.                                                 *)

(* Numbers have a least one.                                               *)
LEMMA HasLeast ==
    ASSUME NEW S \in SUBSET Nat, S # {}
    PROVE  Min(S) \in S /\ \A y \in S : Min(S) <= y
<1>1. PICK x \in S : \A y \in S : ~(<<y, x>> \in OpToRel(<, Nat))
    BY NatLessThanWellFounded, WFMin
<1>2. \A y \in S : ~(y < x)
    BY <1>1 DEF OpToRel
<1>3. \A y \in S : x <= y
    BY <1>2
<1> QED BY <1>3 DEF Min

(* And a greatest one, where they are bounded.                             *)
LEMMA HasGreatest ==
    ASSUME NEW S \in SUBSET Nat, S # {}, NEW n \in Nat, \A y \in S : y <= n
    PROVE  Max(S) \in S /\ \A y \in S : y <= Max(S)
<1> DEFINE T == {n - y : y \in S}
<1>1. T \in SUBSET Nat /\ T # {}
    <2>1. \A y \in S : n - y \in Nat
        OBVIOUS
    <2> QED BY <2>1
<1>2. Min(T) \in T /\ \A z \in T : Min(T) <= z
    BY <1>1, HasLeast
<1>3. PICK x \in S : Min(T) = n - x
    BY <1>2
<1>4. \A y \in S : n - x <= n - y
    BY <1>2, <1>3
<1>5. \A y \in S : x >= y
    BY <1>4
<1>6. Max(S) \in S /\ \A y \in S : Max(S) >= y
    BY <1>5 DEF Max
<1> QED BY <1>6

Below(S, i) == {j \in S : j < i}

(* How many numbers are below one of them.                                 *)
LEMMA BelowCount ==
    ASSUME NEW S \in SUBSET Nat, IsFiniteSet(S)
    PROVE  /\ Cardinality(S) \in Nat
           /\ \A i \in S : Cardinality(Below(S, i)) \in 0..(Cardinality(S) - 1)
           /\ \A i, j \in S : i < j => Cardinality(Below(S, i)) < Cardinality(Below(S, j))
<1> DEFINE N == Cardinality(S)
<1>1. N \in Nat
    BY FS_CardinalityType
<1>2. ASSUME NEW i \in S
      PROVE  IsFiniteSet(Below(S, i)) /\ Cardinality(Below(S, i)) \in 0..(N - 1)
    <2>1. Below(S, i) \in SUBSET S /\ i \notin Below(S, i)
        BY DEF Below
    <2>2. /\ IsFiniteSet(Below(S, i)) /\ Cardinality(Below(S, i)) <= N
          /\ N # Cardinality(Below(S, i))
        BY <2>1, FS_Subset
    <2>3. Cardinality(Below(S, i)) \in Nat
        BY <2>2, FS_CardinalityType
    <2> QED BY <1>1, <2>2, <2>3
<1>3. ASSUME NEW i \in S, NEW j \in S, i < j
      PROVE  Cardinality(Below(S, i)) < Cardinality(Below(S, j))
    <2>1. i \in Nat /\ j \in Nat /\ \A h \in S : h \in Nat
        OBVIOUS
    <2>2. \A h \in S : h < i => h < j
        BY <1>3, <2>1
    <2>3. Below(S, i) \in SUBSET Below(S, j)
        BY <2>2 DEF Below
    <2>4. i \in Below(S, j) /\ i \notin Below(S, i)
        BY <1>3, <2>1 DEF Below
    <2>5. /\ Cardinality(Below(S, i)) <= Cardinality(Below(S, j))
          /\ Cardinality(Below(S, i)) # Cardinality(Below(S, j))
        BY <1>2, <2>3, <2>4, FS_Subset
    <2> QED BY <1>1, <1>2, <2>5
<1> QED BY <1>1, <1>2, <1>3

(* Ascending lists the numbers, each once and in their order.              *)
LEMMA AscendingLists ==
    ASSUME NEW S \in SUBSET Nat, IsFiniteSet(S)
    PROVE  /\ Cardinality(S) \in Nat
           /\ Ascending(S) \in [1..Cardinality(S) -> S]
           /\ \A k, l \in 1..Cardinality(S) : k < l => Ascending(S)[k] < Ascending(S)[l]
           /\ \A i \in S : \E k \in 1..Cardinality(S) : Ascending(S)[k] = i
<1> DEFINE N == Cardinality(S)
           A == Ascending(S)
           place == [i \in S |-> Cardinality(Below(S, i))]
<1>1. N \in Nat /\ \A i \in S : Cardinality(Below(S, i)) \in 0..(N - 1)
    BY BelowCount
<1>2. \A i, j \in S : i < j => Cardinality(Below(S, i)) < Cardinality(Below(S, j))
    BY BelowCount
<1>3. \A i, j \in S : Cardinality(Below(S, i)) = Cardinality(Below(S, j)) => i = j
    BY <1>1, <1>2
<1>4. place \in Injection(S, 0..(N - 1))
    <2>1. place \in [S -> 0..(N - 1)]
        BY <1>1
    <2>2. \A i, j \in S : place[i] = place[j] => i = j
        BY <1>3
    <2> QED BY <2>1, <2>2 DEF Injection, IsInjective
<1>5. IsFiniteSet(0..(N - 1)) /\ Cardinality(0..(N - 1)) = N
    <2> HIDE DEF N
    <2>1. /\ IsFiniteSet(0..(N - 1))
          /\ Cardinality(0..(N - 1)) = IF 0 > N - 1 THEN 0 ELSE (N - 1) - 0 + 1
        BY <1>1, FS_Interval
    <2> QED BY <1>1, <2>1
<1>6. place \in Surjection(S, 0..(N - 1))
    BY <1>4, <1>5, FS_Injection
<1>7. ASSUME NEW k \in 1..N PROVE A[k] \in S /\ Cardinality(Below(S, A[k])) = k - 1
    <2>1. k - 1 \in 0..(N - 1)
        BY <1>1
    <2>2. \E i \in S : place[i] = k - 1
        BY <1>6, <2>1 DEF Surjection
    <2>3. \E i \in S : Cardinality({j \in S : j < i}) = k - 1
        BY <2>2 DEF Below
    <2> QED BY <2>3 DEF Ascending, Below
<1>8. A \in [1..N -> S]
    BY <1>7 DEF Ascending
<1>9. ASSUME NEW k \in 1..N, NEW l \in 1..N, k < l PROVE A[k] < A[l]
    <2>1. Cardinality(Below(S, A[k])) < Cardinality(Below(S, A[l]))
        BY <1>1, <1>7, <1>9
    <2>2. A[k] \in S /\ A[l] \in S /\ A[k] \in Nat /\ A[l] \in Nat
        BY <1>7
    <2>3. A[k] # A[l]
        BY <1>1, <2>1, <2>2
    <2>4. ~(A[l] < A[k])
        BY <1>1, <1>2, <2>1, <2>2
    <2> QED BY <2>2, <2>3, <2>4
<1>10. ASSUME NEW i \in S PROVE \E k \in 1..N : A[k] = i
    <2> DEFINE k == Cardinality(Below(S, i)) + 1
    <2>1. k \in 1..N /\ Cardinality(Below(S, i)) = k - 1
        BY <1>1
    <2> HIDE DEF k
    <2>2. A[k] = i
        BY <1>3, <1>7, <2>1
    <2> QED BY <2>1, <2>2
<1> QED BY <1>1, <1>8, <1>9, <1>10

(* Select keeps what it is told to, in its order.                          *)
LEMMA SelectKeeps ==
    ASSUME NEW T, NEW s \in Seq(T), NEW kept, kept \subseteq DOMAIN s
    PROVE  LET A == Ascending(kept)
               N == Cardinality(kept) IN
           /\ IsFiniteSet(kept) /\ N \in Nat
           /\ A \in [1..N -> kept]
           /\ \A k, l \in 1..N : k < l => A[k] < A[l]
           /\ \A i \in kept : \E k \in 1..N : A[k] = i
           /\ Select(s, kept) \in Seq(T) /\ Len(Select(s, kept)) = N
           /\ \A k \in 1..N : Select(s, kept)[k] = s[A[k]]
           /\ ToSet(Select(s, kept)) = {s[i] : i \in kept}
<1> DEFINE A == Ascending(kept)
           N == Cardinality(kept)
<1>1. DOMAIN s = 1..Len(s) /\ Len(s) \in Nat
    OBVIOUS
<1>2. IsFiniteSet(kept) /\ kept \in SUBSET Nat
    <2>1. IsFiniteSet(1..Len(s))
        BY <1>1, FS_Interval
    <2>2. kept \in SUBSET (1..Len(s))
        BY <1>1
    <2> QED BY <2>1, <2>2, FS_Subset
<1>3. /\ N \in Nat /\ A \in [1..N -> kept]
      /\ \A k, l \in 1..N : k < l => A[k] < A[l]
      /\ \A i \in kept : \E k \in 1..N : A[k] = i
    BY <1>2, AscendingLists
<1>4. Select(s, kept) = [k \in 1..N |-> s[A[k]]]
    BY <1>3 DEF Select
<1> HIDE DEF A, N
<1>5. \A k \in 1..N : s[A[k]] \in T
    BY <1>1, <1>3
<1>6. Select(s, kept) \in Seq(T) /\ Len(Select(s, kept)) = N
    <2>1. Select(s, kept) \in [1..N -> T]
        BY <1>4, <1>5
    <2> QED BY <1>3, <2>1
<1>7. ToSet(Select(s, kept)) = {s[i] : i \in kept}
    <2> DEFINE c == [k \in 1..N |-> s[A[k]]]
    <2>1. DOMAIN c = 1..N /\ \A k \in 1..N : c[k] = s[A[k]]
        OBVIOUS
    <2> HIDE DEF c
    <2>2. ToSet(c) = {s[A[k]] : k \in 1..N}
        BY <2>1 DEF ToSet
    <2>3. ToSet(Select(s, kept)) = {s[A[k]] : k \in 1..N}
        BY <1>4, <2>2 DEF c
    <2>4. ASSUME NEW i \in kept PROVE s[i] \in {s[A[k]] : k \in 1..N}
        BY <1>3
    <2>5. ASSUME NEW k \in 1..N PROVE s[A[k]] \in {s[i] : i \in kept}
        BY <1>3
    <2> QED BY <2>3, <2>4, <2>5
<1> QED BY <1>2, <1>3, <1>4, <1>6, <1>7 DEF A, N

-------------------------------------------------------------------------------
(* The cards of a reply.                                                   *)

IdsIn(cards) == {c.id : c \in ToSet(cards)}

(* Of the cards with one id one is left, and of every id there is one.     *)
LEMMA OneCardPerId ==
    ASSUME NEW T, NEW cards \in Seq(T)
    PROVE  /\ DeduplicateCards(cards) \in Seq(T)
           /\ IdsIn(DeduplicateCards(cards)) = IdsIn(cards)
           /\ Len(DeduplicateCards(cards)) = Cardinality(IdsIn(cards))
<1> DEFINE D == DOMAIN cards
           Same(i) == {j \in D : cards[j].id = cards[i].id}
           latest == [i \in D |-> cards[Max(Same(i))]]
           kept == {i \in D : i = Min(Same(i))}
<1>1. D = 1..Len(cards) /\ Len(cards) \in Nat
    OBVIOUS
<1>2. ASSUME NEW i \in D
      PROVE  /\ Same(i) \in SUBSET Nat /\ i \in Same(i)
             /\ \A j \in Same(i) : j <= Len(cards)
             /\ Same(i) \subseteq D
    BY <1>1
<1>3. \A i, j \in D : cards[i].id = cards[j].id => Same(i) = Same(j)
    OBVIOUS
<1> HIDE DEF D
<1>4. ASSUME NEW i \in D
      PROVE  /\ Max(Same(i)) \in D /\ Min(Same(i)) \in D
             /\ cards[Max(Same(i))].id = cards[i].id
             /\ cards[Min(Same(i))].id = cards[i].id
    <2>1. Max(Same(i)) \in Same(i)
        BY <1>1, <1>2, HasGreatest
    <2>2. Min(Same(i)) \in Same(i)
        BY <1>2, HasLeast
    <2> QED BY <1>2, <2>1, <2>2
<1> HIDE DEF Same
<1>5. latest \in Seq(T) /\ DOMAIN latest = D
    BY <1>1, <1>4 DEF D
<1>6. \A i \in D : latest[i].id = cards[i].id
    BY <1>4
<1>7. kept \subseteq D /\ \A i \in kept : i \in D /\ i = Min(Same(i))
    OBVIOUS
<1>8. DeduplicateCards(cards) = Select(latest, kept)
    BY DEF DeduplicateCards, Same, D
<1> HIDE DEF latest, kept
<1>9. /\ Select(latest, kept) \in Seq(T)
      /\ Len(Select(latest, kept)) = Cardinality(kept) /\ IsFiniteSet(kept)
      /\ ToSet(Select(latest, kept)) = {latest[i] : i \in kept}
    BY <1>5, <1>7, SelectKeeps
<1>10. IdsIn(cards) = {cards[i].id : i \in D}
    BY DEF IdsIn, ToSet, D
<1>11. IdsIn(Select(latest, kept)) = {cards[i].id : i \in kept}
    BY <1>6, <1>7, <1>9 DEF IdsIn
<1>12. ASSUME NEW i \in D PROVE \E m \in kept : cards[m].id = cards[i].id
    <2>1. Min(Same(i)) \in kept
        BY <1>3, <1>4 DEF kept
    <2> QED BY <1>4, <2>1
<1>13. {cards[i].id : i \in kept} = {cards[i].id : i \in D}
    BY <1>7, <1>12
<1>14. Cardinality(kept) = Cardinality({cards[i].id : i \in kept})
    <2> DEFINE S == {cards[i].id : i \in kept}
               idOf == [i \in kept |-> cards[i].id]
    <2>1. idOf \in [kept -> S] /\ \A x \in S : \E i \in kept : idOf[i] = x
        OBVIOUS
    <2>2. \A i, j \in kept : idOf[i] = idOf[j] => i = j
        BY <1>3, <1>7
    <2> HIDE DEF idOf, S
    <2>3. idOf \in Bijection(kept, S)
        BY <2>1, <2>2 DEF Bijection, Injection, Surjection, IsInjective
    <2>4. Cardinality(S) = Cardinality(kept)
        BY <1>9, <2>3, FS_Bijection DEF ExistsBijection
    <2> QED BY <2>4 DEF S
<1>15. IdsIn(Select(latest, kept)) = IdsIn(cards)
    BY <1>10, <1>11, <1>13
<1>16. Cardinality(kept) = Cardinality(IdsIn(cards))
    BY <1>10, <1>13, <1>14
<1> QED BY <1>8, <1>9, <1>15, <1>16

(* A reply shows every card that is found and tagged, once.                *)
LEMMA ReplyShowsTagged ==
    ASSUME NEW T, NEW cards \in Seq(T), NEW text, IdsIn(cards) \subseteq Ids,
           NEW answer, answer = BuildResponse(text, cards)
    PROVE  /\ answer.cards \in Seq(T)
           /\ IdsIn(answer.cards) = answer.tagged \cap IdsIn(cards)
           /\ Len(answer.cards) = Cardinality(answer.tagged \cap IdsIn(cards))
<1> DEFINE kept == {i \in DOMAIN cards : cards[i].id \in text}
           chosen == Select(cards, kept)
<1>1. kept \subseteq DOMAIN cards
    OBVIOUS
<1>2. answer.tagged = text \cap Ids /\ answer.cards = DeduplicateCards(chosen)
    BY DEF BuildResponse
<1>3. IdsIn(cards) = {cards[i].id : i \in DOMAIN cards}
    BY DEF IdsIn, ToSet
<1>4. {cards[i].id : i \in kept} = text \cap IdsIn(cards)
    BY <1>3
<1> HIDE DEF kept
<1>5. chosen \in Seq(T) /\ ToSet(chosen) = {cards[i] : i \in kept}
    BY <1>1, SelectKeeps
<1> HIDE DEF chosen
<1>6. IdsIn(chosen) = {cards[i].id : i \in kept}
    BY <1>5 DEF IdsIn
<1>7. IdsIn(chosen) = answer.tagged \cap IdsIn(cards)
    BY <1>2, <1>4, <1>6
<1> QED BY <1>2, <1>5, <1>7, OneCardPerId

-------------------------------------------------------------------------------
(* The catalogue, and what Gemini may respond.                             *)

Variants ==
    [id : Names, status : Names, price : Nat, inStock : BOOLEAN, options : SUBSET Names]
Documents ==
    [status : Names, price : Nat, inStock : BOOLEAN, category : Names, variants : Seq(Variants)]

Args ==
    [query : Names, category : Names, maxPrice : Int,
     optionFilter : {S \in SUBSET Names : IsFiniteSet(S)},
     productName : Names, variantId : Names]
ToolCalls == [name : Names, args : Args]

(* A catalogue is finite, prices are numbers, and so are the limits.       *)
Sound ==
    /\ {Nothing, Blank, Hidden, Available, Words} \subseteq Names
    /\ DOMAIN Catalogue \subseteq Names /\ IsFiniteSet(DOMAIN Catalogue)
    /\ Catalogue \in [DOMAIN Catalogue -> Documents]
    /\ Updates \in [DOMAIN Catalogue -> SUBSET Documents]
    /\ Responses \subseteq [text : SUBSET Names, calls : Seq(ToolCalls)]
    /\ Topics \in Seq(Names)
    /\ HISTORY_TAIL_CEILING \in Nat \ {0} /\ MAX_TOOL_ROUNDS \in Nat \ {0}
    /\ MaxCalls \in Nat

(* A product is as it was, or as it was written, or hidden.                *)
HiddenNow(doc) == [doc EXCEPT !.status = Hidden]
StatesOf(p) == Versions(p) \cup {HiddenNow(doc) : doc \in Versions(p)}

Cards ==
    [product : DOMAIN Catalogue, id : Ids, price : Nat, available : BOOLEAN]

FilterSet ==
    [category : Names, maxPrice : Int, options : {S \in SUBSET Names : IsFiniteSet(S)}]

(* What arguments ask for can be compared with products.                   *)
LEMMA FiltersOfArgs ==
    ASSUME Sound, NEW args \in Args
    PROVE  SearchFilters(args) \in FilterSet
<1>0. args.category \in Names
    BY DEF Args
<1>1. ParseString(args.category) \in Names
    BY <1>0 DEF ParseString, Sound
<1>2. ParseNumber(args.maxPrice) \in Int
    BY DEF ParseNumber, Args, NoMaximum
<1>3. args.optionFilter \in {S \in SUBSET Names : IsFiniteSet(S)}
    BY DEF Args
<1> QED BY <1>1, <1>2, <1>3 DEF SearchFilters, Filters, FilterSet

(* Hiding a product changes nothing but its status.                        *)
LEMMA StateOfProduct ==
    ASSUME Sound, NEW p \in DOMAIN Catalogue, NEW doc \in StatesOf(p)
    PROVE  /\ doc \in Documents /\ HiddenNow(doc) \in StatesOf(p)
           /\ \E kept \in Versions(p) : doc.variants = kept.variants
<1>1. Versions(p) \subseteq Documents
    BY DEF Sound, Versions
<1>2. ASSUME NEW kept \in Versions(p)
      PROVE  /\ HiddenNow(kept) \in Documents /\ HiddenNow(kept).variants = kept.variants
             /\ HiddenNow(HiddenNow(kept)) = HiddenNow(kept)
    <2>1. Hidden \in Names /\ kept \in Documents
        BY <1>1 DEF Sound
    <2> QED BY <2>1 DEF HiddenNow, Documents
<1>3. CASE doc \in Versions(p)
    BY <1>1, <1>3 DEF StatesOf
<1>4. CASE \E kept \in Versions(p) : doc = HiddenNow(kept)
    <2>1. PICK kept \in Versions(p) : doc = HiddenNow(kept)
        BY <1>4
    <2> QED BY <1>2, <2>1 DEF StatesOf
<1> QED BY <1>3, <1>4 DEF StatesOf

Fits(v, f) == f.maxPrice = NoMaximum \/ v.price <= f.maxPrice

(* The variant of a card is one that is shown, within the budget if any    *)
(* is, and in stock if any within the budget is.                           *)
LEMMA BestVariant ==
    ASSUME NEW doc, doc.variants \in Seq(Variants), Active(doc) # {}, NEW f \in FilterSet
    PROVE  \E i \in Active(doc) :
             /\ PickBestVariant(doc, f) = doc.variants[i]
             /\ (\E j \in Active(doc) : Fits(doc.variants[j], f)) => Fits(doc.variants[i], f)
             /\ (\E j \in Active(doc) : /\ Fits(doc.variants[j], f)
                                        /\ IsAvailable(doc.variants[j]))
                    => IsAvailable(doc.variants[i])
<1> DEFINE affordable == {i \in Active(doc) :
                             f.maxPrice = NoMaximum \/ doc.variants[i].price <= f.maxPrice}
           base == OrElse(affordable, Active(doc))
           stocked == {i \in base : IsAvailable(doc.variants[i])}
           pool == OrElse(stocked, base)
           ScoreOf(i) == Score(doc.variants[i], f.options)
           best == {i \in pool : \A j \in pool : ScoreOf(j) <= ScoreOf(i)}
<1>1. affordable = {i \in Active(doc) : Fits(doc.variants[i], f)}
    BY DEF Fits
<1>2. /\ base \subseteq Active(doc) /\ base # {}
      /\ affordable # {} => base = affordable
    BY DEF OrElse
<1>3. /\ pool \subseteq base /\ pool # {}
      /\ stocked # {} => pool = stocked
    BY <1>2 DEF OrElse
<1>4. \A i \in Active(doc) : i \in Nat /\ doc.variants[i] \in Variants
    BY DEF Active
<1>5. \A i \in pool : ScoreOf(i) \in 0..Cardinality(f.options) /\ Cardinality(f.options) \in Nat
    <2>1. IsFiniteSet(f.options)
        BY DEF FilterSet
    <2>2. ASSUME NEW S
          PROVE  /\ Cardinality(S \cap f.options) \in Nat
                 /\ Cardinality(S \cap f.options) <= Cardinality(f.options)
        <3>1. /\ IsFiniteSet(S \cap f.options)
              /\ Cardinality(S \cap f.options) <= Cardinality(f.options)
            BY <2>1, FS_Intersection
        <3> QED BY <3>1, FS_CardinalityType
    <2>3. Cardinality(f.options) \in Nat
        BY <2>1, FS_CardinalityType
    <2> SUFFICES ASSUME NEW i \in pool
                 PROVE  ScoreOf(i) \in 0..Cardinality(f.options)
        BY <2>3
    <2>4. /\ Cardinality(doc.variants[i].options \cap f.options) \in Nat
          /\ Cardinality(doc.variants[i].options \cap f.options) <= Cardinality(f.options)
        BY <2>2
    <2> QED BY <2>3, <2>4 DEF Score
<1>6. PickBestVariant(doc, f) = doc.variants[Min(best)]
    BY DEF PickBestVariant
<1> HIDE DEF pool, base, affordable
<1>7. best # {}
    <2> DEFINE scores == {ScoreOf(i) : i \in pool}
    <2>1. scores \in SUBSET Nat /\ scores # {} /\ \A x \in scores : x <= Cardinality(f.options)
        BY <1>3, <1>5
    <2>2. Max(scores) \in scores /\ \A x \in scores : x <= Max(scores)
        BY <1>3, <1>5, <2>1, HasGreatest
    <2>3. PICK i \in pool : Max(scores) = ScoreOf(i)
        BY <2>2
    <2>4. \A j \in pool : ScoreOf(j) <= ScoreOf(i)
        BY <2>2, <2>3
    <2> QED BY <2>4
<1>8. best \subseteq pool
    OBVIOUS
<1> HIDE DEF best
<1>9. Min(best) \in pool
    <2>1. best \in SUBSET Nat
        BY <1>2, <1>3, <1>4, <1>8
    <2> QED BY <1>7, <1>8, <2>1, HasLeast
<1>10. (\E j \in Active(doc) : Fits(doc.variants[j], f)) => Fits(doc.variants[Min(best)], f)
    BY <1>1, <1>2, <1>3, <1>9
<1>11. (\E j \in Active(doc) : /\ Fits(doc.variants[j], f)
                               /\ IsAvailable(doc.variants[j]))
           => IsAvailable(doc.variants[Min(best)])
    BY <1>1, <1>2, <1>3, <1>9
<1> QED BY <1>2, <1>3, <1>6, <1>9, <1>10, <1>11

(* What is shown of a product is a card with an id of the catalogue.       *)
LEMMA CardOfProduct ==
    ASSUME Sound, NEW p \in DOMAIN Catalogue, NEW doc \in StatesOf(p)
    PROVE  /\ StandardCard(p, doc) \in Cards /\ StandardCard(p, doc).product = p
           /\ \A i \in DOMAIN doc.variants :
                /\ VariantCard(p, doc.variants[i]) \in Cards
                /\ VariantCard(p, doc.variants[i]).product = p
                /\ doc.variants[i] \in Variants
<1>1. doc \in Documents
    BY StateOfProduct
<1>2. p \in Ids
    BY DEF Ids
<1>3. ASSUME NEW i \in DOMAIN doc.variants
      PROVE  doc.variants[i].id \in Ids /\ doc.variants[i] \in Variants
    <2>1. PICK kept \in Versions(p) : doc.variants = kept.variants
        BY StateOfProduct
    <2>2. doc.variants[i] \in Variants
        BY <1>1 DEF Documents
    <2>3. doc.variants[i] \in ToSet(kept.variants)
        BY <2>1 DEF ToSet
    <2>4. doc.variants[i].id \in {v.id : v \in ToSet(kept.variants)}
        BY <2>3
    <2>5. doc.variants[i].id \in UNION {{v.id : v \in ToSet(d.variants)} : d \in Versions(p)}
        BY <2>4
    <2> QED BY <2>2, <2>5 DEF Ids
<1>4. doc.price \in Nat /\ IsAvailable(doc) \in BOOLEAN
    BY <1>1 DEF Documents, IsAvailable
<1>5. StandardCard(p, doc) \in Cards /\ StandardCard(p, doc).product = p
    BY <1>2, <1>4 DEF StandardCard, Cards
<1>6. ASSUME NEW i \in DOMAIN doc.variants
      PROVE  /\ VariantCard(p, doc.variants[i]) \in Cards
             /\ VariantCard(p, doc.variants[i]).product = p
    <2>1. doc.variants[i].price \in Nat /\ IsAvailable(doc.variants[i]) \in BOOLEAN
        BY <1>3 DEF Variants, IsAvailable
    <2> QED BY <1>3, <2>1 DEF VariantCard, Cards
<1> QED BY <1>3, <1>5, <1>6

(* A card shows a product as its document is, and what was asked for if    *)
(* the index would allow the document.                                     *)
LEMMA CardKeepsPromise ==
    ASSUME Sound, NEW p \in DOMAIN Catalogue, NEW doc \in StatesOf(p), HasCard(doc),
           NEW f \in FilterSet, NEW documents, documents[p] = doc
    PROVE  LET card == CardOf(p, doc, f) IN
           /\ card \in Cards /\ card.product = p
           /\ card \in ToSet(DetailCards(p, doc))
           /\ Allows(IndexEntry(doc), f) => KeepsPromise(card, documents, f)
<1> DEFINE card == CardOf(p, doc, f)
<1>1. doc \in Documents
    BY StateOfProduct
<1>2. ASSUME Allows(IndexEntry(doc), f)
      PROVE  /\ doc.status # Hidden
             /\ f.category # Nothing => doc.category = f.category
             /\ f.maxPrice # NoMaximum => MinPrice(doc) <= f.maxPrice
    BY <1>2 DEF Allows, IndexEntry
<1>3. CASE ~HasVariants(doc)
    <2>1. card = StandardCard(p, doc)
        BY <1>3 DEF CardOf
    <2>2. card.product = p /\ card.price = doc.price /\ card \in Cards
        BY <2>1, CardOfProduct DEF StandardCard
    <2> HIDE DEF card
    <2>3. card \in ToSet(DetailCards(p, doc))
        <3>1. DetailCards(p, doc) = <<card>>
            BY <1>3, <2>1 DEF DetailCards
        <3> QED BY <3>1 DEF ToSet
    <2>4. ASSUME Allows(IndexEntry(doc), f) PROVE KeepsPromise(card, documents, f)
        <3>1. MinPrice(doc) = doc.price
            BY <1>3 DEF MinPrice
        <3>2. f.maxPrice = NoMaximum \/ card.price <= f.maxPrice
            BY <1>2, <2>2, <2>4, <3>1
        <3> QED BY <1>2, <1>3, <2>2, <2>4, <3>2 DEF KeepsPromise
    <2> QED BY <2>2, <2>3, <2>4 DEF card
<1>4. CASE HasVariants(doc)
    <2>1. Active(doc) # {} /\ doc.variants \in Seq(Variants)
        BY <1>1, <1>4 DEF HasCard, Documents
    <2>2. PICK i \in Active(doc) :
             /\ PickBestVariant(doc, f) = doc.variants[i]
             /\ (\E j \in Active(doc) : Fits(doc.variants[j], f)) => Fits(doc.variants[i], f)
             /\ (\E j \in Active(doc) : /\ Fits(doc.variants[j], f)
                                        /\ IsAvailable(doc.variants[j]))
                    => IsAvailable(doc.variants[i])
        BY <2>1, BestVariant
    <2> DEFINE v == doc.variants[i]
    <2>3. card = VariantCard(p, v)
        BY <1>4, <2>2 DEF CardOf
    <2>4. i \in DOMAIN doc.variants /\ v.status # Hidden
        BY DEF Active
    <2>5. card \in Cards /\ v \in Variants
        BY <2>3, <2>4, CardOfProduct
    <2>6. /\ card.product = p /\ card.id = v.id /\ card.price = v.price
          /\ card.available = IsAvailable(v)
        BY <2>3 DEF VariantCard
    <2>7. card \in ToSet(DetailCards(p, doc))
        <3> DEFINE active == Select(doc.variants, Active(doc))
        <3>1. active \in Seq(Variants) /\ ToSet(active) = {doc.variants[j] : j \in Active(doc)}
            <4>1. Active(doc) \subseteq DOMAIN doc.variants
                BY DEF Active
            <4> QED BY <2>1, <4>1, SelectKeeps
        <3>2. DetailCards(p, doc) = [k \in DOMAIN active |-> VariantCard(p, active[k])]
            BY <1>4 DEF DetailCards
        <3> HIDE DEF active
        <3>3. v \in ToSet(active)
            BY <3>1
        <3>4. PICK k \in DOMAIN active : v = active[k]
            BY <3>3 DEF ToSet
        <3>5. k \in DOMAIN DetailCards(p, doc) /\ DetailCards(p, doc)[k] = card
            BY <2>3, <3>2, <3>4
        <3> HIDE DEF card
        <3> QED BY <3>5 DEF ToSet
    <2>8. ASSUME Allows(IndexEntry(doc), f) PROVE KeepsPromise(card, documents, f)
        <3>1. \E j \in Active(doc) : Fits(doc.variants[j], f)
            <4> DEFINE prices == {doc.variants[j].price : j \in Active(doc)}
            <4>1. prices # {}
                BY <2>1
            <4>2. prices \in SUBSET Nat
                <5>1. \A j \in Active(doc) : doc.variants[j] \in Variants
                    BY <2>1 DEF Active
                <5>2. \A j \in Active(doc) : doc.variants[j].price \in Nat
                    BY <5>1 DEF Variants
                <5> QED BY <5>2
            <4>3. MinPrice(doc) = Min(prices)
                BY <1>4, <4>1 DEF MinPrice
            <4> HIDE DEF prices
            <4>4. MinPrice(doc) \in prices
                BY <4>1, <4>2, <4>3, HasLeast
            <4>5. PICK j \in Active(doc) : MinPrice(doc) = doc.variants[j].price
                BY <4>4 DEF prices
            <4>6. Fits(doc.variants[j], f)
                BY <1>2, <2>8, <4>5 DEF Fits
            <4> QED BY <4>6
        <3>2. f.maxPrice = NoMaximum \/ card.price <= f.maxPrice
            BY <2>2, <2>6, <3>1 DEF Fits
        <3>3. v \in {w \in ToSet(doc.variants) : w.status # Hidden}
            BY <2>4 DEF ToSet
        <3>4. ASSUME NEW w \in ToSet(doc.variants), w.status # Hidden, IsAvailable(w),
                     f.maxPrice = NoMaximum \/ w.price <= f.maxPrice
              PROVE  card.available
            <4>1. PICK j \in DOMAIN doc.variants : w = doc.variants[j]
                BY DEF ToSet
            <4>2. j \in Active(doc) /\ Fits(w, f)
                BY <3>4, <4>1 DEF Active, Fits
            <4> QED BY <2>2, <2>6, <3>4, <4>1, <4>2
        <3> HIDE DEF card, v
        <3> QED BY <1>2, <2>6, <2>8, <3>2, <3>3, <3>4 DEF KeepsPromise
    <2> QED BY <2>5, <2>6, <2>7, <2>8
<1> QED BY <1>3, <1>4

(* Every document is a state of its product, also the one that an upsert   *)
(* under way has still to write or to index.                               *)
DocsShape ==
    /\ DOMAIN docs = DOMAIN Catalogue
    /\ \A p \in DOMAIN Catalogue : docs[p] \in StatesOf(p)
    /\ DOMAIN index = DOMAIN Catalogue
    /\ \A w \in owed : w.product \in DOMAIN Catalogue /\ w.doc \in StatesOf(w.product)
    /\ changed \in 0..Len(Topics)

(* The cards of a search are of what was found.                            *)
LEMMA SearchCardsKeepPromise ==
    ASSUME Sound, DocsShape, NEW f \in FilterSet, NEW hits \in Seq(DOMAIN Catalogue)
    PROVE  /\ SearchCards(docs, hits, f) \in Seq(Cards)
           /\ \A card \in ToSet(SearchCards(docs, hits, f)) :
                /\ \E i \in DOMAIN hits : hits[i] = card.product
                /\ card \in ToSet(DetailCards(card.product, docs[card.product]))
                /\ Allows(IndexEntry(docs[card.product]), f) => KeepsPromise(card, docs, f)
<1> DEFINE kept == {i \in DOMAIN hits : hits[i] \in DOMAIN docs /\ HasCard(docs[hits[i]])}
           given == Select(hits, kept)
           cards == [k \in DOMAIN given |-> CardOf(given[k], docs[given[k]], f)]
<1>1. SearchCards(docs, hits, f) = cards
    BY DEF SearchCards
<1>2. kept \subseteq DOMAIN hits /\ \A i \in kept : HasCard(docs[hits[i]])
    OBVIOUS
<1> HIDE DEF kept
<1>3. given \in Seq(DOMAIN Catalogue) /\ ToSet(given) = {hits[i] : i \in kept}
    BY <1>2, SelectKeeps
<1> HIDE DEF given
<1>4. ASSUME NEW k \in DOMAIN given
      PROVE  \E i \in DOMAIN hits :
               /\ given[k] = hits[i] /\ given[k] \in DOMAIN Catalogue
               /\ docs[given[k]] \in StatesOf(given[k]) /\ HasCard(docs[given[k]])
    <2>1. given[k] \in {hits[i] : i \in kept} /\ given[k] \in DOMAIN Catalogue
        <3>1. given[k] \in ToSet(given)
            BY DEF ToSet
        <3>2. given[k] \in DOMAIN Catalogue
            BY <1>3
        <3> QED BY <1>3, <3>1, <3>2
    <2>2. PICK i \in kept : given[k] = hits[i]
        BY <2>1
    <2>3. docs[given[k]] \in StatesOf(given[k]) /\ HasCard(docs[given[k]])
        BY <1>2, <2>1, <2>2 DEF DocsShape
    <2> QED BY <1>2, <2>1, <2>2, <2>3
<1>5. ASSUME NEW k \in DOMAIN given
      PROVE  LET card == CardOf(given[k], docs[given[k]], f) IN
             /\ card \in Cards /\ card.product = given[k]
             /\ card \in ToSet(DetailCards(card.product, docs[card.product]))
             /\ Allows(IndexEntry(docs[card.product]), f) => KeepsPromise(card, docs, f)
    <2> DEFINE p == given[k]
               doc == docs[p]
    <2>1. p \in DOMAIN Catalogue /\ doc \in StatesOf(p) /\ HasCard(doc) /\ docs[p] = doc
        BY <1>4
    <2> HIDE DEF p, doc
    <2>2. /\ CardOf(p, doc, f) \in Cards /\ CardOf(p, doc, f).product = p
          /\ CardOf(p, doc, f) \in ToSet(DetailCards(p, doc))
          /\ Allows(IndexEntry(doc), f) => KeepsPromise(CardOf(p, doc, f), docs, f)
        BY <2>1, CardKeepsPromise
    <2> QED BY <2>1, <2>2 DEF p, doc
<1>6. cards \in Seq(Cards) /\ DOMAIN cards = DOMAIN given
    <2>1. \A k \in DOMAIN given : CardOf(given[k], docs[given[k]], f) \in Cards
        BY <1>5
    <2> QED BY <1>3, <2>1
<1>7. ASSUME NEW card \in ToSet(cards)
      PROVE  /\ \E i \in DOMAIN hits : hits[i] = card.product
             /\ card \in ToSet(DetailCards(card.product, docs[card.product]))
             /\ Allows(IndexEntry(docs[card.product]), f) => KeepsPromise(card, docs, f)
    <2>1. PICK k \in DOMAIN given : card = CardOf(given[k], docs[given[k]], f)
        BY <1>6, <1>7 DEF ToSet
    <2> QED BY <1>4, <1>5, <2>1
<1> QED BY <1>1, <1>6, <1>7

(* And so are those of a product that is looked at.                        *)
LEMMA DetailCardsAreCards ==
    ASSUME Sound, NEW p \in DOMAIN Catalogue, NEW doc \in StatesOf(p)
    PROVE  DetailCards(p, doc) \in Seq(Cards)
<1> DEFINE active == Select(doc.variants, Active(doc))
<1>1. doc.variants \in Seq(Variants)
    BY StateOfProduct DEF Documents
<1>2. active \in Seq(Variants) /\ ToSet(active) = {doc.variants[i] : i \in Active(doc)}
    <2>1. Active(doc) \subseteq DOMAIN doc.variants
        BY DEF Active
    <2> QED BY <1>1, <2>1, SelectKeeps
<1> HIDE DEF active
<1>3. ASSUME NEW k \in DOMAIN active PROVE VariantCard(p, active[k]) \in Cards
    <2>1. active[k] \in {doc.variants[i] : i \in Active(doc)}
        BY <1>2 DEF ToSet
    <2> QED BY <2>1, CardOfProduct DEF Active
<1>4. [k \in DOMAIN active |-> VariantCard(p, active[k])] \in Seq(Cards)
    BY <1>2, <1>3
<1>5. <<StandardCard(p, doc)>> \in Seq(Cards)
    BY CardOfProduct
<1> QED BY <1>4, <1>5 DEF DetailCards, active

-------------------------------------------------------------------------------
(* What the tools return, and what Gemini asks of them.                    *)

Results == [text : SUBSET Names, cards : Seq(Cards)]
CallSet == [id : (Nat \X Nat) \X Nat, call : ToolCalls]
Executions ==
    [at : {"called", "hits", "done"}, hits : Seq(DOMAIN Catalogue), result : Results]

(* Ids are strings.                                                        *)
LEMMA IdsAreNames == Sound => Ids \subseteq Names
<1> SUFFICES ASSUME Sound PROVE Ids \subseteq Names
    OBVIOUS
<1>1. ASSUME NEW p \in DOMAIN Catalogue, NEW doc \in Versions(p), NEW v \in ToSet(doc.variants)
      PROVE  v.id \in Names
    <2>1. doc.variants \in Seq(Variants)
        BY DEF Sound, Documents, Versions
    <2>2. v \in Variants
        BY <2>1 DEF ToSet
    <2> QED BY <2>2 DEF Variants
<1>2. DOMAIN Catalogue \subseteq Names
    BY DEF Sound
<1> QED BY <1>1, <1>2 DEF Ids

(* A result with cards mentions their ids.                                 *)
LEMMA ResultOfCards ==
    ASSUME Sound, NEW cards \in Seq(Cards)
    PROVE  Result(cards) \in Results /\ Result(cards).cards = cards
<1>1. ASSUME NEW c \in ToSet(cards) PROVE c.id \in Names
    <2>1. c \in Cards
        BY DEF ToSet
    <2> QED BY <2>1, IdsAreNames DEF Cards
<1>2. "words" \in Names
    BY DEF Sound, Words
<1>3. {"words"} \cup {c.id : c \in ToSet(cards)} \in SUBSET Names
    BY <1>1, <1>2
<1> QED BY <1>3 DEF Result, Results

(* A result without cards.                                                 *)
LEMMA ResultWithout ==
    ASSUME Sound
    PROVE  NoResults \in Results /\ ModelError \in Results /\ Policies \in Results
<1>1. <<>> \in Seq(Cards)
    OBVIOUS
<1> QED BY <1>1, ResultOfCards DEF NoResults, ModelError, Policies

(* Whatever is read for it, a result is one.                               *)
LEMMA ResultsOfTools ==
    ASSUME Sound, DocsShape, NEW args \in Args, NEW hits \in Seq(DOMAIN Catalogue)
    PROVE  /\ SearchResult(docs, hits, args) \in Results
           /\ DetailsByHit(docs, hits) \in Results
           /\ DetailsById(docs, args) \subseteq Results
           /\ Categories(docs) \in Results
<1>1. SearchResult(docs, hits, args) \in Results
    BY FiltersOfArgs, SearchCardsKeepPromise, ResultOfCards DEF SearchResult
<1>2. ASSUME NEW p \in DOMAIN docs PROVE Result(DetailCards(p, docs[p])) \in Results
    BY DetailCardsAreCards, ResultOfCards DEF DocsShape
<1>3. DetailsByHit(docs, hits) \in Results
    BY <1>2, ResultWithout DEF DetailsByHit
<1>4. DetailsById(docs, args) \subseteq Results
    BY <1>2 DEF DetailsById, WithExternalId
<1>5. Categories(docs) \in Results
    <2>1. ASSUME NEW p \in DOMAIN docs PROVE docs[p].category \in Names
        <3>1. docs[p] \in Documents
            BY StateOfProduct DEF DocsShape
        <3> QED BY <3>1 DEF Documents
    <2>2. DistinctCategories(docs) \subseteq Names
        BY <2>1 DEF DistinctCategories
    <2>3. "words" \in Names
        BY DEF Sound, Words
    <2>4. {"words"} \cup DistinctCategories(docs) \in SUBSET Names /\ <<>> \in Seq(Cards)
        BY <2>2, <2>3
    <2> QED BY <2>4 DEF Categories, Results
<1> QED BY <1>1, <1>3, <1>4, <1>5

(* Hits are products that the index allows.                                *)
LEMMA HitsAreAllowed ==
    ASSUME Sound, DocsShape, NEW f, NEW limit, NEW hits \in Hits(index, f, limit)
    PROVE  /\ hits \in Seq(DOMAIN Catalogue)
           /\ \A k \in DOMAIN hits : Allows(index[hits[k]], f)
<1> DEFINE allowed == {p \in DOMAIN index : Allows(index[p], f)}
<1>1. PICK s \in SUBSET allowed : hits \in SetToSeqs(s)
    BY DEF Hits
<1>2. s \in SUBSET DOMAIN Catalogue /\ \A p \in s : Allows(index[p], f)
    BY DEF DocsShape
<1>3. Cardinality(s) \in Nat
    <2>1. IsFiniteSet(DOMAIN Catalogue)
        BY DEF Sound
    <2>2. IsFiniteSet(s)
        BY <1>2, <2>1, FS_Subset
    <2> QED BY <2>2, FS_CardinalityType
<1>4. hits \in [1..Cardinality(s) -> s]
    BY <1>1 DEF SetToSeqs
<1> QED BY <1>2, <1>3, <1>4

(* A response as Gemini sends it: a text, and then the calls.              *)
PartsOf(given) ==
    <<[kind |-> "text", text |-> given.text]>>
        \o [i \in DOMAIN given.calls |-> [kind |-> "call", call |-> given.calls[i]]]

(* Each call of a response gets an id, and no two of them the same.        *)
LEMMA CallsOfResponse ==
    ASSUME Sound, NEW given \in Responses, given.calls # <<>>, NEW request \in Nat \X Nat,
           NEW response, response = ParseGeminiResponse(PartsOf(given), request)
    PROVE  /\ response.text \in SUBSET Names
           /\ response.calls \in Seq(CallSet) /\ response.calls # <<>>
           /\ \A i, j \in DOMAIN response.calls :
                response.calls[i].id = response.calls[j].id => i = j
<1> DEFINE parts == PartsOf(given)
           said == [kind |-> "text", text |-> given.text]
           wanted == [i \in DOMAIN given.calls |-> [kind |-> "call", call |-> given.calls[i]]]
           Parts == {said} \cup {[kind |-> "call", call |-> c] : c \in ToolCalls}
           kept == {i \in DOMAIN parts : parts[i].kind = "call"}
           at == Ascending(kept)
           N == Cardinality(kept)
<1>1. given.text \in SUBSET Names /\ given.calls \in Seq(ToolCalls)
    BY DEF Sound
<1>2. <<said>> \in Seq(Parts) /\ wanted \in Seq(Parts) /\ Len(wanted) = Len(given.calls)
    BY <1>1
<1>3. said.kind = "text" /\ said.text = given.text
    OBVIOUS
<1>4. \A p \in Parts : p.kind = "call" => p.call \in ToolCalls
    OBVIOUS
<1>5. \A p \in Parts : p.kind = "text" => p = said
    OBVIOUS
<1>6. \A i \in DOMAIN wanted : wanted[i].kind = "call"
    OBVIOUS
<1>7. parts = <<said>> \o wanted
    BY DEF PartsOf
<1> HIDE DEF said, wanted, Parts, parts
<1>8. /\ parts \in Seq(Parts) /\ Len(parts) = 1 + Len(given.calls)
      /\ parts[2] = wanted[1]
    <2>1. Len(<<said>>) = 1 /\ Len(wanted) \in Nat /\ Len(wanted) >= 1
        BY <1>1, <1>2
    <2>2. /\ <<said>> \o wanted \in Seq(Parts)
          /\ Len(<<said>> \o wanted) = Len(<<said>>) + Len(wanted)
          /\ \A i \in 1..(Len(<<said>>) + Len(wanted)) :
               (<<said>> \o wanted)[i] =
                   IF i <= Len(<<said>>) THEN <<said>>[i] ELSE wanted[i - Len(<<said>>)]
        BY ONLY <1>2, ConcatProperties
    <2>3. 2 \in 1..(1 + Len(wanted)) /\ 2 - 1 = 1 /\ ~(2 <= 1)
        BY <2>1
    <2>4. (<<said>> \o wanted)[2] = wanted[1]
        BY <2>1, <2>2, <2>3
    <2> QED BY <1>2, <1>7, <2>1, <2>2, <2>4
<1>9. kept \subseteq DOMAIN parts /\ \A i \in kept : parts[i].kind = "call"
    OBVIOUS
<1>10. 2 \in kept
    <2>1. 1 \in DOMAIN wanted /\ 2 \in DOMAIN parts
        BY <1>1, <1>2, <1>8
    <2> QED BY <1>6, <1>8, <2>1
<1> HIDE DEF kept
<1>11. /\ N \in Nat /\ at \in [1..N -> kept] /\ N # 0
       /\ \A k, l \in 1..N : k < l => at[k] < at[l]
    <2>1. /\ N \in Nat /\ at \in [1..N -> kept]
          /\ \A k, l \in 1..N : k < l => at[k] < at[l]
          /\ \A i \in kept : \E k \in 1..N : at[k] = i
        <3>1. parts \in Seq(Parts) /\ DOMAIN parts = 1..Len(parts) /\ Len(parts) \in Nat
            BY <1>8
        <3>2. IsFiniteSet(1..Len(parts))
            BY <3>1, FS_Interval
        <3>3. kept \in SUBSET Nat /\ IsFiniteSet(kept)
            BY <1>9, <3>1, <3>2, FS_Subset
        <3> QED BY <3>3, AscendingLists
    <2> QED BY <1>10, <2>1
<1> DEFINE CallAt(k) == [id |-> <<request, at[k]>>, call |-> parts[at[k]].call]
           list == [k \in DOMAIN at |-> CallAt(k)]
<1>12. response.calls = list
    BY DEF ParseGeminiResponse, kept, parts
<1>13. response.text = UNION {p.text : p \in {q \in ToSet(parts) : q.kind = "text"}}
    BY DEF ParseGeminiResponse, parts
<1> HIDE DEF at, N
<1>14. response.text \in SUBSET Names
    <2>1. {q \in ToSet(parts) : q.kind = "text"} \subseteq {said}
        <3>1. ToSet(parts) \subseteq Parts
            BY <1>8 DEF ToSet
        <3> QED BY <1>5, <3>1
    <2>2. \A p \in {q \in ToSet(parts) : q.kind = "text"} : p.text \in SUBSET Names
        BY <1>1, <1>3, <2>1
    <2> QED BY <1>13, <2>2
<1>15. ASSUME NEW k \in 1..N
       PROVE  CallAt(k) \in CallSet /\ CallAt(k).id = <<request, at[k]>>
    <2>1. at[k] \in kept /\ at[k] \in DOMAIN parts /\ parts[at[k]].kind = "call"
        BY <1>9, <1>11
    <2>2. at[k] \in Nat /\ parts[at[k]] \in Parts
        BY <1>8, <2>1
    <2>3. parts[at[k]].call \in ToolCalls
        BY <1>4, <2>1, <2>2
    <2>4. <<request, at[k]>> \in (Nat \X Nat) \X Nat
        BY <2>2
    <2> QED BY <2>3, <2>4 DEF CallSet
<1> HIDE DEF CallAt
<1>16. list \in [1..N -> CallSet] /\ \A k \in 1..N : list[k].id = <<request, at[k]>>
    BY <1>11, <1>15
<1> HIDE DEF list
<1>17. list \in Seq(CallSet) /\ list # <<>> /\ DOMAIN list = 1..N
    BY <1>11, <1>16
<1>18. ASSUME NEW i \in 1..N, NEW j \in 1..N, list[i].id = list[j].id PROVE i = j
    <2>1. at[i] = at[j] /\ at[i] \in Nat
        BY <1>8, <1>9, <1>11, <1>16, <1>18
    <2>2. ~(i < j) /\ ~(j < i) /\ i \in Nat /\ j \in Nat
        BY <1>11, <2>1
    <2> QED BY <2>2
<1> QED BY <1>12, <1>14, <1>17, <1>18

-------------------------------------------------------------------------------
(* The state of a turn.                                                    *)

MessageSet ==
    [role : {"user", "assistant", "tool"}, text : SUBSET Names, calls : Seq(CallSet),
     callId : ((Nat \X Nat) \X Nat) \cup {NoCall}]

Replies ==
    [status : {"none", "error", "answered"}, tagged : SUBSET Ids, cards : Seq(Cards)]

(* The customer is not answered before the turn is over.                   *)
StageShape ==
    /\ stage \in {"idle", "ask", "tools"} /\ round \in 0..(MAX_TOOL_ROUNDS - 1)
    /\ turn \in 0..Len(Topics) /\ made \in 0..MaxCalls
    /\ shown \subseteq Ids /\ reply \in Replies
    /\ stage # "idle" => reply = NoReply

CallsShape ==
    /\ calls \in Seq(CallSet) /\ progress \in [DOMAIN calls -> Executions]
    /\ found \in Seq(Cards)
    /\ stage # "tools" => calls = <<>>

MessagesShape ==
    /\ history \in Seq(MessageSet) /\ messages \in Seq(MessageSet)
    /\ saved \in Seq(MessageSet)

(* Whatever the index had right when a search read it, and nobody wrote    *)
(* since, is allowed by what the search asked for.                         *)
PromiseInv ==
    /\ steady \subseteq (DOMAIN progress) \X (DOMAIN Catalogue)
    /\ stage # "tools" => steady = {}
    /\ \A s \in steady : NameOf(s[1]) = "search_products" =>
          Allows(IndexEntry(docs[s[2]]), SearchFilters(ArgsOf(s[1])))

TurnInv == DocsShape /\ StageShape /\ CallsShape /\ MessagesShape /\ PromiseInv

(* At first there is nothing but the catalogue.                            *)
LEMMA TurnInvInit ==
    ASSUME Sound, Init
    PROVE  TurnInv
<1>1. DocsShape
    <2>1. Len(Topics) \in Nat
        BY DEF Sound
    <2> QED BY <2>1 DEF Init, DocsShape, StatesOf, Versions
<1>2. StageShape
    <2>1. 0 \in 0..(MAX_TOOL_ROUNDS - 1) /\ 0 \in 0..Len(Topics) /\ 0 \in 0..MaxCalls
        BY DEF Sound
    <2>2. NoReply \in Replies
        BY DEF NoReply, Replies
    <2> QED BY <2>1, <2>2 DEF Init, StageShape
<1>3. CallsShape
    BY DEF Init, CallsShape
<1>4. MessagesShape
    BY DEF Init, MessagesShape
<1>5. PromiseInv
    BY DEF Init, PromiseInv
<1> QED BY <1>1, <1>2, <1>3, <1>4, <1>5 DEF TurnInv

(* Messages of every kind.                                                 *)
LEMMA MessageTypes ==
    ASSUME Sound, NEW text \in SUBSET Names, NEW asked \in Seq(CallSet),
           NEW id \in (Nat \X Nat) \X Nat
    PROVE  /\ User(text) \in MessageSet /\ Assistant(text) \in MessageSet
           /\ ToolRequest(text, asked) \in MessageSet /\ ToolResult(text, id) \in MessageSet
<1>1. <<>> \in Seq(CallSet)
    OBVIOUS
<1> QED BY <1>1 DEF MessageSet, User, Assistant, ToolRequest, ToolResult, Message

(* The prompt is a part of the messages.                                   *)
LEMMA PromptType ==
    ASSUME NEW T, NEW l \in Seq(T), NEW n \in Nat
    PROVE  PromptHistory(l, n) \in Seq(T)
<1> DEFINE begin == IF Len(l) > n THEN Len(l) - n + 1 ELSE 1
           b == SubSeq(l, begin, Len(l))
           first == SelectInSeq(b, IsUser)
<1>1. begin \in 1..(Len(l) + 1) /\ begin \in Int /\ Len(l) \in Int
    OBVIOUS
<1> HIDE DEF begin
<1>2. \A i \in begin..Len(l) : l[i] \in T
    BY <1>1
<1>3. b \in Seq(T)
    BY ONLY <1>1, <1>2, SubSeqProperties
<1> HIDE DEF b
<1>4. first # 0 => first \in 1..Len(b)
    <2> DEFINE I == {i \in 1..Len(b) : IsUser(b[i])}
    <2>1. I \in SUBSET Nat
        BY <1>3
    <2>2. I # {} => Min(I) \in I
        BY <2>1, HasLeast
    <2>3. first = IF I # {} THEN Min(I) ELSE 0
        BY DEF SelectInSeq
    <2> HIDE DEF first
    <2> QED BY <2>2, <2>3
<1> HIDE DEF first
<1>5. ASSUME first # 0 PROVE SubSeq(b, first, Len(b)) \in Seq(T)
    <2>1. first \in Int /\ Len(b) \in Int /\ \A i \in first..Len(b) : b[i] \in T
        BY <1>3, <1>4, <1>5
    <2> QED BY ONLY <2>1, SubSeqProperties
<1>6. PromptHistory(l, n) = IF first = 0 THEN <<>> ELSE SubSeq(b, first, Len(b))
    BY DEF PromptHistory, first, b, begin
<1>7. <<>> \in Seq(T)
    OBVIOUS
<1> QED BY <1>5, <1>6, <1>7

(* When a turn is over, so are its calls.                                  *)
LEMMA FinishStep ==
    ASSUME Sound, TurnInv, NEW text \in SUBSET Names, NEW keep \in Seq(MessageSet),
           Finish(text, keep), UNCHANGED <<data, turn, shown, made>>
    PROVE  TurnInv'
<1>1. DocsShape'
    BY DEF TurnInv, DocsShape, data
<1>2. reply' \in Replies
    <2>1. found \in Seq(Cards) /\ IdsIn(found) \subseteq Ids
        <3>1. ToSet(found) \subseteq Cards /\ found \in Seq(Cards)
            BY DEF TurnInv, CallsShape, ToSet
        <3> QED BY <3>1 DEF IdsIn, Cards
    <2>2. reply' = BuildResponse(text, found)
        BY DEF Finish
    <2>3. reply'.cards \in Seq(Cards)
        BY <2>1, <2>2, ReplyShowsTagged
    <2> QED BY <2>2, <2>3 DEF BuildResponse, Replies
<1>3. StageShape'
    <2>1. 0 \in 0..(MAX_TOOL_ROUNDS - 1)
        BY DEF Sound
    <2> QED BY <1>2, <2>1 DEF Finish, TurnInv, StageShape
<1>4. CallsShape'
    BY DEF Finish, CallsShape
<1>5. MessagesShape'
    <2>1. CleanText(text) \in SUBSET Names
        BY DEF CleanText
    <2>2. Assistant(CleanText(text)) \in MessageSet
        <3>1. <<>> \in Seq(CallSet)
            OBVIOUS
        <3> QED BY <2>1, <3>1 DEF Assistant, Message, MessageSet
    <2>3. history' = (history \o keep) \o <<Assistant(CleanText(text))>>
        BY DEF Finish
    <2>4. history' \in Seq(MessageSet)
        BY <2>2, <2>3 DEF TurnInv, MessagesShape
    <2> QED BY <2>4 DEF Finish, MessagesShape
<1>6. PromiseInv'
    BY DEF Finish, PromiseInv
<1> QED BY <1>1, <1>3, <1>4, <1>5, <1>6 DEF TurnInv

(* A turn begins with what the customer says.                              *)
LEMMA StartTurnStep ==
    ASSUME Sound, TurnInv, StartTurn
    PROVE  TurnInv'
<1> DEFINE said == User({Topics[turn + 1]})
<1>1. turn + 1 \in 1..Len(Topics) /\ turn + 1 \in 0..Len(Topics)
    BY DEF Sound, TurnInv, DocsShape, StageShape, StartTurn, Room
<1>2. said \in MessageSet
    <2>1. {Topics[turn + 1]} \in SUBSET Names
        BY <1>1 DEF Sound
    <2>2. <<>> \in Seq(CallSet)
        OBVIOUS
    <2> QED BY <2>1, <2>2 DEF User, Message, MessageSet
<1>3. DocsShape'
    BY DEF TurnInv, DocsShape, StartTurn, data
<1>4. StageShape'
    <2>1. NoReply \in Replies
        BY DEF NoReply, Replies
    <2>2. {c.id : c \in ToSet(reply.cards)} \subseteq Ids
        <3>1. ToSet(reply.cards) \subseteq Cards
            BY DEF TurnInv, StageShape, Replies, ToSet
        <3> QED BY <3>1 DEF Cards
    <2> QED BY <1>1, <2>1, <2>2 DEF TurnInv, StageShape, StartTurn
<1>5. CallsShape'
    BY DEF TurnInv, CallsShape, StartTurn
<1>6. MessagesShape'
    <2>1. PromptHistory(history, HISTORY_TAIL_CEILING) \in Seq(MessageSet)
        BY PromptType DEF TurnInv, MessagesShape, Sound
    <2>2. messages' = Append(PromptHistory(history, HISTORY_TAIL_CEILING), said)
          /\ saved' = <<said>> /\ history' = history
        BY DEF StartTurn
    <2> HIDE DEF said
    <2> QED BY <1>2, <2>1, <2>2 DEF TurnInv, MessagesShape
<1>7. PromiseInv'
    <2>1. steady' = {}
        BY DEF TurnInv, PromiseInv, StartTurn
    <2> QED BY <2>1 DEF PromiseInv
<1> QED BY <1>3, <1>4, <1>5, <1>6, <1>7 DEF TurnInv

(* An error leaves nothing of the turn.                                    *)
LEMMA GenerationFailsStep ==
    ASSUME Sound, TurnInv, GenerationFails
    PROVE  TurnInv'
<1>1. DocsShape'
    BY DEF TurnInv, DocsShape, GenerationFails, data
<1>2. StageShape'
    <2>1. 0 \in 0..(MAX_TOOL_ROUNDS - 1)
        BY DEF Sound
    <2>2. reply' = [status |-> "error", tagged |-> {}, cards |-> <<>>]
        BY DEF GenerationFails, NoReply
    <2>3. reply' \in Replies
        BY <2>2 DEF Replies
    <2> QED BY <2>1, <2>3 DEF TurnInv, StageShape, GenerationFails
<1>3. CallsShape'
    BY DEF TurnInv, CallsShape, GenerationFails
<1>4. MessagesShape'
    BY DEF TurnInv, MessagesShape, GenerationFails
<1>5. PromiseInv'
    <2>1. steady' = {}
        BY DEF TurnInv, PromiseInv, GenerationFails
    <2> QED BY <2>1 DEF PromiseInv
<1> QED BY <1>1, <1>2, <1>3, <1>4, <1>5 DEF TurnInv

(* An answer ends the turn.                                                *)
LEMMA AnswerStep ==
    ASSUME Sound, TurnInv, Answer
    PROVE  TurnInv'
<1>1. PICK response \in Responses :
          Finish(IF response.text = {} THEN {Words} ELSE response.text, saved)
    BY DEF Answer
<1>2. (IF response.text = {} THEN {Words} ELSE response.text) \in SUBSET Names
    BY DEF Sound
<1>3. saved \in Seq(MessageSet)
    BY DEF TurnInv, MessagesShape
<1>4. UNCHANGED <<data, turn, shown, made>>
    BY DEF Answer
<1> QED BY <1>1, <1>2, <1>3, <1>4, FinishStep

(* What RequestTools adds: a request with calls, none of them begun.       *)
LEMMA RequestToolsAdds ==
    ASSUME Sound, TurnInv, RequestTools
    PROVE  \E text \in SUBSET Names :
             /\ calls' \in Seq(CallSet) /\ calls' # <<>>
             /\ \A i, j \in DOMAIN calls' : calls'[i].id = calls'[j].id => i = j
             /\ messages' = Append(messages, ToolRequest(text, calls'))
             /\ saved' = Append(saved, ToolRequest(text, calls'))
             /\ ToolRequest(text, calls') \in MessageSet
             /\ progress' = [i \in DOMAIN calls' |-> Executing("called", <<>>, NoResults)]
             /\ made' = made + Len(calls') /\ made' <= MaxCalls
<1> DEFINE Response(given) == ParseGeminiResponse(PartsOf(given), <<turn, round>>)
<1>1. PICK given \in Responses :
          /\ given.calls # <<>>
          /\ made + Len(Response(given).calls) <= MaxCalls
          /\ made' = made + Len(Response(given).calls)
          /\ calls' = Response(given).calls
          /\ progress' = [i \in DOMAIN calls' |-> Executing("called", <<>>, NoResults)]
          /\ messages' = Append(messages, ToolRequest(Response(given).text, Response(given).calls))
          /\ saved' = Append(saved, ToolRequest(Response(given).text, Response(given).calls))
    BY DEF RequestTools, PartsOf
<1>2. <<turn, round>> \in Nat \X Nat
    BY DEF Sound, TurnInv, StageShape
<1> DEFINE response == Response(given)
           text == response.text
<1>3. /\ response.text \in SUBSET Names
      /\ response.calls \in Seq(CallSet) /\ response.calls # <<>>
      /\ \A i, j \in DOMAIN response.calls :
           response.calls[i].id = response.calls[j].id => i = j
    <2>1. given.calls # <<>>
        BY <1>1
    <2> QED BY <1>2, <2>1, CallsOfResponse
<1>4. /\ text \in SUBSET Names
      /\ calls' \in Seq(CallSet) /\ calls' # <<>>
      /\ \A i, j \in DOMAIN calls' : calls'[i].id = calls'[j].id => i = j
      /\ messages' = Append(messages, ToolRequest(text, calls'))
      /\ saved' = Append(saved, ToolRequest(text, calls'))
      /\ made' = made + Len(calls') /\ made' <= MaxCalls
    BY <1>1, <1>3
<1> HIDE DEF text
<1>5. ToolRequest(text, calls') \in MessageSet
    BY <1>4 DEF ToolRequest, Message, MessageSet
<1> QED BY <1>1, <1>4, <1>5

(* So a request begins the execution of its calls.                         *)
LEMMA RequestToolsStep ==
    ASSUME Sound, TurnInv, RequestTools
    PROVE  TurnInv'
<1>1. PICK text \in SUBSET Names :
          /\ calls' \in Seq(CallSet)
          /\ messages' = Append(messages, ToolRequest(text, calls'))
          /\ saved' = Append(saved, ToolRequest(text, calls'))
          /\ ToolRequest(text, calls') \in MessageSet
          /\ progress' = [i \in DOMAIN calls' |-> Executing("called", <<>>, NoResults)]
          /\ made' = made + Len(calls') /\ made' <= MaxCalls
    BY RequestToolsAdds
<1>2. DocsShape'
    BY DEF TurnInv, DocsShape, RequestTools, data
<1>3. made' \in 0..MaxCalls
    BY <1>1 DEF Sound, TurnInv, StageShape
<1>4. StageShape'
    BY <1>3 DEF TurnInv, StageShape, RequestTools
<1>5. Executing("called", <<>>, NoResults) \in Executions
    <2>1. <<>> \in Seq(DOMAIN Catalogue)
        OBVIOUS
    <2> QED BY <2>1, ResultWithout DEF Executing, Executions
<1>7. CallsShape'
    <2>1. stage' = "tools" /\ found' = found
        BY DEF RequestTools
    <2> QED BY <1>1, <1>5, <2>1 DEF TurnInv, CallsShape
<1>8. MessagesShape'
    <2>1. history' = history
        BY DEF RequestTools
    <2> QED BY <1>1, <2>1 DEF TurnInv, MessagesShape
<1>9. PromiseInv'
    <2>1. steady' = {}
        BY DEF TurnInv, PromiseInv, RequestTools
    <2> QED BY <2>1 DEF PromiseInv
<1> QED BY <1>2, <1>4, <1>7, <1>8, <1>9 DEF TurnInv

(* A call is done, or has its hits, and the others go on.                  *)
LEMMA ExecutionStep ==
    ASSUME Sound, TurnInv, NEW i \in DOMAIN progress, NEW state \in Executions,
           UNCHANGED <<data, history, turn, stage, round, messages, saved, calls, reply,
                       shown, made>>,
           progress' = [progress EXCEPT ![i] = state], stage = "tools",
           found' = found \/ found' = found \o state.result.cards,
           NEW right \in SUBSET DOMAIN Catalogue,
           steady' = steady \cup {<<i, p>> : p \in right},
           NameOf(i) = "search_products" =>
             \A p \in right : Allows(IndexEntry(docs[p]), SearchFilters(ArgsOf(i)))
    PROVE  TurnInv'
<1>1. DocsShape' /\ StageShape' /\ MessagesShape'
    BY DEF TurnInv, DocsShape, StageShape, MessagesShape, data
<1>2. found' \in Seq(Cards)
    <2>1. found \in Seq(Cards) /\ state.result.cards \in Seq(Cards)
        BY DEF TurnInv, CallsShape, Executions, Results
    <2>2. found \o state.result.cards \in Seq(Cards)
        BY <2>1
    <2> QED BY <2>1, <2>2
<1>3. progress' \in [DOMAIN calls -> Executions] /\ DOMAIN progress' = DOMAIN progress
    BY DEF TurnInv, CallsShape
<1>4. CallsShape'
    BY <1>2, <1>3 DEF TurnInv, CallsShape
<1>5. PromiseInv'
    <2>1. steady' \subseteq (DOMAIN progress) \X (DOMAIN Catalogue) /\ stage' = "tools"
        BY DEF TurnInv, PromiseInv
    <2>2. ASSUME NEW s \in steady', NameOf(s[1]) = "search_products"
          PROVE  Allows(IndexEntry(docs[s[2]]), SearchFilters(ArgsOf(s[1])))
        <3>1. CASE s \in steady
            BY <2>2, <3>1 DEF TurnInv, PromiseInv
        <3>2. CASE \E p \in right : s = <<i, p>>
            BY <2>2, <3>2
        <3> QED BY <3>1, <3>2
    <2>3. docs' = docs /\ calls' = calls
        BY DEF data
    <2> QED BY <1>3, <2>1, <2>2, <2>3 DEF PromiseInv, NameOf, ArgsOf
<1> QED BY <1>1, <1>4, <1>5 DEF TurnInv

(* What a call asks for.                                                   *)
LEMMA CallTypes ==
    ASSUME TurnInv, NEW i \in DOMAIN progress
    PROVE  /\ NameOf(i) \in Names /\ ArgsOf(i) \in Args
           /\ progress[i] \in Executions /\ calls[i].id \in (Nat \X Nat) \X Nat
<1>1. i \in DOMAIN calls /\ calls[i] \in CallSet /\ progress[i] \in Executions
    BY DEF TurnInv, CallsShape
<1>2. calls[i].call \in ToolCalls /\ calls[i].id \in (Nat \X Nat) \X Nat
    BY <1>1 DEF CallSet
<1> QED BY <1>1, <1>2 DEF NameOf, ArgsOf, ToolCalls

ExecuteFrame ==
    UNCHANGED <<data, history, turn, stage, round, messages, saved, calls, reply, shown, made>>

(* A call is done with a result.                                           *)
LEMMA DoneStep ==
    ASSUME Sound, TurnInv, ExecuteFrame, stage = "tools", NEW i \in DOMAIN progress,
           NEW result \in Results, Done(i, result)
    PROVE  TurnInv'
<1> DEFINE state == Executing("done", progress[i].hits, result)
           right == {}
<1>1. progress' = [progress EXCEPT ![i] = state] /\ found' = found \o result.cards
    BY DEF Done
<1>2. state.result = result
    BY DEF Executing
<1>3. state \in Executions
    <2>1. progress[i].hits \in Seq(DOMAIN Catalogue)
        BY CallTypes DEF Executions
    <2> QED BY <2>1 DEF Executing, Executions
<1>4. /\ right \in SUBSET DOMAIN Catalogue /\ steady' = steady \cup {<<i, p>> : p \in right}
      /\ \A p \in right : Allows(IndexEntry(docs[p]), SearchFilters(ArgsOf(i)))
    BY DEF Done
<1> HIDE DEF state, right
<1> QED BY <1>1, <1>2, <1>3, <1>4, ExecutionStep DEF ExecuteFrame

(* A call is refused, fails or finds nothing.                              *)
LEMMA DoneWithoutCards ==
    ASSUME Sound, TurnInv, ExecuteFrame, stage = "tools", NEW i \in DOMAIN progress,
           NEW result \in {NoResults, ModelError, Policies}, Done(i, result)
    PROVE  TurnInv'
BY ResultWithout, DoneStep

(* Meilisearch answers with what its index allows, and what it has right   *)
(* of that the documents allow as well.                                    *)
LEMMA ReadIndexStep ==
    ASSUME Sound, TurnInv, ExecuteFrame, NEW i \in DOMAIN progress, ReadIndex(i)
    PROVE  TurnInv'
<1> DEFINE Found(hits) ==
               /\ hits = <<>> => Done(i, NoResults)
               /\ hits # <<>> =>
                    /\ progress' = [progress EXCEPT ![i] = Executing("hits", hits, NoResults)]
                    /\ steady' = steady \cup {<<i, p>> : p \in {q \in ToSet(hits) : UpToDate(q)}}
                    /\ UNCHANGED found
<1>0. stage = "tools" /\ DocsShape /\ progress[i].at = "called"
    BY DEF ReadIndex, Reading, TurnInv
<1>1. ASSUME NEW f, NEW limit, NEW hits \in Hits(index, f, limit),
             NameOf(i) = "search_products" => f = SearchFilters(ArgsOf(i)), Found(hits)
      PROVE  TurnInv'
    <2>1. hits \in Seq(DOMAIN Catalogue) /\ \A k \in DOMAIN hits : Allows(index[hits[k]], f)
        BY <1>0, HitsAreAllowed
    <2>2. CASE hits = <<>>
        BY <1>0, <1>1, <2>2, DoneWithoutCards
    <2>3. CASE hits # <<>>
        <3> DEFINE state == Executing("hits", hits, NoResults)
                   right == {q \in ToSet(hits) : UpToDate(q)}
        <3>1. state \in Executions
            BY <2>1, ResultWithout DEF Executing, Executions
        <3>2. progress' = [progress EXCEPT ![i] = state] /\ found' = found
              /\ steady' = steady \cup {<<i, p>> : p \in right}
            BY <1>1, <2>3
        <3>3. right \in SUBSET DOMAIN Catalogue
            BY <2>1 DEF ToSet
        <3>4. ASSUME NameOf(i) = "search_products", NEW p \in right
              PROVE  Allows(IndexEntry(docs[p]), SearchFilters(ArgsOf(i)))
            BY <1>1, <2>1, <3>4 DEF ToSet, UpToDate
        <3> HIDE DEF state, right
        <3> QED BY <1>0, <3>1, <3>2, <3>3, <3>4, ExecutionStep DEF ExecuteFrame
    <2> QED BY <2>2, <2>3
<1>2. CASE /\ NameOf(i) = "search_products"
           /\ \E hits \in Hits(index, SearchFilters(ArgsOf(i)), Cardinality(DOMAIN index)) :
                Found(hits)
    BY <1>1, <1>2
<1>3. CASE /\ NameOf(i) = "get_product_details"
           /\ \E hits \in Hits(index, Filters(Nothing, NoMaximum, {}), 1) : Found(hits)
    <2>1. NameOf(i) # "search_products"
        BY <1>3
    <2> HIDE DEF Found
    <2> QED BY <1>1, <1>3, <2>1
<1>4. \/ /\ NameOf(i) = "search_products"
         /\ \E hits \in Hits(index, SearchFilters(ArgsOf(i)), Cardinality(DOMAIN index)) :
              Found(hits)
      \/ /\ NameOf(i) = "get_product_details"
         /\ \E hits \in Hits(index, Filters(Nothing, NoMaximum, {}), 1) : Found(hits)
    BY DEF ReadIndex
<1> QED BY <1>2, <1>3, <1>4

(* MongoDB answers with the documents as they are now.                     *)
LEMMA ReadDocumentsStep ==
    ASSUME Sound, TurnInv, ExecuteFrame, NEW i \in DOMAIN progress, ReadDocuments(i)
    PROVE  TurnInv'
<1> DEFINE args == ArgsOf(i)
           p == progress[i]
<1>0. /\ stage = "tools" /\ DocsShape /\ args \in Args /\ p.hits \in Seq(DOMAIN Catalogue)
    BY CallTypes DEF ReadDocuments, TurnInv, Executions
<1>1. /\ SearchResult(docs, p.hits, args) \in Results
      /\ DetailsByHit(docs, p.hits) \in Results
      /\ DetailsById(docs, args) \subseteq Results
      /\ Categories(docs) \in Results
    BY <1>0, ResultsOfTools
<1>2. CASE Done(i, SearchResult(docs, p.hits, args))
    BY <1>0, <1>1, <1>2, DoneStep
<1>3. CASE Done(i, DetailsByHit(docs, p.hits))
    BY <1>0, <1>1, <1>3, DoneStep
<1>4. CASE \E result \in DetailsById(docs, args) : Done(i, result)
    BY <1>0, <1>1, <1>4, DoneStep
<1>5. CASE Done(i, NoResults) \/ Done(i, Policies)
    BY <1>0, <1>5, DoneWithoutCards
<1>6. CASE Done(i, Categories(docs))
    BY <1>0, <1>1, <1>6, DoneStep
<1> QED BY <1>2, <1>3, <1>4, <1>5, <1>6 DEF ReadDocuments

(* The execution of calls.                                                 *)
LEMMA ExecuteStep ==
    ASSUME Sound, TurnInv, Execute
    PROVE  TurnInv'
<1>1. ExecuteFrame
    BY DEF Execute, ExecuteFrame
<1>2. PICK i \in DOMAIN progress :
          Refuse(i) \/ ReadIndex(i) \/ ReadDocuments(i) \/ ExecutionFails(i)
    BY DEF Execute
<1>3. CASE Refuse(i) \/ ExecutionFails(i)
    <2>1. stage = "tools" /\ Done(i, ModelError)
        BY <1>3 DEF Refuse, ExecutionFails, Reading
    <2> QED BY <1>1, <2>1, DoneWithoutCards
<1> QED BY <1>1, <1>2, <1>3, ReadIndexStep, ReadDocumentsStep

(* The results of a round are messages.                                    *)
LEMMA ToolResultTypes ==
    ASSUME Sound, TurnInv
    PROVE  /\ ToolResults \in Seq(MessageSet) /\ Len(ToolResults) = Len(calls)
           /\ \A i \in 1..Len(calls) :
                /\ ToolResults[i].role = "tool" /\ ToolResults[i].callId = calls[i].id
                /\ ToolResults[i].calls = <<>>
<1> DEFINE Entry(i) == ToolResult(progress[i].result.text, calls[i].id)
<1>1. DOMAIN progress = DOMAIN calls /\ calls \in Seq(CallSet)
    BY DEF TurnInv, CallsShape
<1>2. ASSUME NEW i \in DOMAIN calls
      PROVE  /\ Entry(i) \in MessageSet /\ Entry(i).role = "tool"
             /\ Entry(i).callId = calls[i].id /\ Entry(i).calls = <<>>
    <2>1. progress[i].result.text \in SUBSET Names /\ calls[i].id \in (Nat \X Nat) \X Nat
        BY <1>1, CallTypes DEF Executions, Results
    <2>2. <<>> \in Seq(CallSet)
        OBVIOUS
    <2> QED BY <2>1, <2>2 DEF ToolResult, Message, MessageSet
<1>3. ToolResults = [i \in DOMAIN calls |-> Entry(i)]
    BY DEF ToolResults
<1> HIDE DEF Entry
<1> QED BY <1>1, <1>2, <1>3

(* When all are done their results are put together, and the turn goes on, *)
(* or ends when there have been enough rounds.                             *)
LEMMA CollectResultsStep ==
    ASSUME Sound, TurnInv, CollectResults
    PROVE  TurnInv'
<1>1. ToolResults \in Seq(MessageSet)
    BY ToolResultTypes
<1>2. saved \o ToolResults \in Seq(MessageSet) /\ messages \o ToolResults \in Seq(MessageSet)
    BY <1>1 DEF TurnInv, MessagesShape
<1>3. CASE LastRound
    <2>1. {Words} \in SUBSET Names
        BY DEF Sound
    <2>2. Finish({Words}, saved \o ToolResults) /\ UNCHANGED <<data, turn, shown, made>>
        BY <1>3 DEF CollectResults
    <2> QED BY <1>2, <2>1, <2>2, FinishStep
<1>4. CASE ~LastRound
    <2>1. /\ messages' = messages \o ToolResults /\ saved' = saved \o ToolResults
          /\ round' = round + 1 /\ stage' = "ask" /\ calls' = <<>> /\ progress' = <<>>
          /\ steady' = {} /\ UNCHANGED <<history, found, reply, data, turn, shown, made>>
          /\ stage = "tools"
        BY <1>4 DEF CollectResults
    <2>2. round' \in 0..(MAX_TOOL_ROUNDS - 1)
        BY <1>4, <2>1 DEF LastRound, TurnInv, StageShape, Sound
    <2>3. DocsShape' /\ StageShape'
        BY <2>1, <2>2 DEF TurnInv, DocsShape, StageShape, data
    <2>4. CallsShape' /\ MessagesShape' /\ PromiseInv'
        BY <1>2, <2>1 DEF TurnInv, CallsShape, MessagesShape, PromiseInv
    <2> QED BY <2>3, <2>4 DEF TurnInv
<1> QED BY <1>3, <1>4

(* Whatever the catalogue becomes, a turn goes on.                         *)
TurnFrame ==
    UNCHANGED <<history, turn, stage, round, messages, saved, calls, progress, found, reply,
                shown, made>>

LEMMA CatalogueStep ==
    ASSUME Sound, TurnInv, TurnFrame, DocsShape', steady' \subseteq steady,
           \A s \in steady' : docs'[s[2]] = docs[s[2]]
    PROVE  TurnInv'
<1>1. StageShape' /\ CallsShape' /\ MessagesShape'
    BY DEF TurnFrame, TurnInv, StageShape, CallsShape, MessagesShape
<1>2. PromiseInv'
    <2>1. /\ steady' \subseteq (DOMAIN progress) \X (DOMAIN Catalogue)
          /\ stage # "tools" => steady' = {}
          /\ \A s \in steady' : NameOf(s[1]) = "search_products" =>
                Allows(IndexEntry(docs[s[2]]), SearchFilters(ArgsOf(s[1])))
        BY DEF TurnInv, PromiseInv
    <2> QED BY <2>1 DEF TurnFrame, PromiseInv, NameOf, ArgsOf
<1> QED BY <1>1, <1>2 DEF TurnInv

(* A document is written, and then nobody relies on what it was.           *)
LEMMA DocumentWritten ==
    ASSUME Sound, TurnInv, NEW p \in DOMAIN Catalogue, NEW doc \in StatesOf(p),
           WriteDocument(p, doc)
    PROVE  /\ DOMAIN docs' = DOMAIN Catalogue
           /\ \A q \in DOMAIN Catalogue : docs'[q] \in StatesOf(q)
           /\ steady' \subseteq steady /\ \A s \in steady' : docs'[s[2]] = docs[s[2]]
<1>1. docs' = [docs EXCEPT ![p] = doc] /\ steady' = {s \in steady : s[2] # p}
    BY DEF WriteDocument
<1>2. DOMAIN docs = DOMAIN Catalogue /\ \A q \in DOMAIN Catalogue : docs[q] \in StatesOf(q)
    BY DEF TurnInv, DocsShape
<1>3. steady \subseteq (DOMAIN progress) \X (DOMAIN Catalogue)
    BY DEF TurnInv, PromiseInv
<1>4. \A s \in steady' : s[2] # p /\ s[2] \in DOMAIN docs
    BY <1>1, <1>2, <1>3
<1> QED BY <1>1, <1>2, <1>4

(* There is room for one more change.                                      *)
LEMMA ChangeCounts ==
    ASSUME Sound, TurnInv, Change
    PROVE  changed' \in 0..Len(Topics)
BY DEF Sound, TurnInv, DocsShape, StageShape, Change, Room

(* An upsert begins with one of its two writes.                            *)
LEMMA UpsertProductStep ==
    ASSUME Sound, TurnInv, UpsertProduct
    PROVE  TurnInv'
<1>1. TurnFrame /\ changed' \in 0..Len(Topics)
    BY ChangeCounts DEF UpsertProduct, turnVars, TurnFrame
<1>2. PICK p \in DOMAIN docs : \E doc \in Updates[p] :
         \/ /\ WriteDocument(p, doc)
            /\ owed' = owed \cup {Owed("index", p, doc)}
            /\ UNCHANGED index
         \/ /\ WriteEntry(p, doc)
            /\ owed' = owed \cup {Owed("document", p, doc)}
            /\ UNCHANGED <<docs, steady>>
    BY DEF UpsertProduct
<1>3. PICK doc \in Updates[p] :
         \/ /\ WriteDocument(p, doc)
            /\ owed' = owed \cup {Owed("index", p, doc)}
            /\ UNCHANGED index
         \/ /\ WriteEntry(p, doc)
            /\ owed' = owed \cup {Owed("document", p, doc)}
            /\ UNCHANGED <<docs, steady>>
    BY <1>2
<1>4. p \in DOMAIN Catalogue /\ doc \in StatesOf(p)
    BY DEF TurnInv, DocsShape, StatesOf, Versions
<1>5. ASSUME NEW to, owed' = owed \cup {Owed(to, p, doc)}
      PROVE  \A w \in owed' : w.product \in DOMAIN Catalogue /\ w.doc \in StatesOf(w.product)
    BY <1>4, <1>5 DEF TurnInv, DocsShape, Owed
<1>6. CASE /\ WriteDocument(p, doc)
           /\ owed' = owed \cup {Owed("index", p, doc)}
           /\ UNCHANGED index
    <2>1. DocsShape'
        BY <1>1, <1>4, <1>5, <1>6, DocumentWritten DEF TurnInv, DocsShape
    <2> QED BY <1>1, <1>4, <1>6, <2>1, DocumentWritten, CatalogueStep
<1>7. CASE /\ WriteEntry(p, doc)
           /\ owed' = owed \cup {Owed("document", p, doc)}
           /\ UNCHANGED <<docs, steady>>
    <2>1. DocsShape'
        BY <1>1, <1>5, <1>7 DEF TurnInv, DocsShape, WriteEntry
    <2> QED BY <1>1, <1>7, <2>1, CatalogueStep
<1> QED BY <1>3, <1>6, <1>7

(* And ends with the other, or without it.                                 *)
LEMMA FinishUpsertStep ==
    ASSUME Sound, TurnInv, FinishUpsert
    PROVE  TurnInv'
<1>1. TurnFrame /\ changed' = changed
    BY DEF FinishUpsert, turnVars, TurnFrame
<1>2. PICK w \in owed :
         /\ owed' = owed \ {w}
         /\ \/ /\ w.to = "index"
               /\ \E doc \in {w.doc, docs[w.product]} : WriteEntry(w.product, doc)
               /\ UNCHANGED <<docs, steady>>
            \/ /\ w.to = "document"
               /\ WriteDocument(w.product, w.doc)
               /\ UNCHANGED index
            \/ UNCHANGED <<docs, index, steady>>
    BY DEF FinishUpsert
<1>3. w.product \in DOMAIN Catalogue /\ w.doc \in StatesOf(w.product)
    BY DEF TurnInv, DocsShape
<1>4. \A v \in owed' : v.product \in DOMAIN Catalogue /\ v.doc \in StatesOf(v.product)
    BY <1>2 DEF TurnInv, DocsShape
<1>5. CASE (\E doc \in {w.doc, docs[w.product]} : WriteEntry(w.product, doc))
           /\ UNCHANGED <<docs, steady>>
    <2>1. DOMAIN index' = DOMAIN index
        BY <1>5 DEF WriteEntry
    <2>2. DocsShape'
        BY <1>1, <1>4, <1>5, <2>1 DEF TurnInv, DocsShape
    <2> QED BY <1>1, <1>5, <2>2, CatalogueStep
<1>6. CASE WriteDocument(w.product, w.doc) /\ UNCHANGED index
    <2>1. DocsShape'
        BY <1>1, <1>3, <1>4, <1>6, DocumentWritten DEF TurnInv, DocsShape
    <2> QED BY <1>1, <1>3, <1>6, <2>1, DocumentWritten, CatalogueStep
<1>7. CASE UNCHANGED <<docs, index, steady>>
    <2>1. DocsShape'
        BY <1>1, <1>4, <1>7 DEF TurnInv, DocsShape
    <2> QED BY <1>1, <1>7, <2>1, CatalogueStep
<1> QED BY <1>2, <1>5, <1>6, <1>7

(* A product is hidden; the index keeps its entry.                         *)
LEMMA HideProductStep ==
    ASSUME Sound, TurnInv, HideProduct
    PROVE  TurnInv'
<1>1. TurnFrame /\ UNCHANGED <<index, owed>> /\ changed' \in 0..Len(Topics)
    BY ChangeCounts DEF HideProduct, turnVars, TurnFrame
<1>2. PICK p \in DOMAIN docs : WriteDocument(p, HiddenNow(docs[p]))
    BY DEF HideProduct, HiddenNow
<1>3. p \in DOMAIN Catalogue /\ HiddenNow(docs[p]) \in StatesOf(p)
    BY StateOfProduct DEF TurnInv, DocsShape
<1>4. DocsShape'
    BY <1>1, <1>2, <1>3, DocumentWritten DEF TurnInv, DocsShape
<1> QED BY <1>1, <1>2, <1>3, <1>4, DocumentWritten, CatalogueStep

(* Every step keeps TurnInv.                                               *)
LEMMA TurnInvStep ==
    ASSUME Sound, TurnInv, [Next]_vars
    PROVE  TurnInv'
<1>1. CASE UNCHANGED vars
    BY <1>1 DEF vars, TurnInv, DocsShape, StageShape, CallsShape, MessagesShape, PromiseInv,
       NameOf, ArgsOf
<1> QED BY <1>1, StartTurnStep, GenerationFailsStep, AnswerStep, RequestToolsStep, ExecuteStep,
        CollectResultsStep, UpsertProductStep, FinishUpsertStep, HideProductStep DEF Next

-------------------------------------------------------------------------------
(* A search that gets an answer from MongoDB keeps its promise.            *)
SearchEnds(i) ==
    \A card \in ToSet(progress'[i].result.cards) :
        /\ card \in ToSet(DetailCards(card.product, docs[card.product]))
        /\ <<i, card.product>> \in steady =>
               KeepsPromise(card, docs, SearchFilters(ArgsOf(i)))

LEMMA SearchAnswered ==
    ASSUME Sound, TurnInv, NEW i \in DOMAIN progress, NameOf(i) = "search_products",
           Done(i, SearchResult(docs, progress[i].hits, ArgsOf(i)))
    PROVE  SearchEnds(i)
<1> DEFINE f == SearchFilters(ArgsOf(i))
           hits == progress[i].hits
           cards == SearchCards(docs, hits, f)
<1>1. f \in FilterSet /\ hits \in Seq(DOMAIN Catalogue) /\ DocsShape
    BY CallTypes, FiltersOfArgs DEF Executions, TurnInv
<1>2. /\ cards \in Seq(Cards)
      /\ \A card \in ToSet(cards) :
           /\ card \in ToSet(DetailCards(card.product, docs[card.product]))
           /\ Allows(IndexEntry(docs[card.product]), f) => KeepsPromise(card, docs, f)
    BY <1>1, SearchCardsKeepPromise
<1>3. \A p : <<i, p>> \in steady => Allows(IndexEntry(docs[p]), f)
    BY DEF TurnInv, PromiseInv
<1>4. progress'[i].result = SearchResult(docs, hits, ArgsOf(i))
    BY DEF Done, Executing
<1>5. progress'[i].result.cards = cards
    BY <1>2, <1>4, ResultOfCards DEF SearchResult
<1> HIDE DEF cards, hits
<1> QED BY <1>2, <1>3, <1>5 DEF SearchEnds

(* And one that ends otherwise shows nothing.                              *)
LEMMA SearchWithout ==
    ASSUME Sound, NEW i \in DOMAIN progress, NEW result \in {NoResults, ModelError, Policies},
           Done(i, result)
    PROVE  SearchEnds(i)
<1>1. result.cards = <<>>
    <2>1. result = Result(<<>>) /\ <<>> \in Seq(Cards)
        BY DEF NoResults, ModelError, Policies
    <2> QED BY <2>1, ResultOfCards
<1>2. progress'[i].result = result
    BY DEF Done, Executing
<1>3. ToSet(progress'[i].result.cards) = {}
    BY <1>1, <1>2 DEF ToSet
<1> QED BY <1>3 DEF SearchEnds

(* No other step ends a search.                                            *)
LEMMA SearchStep ==
    ASSUME Sound, TurnInv, [Next]_vars, NEW i \in DOMAIN progress,
           NameOf(i) = "search_products", progress[i].at # "done",
           i \in DOMAIN progress', progress'[i].at = "done"
    PROVE  SearchEnds(i)
<1>1. progress' # progress
    OBVIOUS
<1>2. DOMAIN progress # {}
    OBVIOUS
<1>3. stage = "tools"
    BY <1>2 DEF TurnInv, CallsShape
<1>4. CASE Execute
    <2>1. PICK j \in DOMAIN progress :
              Refuse(j) \/ ReadIndex(j) \/ ReadDocuments(j) \/ ExecutionFails(j)
        BY <1>4 DEF Execute
    <2>2. ASSUME NEW k \in DOMAIN progress, NEW state,
                 progress' = [progress EXCEPT ![k] = state]
          PROVE  i = k
        BY <2>2
    <2>3. CASE Refuse(j) \/ ExecutionFails(j)
        <3>1. Done(j, ModelError)
            BY <2>3 DEF Refuse, ExecutionFails
        <3>2. i = j
            BY <2>2, <3>1 DEF Done
        <3> QED BY <3>1, <3>2, SearchWithout
    <2>4. CASE ReadIndex(j)
        <3>1. \/ Done(j, NoResults)
              \/ \E hits : progress' = [progress EXCEPT ![j] = Executing("hits", hits, NoResults)]
            BY <2>4 DEF ReadIndex
        <3>2. CASE Done(j, NoResults)
            <4>1. i = j
                BY <2>2, <3>2 DEF Done
            <4> QED BY <3>2, <4>1, SearchWithout
        <3>3. ASSUME NEW hits, progress' = [progress EXCEPT ![j] = Executing("hits", hits, NoResults)]
              PROVE  FALSE
            <4>1. i = j
                BY <2>2, <3>3
            <4>2. progress'[i] = Executing("hits", hits, NoResults)
                BY <3>3, <4>1
            <4> QED BY <4>2 DEF Executing
        <3> QED BY <3>1, <3>2, <3>3
    <2>5. CASE ReadDocuments(j)
        <3>1. \E result : Done(j, result)
            BY <2>5 DEF ReadDocuments
        <3>2. i = j
            BY <2>2, <3>1 DEF Done
        <3>3. Done(i, SearchResult(docs, progress[i].hits, ArgsOf(i)))
            BY <2>5, <3>2 DEF ReadDocuments
        <3> QED BY <3>3, SearchAnswered
    <2> QED BY <2>1, <2>3, <2>4, <2>5
<1>5. CASE StartTurn \/ GenerationFails \/ Answer \/ RequestTools
    BY <1>3, <1>5 DEF StartTurn, GenerationFails, Answer, RequestTools
<1>6. CASE CollectResults
    <2>1. progress[i].at = "done"
        BY <1>6 DEF CollectResults
    <2> QED BY <2>1
<1>7. CASE UpsertProduct \/ FinishUpsert \/ HideProduct \/ UNCHANGED vars
    <2>1. progress' = progress
        BY <1>7 DEF UpsertProduct, FinishUpsert, HideProduct, turnVars, vars
    <2> QED BY <1>1, <2>1
<1> QED BY <1>4, <1>5, <1>6, <1>7 DEF Next

(* Whatever is written and hidden between the two reads of a search, what  *)
(* it shows of a product is as the document is, and is what the customer   *)
(* asked for, and the best of it, when the index had the product right and *)
(* the document has stayed the same (searchForChat of                      *)
(* products-chat.service.ts and the mapper of its cards).                  *)
THEOREM SearchesKeepTheirPromise ==
    ASSUME Sound
    PROVE  Spec => SearchKeepsPromise
<1>1. Init => TurnInv
    BY TurnInvInit
<1>2. TurnInv /\ [Next]_vars => TurnInv'
    BY TurnInvStep
<1> DEFINE Kept ==
        \A i \in DOMAIN progress :
            (/\ NameOf(i) = "search_products" /\ progress[i].at # "done"
             /\ i \in DOMAIN progress' /\ progress'[i].at = "done") => SearchEnds(i)
<1>3. TurnInv /\ [Next]_vars => [Kept]_vars
    BY SearchStep
<1>4. SearchKeepsPromise <=> [][Kept]_vars
    BY DEF SearchKeepsPromise, SearchEnds
<1> HIDE DEF Kept
<1>5. Spec => [][Kept]_vars
    BY <1>1, <1>2, <1>3, PTL DEF Spec
<1> QED BY <1>4, <1>5

(* A reply shows the cards it has a tag for, each of them once, and no     *)
(* others (build of chat-response.builder.ts).                             *)
THEOREM TaggedCardsAreShownOnce ==
    ASSUME Sound
    PROVE  Spec => TaggedAreShownOnce
<1> DEFINE Shows ==
        reply'.status = "answered" /\ stage' # stage =>
            LET tagged == reply'.tagged \cap {c.id : c \in ToSet(found)} IN
            /\ {c.id : c \in ToSet(reply'.cards)} = tagged
            /\ Len(reply'.cards) = Cardinality(tagged)
<1>1. Init => TurnInv
    BY TurnInvInit
<1>2. TurnInv /\ [Next]_vars => TurnInv'
    BY TurnInvStep
<1>3. ASSUME TurnInv, Next PROVE Shows
    <2> SUFFICES ASSUME reply'.status = "answered", stage' # stage
                 PROVE  /\ IdsIn(reply'.cards) = reply'.tagged \cap IdsIn(found)
                        /\ Len(reply'.cards) = Cardinality(reply'.tagged \cap IdsIn(found))
        BY DEF IdsIn
    <2>1. PICK text : reply' = BuildResponse(text, found)
        <3>1. /\ NoReply = [status |-> "none", tagged |-> {}, cards |-> <<>>]
              /\ NoReply.status = "none"
            BY DEF NoReply
        <3>2. GenerationFails => reply'.status = "error"
            <4> SUFFICES ASSUME GenerationFails PROVE reply'.status = "error"
                OBVIOUS
            <4>1. reply' = [status |-> "error", tagged |-> {}, cards |-> <<>>]
                BY DEF GenerationFails, NoReply
            <4> QED BY <4>1
        <3>3. stage # "idle" => reply.status = "none"
            BY <1>3, <3>1 DEF TurnInv, StageShape
        <3>4. Answer \/ (CollectResults /\ LastRound)
            BY <1>3, <3>1, <3>2, <3>3 DEF Next, StartTurn, RequestTools, Execute, CollectResults,
               UpsertProduct, FinishUpsert, HideProduct, turnVars
        <3> QED BY <3>4 DEF Answer, CollectResults, Finish
    <2>2. found \in Seq(Cards) /\ IdsIn(found) \subseteq Ids
        <3>1. ToSet(found) \subseteq Cards /\ found \in Seq(Cards)
            BY <1>3 DEF TurnInv, CallsShape, ToSet
        <3> QED BY <3>1 DEF IdsIn, Cards
    <2> QED BY <2>1, <2>2, ReplyShowsTagged
<1>4. TurnInv /\ [Next]_vars => [Shows]_vars
    BY <1>3
<1> QED BY <1>1, <1>2, <1>4, PTL DEF Spec, TaggedAreShownOnce

-------------------------------------------------------------------------------
(* The state of a turn is of its types: whatever is requested, executed    *)
(* and answered, no call is without its execution, no round is beyond the  *)
(* last, and no message is of an unknown kind.                             *)
THEOREM ChatTypes ==
    ASSUME Sound
    PROVE  Spec => []ChatTypeOK
<1>1. Init => TurnInv
    BY TurnInvInit
<1>2. TurnInv /\ [Next]_vars => TurnInv'
    BY TurnInvStep
<1>3. TurnInv => ChatTypeOK
    <2> SUFFICES ASSUME TurnInv PROVE ChatTypeOK
        OBVIOUS
    <2>1. /\ DOMAIN docs = DOMAIN Catalogue /\ DOMAIN index = DOMAIN Catalogue
          /\ changed \in 0..Len(Topics) /\ \A w \in owed : w.product \in DOMAIN docs
          /\ \A s \in steady : s[1] \in DOMAIN progress /\ s[2] \in DOMAIN docs
        BY DEF TurnInv, DocsShape, PromiseInv
    <2>2. /\ stage \in {"idle", "ask", "tools"} /\ round \in 0..(MAX_TOOL_ROUNDS - 1)
          /\ turn \in 0..Len(Topics) /\ made \in 0..MaxCalls /\ shown \subseteq Ids
        BY DEF TurnInv, StageShape
    <2>3. DOMAIN progress = DOMAIN calls
        BY DEF TurnInv, CallsShape
    <2>4. \A i \in DOMAIN progress : progress[i].at \in {"called", "hits", "done"}
        BY CallTypes DEF Executions
    <2>5. ASSUME NEW m \in ToSet((history \o messages) \o saved)
          PROVE  m.role \in {"user", "assistant", "tool"}
        <3>1. (history \o messages) \o saved \in Seq(MessageSet)
            BY DEF TurnInv, MessagesShape
        <3>2. m \in MessageSet
            BY <3>1 DEF ToSet
        <3> QED BY <3>2 DEF MessageSet
    <2> QED BY <2>1, <2>2, <2>3, <2>4, <2>5 DEF ChatTypeOK
<1> QED BY <1>1, <1>2, <1>3, PTL DEF Spec

-------------------------------------------------------------------------------
(* What is sent to Gemini: parts of a list.                                *)

(* A number is listed at the place that the ones below it leave it.        *)
LEMMA AscendingAt ==
    ASSUME NEW S \in SUBSET Nat, IsFiniteSet(S), NEW i \in S,
           NEW k, k = Cardinality(Below(S, i)) + 1
    PROVE  k \in 1..Cardinality(S) /\ Ascending(S)[k] = i
<1>1. /\ Cardinality(S) \in Nat
      /\ \A j \in S : Cardinality(Below(S, j)) \in 0..(Cardinality(S) - 1)
      /\ \A j, l \in S : j < l => Cardinality(Below(S, j)) < Cardinality(Below(S, l))
    BY BelowCount
<1>2. k \in 1..Cardinality(S) /\ Cardinality(Below(S, i)) = k - 1
    BY <1>1
<1>3. \A j \in S : Cardinality(Below(S, j)) = k - 1 => j = i
    <2> SUFFICES ASSUME NEW j \in S, Cardinality(Below(S, j)) = k - 1 PROVE j = i
        OBVIOUS
    <2>1. j \in Nat /\ i \in Nat
        OBVIOUS
    <2>2. ~(j < i) /\ ~(i < j)
        BY <1>1, <1>2
    <2> QED BY <2>1, <2>2
<1>4. Ascending(S)[k] = CHOOSE j \in S : Cardinality({l \in S : l < j}) = k - 1
    BY <1>2 DEF Ascending
<1>5. Cardinality({l \in S : l < i}) = k - 1
    BY <1>2 DEF Below
<1>6. \A j \in S : Cardinality({l \in S : l < j}) = k - 1 => j = i
    BY <1>3 DEF Below
<1> QED BY <1>2, <1>4, <1>5, <1>6

(* A list of which nothing is kept.                                        *)
LEMMA SelectNone ==
    ASSUME NEW s
    PROVE  Select(s, {}) = <<>>
<1>1. Cardinality({}) = 0
    BY FS_EmptySet
<1>2. DOMAIN Ascending({}) = 1..0
    BY <1>1 DEF Ascending
<1>3. DOMAIN Select(s, {}) = 1..0
    BY <1>2 DEF Select
<1>4. Select(s, {}) = [k \in 1..0 |-> s[Ascending({})[k]]]
    BY <1>2 DEF Select
<1> QED BY <1>4

(* A stretch of a list.                                                    *)
LEMMA SelectStretch ==
    ASSUME NEW T, NEW s \in Seq(T), NEW o \in Nat, NEW n \in Nat, o + n <= Len(s)
    PROVE  /\ Select(s, (o + 1)..(o + n)) \in Seq(T)
           /\ Len(Select(s, (o + 1)..(o + n))) = n
           /\ \A k \in 1..n : Select(s, (o + 1)..(o + n))[k] = s[o + k]
<1> DEFINE kept == (o + 1)..(o + n)
<1>1. kept \subseteq DOMAIN s /\ kept \in SUBSET Nat
    OBVIOUS
<1>2. IsFiniteSet(kept) /\ Cardinality(kept) = n
    <2>1. /\ IsFiniteSet(kept)
          /\ Cardinality(kept) = IF o + 1 > o + n THEN 0 ELSE (o + n) - (o + 1) + 1
        BY FS_Interval
    <2> HIDE DEF kept
    <2> QED BY <2>1
<1>3. ASSUME NEW k \in 1..n PROVE Ascending(kept)[k] = o + k
    <2>1. o + k \in kept
        OBVIOUS
    <2>2. Below(kept, o + k) = (o + 1)..(o + k - 1)
        BY DEF Below
    <2>3. Cardinality((o + 1)..(o + k - 1)) = k - 1
        <3>1. Cardinality((o + 1)..(o + k - 1))
                  = IF o + 1 > o + k - 1 THEN 0 ELSE (o + k - 1) - (o + 1) + 1
            BY FS_Interval
        <3> QED BY <3>1
    <2>4. k = Cardinality(Below(kept, o + k)) + 1
        BY <2>2, <2>3
    <2> HIDE DEF kept
    <2> QED BY <1>1, <1>2, <2>1, <2>4, AscendingAt
<1> HIDE DEF kept
<1>4. /\ Select(s, kept) \in Seq(T) /\ Len(Select(s, kept)) = Cardinality(kept)
      /\ \A k \in 1..Cardinality(kept) : Select(s, kept)[k] = s[Ascending(kept)[k]]
    BY <1>1, SelectKeeps
<1>5. /\ Select(s, kept) \in Seq(T) /\ Len(Select(s, kept)) = n
      /\ \A k \in 1..n : Select(s, kept)[k] = s[o + k]
    BY <1>2, <1>3, <1>4
<1> QED BY <1>5 DEF kept

(* All of a list.                                                          *)
LEMMA SelectAll ==
    ASSUME NEW T, NEW s \in Seq(T)
    PROVE  Select(s, DOMAIN s) = s
<1>1. DOMAIN s = (0 + 1)..(0 + Len(s)) /\ Len(s) \in Nat
    OBVIOUS
<1>2. /\ Select(s, (0 + 1)..(0 + Len(s))) \in Seq(T)
      /\ Len(Select(s, (0 + 1)..(0 + Len(s)))) = Len(s)
      /\ \A k \in 1..Len(s) : Select(s, (0 + 1)..(0 + Len(s)))[k] = s[0 + k]
    <2> DEFINE o == 0
    <2>1. o \in Nat /\ Len(s) \in Nat /\ o + Len(s) <= Len(s) /\ s \in Seq(T)
        OBVIOUS
    <2> HIDE DEF o
    <2>2. /\ Select(s, (o + 1)..(o + Len(s))) \in Seq(T)
          /\ Len(Select(s, (o + 1)..(o + Len(s)))) = Len(s)
          /\ \A k \in 1..Len(s) : Select(s, (o + 1)..(o + Len(s)))[k] = s[o + k]
        BY <2>1, SelectStretch
    <2> QED BY <2>2 DEF o
<1>3. /\ Select(s, DOMAIN s) \in Seq(T) /\ Len(Select(s, DOMAIN s)) = Len(s)
      /\ \A k \in 1..Len(s) : Select(s, DOMAIN s)[k] = s[k]
    BY <1>1, <1>2
<1> QED BY <1>3, SeqEqual
-------------------------------------------------------------------------------
(* What is sent to Gemini: the messages of a turn.                         *)

DistinctIds(asked) == \A i, j \in DOMAIN asked : asked[i].id = asked[j].id => i = j

(* The request at j is answered by the messages after it, call by call,    *)
(* and what follows is another request.                                    *)
Answered(m, j) ==
    LET n == Len(m[j].calls) IN
    /\ j + n <= Len(m)
    /\ \A k \in 1..n : m[j + k].role = "tool" /\ m[j + k].callId = m[j].calls[k].id
    /\ j + n < Len(m) => RequestsTools(m[j + n + 1])

(* The message at j is one of the results of the request at r.             *)
ResultOf(m, r, j) == RequestsTools(m[r]) /\ r < j /\ j <= r + Len(m[r].calls)

(* After the message at L there are rounds: requests with their results.   *)
Rounds(m, L) ==
    /\ L < Len(m) => RequestsTools(m[L + 1])
    /\ \A j \in (L + 1)..Len(m) :
         \/ RequestsTools(m[j]) /\ DistinctIds(m[j].calls) /\ Answered(m, j)
         \/ m[j].role = "tool" /\ \E r \in (L + 1)..Len(m) : ResultOf(m, r, j)

(* A prompt: what is left of the history l, what the customer has said, and *)
(* the rounds so far.                                                      *)
Asking(l, m) ==
    LET h == PromptHistory(l, HISTORY_TAIL_CEILING)
        L == Len(h) + 1 IN
    /\ L <= Len(m) /\ IsUser(m[L])
    /\ \A i \in 1..Len(h) : m[i] = h[i]
    /\ Rounds(m, L)

PromptInv ==
    /\ stage = "ask" => Asking(history, messages)
    /\ stage = "tools" =>
         /\ calls # <<>> /\ DistinctIds(calls)
         /\ \E m \in Seq(MessageSet), text \in SUBSET Names :
              /\ Asking(history, m) /\ messages = Append(m, ToolRequest(text, calls))
              /\ ToolRequest(text, calls) \in MessageSet

(* A request and the results of its calls are one more round.              *)
LEMMA RoundAdds ==
    ASSUME NEW m \in Seq(MessageSet), NEW L \in Nat, L <= Len(m), Rounds(m, L),
           NEW q \in MessageSet, RequestsTools(q), DistinctIds(q.calls),
           NEW results \in Seq(MessageSet), Len(results) = Len(q.calls),
           \A k \in 1..Len(results) :
               results[k].role = "tool" /\ results[k].callId = q.calls[k].id
    PROVE  LET new == Append(m, q) \o results IN
           /\ new \in Seq(MessageSet) /\ Len(new) = Len(m) + 1 + Len(results)
           /\ \A i \in 1..Len(m) : new[i] = m[i]
           /\ Rounds(new, L)
<1> DEFINE N == Len(m)
           n == Len(results)
           with == Append(m, q)
           new == with \o results
<1>0. N \in Nat /\ n \in Nat /\ L \in Nat /\ L <= N
    OBVIOUS
<1>1. /\ with \in Seq(MessageSet) /\ Len(with) = N + 1
      /\ \A i \in 1..N : with[i] = m[i]
      /\ with[N + 1] = q
    BY AppendProperties
<1> HIDE DEF with
<1>2. /\ new \in Seq(MessageSet) /\ Len(new) = Len(with) + n
      /\ \A i \in 1..(Len(with) + n) :
           new[i] = IF i <= Len(with) THEN with[i] ELSE results[i - Len(with)]
    BY ONLY <1>1, ConcatProperties, results \in Seq(MessageSet)
<1> HIDE DEF new, N, n
<1>3. /\ Len(new) = N + 1 + n
      /\ \A i \in 1..N : new[i] = m[i]
      /\ new[N + 1] = q
      /\ \A k \in 1..n : new[N + 1 + k] = results[k]
    BY <1>0, <1>1, <1>2
<1>4. /\ Len(q.calls) = n
      /\ \A k \in 1..n :
           results[k].role = "tool" /\ results[k].callId = q.calls[k].id
    BY DEF n
<1>5. RequestsTools(new[L + 1])
    <2>1. CASE L < N
        <3>1. RequestsTools(m[L + 1])
            BY <2>1 DEF Rounds, N
        <3> QED BY <1>0, <1>3, <2>1, <3>1
    <2>2. CASE L = N
        BY <1>3, <2>2
    <2> QED BY <1>0, <2>1, <2>2
<1>6. ASSUME NEW j \in (L + 1)..N, RequestsTools(m[j]), DistinctIds(m[j].calls), Answered(m, j)
      PROVE  RequestsTools(new[j]) /\ DistinctIds(new[j].calls) /\ Answered(new, j)
    <2> DEFINE c == Len(m[j].calls)
    <2>1. new[j] = m[j]
        BY <1>0, <1>3
    <2>2. m[j] \in MessageSet /\ c \in Nat
        <3>1. j \in 1..Len(m)
            BY <1>0 DEF N
        <3>2. m[j] \in MessageSet
            BY <3>1
        <3> QED BY <3>2 DEF MessageSet
    <2> HIDE DEF c
    <2>3. /\ j + c <= N
          /\ \A k \in 1..c : m[j + k].role = "tool" /\ m[j + k].callId = m[j].calls[k].id
          /\ j + c < N => RequestsTools(m[j + c + 1])
        BY <1>6 DEF Answered, c, N
    <2>4. \A k \in 1..c : new[j + k] = m[j + k]
        BY <1>0, <1>3, <2>2, <2>3
    <2>5. RequestsTools(new[j + c + 1])
        <3>1. CASE j + c < N
            <4>1. new[j + c + 1] = m[j + c + 1]
                BY <1>0, <1>3, <2>2, <3>1
            <4> QED BY <2>3, <3>1, <4>1
        <3>2. CASE j + c = N
            BY <1>3, <3>2
        <3>3. j + c < N \/ j + c = N
            BY <1>0, <2>2, <2>3
        <3> QED BY <3>1, <3>2, <3>3
    <2>6. j + c <= Len(new)
        BY <1>0, <1>3, <2>2, <2>3
    <2>7. Answered(new, j)
        BY <2>1, <2>3, <2>4, <2>5, <2>6 DEF Answered, c
    <2> QED BY <1>6, <2>1, <2>7
<1>7. ASSUME NEW j \in (L + 1)..N, m[j].role = "tool",
             NEW r \in (L + 1)..N, ResultOf(m, r, j)
      PROVE  new[j].role = "tool" /\ r \in (L + 1)..Len(new) /\ ResultOf(new, r, j)
    <2>1. new[j] = m[j] /\ new[r] = m[r]
        BY <1>0, <1>3
    <2>2. r \in (L + 1)..Len(new)
        BY <1>0, <1>3
    <2> QED BY <1>7, <2>1, <2>2 DEF ResultOf
<1>8. RequestsTools(new[N + 1]) /\ DistinctIds(new[N + 1].calls) /\ Answered(new, N + 1)
    <2>1. (N + 1) + n <= Len(new) /\ ~((N + 1) + n < Len(new))
        BY <1>0, <1>3
    <2>2. \A k \in 1..n : new[(N + 1) + k].role = "tool"
                          /\ new[(N + 1) + k].callId = q.calls[k].id
        BY <1>3, <1>4
    <2> QED BY <1>3, <1>4, <2>1, <2>2 DEF Answered
<1>9. ASSUME NEW j \in (N + 2)..Len(new)
      PROVE  /\ new[j].role = "tool"
             /\ N + 1 \in (L + 1)..Len(new) /\ ResultOf(new, N + 1, j)
    <2>1. PICK k \in 1..n : j = N + 1 + k
        <3>1. j - (N + 1) \in 1..n /\ j = N + 1 + (j - (N + 1))
            BY <1>0, <1>3
        <3> QED BY <3>1
    <2>2. new[j].role = "tool"
        BY <1>3, <1>4, <2>1
    <2>3. N + 1 \in (L + 1)..Len(new) /\ N + 1 < j /\ j <= (N + 1) + Len(q.calls)
        BY <1>0, <1>3, <1>4, <2>1
    <2> QED BY <1>3, <2>2, <2>3 DEF ResultOf
<1>10. ASSUME NEW j \in (L + 1)..Len(new)
       PROVE  \/ RequestsTools(new[j]) /\ DistinctIds(new[j].calls) /\ Answered(new, j)
              \/ new[j].role = "tool" /\ \E r \in (L + 1)..Len(new) : ResultOf(new, r, j)
    <2>1. CASE j \in (L + 1)..N
        <3>1. \/ RequestsTools(m[j]) /\ DistinctIds(m[j].calls) /\ Answered(m, j)
              \/ m[j].role = "tool" /\ \E r \in (L + 1)..N : ResultOf(m, r, j)
            BY <2>1 DEF Rounds, N
        <3> QED BY <1>6, <1>7, <2>1, <3>1
    <2>2. CASE j = N + 1
        BY <1>8, <2>2
    <2>3. CASE j \in (N + 2)..Len(new)
        BY <1>9, <2>3
    <2> QED BY <1>0, <1>3, <2>1, <2>2, <2>3
<1>11. Rounds(new, L)
    BY <1>5, <1>10 DEF Rounds
<1> QED BY <1>2, <1>3, <1>11 DEF new, with, N, n

(* At first nothing is asked, and a turn begins without a round.           *)
LEMMA PromptStart ==
    ASSUME Sound, TurnInv, StartTurn
    PROVE  PromptInv'
<1> DEFINE h == PromptHistory(history, HISTORY_TAIL_CEILING)
           said == User({Topics[turn + 1]})
           m == Append(h, said)
<1>1. turn + 1 \in 1..Len(Topics)
    BY DEF Sound, TurnInv, DocsShape, StageShape, StartTurn, Room
<1>2. said \in MessageSet /\ IsUser(said)
    <2>1. {Topics[turn + 1]} \in SUBSET Names
        BY <1>1 DEF Sound
    <2>2. <<>> \in Seq(CallSet)
        OBVIOUS
    <2> QED BY <2>1, <2>2 DEF User, Message, MessageSet, IsUser
<1>3. h \in Seq(MessageSet)
    BY PromptType DEF TurnInv, MessagesShape, Sound
<1>4. messages' = m /\ history' = history /\ stage' = "ask"
    BY DEF StartTurn
<1> HIDE DEF h, said
<1>5. Len(m) = Len(h) + 1 /\ Len(h) \in Nat /\ m[Len(h) + 1] = said
      /\ \A i \in 1..Len(h) : m[i] = h[i]
    BY <1>2, <1>3, AppendProperties
<1> HIDE DEF m
<1>6. Rounds(m, Len(h) + 1)
    BY <1>5 DEF Rounds
<1>7. Asking(history, m)
    BY <1>2, <1>5, <1>6 DEF Asking, h
<1>8. Asking(history', messages')
    BY <1>4, <1>7
<1> QED BY <1>4, <1>8 DEF PromptInv

(* A request waits for the results of its calls.                           *)
LEMMA PromptRequest ==
    ASSUME Sound, TurnInv, PromptInv, RequestTools
    PROVE  PromptInv'
<1>1. PICK text \in SUBSET Names :
          /\ calls' # <<>> /\ DistinctIds(calls')
          /\ messages' = Append(messages, ToolRequest(text, calls'))
          /\ ToolRequest(text, calls') \in MessageSet
    BY RequestToolsAdds DEF DistinctIds
<1>2. stage = "ask" /\ stage' = "tools" /\ history' = history
    BY DEF RequestTools
<1>3. messages \in Seq(MessageSet) /\ Asking(history, messages)
    BY <1>2 DEF TurnInv, MessagesShape, PromptInv
<1> QED BY <1>1, <1>2, <1>3 DEF PromptInv

(* The results of the calls are a round, and nothing else adds one.        *)
LEMMA PromptCollect ==
    ASSUME Sound, TurnInv, PromptInv, CollectResults
    PROVE  PromptInv'
<1>1. CASE LastRound
    <2>1. stage' = "idle"
        BY <1>1 DEF CollectResults, Finish
    <2> QED BY <2>1 DEF PromptInv
<1>2. CASE ~LastRound
    <2>1. /\ messages' = messages \o ToolResults /\ stage' = "ask" /\ history' = history
          /\ stage = "tools"
        BY <1>2 DEF CollectResults
    <2>2. PICK m \in Seq(MessageSet), text \in SUBSET Names :
              /\ Asking(history, m) /\ messages = Append(m, ToolRequest(text, calls))
              /\ ToolRequest(text, calls) \in MessageSet
        BY <2>1 DEF PromptInv
    <2> DEFINE q == ToolRequest(text, calls)
               h == PromptHistory(history, HISTORY_TAIL_CEILING)
               L == Len(h) + 1
               new == Append(m, q) \o ToolResults
    <2>3. q.calls = calls /\ RequestsTools(q) /\ DistinctIds(q.calls) /\ q \in MessageSet
        BY <2>1, <2>2 DEF PromptInv, ToolRequest, Message, RequestsTools
    <2>4. /\ ToolResults \in Seq(MessageSet) /\ Len(ToolResults) = Len(calls)
          /\ \A k \in 1..Len(calls) :
               ToolResults[k].role = "tool" /\ ToolResults[k].callId = calls[k].id
        BY ToolResultTypes
    <2>5. h \in Seq(MessageSet)
        BY PromptType DEF TurnInv, MessagesShape, Sound
    <2> HIDE DEF q, h
    <2>6. L \in Nat /\ L <= Len(m) /\ Rounds(m, L)
        BY <2>2, <2>5 DEF Asking, h
    <2> HIDE DEF L
    <2>7. /\ Len(new) = Len(m) + 1 + Len(ToolResults) /\ Rounds(new, L)
          /\ \A i \in 1..Len(m) : new[i] = m[i]
        <3>1. /\ m \in Seq(MessageSet) /\ q \in MessageSet /\ RequestsTools(q)
              /\ DistinctIds(q.calls) /\ ToolResults \in Seq(MessageSet)
              /\ Len(ToolResults) = Len(q.calls)
            BY <2>3, <2>4
        <3>2. \A k \in 1..Len(ToolResults) :
                  ToolResults[k].role = "tool" /\ ToolResults[k].callId = q.calls[k].id
            BY <2>3, <2>4
        <3> QED BY ONLY <2>6, <3>1, <3>2, RoundAdds
    <2>8. messages' = new
        BY <2>1, <2>2 DEF q
    <2> HIDE DEF new
    <2>9. L <= Len(new) /\ new[L] = m[L] /\ \A i \in 1..Len(h) : new[i] = m[i]
        <3>1. Len(m) \in Nat /\ Len(ToolResults) \in Nat /\ Len(h) \in Nat /\ L = Len(h) + 1
            BY <2>4, <2>5 DEF L
        <3> QED BY <2>6, <2>7, <3>1
    <2>10. Asking(history, new)
        BY <2>2, <2>7, <2>9 DEF Asking, L, h
    <2> QED BY <2>1, <2>8, <2>10 DEF PromptInv
<1> QED BY <1>1, <1>2

(* So the messages that are sent are always a prompt with its rounds.      *)
LEMMA PromptStep ==
    ASSUME Sound, TurnInv, PromptInv, [Next]_vars
    PROVE  PromptInv'
<1>1. CASE StartTurn
    BY <1>1, PromptStart
<1>2. CASE GenerationFails
    BY <1>2 DEF GenerationFails, PromptInv
<1>3. CASE Answer
    BY <1>3 DEF Answer, Finish, PromptInv
<1>4. CASE RequestTools
    BY <1>4, PromptRequest
<1>5. CASE Execute
    BY <1>5 DEF Execute, PromptInv
<1>6. CASE CollectResults
    BY <1>6, PromptCollect
<1>7. CASE UpsertProduct \/ FinishUpsert \/ HideProduct
    BY <1>7 DEF UpsertProduct, FinishUpsert, HideProduct, turnVars, PromptInv
<1>8. CASE UNCHANGED vars
    BY <1>8 DEF vars, PromptInv
<1> QED BY <1>1, <1>2, <1>3, <1>4, <1>5, <1>6, <1>7, <1>8 DEF Next

(* The history in a prompt begins with a customer, and if what the         *)
(* customer said at b is among the last n messages it is part of it.       *)
LEMMA HistoryBegins ==
    ASSUME NEW T, NEW l \in Seq(T), NEW n \in Nat \ {0}
    PROVE  LET h == PromptHistory(l, n) IN
           /\ h \in Seq(T)
           /\ h # <<>> => IsUser(h[1])
           /\ \A b \in 1..Len(l) :
                IsUser(l[b]) /\ Len(l) - b + 1 <= n => \E j \in 1..Len(h) : h[j] = l[b]
<1> DEFINE begin == IF Len(l) > n THEN Len(l) - n + 1 ELSE 1
           size == Len(l)
           s == SubSeq(l, begin, size)
           I == {i \in 1..Len(s) : IsUser(s[i])}
           first == SelectInSeq(s, IsUser)
           h == IF first = 0 THEN <<>> ELSE SubSeq(s, first, Len(s))
<1>1. begin \in 1..(size + 1) /\ size \in Nat /\ begin \in Int /\ size \in Int
      /\ \A b \in 1..size : size - b + 1 <= n => begin <= b
    OBVIOUS
<1> HIDE DEF begin
<1>2. \A i \in begin..size : l[i] \in T
    BY <1>1
<1> HIDE DEF size
<1>3. /\ s \in Seq(T) /\ Len(s) = IF begin <= size THEN size - begin + 1 ELSE 0
      /\ \A i \in 1..(size - begin + 1) : s[i] = l[begin + i - 1]
    BY ONLY <1>1, <1>2, SubSeqProperties
<1> HIDE DEF s
<1>4. I \in SUBSET Nat /\ I \subseteq 1..Len(s) /\ \A i \in I : IsUser(s[i])
    BY <1>3
<1>5. first = IF I # {} THEN Min(I) ELSE 0
    BY DEF SelectInSeq
<1>6. I # {} => first \in I /\ \A i \in I : first <= i
    BY <1>4, <1>5, HasLeast
<1>7. \A i \in 1..Len(s) : IsUser(s[i]) => i \in I
    OBVIOUS
<1> HIDE DEF I, first
<1>8. ASSUME I # {}
      PROVE  /\ h \in Seq(T) /\ Len(h) = Len(s) - first + 1
             /\ \A j \in 1..Len(h) : h[j] = s[first + j - 1]
             /\ first \in 1..Len(s)
    <2>1. first \in 1..Len(s) /\ first \in Int /\ Len(s) \in Int /\ first # 0
        <3>1. first \in I /\ Len(s) \in Nat
            BY <1>3, <1>6, <1>8
        <3>2. first \in 1..Len(s)
            BY <1>4, <3>1
        <3> QED BY <3>1, <3>2
    <2>2. \A i \in first..Len(s) : s[i] \in T
        BY <1>3, <2>1
    <2>3. /\ SubSeq(s, first, Len(s)) \in Seq(T)
          /\ Len(SubSeq(s, first, Len(s))) = IF first <= Len(s) THEN Len(s) - first + 1 ELSE 0
          /\ \A i \in 1..(Len(s) - first + 1) :
               SubSeq(s, first, Len(s))[i] = s[first + i - 1]
        BY ONLY <2>1, <2>2, SubSeqProperties
    <2> QED BY <2>1, <2>3
<1>9. I = {} => h = <<>>
    BY <1>5
<1>10. h = PromptHistory(l, n)
    BY DEF PromptHistory, h, first, s, begin, size
<1> HIDE DEF h
<1>11. h \in Seq(T)
    <2>1. <<>> \in Seq(T)
        OBVIOUS
    <2> QED BY <1>8, <1>9, <2>1
<1>12. ASSUME h # <<>> PROVE IsUser(h[1])
    <2>1. I # {}
        BY <1>9, <1>12
    <2>2. first \in I /\ first \in 1..Len(s) /\ Len(s) \in Nat
        BY <1>3, <1>6, <1>8, <2>1
    <2>3. h[1] = s[first]
        <3>1. Len(h) = Len(s) - first + 1 /\ \A j \in 1..Len(h) : h[j] = s[first + j - 1]
            BY <1>8, <2>1
        <3>2. 1 \in 1..Len(h) /\ first + 1 - 1 = first
            BY <2>2, <3>1
        <3> QED BY <3>1, <3>2
    <2> QED BY <1>4, <2>2, <2>3
<1>13. ASSUME NEW b \in 1..Len(l), IsUser(l[b]), Len(l) - b + 1 <= n
       PROVE  \E j \in 1..Len(h) : h[j] = l[b]
    <2> DEFINE p == b - begin + 1
    <2>1. begin <= b /\ b <= size /\ b \in Nat
        BY <1>1, <1>13 DEF size
    <2>2. p \in 1..Len(s) /\ s[p] = l[b]
        BY <1>1, <1>3, <2>1
    <2> HIDE DEF p
    <2>3. p \in I
        BY <1>7, <1>13, <2>2
    <2>4. first <= p /\ first \in 1..Len(s) /\ p \in Nat /\ Len(s) \in Nat
        BY <1>3, <1>6, <1>8, <2>2, <2>3
    <2>5. p - first + 1 \in 1..Len(h) /\ h[p - first + 1] = s[p]
        <3>1. Len(h) = Len(s) - first + 1 /\ \A j \in 1..Len(h) : h[j] = s[first + j - 1]
            BY <1>8, <2>3
        <3>2. p - first + 1 \in 1..Len(h) /\ first + (p - first + 1) - 1 = p
            BY <2>2, <2>4, <3>1
        <3> QED BY <3>1, <3>2
    <2> QED BY <2>2, <2>5
<1> QED BY <1>10, <1>11, <1>12, <1>13

(* What is sent of the messages m, if the customer spoke last at L and     *)
(* there are rounds after that: nothing of a round before L, and all that  *)
(* customers said.                                                         *)
Sent(m, L, S, K) ==
    /\ K \in 1..Len(S) /\ IsUser(S[1]) /\ IsUser(S[K])
    /\ \A k \in 1..(K - 1) : S[k].role # "tool" /\ ~RequestsTools(S[k])
    /\ Rounds(S, K)
    /\ \A i \in 1..L : IsUser(m[i]) => \E k \in 1..Len(S) : S[k] = m[i]

(* So it is with the messages of a turn: what the sanitizing drops is      *)
(* before L, where no message of a customer is lost.                       *)
LEMMA SentShape ==
    ASSUME NEW m \in Seq(MessageSet), NEW L \in 1..Len(m), IsUser(m[L]), IsUser(m[1]),
           Rounds(m, L)
    PROVE  /\ Sanitized(m) \in Seq(MessageSet)
           /\ \E K \in 1..Len(Sanitized(m)) : Sent(m, L, Sanitized(m), K)
<1> DEFINE N == Len(m)
           Users == {i \in 1..N : IsUser(m[i])}
           Stays(x) == x.role # "tool" /\ (RequestsTools(x) => x.text # {})
           shorn == [i \in DOMAIN m |-> IF i < L /\ RequestsTools(m[i])
                                        THEN Assistant(m[i].text) ELSE m[i]]
           kept == {i \in DOMAIN m : i < L => Stays(m[i])}
           A == Ascending(kept)
           S == Select(shorn, kept)
           before == Below(kept, L)
           K == Cardinality(before) + 1
<1>0. N \in Nat /\ L \in 1..N /\ DOMAIN m = 1..N /\ \A i \in 1..N : m[i] \in MessageSet
    OBVIOUS
<1>1. SelectLastInSeq(m, IsUser) = L
    <2>1. Users \in SUBSET Nat /\ L \in Users /\ \A i \in Users : i <= N
        BY <1>0
    <2>2. \A i \in Users : i <= L
        <3> SUFFICES ASSUME NEW i \in (L + 1)..N PROVE ~IsUser(m[i])
            BY <1>0
        <3>1. RequestsTools(m[i]) \/ m[i].role = "tool"
            BY DEF Rounds
        <3> QED BY <3>1 DEF RequestsTools, IsUser
    <2>3. Max(Users) \in Users /\ \A i \in Users : i <= Max(Users)
        BY <1>0, <2>1, HasGreatest
    <2>4. Max(Users) = L
        <3> HIDE DEF Users
        <3>1. Max(Users) \in Nat /\ L \in Nat
            BY <2>1, <2>3
        <3>2. Max(Users) <= L /\ L <= Max(Users)
            BY <2>1, <2>2, <2>3
        <3> QED BY <3>1, <3>2
    <2>5. SelectLastInSeq(m, IsUser) = IF Users # {} THEN Max(Users) ELSE 0
        BY DEF SelectLastInSeq
    <2> HIDE DEF Users
    <2> QED BY <2>1, <2>4, <2>5
<1>2. Sanitized(m) = S
    BY <1>1 DEF Sanitized
<1>3. shorn \in Seq(MessageSet) /\ Len(shorn) = N
    <2>1. ASSUME NEW i \in 1..N PROVE Assistant(m[i].text) \in MessageSet
        <3>1. <<>> \in Seq(CallSet) /\ m[i].text \in SUBSET Names
            BY <1>0 DEF MessageSet
        <3> QED BY <3>1 DEF Assistant, Message, MessageSet
    <2>2. shorn \in [1..N -> MessageSet]
        BY <1>0, <2>1
    <2> QED BY <1>0, <2>2
<1>4. \A i \in 1..N :
         /\ i >= L \/ ~RequestsTools(m[i]) => shorn[i] = m[i]
         /\ i < L /\ RequestsTools(m[i]) => shorn[i] = Assistant(m[i].text)
    BY <1>0
<1> HIDE DEF shorn
<1>5. /\ kept \subseteq 1..N /\ L..N \subseteq kept
      /\ \A i \in 1..N : IsUser(m[i]) => i \in kept
      /\ \A i \in kept : i < L => m[i].role # "tool"
    BY <1>0 DEF IsUser, RequestsTools
<1> HIDE DEF kept
<1>6. /\ IsFiniteSet(kept) /\ kept \in SUBSET Nat /\ Cardinality(kept) \in Nat
      /\ A \in [1..Cardinality(kept) -> kept]
      /\ \A k, l \in 1..Cardinality(kept) : k < l => A[k] < A[l]
      /\ \A i \in kept : \E k \in 1..Cardinality(kept) : A[k] = i
      /\ S \in Seq(MessageSet) /\ Len(S) = Cardinality(kept)
      /\ \A k \in 1..Cardinality(kept) : S[k] = shorn[A[k]]
    <2>1. kept \subseteq DOMAIN shorn
        BY <1>0, <1>3, <1>5
    <2> QED BY <1>3, <1>5, <2>1, SelectKeeps
<1>7. IsFiniteSet(before) /\ Cardinality(before) \in Nat
    <2>1. before \subseteq kept
        BY DEF Below
    <2> QED BY <1>6, <2>1, FS_Subset, FS_CardinalityType
<1>8. /\ Len(S) = K + (N - L)
      /\ \A d \in 0..(N - L) : K + d \in 1..Len(S) /\ S[K + d] = m[L + d]
    <2>1. ASSUME NEW d \in 0..(N - L)
          PROVE  /\ Cardinality(Below(kept, L + d)) = (K - 1) + d
        <3>1. Below(kept, L + d) = before \cup (L..(L + d - 1))
            <4>1. ASSUME NEW i \in kept, i < L + d
                  PROVE  i \in before \cup (L..(L + d - 1))
                <5>1. i \in Int /\ L \in Int /\ d \in Int
                    BY <1>0, <1>5
                <5>2. i < L \/ i \in L..(L + d - 1)
                    BY <4>1, <5>1
                <5> QED BY <5>2 DEF Below
            <4>2. ASSUME NEW i \in kept, i < L PROVE i < L + d
                BY <1>0, <1>5, <4>2
            <4>3. ASSUME NEW i \in L..(L + d - 1) PROVE i \in kept /\ i < L + d
                <5>1. i \in L..N /\ i < L + d
                    BY <1>0
                <5> QED BY <1>5, <5>1
            <4> QED BY <4>1, <4>2, <4>3 DEF Below
        <3>2. before \cap (L..(L + d - 1)) = {}
            BY <1>0 DEF Below
        <3>3. IsFiniteSet(L..(L + d - 1)) /\ Cardinality(L..(L + d - 1)) = d
            <4>1. L \in Int /\ L + d - 1 \in Int
                BY <1>0
            <4>2. /\ IsFiniteSet(L..(L + d - 1))
                  /\ Cardinality(L..(L + d - 1))
                       = IF L > L + d - 1 THEN 0 ELSE (L + d - 1) - L + 1
                BY <4>1, FS_Interval
            <4> QED BY <1>0, <4>2
        <3>4. Cardinality(before \cup (L..(L + d - 1)))
                 = Cardinality(before) + d
            <4> DEFINE new == L..(L + d - 1)
            <4>1. IsFiniteSet(new) /\ Cardinality(new) = d /\ before \cap new = {}
                BY <3>2, <3>3
            <4> HIDE DEF new
            <4>2. Cardinality(before \cup new)
                     = Cardinality(before) + Cardinality(new) - Cardinality(before \cap new)
                BY <1>7, <4>1, FS_Union
            <4>3. Cardinality(before \cup new) = Cardinality(before) + d - 0
                BY <4>1, <4>2, FS_EmptySet
            <4>4. d \in Nat
                BY <1>0
            <4> QED BY <1>7, <4>3, <4>4 DEF new
        <3>5. Cardinality(before) + d = (K - 1) + d
            BY <1>0, <1>7
        <3> QED BY <3>1, <3>4, <3>5
    <2>2. ASSUME NEW d \in 0..(N - L)
          PROVE  K + d \in 1..Len(S) /\ A[K + d] = L + d
        <3>1. L + d \in kept /\ K + d = Cardinality(Below(kept, L + d)) + 1
            BY <1>0, <1>5, <1>7, <2>1
        <3>2. K + d \in 1..Cardinality(kept) /\ A[K + d] = L + d
            BY <1>6, <3>1, AscendingAt
        <3> QED BY <1>6, <3>2
    <2>3. Len(S) = K + (N - L)
        <3>1. N - L \in 0..(N - L) /\ L + (N - L) = N
            BY <1>0
        <3>2. K + (N - L) \in 1..Len(S) /\ A[K + (N - L)] = N
            BY <2>2, <3>1
        <3>3. Len(S) \in Nat /\ Len(S) \in 1..Len(S)
            BY <1>6, <3>2
        <3>4. A[Len(S)] \in 1..N
            BY <1>5, <1>6, <3>3
        <3>5. ~(K + (N - L) < Len(S))
            <4> SUFFICES ASSUME K + (N - L) < Len(S) PROVE FALSE
                OBVIOUS
            <4>1. A[K + (N - L)] < A[Len(S)]
                BY <1>6, <3>2, <3>3
            <4> QED BY <1>0, <3>2, <3>4, <4>1
        <3> QED BY <3>2, <3>3, <3>5
    <2>4. ASSUME NEW d \in 0..(N - L) PROVE S[K + d] = m[L + d]
        <3>1. L + d \in 1..N /\ L + d >= L
            BY <1>0
        <3>2. shorn[L + d] = m[L + d]
            BY <1>4, <3>1
        <3> QED BY <1>6, <2>2, <3>2
    <2> QED BY <2>2, <2>3, <2>4
<1>9. K \in 1..Len(S) /\ S[K] = m[L] /\ A[K] = L
    <2>1. 0 \in 0..(N - L) /\ K + 0 = K /\ L + 0 = L
        BY <1>0, <1>7
    <2>2. L \in kept /\ A[K] = L
        BY <1>0, <1>5, <1>6, AscendingAt
    <2> QED BY <1>8, <2>1, <2>2
<1>10. ASSUME NEW k \in 1..(K - 1) PROVE S[k].role # "tool" /\ ~RequestsTools(S[k])
    <2>1. k \in 1..Len(S) /\ k < K
        BY <1>6, <1>7, <1>9
    <2>2. A[k] \in kept /\ A[k] < L /\ S[k] = shorn[A[k]] /\ A[k] \in 1..N
        BY <1>5, <1>6, <1>9, <2>1
    <2>3. m[A[k]].role # "tool"
        BY <1>5, <2>2
    <2>4. CASE RequestsTools(m[A[k]])
        <3>1. S[k] = Assistant(m[A[k]].text)
            BY <1>4, <2>2, <2>4
        <3> QED BY <3>1 DEF Assistant, Message, RequestsTools
    <2>5. CASE ~RequestsTools(m[A[k]])
        BY <1>4, <2>2, <2>3, <2>5
    <2> QED BY <2>4, <2>5
<1>11. ASSUME NEW i \in 1..N, IsUser(m[i]) PROVE \E k \in 1..Len(S) : A[k] = i /\ S[k] = m[i]
    <2>1. ~RequestsTools(m[i])
        BY <1>11 DEF IsUser, RequestsTools
    <2>2. i \in kept /\ shorn[i] = m[i]
        BY <1>4, <1>5, <1>11, <2>1
    <2> QED BY <1>6, <2>2
<1>12. IsUser(S[1])
    <2>1. 1 \in 1..N /\ 1 \in kept
        BY <1>0, <1>5
    <2>2. PICK k \in 1..Len(S) : A[k] = 1 /\ S[k] = m[1]
        BY <1>11, <2>1
    <2>3. k = 1
        <3> SUFFICES ASSUME 1 < k PROVE FALSE
            BY <1>6
        <3>1. 1 \in 1..Cardinality(kept) /\ k \in 1..Cardinality(kept)
            BY <1>6
        <3>2. A[1] < A[k] /\ A[1] \in kept
            BY <1>6, <3>1
        <3>3. A[1] \in 1..N
            BY <1>5, <3>2
        <3> QED BY <1>0, <2>2, <3>2, <3>3
    <2> QED BY <2>2, <2>3
<1> HIDE DEF K, S, N
<1>13. Len(S) = K + (N - L) /\ K \in Nat \ {0} /\ N \in Nat /\ L \in Nat /\ L <= N
    BY <1>0, <1>6, <1>8, <1>9
<1>14. \A j \in (K + 1)..Len(S) : S[j] = m[L + (j - K)] /\ L + (j - K) \in (L + 1)..N
    <2> SUFFICES ASSUME NEW j \in (K + 1)..Len(S)
                 PROVE  S[j] = m[L + (j - K)] /\ L + (j - K) \in (L + 1)..N
        OBVIOUS
    <2>1. j - K \in 0..(N - L) /\ K + (j - K) = j /\ L + (j - K) \in (L + 1)..N
        BY <1>13
    <2> QED BY <1>8, <2>1
<1>15. Rounds(S, K)
    <2>1. ASSUME K < Len(S) PROVE RequestsTools(S[K + 1])
        <3>1. L < N /\ K + 1 \in (K + 1)..Len(S) /\ L + ((K + 1) - K) = L + 1
            BY <1>13, <2>1
        <3>2. RequestsTools(m[L + 1])
            BY <3>1 DEF Rounds, N
        <3> QED BY <1>14, <3>1, <3>2
    <2>2. ASSUME NEW j \in (K + 1)..Len(S)
          PROVE  \/ RequestsTools(S[j]) /\ DistinctIds(S[j].calls) /\ Answered(S, j)
                 \/ S[j].role = "tool" /\ \E r \in (K + 1)..Len(S) : ResultOf(S, r, j)
        <3> DEFINE i == L + (j - K)
        <3>1. S[j] = m[i] /\ i \in (L + 1)..N /\ j = K + (i - L) /\ i \in 1..N
            BY <1>13, <1>14
        <3> HIDE DEF i
        <3>2. CASE RequestsTools(m[i]) /\ DistinctIds(m[i].calls) /\ Answered(m, i)
            <4> DEFINE c == Len(m[i].calls)
            <4>1. c \in Nat
                <5>1. m[i] \in MessageSet
                    BY <1>0, <3>1 DEF N
                <5> QED BY <5>1 DEF MessageSet
            <4> HIDE DEF c
            <4>2. /\ i + c <= N
                  /\ \A k \in 1..c :
                       m[i + k].role = "tool" /\ m[i + k].callId = m[i].calls[k].id
                  /\ i + c < N => RequestsTools(m[i + c + 1])
                BY <3>2 DEF Answered, c, N
            <4>3. \A k \in 1..c : S[j + k] = m[i + k]
                <5> SUFFICES ASSUME NEW k \in 1..c PROVE S[j + k] = m[i + k]
                    OBVIOUS
                <5>1. j + k \in (K + 1)..Len(S) /\ L + ((j + k) - K) = i + k
                    BY <1>13, <3>1, <4>1, <4>2
                <5> QED BY <1>14, <5>1
            <4>4. ASSUME j + c < Len(S) PROVE RequestsTools(S[j + c + 1])
                <5>1. /\ i + c < N /\ j + c + 1 \in (K + 1)..Len(S)
                      /\ L + ((j + c + 1) - K) = i + c + 1
                    BY <1>13, <3>1, <4>1, <4>2, <4>4
                <5> QED BY <1>14, <4>2, <5>1
            <4>5. j + c <= Len(S)
                BY <1>13, <3>1, <4>1, <4>2
            <4>6. Answered(S, j)
                BY <3>1, <4>2, <4>3, <4>4, <4>5 DEF Answered, c
            <4> QED BY <3>1, <3>2, <4>6
        <3>3. CASE m[i].role = "tool" /\ \E r \in (L + 1)..N : ResultOf(m, r, i)
            <4>1. PICK r \in (L + 1)..N : ResultOf(m, r, i)
                BY <3>3
            <4> DEFINE t == K + (r - L)
            <4>2. t \in (K + 1)..Len(S) /\ L + (t - K) = r
                BY <1>13
            <4>3. S[t] = m[r]
                BY <1>14, <4>2
            <4>4. Len(m[r].calls) \in Nat
                <5>1. m[r] \in MessageSet
                    BY <1>0, <1>13 DEF N
                <5> QED BY <5>1 DEF MessageSet
            <4>5. t < j /\ j <= t + Len(m[r].calls)
                <5> DEFINE c == Len(m[r].calls)
                <5>1. r < i /\ i <= r + c
                    BY <4>1 DEF ResultOf
                <5>2. c \in Nat /\ r \in Int /\ i \in Int /\ j \in Int /\ K \in Int /\ L \in Int
                    BY <1>13, <3>1, <4>4
                <5> HIDE DEF c
                <5>3. t < j /\ j <= t + c
                    BY <3>1, <5>1, <5>2
                <5> QED BY <5>3 DEF c
            <4> HIDE DEF t
            <4>6. ResultOf(S, t, j)
                BY <4>1, <4>3, <4>5 DEF ResultOf
            <4> QED BY <3>1, <3>3, <4>2, <4>6
        <3>4. \/ RequestsTools(m[i]) /\ DistinctIds(m[i].calls) /\ Answered(m, i)
              \/ m[i].role = "tool" /\ \E r \in (L + 1)..N : ResultOf(m, r, i)
            BY <3>1 DEF Rounds, N
        <3> QED BY <3>2, <3>3, <3>4
    <2>3. K < Len(S) => RequestsTools(S[K + 1])
        BY <2>1
    <2>4. \A j \in (K + 1)..Len(S) :
              \/ RequestsTools(S[j]) /\ DistinctIds(S[j].calls) /\ Answered(S, j)
              \/ S[j].role = "tool" /\ \E r \in (K + 1)..Len(S) : ResultOf(S, r, j)
        BY <2>2
    <2> QED BY ONLY <2>3, <2>4 DEF Rounds
<1>16. \A i \in 1..L : IsUser(m[i]) => \E k \in 1..Len(S) : S[k] = m[i]
    <2> SUFFICES ASSUME NEW i \in 1..L, IsUser(m[i])
                 PROVE  \E k \in 1..Len(S) : S[k] = m[i]
        OBVIOUS
    <2>1. i \in 1..N
        BY <1>13
    <2> QED BY <1>11, <2>1
<1>17. Sent(m, L, S, K)
    BY <1>9, <1>10, <1>12, <1>15, <1>16 DEF Sent
<1> QED BY <1>2, <1>6, <1>9, <1>17 DEF S
-------------------------------------------------------------------------------
(* What is sent to Gemini: the contents.                                   *)

CallIds == ((Nat \X Nat) \X Nat) \cup {NoCall}

IdList(m) == [k \in DOMAIN m.calls |-> m.calls[k].id]

(* A content without parts of a kind has no ids of that kind.              *)
LEMMA NoIds ==
    ASSUME NEW content, NEW kind,
           \A i \in DOMAIN content.parts : content.parts[i].kind # kind
    PROVE  IdsOf(content, kind) = <<>>
<1>1. {i \in DOMAIN content.parts : content.parts[i].kind = kind} = {}
    OBVIOUS
<1>2. IdsOf(content, kind) =
          Select([i \in DOMAIN content.parts |-> content.parts[i].callId], {})
    BY <1>1 DEF IdsOf
<1> QED BY <1>2, SelectNone

Stretch(content, o, n) == [k \in 1..n |-> content.parts[o + k].callId]

(* The ids at a stretch of the parts, when these are of a kind of their    *)
(* own.                                                                    *)
LEMMA IdsOfStretch ==
    ASSUME NEW content, NEW kind, NEW o \in Nat, NEW n \in Nat,
           DOMAIN content.parts = 1..(o + n),
           \A i \in 1..(o + n) : content.parts[i].callId \in CallIds,
           \A i \in 1..o : content.parts[i].kind # kind,
           \A k \in 1..n : content.parts[o + k].kind = kind
    PROVE  IdsOf(content, kind) = Stretch(content, o, n)
<1> DEFINE parts == content.parts
           ids == [i \in DOMAIN parts |-> parts[i].callId]
           kept == {i \in DOMAIN parts : parts[i].kind = kind}
<1>1. kept = (o + 1)..(o + n)
    <2>1. ASSUME NEW i \in (o + 1)..(o + n) PROVE i \in kept
        <3>1. i - o \in 1..n /\ o + (i - o) = i /\ i \in 1..(o + n)
            OBVIOUS
        <3> QED BY <3>1
    <2>2. ASSUME NEW i \in kept PROVE i \in (o + 1)..(o + n)
        OBVIOUS
    <2> QED BY <2>1, <2>2
<1>2. ids \in Seq(CallIds) /\ Len(ids) = o + n /\ \A i \in 1..(o + n) : ids[i] = parts[i].callId
    <2>1. ids \in [1..(o + n) -> CallIds]
        OBVIOUS
    <2> QED BY <2>1
<1>3. IdsOf(content, kind) = Select(ids, kept)
    BY DEF IdsOf
<1> HIDE DEF ids, kept, parts
<1>4. /\ Select(ids, (o + 1)..(o + n)) \in Seq(CallIds)
      /\ Len(Select(ids, (o + 1)..(o + n))) = n
      /\ \A k \in 1..n : Select(ids, (o + 1)..(o + n))[k] = ids[o + k]
    <2>1. ids \in Seq(CallIds) /\ o \in Nat /\ n \in Nat /\ o + n <= Len(ids)
        BY <1>2
    <2> QED BY ONLY <2>1, SelectStretch
<1>5. \A k \in 1..n : ids[o + k] = parts[o + k].callId /\ o + k \in 1..(o + n)
    BY <1>2
<1> DEFINE list == [k \in 1..n |-> parts[o + k].callId]
<1>6. list \in Seq(CallIds) /\ Len(list) = n /\ \A k \in 1..n : list[k] = parts[o + k].callId
    <2>1. list \in [1..n -> CallIds]
        BY <1>5 DEF parts
    <2> QED BY <2>1
<1> HIDE DEF list
<1>7. Select(ids, (o + 1)..(o + n)) = list
    <2> DEFINE chosen == Select(ids, (o + 1)..(o + n))
    <2>1. chosen \in Seq(CallIds) /\ Len(chosen) = Len(list)
        BY <1>4, <1>6
    <2>2. \A k \in 1..Len(chosen) : chosen[k] = list[k]
        BY <1>4, <1>5, <1>6
    <2> HIDE DEF chosen
    <2>3. chosen = list
        BY ONLY <1>6, <2>1, <2>2, SeqEqual
    <2> QED BY <2>3 DEF chosen
<1> QED BY <1>1, <1>3, <1>7 DEF list, parts, Stretch

(* A message that is neither a result nor a request is a content with a    *)
(* text.                                                                   *)
LEMMA ContentOfText ==
    ASSUME NEW S \in Seq(MessageSet), NEW b \in 1..Len(S),
           S[b].role # "tool", ~RequestsTools(S[b])
    PROVE  /\ ContentOf(S, b).parts = <<TextPart(S[b].text)>>
           /\ IsUser(S[b]) => ContentOf(S, b).role = "user"
           /\ IdsOf(ContentOf(S, b), "call") = <<>>
           /\ IdsOf(ContentOf(S, b), "response") = <<>>
<1>1. ContentOf(S, b) = Content(IF IsUser(S[b]) THEN "user" ELSE "model",
                                <<TextPart(S[b].text)>>)
    BY DEF ContentOf
<1>2. /\ ContentOf(S, b).parts = <<TextPart(S[b].text)>>
      /\ IsUser(S[b]) => ContentOf(S, b).role = "user"
    BY <1>1 DEF Content
<1>3. \A i \in DOMAIN ContentOf(S, b).parts : ContentOf(S, b).parts[i].kind = "text"
    BY <1>2 DEF TextPart
<1> QED BY <1>2, <1>3, NoIds

(* A request is a content with its calls.                                  *)
LEMMA ContentOfRequest ==
    ASSUME NEW S \in Seq(MessageSet), NEW b \in 1..Len(S), RequestsTools(S[b])
    PROVE  /\ IdsOf(ContentOf(S, b), "call") = IdList(S[b])
           /\ IdsOf(ContentOf(S, b), "response") = <<>>
<1> DEFINE m == S[b]
           head == IF m.text = {} THEN <<>> ELSE <<TextPart(m.text)>>
           tail == [i \in DOMAIN m.calls |-> CallPart(m.calls[i])]
           parts == head \o tail
           o == IF m.text = {} THEN 0 ELSE 1
           n == Len(m.calls)
           PartSet == [kind : {"text", "call"}, text : SUBSET Names, callId : CallIds]
<1>1. m \in MessageSet
    OBVIOUS
<1> HIDE DEF m
<1>2. m.text \in SUBSET Names /\ m.calls \in Seq(CallSet) /\ n \in Nat /\ DOMAIN m.calls = 1..n
    BY <1>1 DEF MessageSet
<1>3. ContentOf(S, b) = Content("model", parts)
    <2>1. S[b].role = "assistant"
        BY DEF RequestsTools
    <2>2. ContentOf(S, b) = Content("model", RequestParts(S[b]))
        BY <2>1 DEF ContentOf, IsUser
    <2> QED BY <2>2 DEF RequestParts, m
<1>4. ContentOf(S, b).parts = parts
    BY <1>3 DEF Content
<1>5. TextPart(m.text) \in PartSet /\ TextPart(m.text).kind = "text"
    BY <1>2 DEF TextPart, CallIds
<1>6. \A i \in 1..n : /\ CallPart(m.calls[i]) \in PartSet
                      /\ CallPart(m.calls[i]).kind = "call"
                      /\ CallPart(m.calls[i]).callId = m.calls[i].id
    <2> SUFFICES ASSUME NEW i \in 1..n
                 PROVE  /\ CallPart(m.calls[i]) \in PartSet
                        /\ CallPart(m.calls[i]).kind = "call"
                        /\ CallPart(m.calls[i]).callId = m.calls[i].id
        OBVIOUS
    <2>1. m.calls[i].id \in (Nat \X Nat) \X Nat
        <3>1. m.calls[i] \in CallSet
            BY <1>2
        <3> QED BY <3>1 DEF CallSet
    <2> QED BY <2>1 DEF CallPart, CallIds
<1>7. /\ head \in Seq(PartSet) /\ Len(head) = o /\ o \in Nat
      /\ \A i \in 1..o : head[i].kind = "text"
    <2> HIDE DEF PartSet
    <2> QED BY <1>5
<1>8. /\ tail \in Seq(PartSet) /\ Len(tail) = n
      /\ \A k \in 1..n : tail[k].kind = "call" /\ tail[k].callId = m.calls[k].id
    <2> HIDE DEF PartSet, n
    <2>1. tail \in [1..n -> PartSet]
        BY <1>2, <1>6
    <2> QED BY <1>2, <1>6, <2>1
<1> HIDE DEF head, tail, o, n
<1>9. /\ parts \in Seq(PartSet) /\ Len(parts) = o + n
      /\ \A i \in 1..(o + n) : parts[i] = IF i <= o THEN head[i] ELSE tail[i - o]
    <2> HIDE DEF PartSet
    <2>1. head \in Seq(PartSet) /\ tail \in Seq(PartSet)
        BY <1>7, <1>8
    <2>2. /\ head \o tail \in Seq(PartSet)
          /\ Len(head \o tail) = Len(head) + Len(tail)
          /\ \A i \in 1..(Len(head) + Len(tail)) :
               (head \o tail)[i] = IF i <= Len(head) THEN head[i] ELSE tail[i - Len(head)]
        BY ONLY <2>1, ConcatProperties
    <2> QED BY <1>7, <1>8, <2>2
<1> HIDE DEF parts
<1>10. DOMAIN parts = 1..(o + n) /\ \A i \in 1..(o + n) : parts[i].callId \in CallIds
    <2>1. DOMAIN parts = 1..(o + n)
        <3> HIDE DEF PartSet
        <3> QED BY <1>9
    <2>2. \A i \in 1..(o + n) : parts[i] \in PartSet
        <3> HIDE DEF PartSet
        <3> QED BY <1>9, <2>1
    <2> QED BY <2>1, <2>2
<1>11. \A i \in 1..o : parts[i].kind = "text"
    BY <1>2, <1>7, <1>9
<1>12. \A k \in 1..n : parts[o + k].kind = "call" /\ parts[o + k].callId = m.calls[k].id
    BY <1>2, <1>7, <1>8, <1>9
<1>13. IdsOf(ContentOf(S, b), "call") = [k \in 1..n |-> parts[o + k].callId]
    <2> DEFINE content == ContentOf(S, b)
               kind == "call"
    <2>1. o \in Nat /\ n \in Nat /\ content.parts = parts
        BY <1>2, <1>4, <1>7
    <2> HIDE DEF content
    <2>2. /\ DOMAIN content.parts = 1..(o + n)
          /\ \A i \in 1..(o + n) : content.parts[i].callId \in CallIds
          /\ \A i \in 1..o : content.parts[i].kind # kind
          /\ \A k \in 1..n : content.parts[o + k].kind = kind
        BY <1>10, <1>11, <1>12, <2>1
    <2> HIDE DEF kind
    <2>3. IdsOf(content, kind) = Stretch(content, o, n)
        BY ONLY <2>1, <2>2, IdsOfStretch
    <2> QED BY <2>1, <2>3 DEF content, kind, Stretch
<1>14. [k \in 1..n |-> parts[o + k].callId] = IdList(m)
    BY <1>2, <1>12 DEF IdList
<1>15. \A i \in 1..(o + n) : parts[i].kind # "response"
    <2> SUFFICES ASSUME NEW i \in 1..(o + n) PROVE parts[i].kind # "response"
        OBVIOUS
    <2>1. CASE i \in 1..o
        BY <1>11, <2>1
    <2>2. CASE i \notin 1..o
        <3>1. i - o \in 1..n /\ o + (i - o) = i
            BY <1>2, <1>7, <2>2
        <3> QED BY <1>12, <3>1
    <2> QED BY <2>1, <2>2
<1>16. IdsOf(ContentOf(S, b), "response") = <<>>
    BY <1>4, <1>10, <1>15, NoIds
<1> QED BY <1>13, <1>14, <1>16 DEF m

(* And the content after it has a response to each of them.                *)
LEMMA ContentOfResults ==
    ASSUME NEW S \in Seq(MessageSet), NEW b \in 1..Len(S), RequestsTools(S[b]),
           Answered(S, b)
    PROVE  /\ b + 1 \in 1..Len(S) /\ S[b + 1].role = "tool" /\ ~Continues(S, b + 1)
           /\ IdsOf(ContentOf(S, b + 1), "response") = IdList(S[b])
           /\ IdsOf(ContentOf(S, b + 1), "call") = <<>>
<1> DEFINE n == Len(S[b].calls)
           c == b + 1
           sharing == {j \in DOMAIN S : c <= j /\ \A k \in (c + 1)..j : Continues(S, k)}
           parts == [k \in 1..n |-> ResponsePart(S[c + k - 1])]
<1>1. /\ S[b].calls \in Seq(CallSet) /\ n \in Nat \ {0} /\ DOMAIN S[b].calls = 1..n
      /\ S[b].role = "assistant"
    <2>1. S[b] \in MessageSet
        OBVIOUS
    <2>2. S[b].calls \in Seq(CallSet) /\ S[b].calls # <<>> /\ S[b].role = "assistant"
        BY <2>1 DEF MessageSet, RequestsTools
    <2> QED BY <2>2
<1>2. /\ b + n <= Len(S) /\ b \in Nat /\ Len(S) \in Nat
      /\ \A k \in 1..n : S[b + k].role = "tool" /\ S[b + k].callId = S[b].calls[k].id
      /\ b + n < Len(S) => S[b + n + 1].role = "assistant"
    BY DEF Answered, RequestsTools
<1> HIDE DEF n
<1>3. \A k \in 1..n : c + k - 1 = b + k /\ c + k - 1 \in DOMAIN S
    BY <1>1, <1>2
<1>4. c \in 1..Len(S) /\ S[c].role = "tool" /\ ~Continues(S, c)
    <2>1. 1 \in 1..n /\ c - 1 = b /\ c \in 1..Len(S)
        BY <1>1, <1>2
    <2> QED BY <1>1, <1>2, <2>1 DEF Continues
<1>5. \A j \in (b + 1)..(b + n) : S[j].role = "tool" /\ j \in DOMAIN S
    <2> SUFFICES ASSUME NEW j \in (b + 1)..(b + n) PROVE S[j].role = "tool" /\ j \in DOMAIN S
        OBVIOUS
    <2>1. j - b \in 1..n /\ b + (j - b) = j /\ j \in 1..Len(S)
        BY <1>1, <1>2
    <2> QED BY <1>2, <2>1
<1>6. sharing = (b + 1)..(b + n)
    <2>1. ASSUME NEW j \in (b + 1)..(b + n) PROVE j \in sharing
        <3>1. \A k \in (c + 1)..j : k > 1 /\ k \in (b + 1)..(b + n) /\ k - 1 \in (b + 1)..(b + n)
            BY <1>1, <1>2
        <3>2. \A k \in (c + 1)..j : Continues(S, k)
            BY <1>5, <3>1 DEF Continues
        <3>3. c <= j
            BY <1>2
        <3> QED BY <1>5, <3>2, <3>3
    <2>2. ASSUME NEW j \in sharing PROVE j \in (b + 1)..(b + n)
        <3>1. j \in 1..Len(S) /\ b + 1 <= j
            OBVIOUS
        <3>2. SUFFICES ASSUME b + n < j PROVE FALSE
            BY <1>1, <1>2, <3>1
        <3>3. b + n + 1 \in (c + 1)..j
            BY <1>1, <1>2, <3>1, <3>2
        <3>4. S[b + n + 1].role = "assistant"
            BY <1>1, <1>2, <3>1, <3>2
        <3>5. Continues(S, b + n + 1)
            BY <3>3
        <3> QED BY <3>4, <3>5 DEF Continues
    <2> QED BY <2>1, <2>2
<1>7. Sharing(S, c) = n
    <2>1. Cardinality((b + 1)..(b + n)) = n
        <3>1. b + 1 \in Int /\ b + n \in Int
            BY <1>1, <1>2
        <3>2. Cardinality((b + 1)..(b + n))
                 = IF b + 1 > b + n THEN 0 ELSE (b + n) - (b + 1) + 1
            BY <3>1, FS_Interval
        <3> QED BY <1>1, <1>2, <3>2
    <2>2. Sharing(S, c) = Cardinality(sharing)
        BY DEF Sharing
    <2> QED BY <1>6, <2>1, <2>2
<1> HIDE DEF sharing
<1>8. ContentOf(S, c) = Content("user", parts)
    <2> HIDE DEF c
    <2>1. ContentOf(S, c)
             = Content("user", [k \in 1..Sharing(S, c) |-> ResponsePart(S[c + k - 1])])
        BY <1>4 DEF ContentOf, RequestsTools, IsUser
    <2> QED BY <1>7, <2>1
<1>9. ContentOf(S, c).parts = parts
    <2> HIDE DEF c, parts
    <2> QED BY <1>8 DEF Content
<1>10. /\ DOMAIN parts = 1..n
       /\ \A k \in 1..n : /\ parts[k].kind = "response"
                          /\ parts[k].callId = S[b].calls[k].id
                          /\ parts[k].callId \in CallIds
    <2> SUFFICES ASSUME NEW k \in 1..n
                 PROVE  /\ parts[k].kind = "response"
                        /\ parts[k].callId = S[b].calls[k].id
                        /\ parts[k].callId \in CallIds
        OBVIOUS
    <2>1. parts[k] = ResponsePart(S[b + k])
        BY <1>3
    <2>2. S[b].calls[k].id \in (Nat \X Nat) \X Nat
        <3>1. S[b].calls[k] \in CallSet
            BY <1>1
        <3> QED BY <3>1 DEF CallSet
    <2> QED BY <1>2, <2>1, <2>2 DEF ResponsePart, CallIds
<1> HIDE DEF parts
<1>11. IdsOf(ContentOf(S, c), "response") = [k \in 1..n |-> parts[k].callId]
    <2> DEFINE o == 0
    <2>1. /\ o \in Nat /\ n \in Nat /\ 1..(o + n) = 1..n /\ 1..o = {}
          /\ \A k \in 1..n : o + k = k
        BY <1>1
    <2> HIDE DEF o
    <2>2. IdsOf(ContentOf(S, c), "response")
             = [k \in 1..n |-> ContentOf(S, c).parts[o + k].callId]
        <3> DEFINE content == ContentOf(S, c)
                   kind == "response"
        <3>1. content.parts = parts
            BY <1>9
        <3> HIDE DEF content
        <3>2. /\ DOMAIN content.parts = 1..(o + n)
              /\ \A i \in 1..(o + n) : content.parts[i].callId \in CallIds
              /\ \A i \in 1..o : content.parts[i].kind # kind
              /\ \A k \in 1..n : content.parts[o + k].kind = kind
            BY <1>10, <2>1, <3>1
        <3> HIDE DEF kind
        <3>3. IdsOf(content, kind) = Stretch(content, o, n)
            <4>1. o \in Nat /\ n \in Nat
                BY <2>1
            <4> QED BY ONLY <3>2, <4>1, IdsOfStretch
        <3> QED BY <3>3 DEF content, kind, Stretch
    <2> QED BY <1>9, <2>1, <2>2
<1>12. [k \in 1..n |-> parts[k].callId] = IdList(S[b])
    BY <1>1, <1>10 DEF IdList
<1>13. IdsOf(ContentOf(S, c), "call") = <<>>
    BY <1>9, <1>10, NoIds
<1> QED BY <1>4, <1>11, <1>12, <1>13

(* A content of results has no calls.                                      *)
LEMMA ResultsHaveNoCalls ==
    ASSUME NEW S, NEW b, S[b].role = "tool"
    PROVE  IdsOf(ContentOf(S, b), "call") = <<>>
<1>1. ContentOf(S, b).parts = [k \in 1..Sharing(S, b) |-> ResponsePart(S[b + k - 1])]
    BY DEF ContentOf, Content, RequestsTools, IsUser
<1>2. \A k \in DOMAIN ContentOf(S, b).parts : ContentOf(S, b).parts[k].kind = "response"
    BY <1>1 DEF ResponsePart
<1> QED BY <1>2, NoIds

(* A list without repetitions is as long as there are elements in it.      *)
LEMMA DistinctLength ==
    ASSUME NEW T, NEW s \in Seq(T), \A i, j \in DOMAIN s : s[i] = s[j] => i = j
    PROVE  Len(s) = Cardinality(ToSet(s))
<1>1. Len(s) \in Nat /\ DOMAIN s = 1..Len(s) /\ s \in [1..Len(s) -> T]
    OBVIOUS
<1>2. IsFiniteSet(1..Len(s)) /\ Cardinality(1..Len(s)) = Len(s)
    <2>1. /\ IsFiniteSet(1..Len(s))
          /\ Cardinality(1..Len(s)) = IF 1 > Len(s) THEN 0 ELSE Len(s) - 1 + 1
        BY <1>1, FS_Interval
    <2> QED BY <1>1, <2>1
<1>3. s \in Surjection(1..Len(s), ToSet(s)) /\ s \in Injection(1..Len(s), ToSet(s))
    <2>1. s \in [1..Len(s) -> ToSet(s)]
        BY <1>1 DEF ToSet
    <2>2. \A e \in ToSet(s) : \E i \in 1..Len(s) : s[i] = e
        BY <1>1 DEF ToSet
    <2> QED BY <1>1, <2>1, <2>2 DEF Surjection, Injection, IsInjective
<1>4. Cardinality(ToSet(s)) = Cardinality(1..Len(s))
    BY <1>2, <1>3, FS_Surjection
<1> QED BY <1>2, <1>4

(* The contents of messages that are sent so are what Gemini accepts, and  *)
(* mention what customers said.                                            *)
LEMMA ContentsAccepted ==
    ASSUME NEW m, NEW L, NEW S \in Seq(MessageSet), NEW K, Sent(m, L, S, K),
           NEW contents,
           contents = LET begins == Ascending({i \in DOMAIN S : ~Continues(S, i)})
                      IN  [k \in DOMAIN begins |-> ContentOf(S, begins[k])]
    PROVE  /\ WellFormed(contents)
           /\ \A k \in 1..Len(S) : IsUser(S[k]) => S[k].text \subseteq Mentions(contents)
<1> DEFINE B == {i \in DOMAIN S : ~Continues(S, i)}
           A == Ascending(B)
           M == Cardinality(B)
<1>0. /\ DOMAIN S = 1..Len(S) /\ Len(S) \in Nat /\ K \in 1..Len(S)
      /\ IsUser(S[1]) /\ IsUser(S[K]) /\ Rounds(S, K)
      /\ \A k \in 1..(K - 1) : S[k].role # "tool" /\ ~RequestsTools(S[k])
    BY DEF Sent
<1>1. /\ B \subseteq 1..Len(S) /\ B \in SUBSET Nat
      /\ \A i \in 1..Len(S) : i \in B <=> ~Continues(S, i)
      /\ \A i \in 1..Len(S) : S[i].role # "tool" => i \in B
    BY <1>0 DEF Continues
<1>2. IsFiniteSet(B)
    <2>1. IsFiniteSet(1..Len(S))
        BY <1>0, FS_Interval
    <2> QED BY <1>1, <2>1, FS_Subset
<1> HIDE DEF B
<1>3. /\ M \in Nat /\ A \in [1..M -> B]
      /\ \A k, l \in 1..M : k < l => A[k] < A[l]
      /\ \A i \in B : \E k \in 1..M : A[k] = i
    BY <1>1, <1>2, AscendingLists
<1>4. DOMAIN contents = 1..M /\ \A k \in 1..M : contents[k] = ContentOf(S, A[k])
    <2>1. contents = [k \in DOMAIN A |-> ContentOf(S, A[k])]
        BY DEF A, B
    <2> HIDE DEF A
    <2> QED BY <1>3, <2>1
<1>5. Len(contents) = M
    <2>1. contents = [k \in 1..M |-> ContentOf(S, A[k])]
        <3>1. contents = [k \in DOMAIN A |-> ContentOf(S, A[k])]
            BY DEF A, B
        <3> HIDE DEF A
        <3> QED BY <1>3, <3>1
    <2> HIDE DEF A, M
    <2>2. contents \in Seq({ContentOf(S, A[k]) : k \in 1..M})
        <3> DEFINE X == {ContentOf(S, A[k]) : k \in 1..M}
        <3>1. contents \in [1..M -> X]
            BY <2>1
        <3> HIDE DEF X
        <3>2. M \in Nat
            BY <1>3
        <3>3. contents \in Seq(X)
            BY ONLY <3>1, <3>2
        <3> QED BY <3>3 DEF X
    <2> QED BY <1>3, <1>4, <2>2
<1> HIDE DEF A, M
<1>6. \A k \in 1..M : A[k] \in B /\ A[k] \in 1..Len(S) /\ A[k] \in Nat
    BY <1>1, <1>3
(* The next content begins where the next message begins one.              *)
<1>7. ASSUME NEW i \in 1..M, NEW j \in B, A[i] < j
      PROVE  i + 1 \in 1..M /\ A[i] < A[i + 1] /\ A[i + 1] <= j
    <2>1. PICK k \in 1..M : A[k] = j
        BY <1>3
    <2>2. i < k
        <3> SUFFICES ASSUME k < i \/ k = i PROVE FALSE
            BY <1>3
        <3>1. A[k] <= A[i]
            BY <1>3, <1>6
        <3> QED BY <1>6, <1>7, <2>1, <3>1
    <2>3. i + 1 \in 1..M /\ i < i + 1 /\ (i + 1 = k \/ i + 1 < k)
        BY <1>3, <2>2
    <2> QED BY <1>3, <1>6, <2>1, <2>3
(* A content of results follows its request.                               *)
<1>8. ASSUME NEW j \in B, S[j].role = "tool"
      PROVE  j - 1 \in B /\ RequestsTools(S[j - 1])
    <2>1. j \in (K + 1)..Len(S)
        <3>1. j \in 1..Len(S) /\ S[K].role # "tool"
            BY <1>0, <1>1 DEF IsUser
        <3>2. j \notin 1..(K - 1) /\ j # K
            BY <1>0, <1>8, <3>1
        <3> QED BY <1>0, <3>1, <3>2
    <2>2. ~RequestsTools(S[j])
        BY <1>8 DEF RequestsTools
    <2>3. PICK r \in (K + 1)..Len(S) : ResultOf(S, r, j)
        BY <1>0, <2>1, <2>2 DEF Rounds
    <2>4. RequestsTools(S[r]) /\ r < j /\ j <= r + Len(S[r].calls) /\ S[r].role = "assistant"
        BY <2>3 DEF ResultOf, RequestsTools
    <2>5. Answered(S, r)
        BY <1>0, <2>4 DEF Rounds
    <2>6. S[j - 1].role # "tool"
        <3>1. ~Continues(S, j) /\ j > 1
            BY <1>0, <1>1, <2>1
        <3> QED BY <1>8, <3>1 DEF Continues
    <2>7. Len(S[r].calls) \in Nat
        <3>1. S[r] \in MessageSet
            BY <1>0
        <3> QED BY <3>1 DEF MessageSet
    <2>8. j - 1 = r
        <3> SUFFICES ASSUME j - 1 # r PROVE FALSE
            OBVIOUS
        <3>1. (j - 1) - r \in 1..Len(S[r].calls) /\ r + ((j - 1) - r) = j - 1
            BY <1>0, <2>1, <2>4, <2>7
        <3>2. S[j - 1].role = "tool"
            BY <2>5, <3>1 DEF Answered
        <3> QED BY <2>6, <3>2
    <2>9. r \in B
        BY <1>0, <1>1, <2>4
    <2> QED BY <2>4, <2>8, <2>9
<1>9. /\ contents # <<>>
      /\ contents[1].role = "user" /\ IdsOf(contents[1], "response") = <<>>
    <2>1. 1 \in B /\ ~RequestsTools(S[1]) /\ S[1].role # "tool" /\ 1 \in 1..Len(S)
        BY <1>0, <1>1 DEF IsUser, RequestsTools
    <2>2. 1 \in 1..M
        BY <1>3, <2>1
    <2>3. A[1] = 1
        <3> SUFFICES ASSUME A[1] > 1 PROVE FALSE
            BY <1>6, <2>2
        <3>1. PICK k \in 1..M : A[k] = 1
            BY <1>3, <2>1
        <3>2. A[1] <= A[k]
            BY <1>3, <1>6, <2>2
        <3> QED BY <1>6, <2>2, <3>1, <3>2
    <2>4. contents[1] = ContentOf(S, 1) /\ DOMAIN contents # {}
        BY <1>4, <2>2, <2>3
    <2> QED BY <1>0, <2>1, <2>4, ContentOfText
<1>10. ASSUME NEW i \in 1..M, RequestsTools(S[A[i]])
       PROVE  /\ i + 1 \in 1..M
              /\ IdsOf(contents[i + 1], "response") = IdsOf(contents[i], "call")
              /\ Len(IdsOf(contents[i], "call"))
                   = Cardinality(ToSet(IdsOf(contents[i], "call")))
    <2> DEFINE b == A[i]
    <2>1. b \in 1..Len(S) /\ RequestsTools(S[b]) /\ contents[i] = ContentOf(S, b)
        BY <1>4, <1>6, <1>10
    <2>2. b \in (K + 1)..Len(S)
        <3>1. ~RequestsTools(S[K])
            BY <1>0 DEF IsUser, RequestsTools
        <3>2. b \notin 1..(K - 1) /\ b # K
            BY <1>0, <2>1, <3>1
        <3> QED BY <1>0, <2>1, <3>2
    <2>3. DistinctIds(S[b].calls) /\ Answered(S, b)
        <3>1. S[b].role # "tool"
            BY <2>1 DEF RequestsTools
        <3> QED BY <1>0, <2>2, <3>1 DEF Rounds
    <2>4. /\ b + 1 \in 1..Len(S) /\ ~Continues(S, b + 1)
          /\ IdsOf(ContentOf(S, b + 1), "response") = IdList(S[b])
          /\ IdsOf(ContentOf(S, b), "call") = IdList(S[b])
        BY <2>1, <2>3, ContentOfRequest, ContentOfResults
    <2>5. b + 1 \in B /\ b < b + 1 /\ b \in Nat
        BY <1>0, <1>1, <2>1, <2>4
    <2>6. i + 1 \in 1..M /\ A[i] < A[i + 1] /\ A[i + 1] <= b + 1
        BY <1>7, <2>5
    <2>7. A[i + 1] = b + 1
        BY <1>6, <2>5, <2>6
    <2>8. contents[i + 1] = ContentOf(S, b + 1)
        BY <1>4, <2>6, <2>7
    <2>9. Len(IdList(S[b])) = Cardinality(ToSet(IdList(S[b])))
        <3>1. S[b].calls \in Seq(CallSet)
            <4>1. S[b] \in MessageSet
                BY <2>1
            <4> QED BY <4>1 DEF MessageSet
        <3>2. IdList(S[b]) \in Seq({S[b].calls[k].id : k \in DOMAIN S[b].calls})
            BY <3>1 DEF IdList
        <3>3. \A k, l \in DOMAIN IdList(S[b]) : IdList(S[b])[k] = IdList(S[b])[l] => k = l
            BY <2>3 DEF IdList, DistinctIds
        <3> QED BY <3>2, <3>3, DistinctLength
    <2> QED BY <2>1, <2>4, <2>6, <2>8, <2>9
<1>11. ASSUME NEW i \in 1..M, ~RequestsTools(S[A[i]])
       PROVE  /\ IdsOf(contents[i], "call") = <<>>
              /\ i + 1 \in 1..M => IdsOf(contents[i + 1], "response") = <<>>
    <2>1. A[i] \in B /\ A[i] \in 1..Len(S) /\ contents[i] = ContentOf(S, A[i])
        BY <1>4, <1>6
    <2>2. IdsOf(contents[i], "call") = <<>>
        BY <1>11, <2>1, ContentOfText, ResultsHaveNoCalls
    <2>3. ASSUME i + 1 \in 1..M PROVE IdsOf(contents[i + 1], "response") = <<>>
        <3> DEFINE j == A[i + 1]
        <3>1. j \in B /\ j \in 1..Len(S) /\ contents[i + 1] = ContentOf(S, j) /\ A[i] < j
            <4>1. i < i + 1
                OBVIOUS
            <4>2. A[i] < A[i + 1]
                BY <1>3, <2>3, <4>1
            <4> QED BY <1>4, <1>6, <2>3, <4>2
        <3>2. S[j].role # "tool"
            <4> SUFFICES ASSUME S[j].role = "tool" PROVE FALSE
                OBVIOUS
            <4>1. j - 1 \in B /\ RequestsTools(S[j - 1])
                BY <1>8, <3>1
            <4>2. A[i] # j - 1
                BY <1>11, <4>1
            <4>3. A[i] < j - 1
                BY <2>1, <3>1, <4>2
            <4>4. A[i + 1] <= j - 1
                BY <1>7, <4>1, <4>3
            <4> QED BY <3>1, <4>4
        <3> QED BY <3>1, <3>2, ContentOfText, ContentOfRequest
    <2> QED BY <2>2, <2>3
<1>12. WellFormed(contents)
    <2>1. Len(<<>>) = 0 /\ ToSet(<<>>) = {} /\ Cardinality({}) = 0
        BY FS_EmptySet DEF ToSet
    <2>2. ASSUME NEW i \in DOMAIN contents
          PROVE  LET asked == IdsOf(contents[i], "call")
                     next == IF i = Len(contents) THEN <<>>
                             ELSE IdsOf(contents[i + 1], "response")
                 IN  next = asked /\ Len(asked) = Cardinality(ToSet(asked))
        <3>1. i \in 1..M /\ (i = M \/ i + 1 \in 1..M) /\ ~(i = M /\ i + 1 \in 1..M)
            BY <1>3, <1>4
        <3>2. CASE RequestsTools(S[A[i]])
            BY <1>5, <1>10, <3>1, <3>2
        <3>3. CASE ~RequestsTools(S[A[i]])
            BY <1>5, <1>11, <2>1, <3>1, <3>3
        <3> QED BY <3>2, <3>3
    <2> QED BY <1>9, <2>2 DEF WellFormed
<1>13. ASSUME NEW k \in 1..Len(S), IsUser(S[k])
       PROVE  S[k].text \subseteq Mentions(contents)
    <2>1. S[k].role # "tool" /\ ~RequestsTools(S[k])
        BY <1>13 DEF IsUser, RequestsTools
    <2>2. PICK i \in 1..M : A[i] = k
        BY <1>1, <1>3, <2>1
    <2>3. contents[i].parts = <<TextPart(S[k].text)>> /\ contents[i] \in ToSet(contents)
        <3>1. contents[i] = ContentOf(S, k) /\ i \in DOMAIN contents
            BY <1>4, <2>2
        <3>2. ContentOf(S, k).parts = <<TextPart(S[k].text)>>
            BY <2>1, ContentOfText
        <3> QED BY ONLY <3>1, <3>2 DEF ToSet
    <2>4. TextPart(S[k].text) \in ToSet(contents[i].parts) /\ TextPart(S[k].text).text = S[k].text
        <3>1. 1 \in DOMAIN contents[i].parts /\ contents[i].parts[1] = TextPart(S[k].text)
            <4> DEFINE part == TextPart(S[k].text)
            <4>1. contents[i].parts = <<part>>
                BY <2>3
            <4> HIDE DEF part
            <4>2. 1 \in DOMAIN contents[i].parts /\ contents[i].parts[1] = part
                BY ONLY <4>1
            <4> QED BY <4>2 DEF part
        <3>2. TextPart(S[k].text) \in ToSet(contents[i].parts)
            BY ONLY <3>1 DEF ToSet
        <3> QED BY <3>2 DEF TextPart
    <2>5. S[k].text \subseteq UNION {p.text : p \in ToSet(contents[i].parts)}
        BY <2>4
    <2> QED BY <2>3, <2>5 DEF Mentions
<1> QED BY <1>12, <1>13

(* A call with the arguments its declaration requires is not refused.      *)
LEMMA DeclaredAccepted == DeclaredCallsAccepted
<1> SUFFICES ASSUME NEW i \in DOMAIN calls, NameOf(i) \in ToolNames,
                    \A p \in ToGeminiTool(NameOf(i)).required : Given(ArgsOf(i), p)
             PROVE  ~Refuses(NameOf(i), ArgsOf(i))
    BY DEF DeclaredCallsAccepted
<1>1. NameOf(i) = "search_products" => "query" \in ToGeminiTool(NameOf(i)).required
    BY DEF ToGeminiTool, ToolParameters, Required
<1>2. NameOf(i) = "get_product_details" => "productName" \in ToGeminiTool(NameOf(i)).required
    BY DEF ToGeminiTool, ToolParameters, Required
<1> QED BY <1>1, <1>2 DEF Refuses

(* What is sent is a prompt, so it is sound.                               *)
LEMMA PromptSound ==
    ASSUME Sound, TurnInv, PromptInv
    PROVE  PromptsAreSound
<1>1. ASSUME stage = "ask"
      PROVE  /\ WellFormed(ToGeminiContents(messages))
             /\ \A b \in 1..Len(history) :
                  (IsUser(history[b]) /\ Len(history) - b + 1 <= HISTORY_TAIL_CEILING)
                      => history[b].text \subseteq Mentions(ToGeminiContents(messages))
    <2> DEFINE h == PromptHistory(history, HISTORY_TAIL_CEILING)
               L == Len(h) + 1
               S == Sanitized(messages)
    <2>1. messages \in Seq(MessageSet) /\ history \in Seq(MessageSet)
        BY DEF TurnInv, MessagesShape
    <2>2. /\ h \in Seq(MessageSet) /\ (h # <<>> => IsUser(h[1]))
          /\ \A b \in 1..Len(history) :
               IsUser(history[b]) /\ Len(history) - b + 1 <= HISTORY_TAIL_CEILING
                   => \E j \in 1..Len(h) : h[j] = history[b]
        BY <2>1, HistoryBegins DEF Sound
    <2>3. /\ L <= Len(messages) /\ IsUser(messages[L])
          /\ \A i \in 1..Len(h) : messages[i] = h[i]
          /\ Rounds(messages, L)
        BY <1>1 DEF PromptInv, Asking
    <2> HIDE DEF h
    <2>4. /\ L \in 1..Len(messages) /\ Len(h) \in Nat
          /\ (h = <<>> => L = 1) /\ (h # <<>> => 1 \in 1..Len(h))
        BY <2>1, <2>2, <2>3
    <2>5. IsUser(messages[1])
        BY <2>2, <2>3, <2>4
    <2> HIDE DEF L
    <2>6. S \in Seq(MessageSet) /\ \E K \in 1..Len(S) : Sent(messages, L, S, K)
        BY <2>1, <2>3, <2>4, <2>5, SentShape
    <2>7. PICK K \in 1..Len(S) : Sent(messages, L, S, K)
        BY <2>6
    <2>8. Select(messages, {i \in DOMAIN messages : messages[i].role # "system"}) = messages
        <3>1. \A i \in DOMAIN messages : messages[i].role # "system"
            <4> SUFFICES ASSUME NEW i \in DOMAIN messages PROVE messages[i].role # "system"
                OBVIOUS
            <4>1. messages[i] \in MessageSet
                BY <2>1
            <4> QED BY <4>1 DEF MessageSet
        <3>2. {i \in DOMAIN messages : messages[i].role # "system"} = DOMAIN messages
            BY <3>1
        <3> QED BY <2>1, <3>2, SelectAll
    <2>9. ToGeminiContents(messages)
             = LET begins == Ascending({i \in DOMAIN S : ~Continues(S, i)})
               IN  [k \in DOMAIN begins |-> ContentOf(S, begins[k])]
        BY <2>8 DEF ToGeminiContents
    <2> HIDE DEF S
    <2>10. /\ WellFormed(ToGeminiContents(messages))
           /\ \A k \in 1..Len(S) :
                IsUser(S[k]) => S[k].text \subseteq Mentions(ToGeminiContents(messages))
        BY <2>6, <2>7, <2>9, ContentsAccepted
    <2>11. ASSUME NEW b \in 1..Len(history), IsUser(history[b]),
                  Len(history) - b + 1 <= HISTORY_TAIL_CEILING
           PROVE  history[b].text \subseteq Mentions(ToGeminiContents(messages))
        <3>1. PICK j \in 1..Len(h) : h[j] = history[b]
            BY <2>2, <2>11
        <3>2. messages[j] = history[b] /\ j \in 1..L
            BY <2>3, <2>4, <3>1 DEF L
        <3>3. PICK k \in 1..Len(S) : S[k] = messages[j]
            BY <2>7, <2>11, <3>2 DEF Sent
        <3> QED BY <2>10, <2>11, <3>2, <3>3
    <2> QED BY <2>10, <2>11
<1>2. LastTurnReplayed
    <2> DEFINE I == {i \in 1..Len(history) : IsUser(history[i])}
    <2>1. SelectLastInSeq(history, IsUser) = IF I # {} THEN Max(I) ELSE 0
        BY DEF SelectLastInSeq
    <2>2. I # {} => Max(I) \in I
        <3>1. Len(history) \in Nat /\ I \in SUBSET Nat /\ \A i \in I : i <= Len(history)
            BY DEF TurnInv, MessagesShape
        <3> HIDE DEF I
        <3> QED BY <3>1, HasGreatest
    <2> HIDE DEF I
    <2>3. ASSUME I = {} PROVE SelectLastInSeq(history, IsUser) = 0
        BY <2>1, <2>3
    <2>4. ASSUME I # {}
          PROVE  /\ SelectLastInSeq(history, IsUser) \in 1..Len(history)
                 /\ IsUser(history[SelectLastInSeq(history, IsUser)])
        <3>1. SelectLastInSeq(history, IsUser) \in I
            BY <2>1, <2>2, <2>4
        <3> QED BY <3>1 DEF I
    <2> DEFINE begins == SelectLastInSeq(history, IsUser)
    <2> HIDE DEF begins
    <2>5. begins > 0 => begins \in 1..Len(history) /\ IsUser(history[begins])
        <3>1. CASE I = {}
            <4>1. begins = 0
                BY <2>3, <3>1 DEF begins
            <4> QED BY <4>1
        <3>2. CASE I # {}
            BY <2>4, <3>2 DEF begins
        <3> QED BY <3>1, <3>2
    <2>6. (/\ stage = "ask" /\ begins > 0
           /\ Len(history) - begins + 1 <= HISTORY_TAIL_CEILING)
              => history[begins].text \subseteq Mentions(ToGeminiContents(messages))
        BY <1>1, <2>5
    <2> QED BY <2>6 DEF LastTurnReplayed, begins
<1>3. RequestsWellFormed
    BY <1>1 DEF RequestsWellFormed
<1> QED BY <1>2, <1>3, DeclaredAccepted DEF PromptsAreSound

(* Every request to Gemini is one that it accepts: each call answered once *)
(* and in its order by the next content, whatever order the executions     *)
(* ended in and wherever the history was cut; the last turn is part of it  *)
(* when there is room; and a call with the arguments that its declaration  *)
(* requires is executed (gemini-content.mapper.ts,                         *)
(* conversation-context.service.ts, tool-executor.ts).                     *)
THEOREM PromptsAreAccepted ==
    ASSUME Sound
    PROVE  Spec => []PromptsAreSound
<1>1. Init => TurnInv /\ PromptInv
    BY TurnInvInit DEF Init, PromptInv
<1>2. TurnInv /\ PromptInv /\ [Next]_vars => TurnInv' /\ PromptInv'
    BY TurnInvStep, PromptStep
<1>3. TurnInv /\ PromptInv => PromptsAreSound
    BY PromptSound
<1> QED BY <1>1, <1>2, <1>3, PTL DEF Spec
===============================================================================
