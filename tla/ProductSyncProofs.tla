------------------------- MODULE ProductSyncProofs --------------------------
(***************************************************************************)
(* That a full sync brings the products of a store up to date, hides no    *)
(* live product and respects the plan, for any number of products, workers *)
(* and events (ProductSync).                                               *)
(***************************************************************************)
EXTENDS ProductSync, FiniteSetTheorems, TLAPS

(* Versions grow with the merchant's changes; what is stored, or about to  *)
(* be, has been in Salla, where what was deleted does not come back.       *)
KnownInv ==
    /\ \A p \in Products : /\ salla[p].version <= events + 1
                           /\ salla[p].live => salla[p].version # 0
                           /\ stored[p].version # 0 => salla[p].version # 0
    /\ \A v \in Workers : step[v] \in {"bulk", "find", "room", "upsert", "meili", "commit"}
                              => salla[sync[v].product].version # 0

(* Only full syncs that are running are noted in a document or in a write. *)
FreshInv ==
    /\ \A p \in Products : stored[p].fresh \subseteq FullSyncs
    /\ \A v \in Workers : sync[v].write.fresh \subseteq FullSyncs
    /\ whole \subseteq FullSyncs

(* The live products that w would hide if it hid now, and those that a     *)
(* transaction under way will make so when it commits.                     *)
Writing(v) == step[v] \in {"meili", "commit"} /\ sync[v].write.visible
Due(w) ==
    {p \in Live : p \in Visible /\ w \notin stored[p].fresh} \cup
    {p \in Live : \E v \in Workers : /\ Writing(v) /\ sync[v].product = p
                                     /\ w \notin sync[v].write.fresh}

(* They stand at the page to be read or behind it, but for the product in  *)
(* hand until it is written; past the last page there is none.             *)
Swept(w) ==
    /\ step[w] \in {"limit", "count", "list"} =>
          \A p \in Due(w) : Position(p) >= sync[w].page
    /\ step[w] = "bulk" =>
          \A p \in Due(w) \ {sync[w].product} :
              /\ Position(p) >= sync[w].page + 1
              /\ MorePages(sync[w].page, sync[w].pages)
    /\ step[w] \in {"readback", "docs"} =>
          \A p \in Due(w) :
              /\ Position(p) >= sync[w].page + 1
              /\ MorePages(sync[w].page, sync[w].pages)
    /\ step[w] = "hide" /\ ~sync[w].cut => Due(w) = {}
SweepInv == \A w \in whole : Swept(w)

(* What a full sync that nothing interfered with has written.              *)
Written(w) == {p \in Visible : w \in stored[p].fresh}

Current(p) == stored[p].visible /\ stored[p].version = salla[p].version
Found(p) == index[p] = salla[p].version
UpToDate(w, p) == w \in stored[p].fresh /\ Current(p) /\ Found(p)

(* Such a sync has brought the pages before its page up to date, and has   *)
(* written live products alone.                                            *)
Reconciling(w) ==
    /\ \A p \in Products : w \in stored[p].fresh => p \in Live
    /\ step[w] \in {"limit", "count"} => sync[w].page = 1
    /\ step[w] \in {"list", "bulk", "readback", "docs"} =>
          \A p \in Live : Position(p) < sync[w].page => UpToDate(w, p)
    /\ step[w] \in {"bulk", "readback", "docs"} =>
          /\ sync[w].product \in Live /\ Position(sync[w].product) = sync[w].page
          /\ sync[w].pages = Cardinality(Live)
    /\ step[w] \in {"bulk", "docs"} => sync[w].got = salla[sync[w].product].version
    /\ step[w] \in {"readback", "docs"} =>
          w \in stored[sync[w].product].fresh /\ Current(sync[w].product)
    /\ step[w] = "hide" /\ ~sync[w].cut => \A p \in Live : UpToDate(w, p)
CalmInv == \A w \in calm : Reconciling(w)

(* What it has written, and has in hand, is counted in the usage that it   *)
(* compares with its limit.                                                *)
Within(w) == Written(w) # {} /\ sync[w].limit # Unlimited => sync[w].used <= sync[w].limit
Budgeting(w) ==
    /\ step[w] \in {"limit", "count"} => Written(w) = {}
    /\ step[w] \in FullSteps \ {"limit", "count", "done"} =>
          SlotsOf(Written(w)) <= sync[w].used /\ Within(w)
    /\ step[w] = "bulk" =>
          /\ SlotsOf(Written(w)) + Slots(sync[w].product) <= sync[w].used
          /\ sync[w].limit # Unlimited => sync[w].used <= sync[w].limit
BudgetInv == \A w \in calm : Budgeting(w)
-------------------------------------------------------------------------------
(* Sets of products are finite, and count N products at most.              *)
LEMMA ProductsCount ==
    ASSUME NEW Q, Q \subseteq Products, NEW P, P \subseteq Q
    PROVE  /\ IsFiniteSet(Q) /\ IsFiniteSet(P)
           /\ Cardinality(Q) \in 0..N /\ Cardinality(P) \in 0..N
           /\ Cardinality(P) <= Cardinality(Q)
           /\ Cardinality(P) = Cardinality(Q) => P = Q
<1>1. IsFiniteSet(Products) /\ Cardinality(Products) = N
  BY SyncAssumption, FS_Interval DEF Products
<1>2. IsFiniteSet(Q) /\ Cardinality(Q) <= N
  BY <1>1, FS_Subset
<1>3. /\ IsFiniteSet(P) /\ Cardinality(P) <= Cardinality(Q)
      /\ Cardinality(P) = Cardinality(Q) => P = Q
  BY <1>2, FS_Subset
<1>4. Cardinality(P) \in Nat /\ Cardinality(Q) \in Nat
  BY <1>2, <1>3, FS_CardinalityType
<1> QED
  BY <1>2, <1>3, <1>4, SyncAssumption

(* Slots are a number, no fewer for more products, and grow by those of a  *)
(* product that is added.                                                  *)
LEMMA SlotsCount ==
    ASSUME NEW Q, Q \subseteq Products, NEW P, P \subseteq Q
    PROVE  /\ SlotsOf(Q) \in Nat /\ SlotsOf(P) <= SlotsOf(Q)
           /\ \A p \in Products : /\ Slots(p) \in Nat
                                  /\ SlotsOf(Q \cup {p}) <= SlotsOf(Q) + Slots(p)
           /\ SlotsOf({}) = 0
<1>1. /\ Cardinality(Q) \in Nat /\ Cardinality(P) \in Nat /\ Cardinality(P) <= Cardinality(Q)
      /\ IsFiniteSet(Q)
  BY ProductsCount, SyncAssumption
<1>2. P \cap Varied \subseteq Q \cap Varied /\ Q \cap Varied \subseteq Products
  OBVIOUS
<1>3. /\ Cardinality(Q \cap Varied) \in Nat /\ Cardinality(P \cap Varied) \in Nat
      /\ Cardinality(P \cap Varied) <= Cardinality(Q \cap Varied)
      /\ IsFiniteSet(Q \cap Varied)
  BY <1>2, ProductsCount, SyncAssumption
<1>4. ASSUME NEW p \in Products
      PROVE  Slots(p) \in Nat /\ SlotsOf(Q \cup {p}) <= SlotsOf(Q) + Slots(p)
  <2>1. Cardinality(Q \cup {p}) \in {Cardinality(Q), Cardinality(Q) + 1}
    BY <1>1, FS_AddElement
  <2>2. CASE p \in Varied
    <3>1. (Q \cup {p}) \cap Varied = (Q \cap Varied) \cup {p}
      BY <2>2
    <3>2. Cardinality((Q \cap Varied) \cup {p})
              \in {Cardinality(Q \cap Varied), Cardinality(Q \cap Varied) + 1}
      BY <1>3, FS_AddElement
    <3> QED
      BY <1>1, <1>3, <2>1, <2>2, <3>1, <3>2 DEF Slots, SlotsOf
  <2>3. CASE p \notin Varied
    <3>1. (Q \cup {p}) \cap Varied = Q \cap Varied
      BY <2>3
    <3>2. /\ Slots(p) = 1 /\ SlotsOf(Q) = Cardinality(Q) + Cardinality(Q \cap Varied)
          /\ SlotsOf(Q \cup {p}) = Cardinality(Q \cup {p}) + Cardinality(Q \cap Varied)
      BY <2>3, <3>1 DEF Slots, SlotsOf
    <3> QED
      BY <1>1, <1>3, <2>1, <3>2
  <2> QED
    BY <2>2, <2>3
<1>5. SlotsOf({}) = 0
  <2>1. {} \cap Varied = {}
    OBVIOUS
  <2> QED
    BY <2>1, FS_EmptySet DEF SlotsOf
<1> QED
  BY <1>1, <1>3, <1>4, <1>5 DEF SlotsOf

(* The place of a product among the products of a list.                    *)
Place(L, p) == Cardinality({q \in L : q <= p})

(* The page of a product in Salla's listing.                               *)
LEMMA PositionIsPlace == \A p : Position(p) = Place(Live, p)
BY DEF Position, Place

(* Places are distinct, in the order of the products, and lie between one  *)
(* and the length of the list; a product of a longer list has no lower one.*)
LEMMA Places ==
    ASSUME NEW L, L \subseteq Products, NEW M, M \subseteq L, NEW p \in Products
    PROVE  /\ Place(L, p) \in Nat
           /\ p \in L => Place(L, p) >= 1 /\ Place(L, p) <= Cardinality(L)
           /\ \A q \in L : q < p /\ p \in L => Place(L, q) < Place(L, p)
           /\ \A q \in L : p \in L /\ Place(L, q) = Place(L, p) => q = p
           /\ Place(M, p) <= Place(L, p)
<1> DEFINE Upto(S, x) == {q \in S : q <= x}
<1>1. Products \subseteq Int
  BY DEF Products
<1>2. \A x : Upto(L, x) \subseteq L /\ Upto(L, x) \subseteq Products
  OBVIOUS
<1>3. Place(L, p) \in Nat /\ Place(M, p) <= Place(L, p)
  <2>1. Upto(M, p) \subseteq Upto(L, p)
    OBVIOUS
  <2> QED
    BY <1>2, <2>1, ProductsCount, SyncAssumption DEF Place
<1>4. p \in L => Place(L, p) >= 1 /\ Place(L, p) <= Cardinality(L)
  <2> SUFFICES ASSUME p \in L PROVE Place(L, p) >= 1 /\ Place(L, p) <= Cardinality(L)
    OBVIOUS
  <2>1. p \in Upto(L, p)
    BY <1>1
  <2>2. Cardinality(Upto(L, p)) # 0
    BY <1>2, <2>1, ProductsCount, FS_EmptySet
  <2>3. Cardinality(Upto(L, p)) <= Cardinality(L)
    BY <1>2, ProductsCount
  <2> QED
    BY <1>3, <2>2, <2>3 DEF Place
<1>5. \A x, y \in L : x < y => Place(L, x) < Place(L, y)
  <2> SUFFICES ASSUME NEW x \in L, NEW y \in L, x < y PROVE Place(L, x) < Place(L, y)
    OBVIOUS
  <2>0. x \in Int /\ y \in Int /\ \A q \in L : q \in Int
    BY <1>1
  <2>1. /\ Upto(L, x) \subseteq Upto(L, y)
        /\ y \in Upto(L, y) /\ y \notin Upto(L, x)
    <3>1. \A q \in L : q <= x => q <= y
      BY <2>0
    <3>2. y <= y /\ ~(y <= x)
      BY <2>0
    <3> QED
      BY <3>1, <3>2
  <2>2. /\ Cardinality(Upto(L, x)) \in Nat /\ Cardinality(Upto(L, y)) \in Nat
        /\ Cardinality(Upto(L, x)) <= Cardinality(Upto(L, y))
        /\ Cardinality(Upto(L, x)) # Cardinality(Upto(L, y))
    BY <1>2, <2>1, ProductsCount, SyncAssumption
  <2> QED
    BY <2>2 DEF Place
<1>6. \A q \in L : p \in L /\ Place(L, q) = Place(L, p) => q = p
  <2> SUFFICES ASSUME NEW q \in L, p \in L, Place(L, q) = Place(L, p) PROVE q = p
    OBVIOUS
  <2>1. ~(q < p) /\ ~(p < q)
    BY <1>3, <1>5
  <2> QED
    BY <1>1, <2>1
<1> QED
  BY <1>3, <1>4, <1>5, <1>6
-------------------------------------------------------------------------------
Labels == {"idle"} \cup FullSteps \cup TxSteps
ProductSteps == {"bulk", "readback", "docs"} \cup TxSteps
KnownSteps == {"bulk", "find", "room", "upsert", "meili", "commit"}

(* A handler begins with blank variables.                                  *)
LEMMA Blanks ==
    /\ FullJob \in Jobs
    /\ NoDocument \in Documents
    /\ \A j \in Jobs : /\ Blank(j) \in Locals
                       /\ Blank(j).product = j.product /\ Blank(j).page = 1
                       /\ Blank(j).write = NoDocument /\ ~Blank(j).cut
                       /\ j.product \in 0..N
BY SyncAssumption
   DEF FullJob, Jobs, Blank, Locals, NoDocument, Documents, Versions, Products

(* What the variables of a handler are.                                    *)
LEMMA LocalsAre ==
    ASSUME ProductTypeOK, NEW v \in Workers
    PROVE  /\ sync[v] \in Locals
           /\ sync[v].job \in Jobs /\ sync[v].product \in 0..N
           /\ sync[v].got \in Versions /\ sync[v].limit \in Nat \cup {Unlimited}
           /\ sync[v].used \in Nat /\ sync[v].page \in Products
           /\ sync[v].pages \in 0..N /\ sync[v].write \in Documents
           /\ sync[v].cut \in BOOLEAN /\ sync[v].clash \in BOOLEAN
           /\ step[v] \in ProductSteps => sync[v].product \in Products
<1>1. sync[v] \in Locals
  BY DEF ProductTypeOK
<1> QED
  BY <1>1 DEF ProductTypeOK, Locals, ProductSteps

(* What a write to P leaves of the other handlers' variables: all but the  *)
(* note that they have met another writer.                                 *)
LEMMA AfterWrite ==
    ASSUME ProductTypeOK, NEW w \in Workers, NEW fields \in Locals, NEW P,
           LocalAfterWrite(w, fields, P)
    PROVE  /\ sync' \in [Workers -> Locals] /\ sync'[w] = fields
           /\ \A v \in Workers \ {w} :
                 /\ sync'[v].product = sync[v].product
                 /\ sync'[v].got = sync[v].got /\ sync'[v].limit = sync[v].limit
                 /\ sync'[v].used = sync[v].used /\ sync'[v].page = sync[v].page
                 /\ sync'[v].pages = sync[v].pages /\ sync'[v].cut = sync[v].cut
                 /\ sync'[v].write = sync[v].write
           /\ calm' = calm \cap {w}
<1>1. \A v \in Workers : sync[v] \in Locals
  BY DEF ProductTypeOK
<1>2. ASSUME NEW v \in Workers \ {w}
      PROVE  sync'[v] \in {sync[v], [sync[v] EXCEPT !.clash = TRUE]}
  BY DEF LocalAfterWrite
<1>3. ASSUME NEW v \in Workers
      PROVE  [sync[v] EXCEPT !.clash = TRUE] \in Locals
  BY <1>1 DEF Locals
<1>4. sync'[w] = fields /\ calm' = calm \cap {w}
  BY DEF LocalAfterWrite
<1>5. sync' \in [Workers -> Locals]
  <2>1. \A v \in Workers : sync'[v] \in Locals
    BY <1>1, <1>2, <1>3, <1>4
  <2>2. sync' = [v \in Workers |-> sync'[v]]
    BY DEF LocalAfterWrite
  <2> QED
    BY <2>1, <2>2
<1>6. ASSUME NEW v \in Workers \ {w}
      PROVE  /\ sync'[v].product = sync[v].product
             /\ sync'[v].got = sync[v].got /\ sync'[v].limit = sync[v].limit
             /\ sync'[v].used = sync[v].used /\ sync'[v].page = sync[v].page
             /\ sync'[v].pages = sync[v].pages /\ sync'[v].cut = sync[v].cut
             /\ sync'[v].write = sync[v].write
  BY <1>1, <1>2 DEF Locals
<1> QED
  BY <1>4, <1>5, <1>6

(* A worker that leaves is blank and idle, and forgotten everywhere.       *)
LEMMA AfterLeave ==
    ASSUME ProductTypeOK, NEW w \in Workers, Leave(w)
    PROVE  /\ sync' \in [Workers -> Locals] /\ sync'[w] = Blank(FullJob)
           /\ \A v \in Workers \ {w} :
                 /\ sync'[v].product = sync[v].product
                 /\ sync'[v].got = sync[v].got /\ sync'[v].limit = sync[v].limit
                 /\ sync'[v].used = sync[v].used /\ sync'[v].page = sync[v].page
                 /\ sync'[v].pages = sync[v].pages /\ sync'[v].cut = sync[v].cut
                 /\ sync'[v].write.version = sync[v].write.version
                 /\ sync'[v].write.visible = sync[v].write.visible
                 /\ sync'[v].write.fresh = sync[v].write.fresh \ {w}
           /\ stored' \in [Products -> Documents]
           /\ \A p \in Products : /\ stored'[p].version = stored[p].version
                                  /\ stored'[p].visible = stored[p].visible
                                  /\ stored'[p].fresh = stored[p].fresh \ {w}
           /\ calm' = calm \ {w} /\ whole' = whole \ {w} /\ Goto(w, "idle")
<1>1. /\ \A v \in Workers : sync[v] \in Locals /\ sync[v].write \in Documents
      /\ \A p \in Products : stored[p] \in Documents
  BY LocalsAre DEF ProductTypeOK
<1>2. ASSUME NEW doc \in Documents
      PROVE  /\ Forgotten(doc, w) \in Documents
             /\ Forgotten(doc, w).version = doc.version
             /\ Forgotten(doc, w).visible = doc.visible
             /\ Forgotten(doc, w).fresh = doc.fresh \ {w}
  BY DEF Forgotten, Documents
<1>3. ASSUME NEW v \in Workers \ {w}
      PROVE  /\ sync'[v] \in Locals
             /\ sync'[v].product = sync[v].product
             /\ sync'[v].got = sync[v].got /\ sync'[v].limit = sync[v].limit
             /\ sync'[v].used = sync[v].used /\ sync'[v].page = sync[v].page
             /\ sync'[v].pages = sync[v].pages /\ sync'[v].cut = sync[v].cut
             /\ sync'[v].write = Forgotten(sync[v].write, w)
  <2>1. sync'[v] = [sync[v] EXCEPT !.write = Forgotten(sync[v].write, w)]
    BY <1>1 DEF Leave
  <2>2. Forgotten(sync[v].write, w) \in Documents
    BY <1>1, <1>2
  <2> QED
    BY <1>1, <2>1, <2>2 DEF Locals
<1>4. /\ sync'[w] = Blank(FullJob)
      /\ calm' = calm \ {w} /\ whole' = whole \ {w} /\ Goto(w, "idle")
      /\ sync' = [v \in Workers |-> sync'[v]]
      /\ stored' = [p \in Products |-> Forgotten(stored[p], w)]
  BY DEF Leave, Done
<1>5. sync' \in [Workers -> Locals]
  BY <1>3, <1>4, Blanks
<1>6. /\ stored' \in [Products -> Documents]
      /\ \A p \in Products : /\ stored'[p].version = stored[p].version
                             /\ stored'[p].visible = stored[p].visible
                             /\ stored'[p].fresh = stored[p].fresh \ {w}
  BY <1>1, <1>2, <1>4
<1> QED
  BY <1>1, <1>2, <1>3, <1>4, <1>5, <1>6

(* The local part of the types, after a step of w that goes to a label.    *)
LEMMA Moved ==
    ASSUME ProductTypeOK, KnownInv, NEW w \in Workers, NEW label \in Labels,
           Goto(w, label), sync' \in [Workers -> Locals],
           \A v \in Workers \ {w} : sync'[v].product = sync[v].product,
           label \in ProductSteps => sync'[w].product \in Products,
           label \in KnownSteps => salla[sync'[w].product].version # 0
    PROVE  /\ step' \in [Workers -> {"idle"} \cup FullSteps \cup TxSteps]
           /\ step'[w] = label /\ \A v \in Workers \ {w} : step'[v] = step[v]
           /\ \A v \in Workers : step'[v] \in ProductSteps => sync'[v].product \in Products
           /\ \A v \in Workers : step'[v] \in KnownSteps
                                    => salla[sync'[v].product].version # 0
<1>1. step \in [Workers -> Labels] /\ step' = [step EXCEPT ![w] = label]
  BY DEF ProductTypeOK, Labels, Goto
<1>2. /\ step' \in [Workers -> Labels] /\ step'[w] = label
      /\ \A v \in Workers \ {w} : step'[v] = step[v]
  BY <1>1
<1>3. ASSUME NEW v \in Workers \ {w}
      PROVE  /\ step'[v] \in ProductSteps => sync'[v].product \in Products
             /\ step'[v] \in KnownSteps => salla[sync'[v].product].version # 0
  BY <1>2, <1>3, LocalsAre DEF KnownInv, KnownSteps
<1> QED
  BY <1>2, <1>3 DEF Labels

(* One handler's variables are replaced.                                   *)
LEMMA LocalStep ==
    ASSUME ProductTypeOK, NEW w \in Workers, NEW fields \in Locals, Local(w, fields)
    PROVE  /\ sync' \in [Workers -> Locals] /\ sync'[w] = fields
           /\ \A v \in Workers \ {w} : sync'[v] = sync[v]
BY DEF ProductTypeOK, Local

(* What outlives a page, and where the next one is.                        *)
LEMMA Turned ==
    ASSUME ProductTypeOK, NEW w \in Workers, NEW fields \in Locals, Turn(w, fields)
    PROVE  /\ sync' \in [Workers -> Locals]
           /\ \A v \in Workers \ {w} : sync'[v] = sync[v]
           /\ sync'[w].limit = fields.limit /\ sync'[w].used = fields.used
           /\ ~sync'[w].cut /\ sync'[w].write = NoDocument
           /\ \/ /\ MorePages(fields.page, fields.pages)
                 /\ Goto(w, "list") /\ sync'[w].page = fields.page + 1
              \/ /\ ~MorePages(fields.page, fields.pages)
                 /\ Goto(w, "hide")
<1>1. fields.page \in Products /\ fields.pages \in 0..N /\ 1 \in Products
      /\ fields.limit \in Nat \cup {Unlimited} /\ fields.used \in Nat
  BY SyncAssumption DEF Locals, Products
<1>2. ASSUME NEW k \in Products
      PROVE  /\ AfterTurn(fields, k) \in Locals /\ AfterTurn(fields, k).page = k
             /\ AfterTurn(fields, k).limit = fields.limit
             /\ AfterTurn(fields, k).used = fields.used /\ ~AfterTurn(fields, k).cut
             /\ AfterTurn(fields, k).write = NoDocument
  BY <1>1, Blanks DEF AfterTurn, Locals, Blank
<1>3. CASE MorePages(fields.page, fields.pages)
  <2>1. fields.page + 1 \in Products
    BY <1>1, <1>3, SyncAssumption DEF MorePages, Products
  <2>2. Local(w, AfterTurn(fields, fields.page + 1)) /\ Goto(w, "list")
    BY <1>3 DEF Turn
  <2>3. AfterTurn(fields, fields.page + 1) \in Locals
    BY <1>2, <2>1
  <2>4. /\ sync' \in [Workers -> Locals] /\ \A v \in Workers \ {w} : sync'[v] = sync[v]
        /\ sync'[w] = AfterTurn(fields, fields.page + 1)
    BY <2>2, <2>3, LocalStep
  <2> QED
    BY <1>2, <1>3, <2>1, <2>2, <2>4
<1>4. CASE ~MorePages(fields.page, fields.pages)
  <2>1. Local(w, AfterTurn(fields, 1)) /\ Goto(w, "hide")
    BY <1>4 DEF Turn
  <2>2. AfterTurn(fields, 1) \in Locals
    BY <1>1, <1>2
  <2>3. /\ sync' \in [Workers -> Locals] /\ \A v \in Workers \ {w} : sync'[v] = sync[v]
        /\ sync'[w] = AfterTurn(fields, 1)
    BY <2>1, <2>2, LocalStep
  <2> QED
    BY <1>1, <1>2, <1>4, <2>1, <2>3
<1> QED
  BY <1>3, <1>4

(* What a page shows.                                                      *)
LEMMA Listing ==
    ASSUME ProductTypeOK, NEW w \in Workers
    PROVE  /\ Listed(w) \in Locals /\ Listed(w).page = sync[w].page
           /\ Listed(w).limit = sync[w].limit /\ Listed(w).used = sync[w].used
           /\ Listed(w).pages = Cardinality(Live)
           /\ Cardinality(Live) \in 0..N
<1>1. Cardinality(Live) \in 0..N
  <2>1. Live \subseteq Products
    BY DEF Live
  <2> QED
    BY <2>1, ProductsCount
<1>2. sync[w] \in Locals
  BY LocalsAre
<1> QED
  BY <1>1, <1>2 DEF Listed, Locals

WorkerStep(w) ==
    \/ \E j \in Jobs : Take(w, j)
    \/ Process(w) \/ SkipProduct(w) \/ DocumentsFail(w) \/ Fails(w)

(* The variables of a handler that a step of another leaves as they are.   *)
SameWork(a, b) ==
    /\ a.product = b.product /\ a.got = b.got /\ a.limit = b.limit
    /\ a.used = b.used /\ a.page = b.page /\ a.pages = b.pages /\ a.cut = b.cut
    /\ a.write.version = b.write.version /\ a.write.visible = b.write.visible

(* A step that replaces the variables of one handler and goes to a label.  *)
LEMMA LocalMoves ==
    ASSUME ProductTypeOK, KnownInv, UNCHANGED salla, NEW w \in Workers,
           NEW label \in Labels, Goto(w, label), NEW fields \in Locals,
           Local(w, fields),
           label \in ProductSteps => fields.product \in Products,
           label \in KnownSteps => salla[fields.product].version # 0
    PROVE  /\ sync' \in [Workers -> Locals]
           /\ step' \in [Workers -> {"idle"} \cup FullSteps \cup TxSteps]
           /\ step'[w] = label /\ sync'[w] = fields
           /\ \A v \in Workers \ {w} : step'[v] = step[v] /\ sync'[v] = sync[v]
           /\ \A v \in Workers : step'[v] \in ProductSteps => sync'[v].product \in Products
           /\ \A v \in Workers : step'[v] \in KnownSteps
                                    => salla'[sync'[v].product].version # 0
<1>1. /\ sync' \in [Workers -> Locals] /\ sync'[w] = fields
      /\ \A v \in Workers \ {w} : sync'[v] = sync[v]
  BY LocalStep
<1>2. \A v \in Workers \ {w} : sync'[v].product = sync[v].product
  BY <1>1
<1> QED
  BY <1>1, <1>2, Moved

(* A step of a worker writes its own variables, and in those of others     *)
(* notes a conflict or forgets a full sync that has ended.                 *)
LEMMA OwnWork ==
    ASSUME ProductTypeOK, KnownInv, NEW w \in Workers, WorkerStep(w)
    PROVE  /\ UNCHANGED <<salla, limit>>
           /\ sync' \in [Workers -> Locals]
           /\ step' \in [Workers -> {"idle"} \cup FullSteps \cup TxSteps]
           /\ \A v \in Workers \ {w} :
                 /\ step'[v] = step[v] /\ SameWork(sync'[v], sync[v])
                 /\ \/ sync'[v].write.fresh = sync[v].write.fresh
                    \/ Leave(w) /\ sync'[v].write.fresh = sync[v].write.fresh \ {w}
           /\ \A v \in Workers : step'[v] \in ProductSteps => sync'[v].product \in Products
           /\ \A v \in Workers : step'[v] \in KnownSteps
                                    => salla'[sync'[v].product].version # 0
<1> DEFINE Typed ==
        /\ sync' \in [Workers -> Locals]
        /\ step' \in [Workers -> {"idle"} \cup FullSteps \cup TxSteps]
        /\ \A v \in Workers \ {w} :
              /\ step'[v] = step[v] /\ SameWork(sync'[v], sync[v])
              /\ \/ sync'[v].write.fresh = sync[v].write.fresh
                 \/ Leave(w) /\ sync'[v].write.fresh = sync[v].write.fresh \ {w}
        /\ \A v \in Workers : step'[v] \in ProductSteps => sync'[v].product \in Products
        /\ \A v \in Workers : step'[v] \in KnownSteps
                                 => salla'[sync'[v].product].version # 0
<1> HIDE DEF Typed
<1>1. UNCHANGED <<salla, limit>>
  BY DEF WorkerStep, Take, Process, FullSync, ProductChange, SkipProduct,
     DocumentsFail, Fails, ReadLimit, ReadUsage, ListNothing, ListTooMany,
     ListProduct, BulkUpsert, ReadBack, AddDocuments, HideStale, EndFullSync,
     FetchProduct, ProductNotFound, FindByExternalId, CheckRoom, LimitExceeded,
     Upsert, WriteConflict, SyncToMeilisearch, MarkHidden, NothingToHide, Commit,
     shared
<1>2. /\ sync[w] \in Locals
      /\ sync[w].job \in Jobs /\ sync[w].product \in 0..N
      /\ sync[w].got \in Versions /\ sync[w].limit \in Nat \cup {Unlimited}
      /\ sync[w].used \in Nat /\ sync[w].page \in Products
      /\ sync[w].pages \in 0..N /\ sync[w].write \in Documents
      /\ step[w] \in ProductSteps => sync[w].product \in Products
      /\ step[w] \in KnownSteps => salla[sync[w].product].version # 0
  BY LocalsAre DEF KnownInv, KnownSteps
<1>3. /\ limit \in Nat \cup {Unlimited}
      /\ \A p \in Products : /\ salla[p].version \in Versions
                             /\ stored[p] \in Documents
                             /\ stored[p].version \in Versions
  BY SyncAssumption DEF ProductTypeOK, Plans, Unlimited, Documents
<1> USE DEF At
<1>4. ASSUME NEW label \in Labels, Goto(w, label), NEW fields \in Locals,
             Local(w, fields),
             label \in ProductSteps => fields.product \in Products,
             label \in KnownSteps => salla[fields.product].version # 0
      PROVE  Typed
  <2>1. /\ sync' \in [Workers -> Locals]
        /\ step' \in [Workers -> {"idle"} \cup FullSteps \cup TxSteps]
        /\ \A v \in Workers \ {w} : step'[v] = step[v] /\ sync'[v] = sync[v]
        /\ \A v \in Workers : step'[v] \in ProductSteps => sync'[v].product \in Products
        /\ \A v \in Workers : step'[v] \in KnownSteps
                                 => salla'[sync'[v].product].version # 0
    BY <1>1, <1>4, LocalMoves
  <2> QED
    BY <2>1 DEF SameWork, Typed
<1>5. ASSUME NEW j \in Jobs, Take(w, j) PROVE Typed
  <2> DEFINE label == CASE j.kind = "full" -> "limit"
                        [] j.kind = "changed" -> "fetch"
                        [] j.kind = "deleted" -> "mark"
  <2>1. Goto(w, label) /\ Local(w, Blank(j))
    BY <1>5 DEF Take
  <2>2. /\ label \in Labels /\ label \notin KnownSteps
        /\ label \in ProductSteps => j.product \in Products
    BY DEF Jobs, Labels, FullSteps, TxSteps, KnownSteps, ProductSteps
  <2> HIDE DEF label
  <2> QED
    BY <1>4, <2>1, <2>2, Blanks
<1>6. ASSUME ReadLimit(w)
      PROVE  Typed
  <2>1. [sync[w] EXCEPT !.limit = limit] \in Locals
    BY <1>2, <1>3 DEF Locals
  <2> QED
    BY <1>4, <1>6, <2>1 DEF ReadLimit, Labels, FullSteps, ProductSteps, TxSteps, KnownSteps
<1>7. ASSUME ReadUsage(w)
      PROVE  Typed
  <2>1. Usage \in Nat
    BY SlotsCount DEF Usage, Visible
  <2>2. [sync[w] EXCEPT !.used = Usage] \in Locals
    BY <1>2, <2>1 DEF Locals
  <2> QED
    BY <1>4, <1>7, <2>2 DEF ReadUsage, Labels, FullSteps, ProductSteps, TxSteps, KnownSteps
<1>8. ASSUME ListTooMany(w)
      PROVE  Typed
  <2>1. [AfterTurn(sync[w], 1) EXCEPT !.cut = TRUE] \in Locals
    BY <1>2, Blanks, SyncAssumption DEF AfterTurn, Blank, Locals, Products
  <2> QED
    BY <1>4, <1>8, <2>1 DEF ListTooMany, Labels, FullSteps, ProductSteps, TxSteps, KnownSteps
<1>9. ASSUME ListProduct(w)
      PROVE  Typed
  <2>1. PICK p \in OnPage(sync[w].page) :
           Local(w, [Listed(w) EXCEPT !.product = p, !.got = salla[p].version,
                                      !.used = @ + Slots(p)])
    BY <1>9 DEF ListProduct
  <2> DEFINE fields == [Listed(w) EXCEPT !.product = p, !.got = salla[p].version,
                                         !.used = @ + Slots(p)]
  <2>2. p \in Products /\ salla[p].live /\ salla[p].version # 0 /\ Slots(p) \in Nat
    BY DEF OnPage, Live, KnownInv, Slots
  <2>3. Listed(w) \in Locals /\ Listed(w).used \in Nat
    BY <1>2, Listing
  <2>4. fields \in Locals /\ fields.product = p
    <3>1. p \in 0..N /\ salla[p].version \in Versions /\ Listed(w).used + Slots(p) \in Nat
      BY <1>3, <2>2, <2>3, SyncAssumption DEF Products
    <3> QED
      BY <2>3, <3>1 DEF Locals
  <2> HIDE DEF fields
  <2> QED
    BY <1>4, <1>9, <2>1, <2>2, <2>4 DEF ListProduct, Labels, FullSteps, fields
<1>10. ASSUME ReadBack(w)
      PROVE  Typed
  <2>1. sync[w].product \in Products
    BY <1>2, <1>10 DEF ReadBack, ProductSteps
  <2>2. Searchable(stored[sync[w].product]) \in Versions
    BY <1>3, <2>1, SyncAssumption DEF Searchable, Versions
  <2>3. /\ [sync[w] EXCEPT !.got = Searchable(stored[sync[w].product])] \in Locals
        /\ [sync[w] EXCEPT !.got = Searchable(stored[sync[w].product])].product
              = sync[w].product
    BY <1>2, <2>2 DEF Locals
  <2>4. /\ Goto(w, "docs")
        /\ Local(w, [sync[w] EXCEPT !.got = Searchable(stored[sync[w].product])])
    BY <1>10 DEF ReadBack
  <2>5. "docs" \in Labels /\ "docs" \notin KnownSteps
    BY DEF Labels, FullSteps, KnownSteps
  <2> QED
    BY <1>4, <2>1, <2>3, <2>4, <2>5
<1>11. ASSUME FetchProduct(w)
      PROVE  Typed
  <2> DEFINE fields == [sync[w] EXCEPT !.got = salla[sync[w].product].version,
                                       !.clash = FALSE]
  <2>1. sync[w].product \in Products /\ salla[sync[w].product].version # 0
    BY <1>2, <1>11 DEF FetchProduct, ProductSteps, TxSteps, KnownInv
  <2>2. fields \in Locals /\ fields.product = sync[w].product
    BY <1>2, <1>3, <2>1 DEF Locals
  <2>3. Goto(w, "find") /\ Local(w, fields)
    BY <1>11 DEF FetchProduct
  <2> HIDE DEF fields
  <2> QED
    BY <1>4, <2>1, <2>2, <2>3 DEF Labels, TxSteps
<1>12. ASSUME Upsert(w)
      PROVE  Typed
  <2> DEFINE doc == [version |-> sync[w].got, visible |-> TRUE, fresh |-> FullSyncs]
             fields == [sync[w] EXCEPT !.write = doc]
  <2>1. sync[w].product \in Products /\ salla[sync[w].product].version # 0
    BY <1>2, <1>12 DEF Upsert, ProductSteps, TxSteps, KnownSteps
  <2>2. doc \in Documents
    BY <1>2 DEF Documents, FullSyncs
  <2> HIDE DEF doc
  <2>3. fields \in Locals /\ fields.product = sync[w].product
    BY <1>2, <2>2 DEF Locals
  <2>4. Goto(w, "meili") /\ Local(w, fields)
    BY <1>12 DEF Upsert, doc
  <2> HIDE DEF fields
  <2> QED
    BY <1>4, <2>1, <2>3, <2>4 DEF Labels, TxSteps
<1>13. ASSUME MarkHidden(w)
      PROVE  Typed
  <2> DEFINE doc == [stored[sync[w].product] EXCEPT !.visible = FALSE, !.fresh = FullSyncs]
             fields == [sync[w] EXCEPT !.write = doc]
  <2>1. sync[w].product \in Products /\ salla[sync[w].product].version # 0
    BY <1>2, <1>13 DEF MarkHidden, ProductSteps, TxSteps, KnownInv
  <2>2. doc \in Documents
    BY <1>3, <2>1 DEF Documents, FullSyncs
  <2> HIDE DEF doc
  <2>3. fields \in Locals /\ fields.product = sync[w].product
    BY <1>2, <2>2 DEF Locals
  <2>4. Goto(w, "commit") /\ Local(w, fields)
    BY <1>13 DEF MarkHidden, doc
  <2> HIDE DEF fields
  <2> QED
    BY <1>4, <2>1, <2>3, <2>4 DEF Labels, TxSteps
<1>14. ASSUME NEW fields \in Locals, Turn(w, fields) PROVE Typed
  <2>1. /\ sync' \in [Workers -> Locals]
        /\ \A v \in Workers \ {w} : sync'[v] = sync[v]
        /\ Goto(w, "list") \/ Goto(w, "hide")
    BY <1>14, Turned
  <2>2. \A v \in Workers \ {w} : sync'[v].product = sync[v].product
    BY <2>1
  <2>3. {"list", "hide"} \subseteq Labels \ (ProductSteps \cup KnownSteps)
    BY DEF Labels, FullSteps, ProductSteps, TxSteps, KnownSteps
  <2> QED
    BY <1>1, <2>1, <2>2, <2>3, Moved DEF SameWork, Typed
<1>15. ASSUME ListNothing(w) \/ SkipProduct(w) \/ AddDocuments(w) \/ DocumentsFail(w)
      PROVE  Typed
  <2>1. Turn(w, Listed(w)) \/ Turn(w, sync[w])
    BY <1>15 DEF ListNothing, SkipProduct, AddDocuments, DocumentsFail
  <2> QED
    BY <1>2, <1>14, <2>1, Listing
<1>16. ASSUME NEW fields \in Locals, NEW P, LocalAfterWrite(w, fields, P),
              NEW label \in Labels \ KnownSteps, Goto(w, label),
              label \in ProductSteps => fields.product \in Products
       PROVE  Typed
  <2>1. /\ sync' \in [Workers -> Locals] /\ sync'[w] = fields
        /\ \A v \in Workers \ {w} : /\ SameWork(sync'[v], sync[v])
                                    /\ sync'[v].write = sync[v].write
    BY <1>16, AfterWrite DEF SameWork
  <2>2. \A v \in Workers \ {w} : sync'[v].product = sync[v].product
    BY <2>1 DEF SameWork
  <2> QED
    BY <1>1, <1>16, <2>1, <2>2, Moved DEF Typed
<1>17. ASSUME BulkUpsert(w)
      PROVE  Typed
  <2>1. sync[w].product \in Products
    BY <1>2, <1>17 DEF BulkUpsert, ProductSteps
  <2> QED
    BY <1>2, <1>16, <1>17, <2>1 DEF BulkUpsert, Labels, FullSteps, KnownSteps
<1>18. ASSUME HideStale(w)
      PROVE  Typed
  <2>1. Blank(FullJob) \in Locals
    BY Blanks
  <2>2. "done" \in Labels \ KnownSteps /\ "done" \notin ProductSteps
    BY DEF Labels, FullSteps, KnownSteps, ProductSteps, TxSteps
  <2>3. LocalAfterWrite(w, Blank(FullJob), Stale(w)) /\ Goto(w, "done")
    BY <1>18 DEF HideStale
  <2> QED
    BY <1>16, <2>1, <2>2, <2>3
<1>19. ASSUME Commit(w)
      PROVE  Typed
  <2>1. Blank(FullJob) \in Locals
    BY Blanks
  <2>2. "idle" \in Labels \ KnownSteps /\ "idle" \notin ProductSteps
    BY DEF Labels, KnownSteps, ProductSteps, TxSteps
  <2>3. LocalAfterWrite(w, Blank(FullJob), {sync[w].product}) /\ Goto(w, "idle")
    BY <1>19 DEF Commit
  <2> QED
    BY <1>16, <2>1, <2>2, <2>3
<1>20. ASSUME Leave(w)
      PROVE  Typed
  <2>1. /\ sync' \in [Workers -> Locals] /\ Goto(w, "idle")
        /\ \A v \in Workers \ {w} : /\ SameWork(sync'[v], sync[v])
                                    /\ sync'[v].write.fresh = sync[v].write.fresh \ {w}
    BY <1>20, AfterLeave DEF SameWork
  <2>2. \A v \in Workers \ {w} : sync'[v].product = sync[v].product
    BY <2>1 DEF SameWork
  <2>3. "idle" \in Labels \ (ProductSteps \cup KnownSteps)
    BY DEF Labels, ProductSteps, TxSteps, KnownSteps
  <2>4. /\ step' \in [Workers -> {"idle"} \cup FullSteps \cup TxSteps]
        /\ \A v \in Workers \ {w} : step'[v] = step[v]
        /\ \A v \in Workers : step'[v] \in ProductSteps => sync'[v].product \in Products
        /\ \A v \in Workers : step'[v] \in KnownSteps => salla[sync'[v].product].version # 0
    BY <2>1, <2>2, <2>3, Moved
  <2> QED
    BY <1>1, <1>20, <2>1, <2>4 DEF Typed
<1>21. ASSUME EndFullSync(w) \/ ProductNotFound(w) \/ LimitExceeded(w)
            \/ NothingToHide(w) \/ Fails(w)
      PROVE  Typed
  BY <1>20, <1>21 DEF EndFullSync, ProductNotFound, LimitExceeded, NothingToHide,
     Fails, Throws
<1>22. ASSUME NEW label \in Labels, Goto(w, label), UNCHANGED sync,
              label \in ProductSteps => sync[w].product \in Products,
              label \in KnownSteps => salla[sync[w].product].version # 0
       PROVE  Typed
  BY <1>1, <1>22, Moved DEF SameWork, ProductTypeOK, Typed
<1>23. ASSUME FindByExternalId(w) \/ CheckRoom(w) \/ SyncToMeilisearch(w)
      PROVE  Typed
  <2>1. step[w] \in {"find", "room", "meili"}
    BY <1>23 DEF FindByExternalId, CheckRoom, SyncToMeilisearch
  <2>2. sync[w].product \in Products /\ salla[sync[w].product].version # 0
    BY <1>2, <2>1 DEF ProductSteps, TxSteps, KnownSteps
  <2>3. UNCHANGED sync /\ \E label \in {"room", "upsert", "commit"} : Goto(w, label)
    BY <1>23 DEF FindByExternalId, CheckRoom, SyncToMeilisearch
  <2>4. {"room", "upsert", "commit"} \subseteq Labels
    BY DEF Labels, TxSteps
  <2> QED
    BY <1>22, <2>2, <2>3, <2>4
<1>24. ASSUME WriteConflict(w)
      PROVE  Typed
  <2>1. step[w] \in {"upsert", "mark"}
    BY <1>24 DEF WriteConflict
  <2>2. sync[w].product \in Products
    BY <1>2, <2>1 DEF ProductSteps, TxSteps
  <2>3. (Goto(w, "mark") \/ Goto(w, "fetch")) /\ UNCHANGED sync
    BY <1>24 DEF WriteConflict
  <2>4. {"mark", "fetch"} \subseteq Labels \ KnownSteps
    BY DEF Labels, TxSteps, KnownSteps
  <2>5. ASSUME NEW label \in {"mark", "fetch"}, Goto(w, label) PROVE Typed
    BY <1>22, <2>2, <2>3, <2>4, <2>5
  <2> QED
    BY <2>3, <2>5
<1>25. Typed
  BY <1>5, <1>6, <1>7, <1>8, <1>9, <1>10, <1>11, <1>12, <1>13, <1>15, <1>17,
     <1>18, <1>19, <1>21, <1>23, <1>24
     DEF WorkerStep, Process, FullSync, ProductChange
<1> QED
  BY <1>1, <1>25 DEF Typed

(* What each step may do to the stored products and to the history.        *)
LEMMA Storing ==
    ASSUME ProductTypeOK, KnownInv, NEW w \in Workers, WorkerStep(w)
    PROVE  /\ stored' \in [Products -> Documents] /\ index' \in [Products -> Versions]
           /\ queue' \in [Jobs -> Nat] /\ events' \in 0..MaxEvents
           /\ events' >= events
           /\ \A p \in Products : stored'[p].version # 0 => salla[p].version # 0
           /\ \A p \in Products :
                 \/ /\ stored'[p].version = stored[p].version
                    /\ stored'[p].visible => stored[p].visible
                    /\ \/ stored'[p].fresh = stored[p].fresh
                       \/ Leave(w) /\ stored'[p].fresh = stored[p].fresh \ {w}
                 \/ BulkUpsert(w) /\ p = sync[w].product /\ stored'[p].fresh = FullSyncs
                 \/ Commit(w) /\ p = sync[w].product /\ stored'[p] = sync[w].write
<1> DEFINE Kept == \A p \in Products :
                     /\ stored'[p].version = stored[p].version
                     /\ stored'[p].visible => stored[p].visible
                     /\ \/ stored'[p].fresh = stored[p].fresh
                        \/ Leave(w) /\ stored'[p].fresh = stored[p].fresh \ {w}
<1>1. /\ stored \in [Products -> Documents] /\ index \in [Products -> Versions]
      /\ queue \in [Jobs -> Nat] /\ events \in 0..MaxEvents
      /\ \A p \in Products : /\ stored[p] \in Documents /\ stored[p].fresh \subseteq Workers
                             /\ stored[p].version # 0 => salla[p].version # 0
  BY DEF ProductTypeOK, KnownInv, Documents
<1>2. /\ sync[w].job \in Jobs /\ sync[w].got \in Versions /\ sync[w].write \in Documents
      /\ step[w] \in ProductSteps => sync[w].product \in Products
      /\ step[w] \in KnownSteps => salla[sync[w].product].version # 0
  BY LocalsAre DEF KnownInv, KnownSteps
<1>3. ASSUME UNCHANGED stored PROVE stored' \in [Products -> Documents] /\ Kept
  <2>1. stored' \in [Products -> Documents]
    BY <1>1, <1>3
  <2>2. Kept
    BY <1>3
  <2> QED
    BY <2>1, <2>2
<1>4. ASSUME Leave(w) PROVE stored' \in [Products -> Documents] /\ Kept
  BY <1>4, AfterLeave
<1>5. ASSUME HideStale(w) PROVE stored' \in [Products -> Documents] /\ Kept
  <2>1. \A p \in Products : stored'[p] \in {stored[p], [stored[p] EXCEPT !.visible = FALSE]}
    BY <1>1, <1>5 DEF HideStale
  <2>2. \A p \in Products : /\ [stored[p] EXCEPT !.visible = FALSE] \in Documents
                            /\ [stored[p] EXCEPT !.visible = FALSE].version
                                    = stored[p].version
                            /\ ~[stored[p] EXCEPT !.visible = FALSE].visible
                            /\ [stored[p] EXCEPT !.visible = FALSE].fresh = stored[p].fresh
    BY <1>1 DEF Documents
  <2>3. stored' = [p \in Products |-> stored'[p]]
    BY <1>5 DEF HideStale
  <2>4. \A p \in Products : stored'[p] \in Documents
    BY <1>1, <2>1, <2>2
  <2>5. ASSUME NEW p \in Products
        PROVE  /\ stored'[p].version = stored[p].version
               /\ stored'[p].visible => stored[p].visible
               /\ stored'[p].fresh = stored[p].fresh
    BY <2>1, <2>2
  <2> QED
    BY <2>3, <2>4, <2>5
<1>6. ASSUME BulkUpsert(w)
      PROVE  /\ stored' \in [Products -> Documents]
             /\ salla[sync[w].product].version # 0
             /\ \A p \in Products \ {sync[w].product} : stored'[p] = stored[p]
             /\ stored'[sync[w].product].fresh = FullSyncs
  <2> DEFINE doc == [version |-> sync[w].got, visible |-> TRUE, fresh |-> FullSyncs]
  <2>1. sync[w].product \in Products /\ salla[sync[w].product].version # 0
    BY <1>2, <1>6 DEF BulkUpsert, At, ProductSteps, KnownSteps
  <2>2. doc \in Documents /\ doc.fresh = FullSyncs
    BY <1>2 DEF Documents, FullSyncs
  <2>3. stored' = [stored EXCEPT ![sync[w].product] = doc]
    BY <1>6 DEF BulkUpsert
  <2> HIDE DEF doc
  <2> QED
    BY <1>1, <2>1, <2>2, <2>3
<1>7. ASSUME Commit(w)
      PROVE  /\ stored' \in [Products -> Documents]
             /\ salla[sync[w].product].version # 0
             /\ \A p \in Products \ {sync[w].product} : stored'[p] = stored[p]
             /\ stored'[sync[w].product] = sync[w].write
  <2>1. sync[w].product \in Products /\ salla[sync[w].product].version # 0
    BY <1>2, <1>7 DEF Commit, At, ProductSteps, KnownSteps, TxSteps
  <2> QED
    BY <1>1, <1>2, <1>7, <2>1 DEF Commit
<1>8. \/ UNCHANGED stored \/ Leave(w) \/ HideStale(w) \/ BulkUpsert(w) \/ Commit(w)
  BY DEF WorkerStep, Take, Process, FullSync, ProductChange, SkipProduct,
     DocumentsFail, Fails, ReadLimit, ReadUsage, ListNothing, ListTooMany,
     ListProduct, ReadBack, AddDocuments, EndFullSync,
     FetchProduct, ProductNotFound, FindByExternalId, CheckRoom, LimitExceeded, Throws,
     Upsert, WriteConflict, SyncToMeilisearch, MarkHidden, NothingToHide, shared
<1>9. queue' \in [Jobs -> Nat]
  <2>1. \/ UNCHANGED queue \/ Enqueue(sync[w].job)
        \/ \E j \in Jobs : queue[j] > 0 /\ queue' = [queue EXCEPT ![j] = @ - 1]
    BY DEF WorkerStep, Take, Process, FullSync, ProductChange, SkipProduct,
       DocumentsFail, Fails, ReadLimit, ReadUsage, ListNothing, ListTooMany,
       ListProduct, BulkUpsert, HideStale, Commit, ReadBack, AddDocuments, EndFullSync,
       FetchProduct, ProductNotFound, FindByExternalId, CheckRoom, LimitExceeded, Throws,
       Upsert, WriteConflict, SyncToMeilisearch, MarkHidden, NothingToHide, shared
  <2>2. ASSUME Enqueue(sync[w].job) PROVE queue' \in [Jobs -> Nat]
    BY <1>1, <1>2, <2>2 DEF Enqueue
  <2>3. ASSUME NEW j \in Jobs, queue[j] > 0, queue' = [queue EXCEPT ![j] = @ - 1]
        PROVE  queue' \in [Jobs -> Nat]
    <3>1. queue[j] - 1 \in Nat
      BY <1>1, <2>3
    <3> QED
      BY <1>1, <2>3, <3>1
  <2> QED
    BY <1>1, <2>1, <2>2, <2>3
<1>10. events' \in 0..MaxEvents /\ events' >= events
  <2>1. UNCHANGED events \/ Event
    BY DEF WorkerStep, Take, Process, FullSync, ProductChange, SkipProduct,
       DocumentsFail, Fails, ReadLimit, ReadUsage, ListNothing, ListTooMany,
       ListProduct, BulkUpsert, HideStale, Commit, ReadBack, AddDocuments, EndFullSync,
       FetchProduct, ProductNotFound, FindByExternalId, CheckRoom, LimitExceeded, Throws,
       Upsert, WriteConflict, SyncToMeilisearch, MarkHidden, NothingToHide
  <2> QED
    BY <1>1, <2>1, SyncAssumption DEF Event
<1>11. index' \in [Products -> Versions]
  <2>1. \/ UNCHANGED index
        \/ /\ step[w] \in {"docs", "meili"}
           /\ index' = [index EXCEPT ![sync[w].product] = sync[w].got]
    BY DEF WorkerStep, Take, Process, FullSync, ProductChange, SkipProduct, At,
       DocumentsFail, Fails, ReadLimit, ReadUsage, ListNothing, ListTooMany,
       ListProduct, BulkUpsert, HideStale, Commit, ReadBack, AddDocuments, EndFullSync,
       FetchProduct, ProductNotFound, FindByExternalId, CheckRoom, LimitExceeded, Throws,
       Upsert, WriteConflict, SyncToMeilisearch, MarkHidden, NothingToHide, shared
  <2> QED
    BY <1>1, <1>2, <2>1
<1>12. ASSUME Kept PROVE \A p \in Products : stored'[p].version # 0 => salla[p].version # 0
  BY <1>1, <1>12
<1> HIDE DEF Kept
<1>13. \/ stored' \in [Products -> Documents] /\ Kept
       \/ BulkUpsert(w) \/ Commit(w)
  BY <1>3, <1>4, <1>5, <1>8
<1>14. stored' \in [Products -> Documents]
  BY <1>6, <1>7, <1>13
<1>15. \A p \in Products : stored'[p].version # 0 => salla[p].version # 0
  BY <1>1, <1>6, <1>7, <1>12, <1>13
<1>16. \A p \in Products :
          \/ /\ stored'[p].version = stored[p].version
             /\ stored'[p].visible => stored[p].visible
             /\ \/ stored'[p].fresh = stored[p].fresh
                \/ Leave(w) /\ stored'[p].fresh = stored[p].fresh \ {w}
          \/ BulkUpsert(w) /\ p = sync[w].product /\ stored'[p].fresh = FullSyncs
          \/ Commit(w) /\ p = sync[w].product /\ stored'[p] = sync[w].write
  BY <1>6, <1>7, <1>13 DEF Kept
<1> QED
  BY <1>9, <1>10, <1>11, <1>14, <1>15, <1>16

(* A full sync goes on until its worker leaves, and no step makes another. *)
LEMMA GoesOn ==
    ASSUME ProductTypeOK, KnownInv, NEW w \in Workers, WorkerStep(w)
    PROVE  /\ ~Leave(w) => FullSyncs \subseteq FullSyncs'
           /\ FullSyncs \ {w} = FullSyncs' \ {w}
           /\ Leave(w) => w \notin FullSyncs'
           /\ calm' \subseteq whole' /\ whole' \ {w} \subseteq whole
           /\ calm' \ {w} \subseteq calm
           /\ w \in whole' => w \in whole \/ (step[w] = "idle" /\ step'[w] = "limit")
           /\ w \in calm' => w \in calm \/ (step[w] = "idle" /\ step'[w] = "limit")
           /\ Leave(w) => w \notin whole'
           /\ w \in whole \/ w \in whole' => w \in Workers
<1>1. /\ calm \subseteq whole /\ whole \subseteq Workers
      /\ step \in [Workers -> {"idle"} \cup FullSteps \cup TxSteps]
      /\ \A v \in Workers \ {w} : step'[v] = step[v]
      /\ step' \in [Workers -> {"idle"} \cup FullSteps \cup TxSteps]
  BY OwnWork DEF ProductTypeOK
<1>2. ASSUME Leave(w)
      PROVE  /\ calm' = calm \ {w} /\ whole' = whole \ {w} /\ step'[w] = "idle"
  BY <1>1, <1>2 DEF Leave, Done, Goto
<1>3. \/ Leave(w)
      \/ /\ step[w] \in FullSteps => step'[w] \in FullSteps
         /\ calm' \subseteq calm /\ whole' \in {whole, whole \ {w}}
         /\ w \in calm' => w \in whole'
      \/ /\ step[w] = "idle" /\ step'[w] = "limit"
         /\ calm' = calm \cup {w} /\ whole' = whole \cup {w}
  <2>1. ASSUME NEW j \in Jobs, Take(w, j)
        PROVE  \/ /\ step[w] = "idle" /\ step'[w] = "limit"
                  /\ calm' = calm \cup {w} /\ whole' = whole \cup {w}
               \/ step[w] = "idle" /\ UNCHANGED <<calm, whole>>
    BY <1>1, <2>1 DEF Take, At, Goto
  <2>2. ASSUME ReadLimit(w) \/ ReadUsage(w) \/ ListTooMany(w)
                  \/ ListProduct(w) \/ BulkUpsert(w) \/ ReadBack(w) \/ HideStale(w)
        PROVE  step'[w] \in FullSteps /\ calm' \subseteq calm /\ UNCHANGED whole
    BY <1>1, <2>2 DEF ReadLimit, ReadUsage, ListTooMany, ListProduct,
       BulkUpsert, ReadBack, HideStale, Goto, LocalAfterWrite, FullSteps
  <2>3. ASSUME NEW fields, Turn(w, fields) PROVE step'[w] \in FullSteps
    BY <1>1, <2>3 DEF Turn, Goto, FullSteps
  <2>4. ASSUME ListNothing(w) \/ AddDocuments(w) \/ DocumentsFail(w)
        PROVE  step'[w] \in FullSteps /\ calm' \subseteq calm /\ UNCHANGED whole
    BY <2>3, <2>4 DEF ListNothing, AddDocuments, DocumentsFail
  <2>5. ASSUME SkipProduct(w)
        PROVE  step'[w] \in FullSteps /\ calm' = calm \ {w} /\ whole' = whole \ {w}
    BY <2>3, <2>5 DEF SkipProduct
  <2>6. ASSUME \/ FetchProduct(w) \/ FindByExternalId(w) \/ CheckRoom(w) \/ Upsert(w)
               \/ WriteConflict(w) \/ SyncToMeilisearch(w) \/ MarkHidden(w) \/ Commit(w)
        PROVE  step[w] \notin FullSteps /\ calm' \subseteq calm /\ UNCHANGED whole
    BY <2>6 DEF FetchProduct, FindByExternalId, CheckRoom, Upsert, At,
       WriteConflict, SyncToMeilisearch, MarkHidden, Commit, LocalAfterWrite, FullSteps
  <2>7. ASSUME EndFullSync(w) \/ ProductNotFound(w) \/ LimitExceeded(w)
                  \/ NothingToHide(w) \/ Fails(w)
        PROVE  Leave(w)
    BY <2>7 DEF EndFullSync, ProductNotFound, LimitExceeded, NothingToHide, Fails, Throws
  <2> DEFINE Aim == \/ Leave(w)
                    \/ /\ step[w] \in FullSteps => step'[w] \in FullSteps
                       /\ calm' \subseteq calm /\ whole' \in {whole, whole \ {w}}
                       /\ w \in calm' => w \in whole'
                    \/ /\ step[w] = "idle" /\ step'[w] = "limit"
                       /\ calm' = calm \cup {w} /\ whole' = whole \cup {w}
  <2>8. "idle" \notin FullSteps
    BY DEF FullSteps
  <2>9. (\E j \in Jobs : Take(w, j)) => Aim
    BY <1>1, <2>1, <2>8
  <2>10. ASSUME \/ ReadLimit(w) \/ ReadUsage(w) \/ ListTooMany(w) \/ ListProduct(w)
                \/ BulkUpsert(w) \/ ReadBack(w) \/ HideStale(w)
                \/ ListNothing(w) \/ AddDocuments(w) \/ DocumentsFail(w)
                \/ SkipProduct(w)
         PROVE  Aim
    BY <1>1, <2>2, <2>4, <2>5, <2>10
  <2>11. ASSUME \/ FetchProduct(w) \/ FindByExternalId(w) \/ CheckRoom(w) \/ Upsert(w)
                \/ WriteConflict(w) \/ SyncToMeilisearch(w) \/ MarkHidden(w) \/ Commit(w)
         PROVE  Aim
    BY <1>1, <2>6, <2>11
  <2> HIDE DEF Aim
  <2>12. Aim
    <3>1. Leave(w) => Aim
      BY DEF Aim
    <3> QED
      BY <2>7, <2>9, <2>10, <2>11, <3>1 DEF WorkerStep, Process, FullSync, ProductChange
  <2> QED
    BY <2>12 DEF Aim
<1>4. "limit" \in FullSteps /\ "idle" \notin FullSteps
  BY DEF FullSteps
<1>5. FullSyncs \ {w} = FullSyncs' \ {w}
  BY <1>1 DEF FullSyncs
<1>6. /\ ~Leave(w) => FullSyncs \subseteq FullSyncs'
      /\ Leave(w) => w \notin FullSyncs'
  BY <1>1, <1>2, <1>3, <1>4 DEF FullSyncs
<1>7. /\ calm' \subseteq whole' /\ whole' \ {w} \subseteq whole
      /\ calm' \ {w} \subseteq calm
  BY <1>1, <1>2, <1>3
<1>8. /\ w \in whole' => w \in whole \/ (step[w] = "idle" /\ step'[w] = "limit")
      /\ w \in calm' => w \in calm \/ (step[w] = "idle" /\ step'[w] = "limit")
      /\ Leave(w) => w \notin whole'
  BY <1>1, <1>2, <1>3
<1> QED
  BY <1>5, <1>6, <1>7, <1>8

(* What a handler is about to write: it noted all running full syncs when  *)
(* it put the document together.                                           *)
LEMMA WriteNotes ==
    ASSUME ProductTypeOK, KnownInv, FreshInv, NEW w \in Workers, WorkerStep(w)
    PROVE  /\ sync'[w].write.fresh \subseteq FullSyncs
           /\ Leave(w) => sync'[w].write.fresh = {}
           /\ \/ step'[w] \notin {"meili", "commit"}
              \/ /\ sync'[w].write = sync[w].write /\ sync'[w].product = sync[w].product
                 /\ step[w] = "meili"
              \/ sync'[w].write.fresh = FullSyncs
<1>1. /\ sync[w] \in Locals /\ sync \in [Workers -> Locals]
      /\ step \in [Workers -> {"idle"} \cup FullSteps \cup TxSteps]
      /\ sync[w].write.fresh \subseteq FullSyncs
      /\ step[w] \in ProductSteps => sync[w].product \in Products
  BY LocalsAre DEF ProductTypeOK, FreshInv
<1>2. NoDocument.fresh = {} /\ {} \subseteq FullSyncs
  BY DEF NoDocument
<1> DEFINE Noted == /\ sync'[w].write.fresh \subseteq FullSyncs
                    /\ \/ step'[w] \notin {"meili", "commit"}
                       \/ /\ sync'[w].write = sync[w].write
                          /\ sync'[w].product = sync[w].product /\ step[w] = "meili"
                       \/ sync'[w].write.fresh = FullSyncs
<1>3. ASSUME NEW fields, Local(w, fields), NEW label, label \notin {"meili", "commit"},
             Goto(w, label), fields.write \in {sync[w].write, NoDocument}
      PROVE  Noted
  BY <1>1, <1>2, <1>3 DEF Local, Goto
<1>4. ASSUME NEW fields, Local(w, fields), fields.write.fresh = FullSyncs PROVE Noted
  BY <1>1, <1>4 DEF Local
<1>5. ASSUME UNCHANGED sync,
             \/ \E label : /\ label \notin {"meili", "commit"}
                            /\ Goto(w, label)
             \/ step[w] = "meili"
      PROVE  Noted
  BY <1>1, <1>5 DEF Goto
<1> HIDE DEF Noted
<1>6. ASSUME Leave(w) PROVE Noted /\ sync'[w].write.fresh = {}
  <2>1. sync'[w].write.fresh = {} /\ Goto(w, "idle")
    BY <1>6, <1>2, AfterLeave, Blanks
  <2> QED
    BY <1>1, <2>1 DEF Goto, Noted
<1>7. ASSUME NEW j \in Jobs, Take(w, j) PROVE Noted
  <2>1. \E label \in {"limit", "fetch", "mark"} : Goto(w, label)
    BY <1>7 DEF Take, Jobs
  <2>2. Local(w, Blank(j)) /\ Blank(j).write = NoDocument
    BY <1>7, Blanks DEF Take
  <2> QED
    BY <1>3, <2>1, <2>2
<1>8. ASSUME \/ ReadLimit(w) \/ ReadUsage(w) \/ ReadBack(w) \/ FetchProduct(w)
      PROVE  Noted
  <2>1. \E label \in {"count", "list", "docs", "find"} : Goto(w, label)
    BY <1>8 DEF ReadLimit, ReadUsage, ReadBack, FetchProduct
  <2>2. PICK fields : Local(w, fields) /\ fields.write = sync[w].write
    <3>1. /\ \A x : [sync[w] EXCEPT !.limit = x].write = sync[w].write
          /\ \A x : [sync[w] EXCEPT !.used = x].write = sync[w].write
          /\ \A x : [sync[w] EXCEPT !.got = x].write = sync[w].write
          /\ \A x : [sync[w] EXCEPT !.got = x, !.clash = FALSE].write = sync[w].write
      BY <1>1 DEF Locals
    <3> QED
      BY <1>8, <3>1 DEF ReadLimit, ReadUsage, ReadBack, FetchProduct
  <2> QED
    BY <1>3, <2>1, <2>2
<1>9. ASSUME ListTooMany(w) PROVE Noted
  <2>1. [AfterTurn(sync[w], 1) EXCEPT !.cut = TRUE].write = NoDocument
    BY DEF AfterTurn, Blank
  <2> QED
    BY <1>3, <1>9, <2>1 DEF ListTooMany
<1>10. ASSUME ListProduct(w) PROVE Noted
  <2>1. PICK p \in OnPage(sync[w].page) :
           Local(w, [Listed(w) EXCEPT !.product = p, !.got = salla[p].version,
                                      !.used = @ + Slots(p)])
    BY <1>10 DEF ListProduct
  <2>2. [Listed(w) EXCEPT !.product = p, !.got = salla[p].version,
                          !.used = @ + Slots(p)].write = sync[w].write
    BY <1>1 DEF Listed, Locals
  <2>3. Goto(w, "bulk")
    BY <1>10 DEF ListProduct
  <2> QED
    BY <1>3, <2>1, <2>2, <2>3
<1>11. ASSUME NEW fields \in Locals, Turn(w, fields) PROVE Noted
  <2>1. sync'[w].write = NoDocument /\ (Goto(w, "list") \/ Goto(w, "hide"))
    BY <1>11, Turned
  <2>2. step'[w] \in {"list", "hide"}
    BY <1>1, <2>1 DEF Goto
  <2> QED
    BY <1>2, <2>1, <2>2 DEF Noted
<1>12. ASSUME ListNothing(w) \/ SkipProduct(w) \/ AddDocuments(w) \/ DocumentsFail(w)
       PROVE  Noted
  BY <1>1, <1>11, <1>12, Listing DEF ListNothing, SkipProduct, AddDocuments, DocumentsFail
<1>13. ASSUME NEW fields \in Locals, NEW P, LocalAfterWrite(w, fields, P),
              NEW label, label \notin {"meili", "commit"}, Goto(w, label),
              fields.write \in {sync[w].write, NoDocument}
       PROVE  Noted
  <2>1. sync'[w] = fields /\ step'[w] = label
    BY <1>1, <1>13, AfterWrite DEF Goto
  <2> QED
    BY <1>1, <1>2, <1>13, <2>1 DEF Noted
<1>14. ASSUME BulkUpsert(w) \/ HideStale(w) \/ Commit(w) PROVE Noted
  <2>1. \E fields \in {sync[w], Blank(FullJob)} : \E P : LocalAfterWrite(w, fields, P)
    BY <1>14 DEF BulkUpsert, HideStale, Commit
  <2>2. \E label \in {"readback", "done", "idle"} : Goto(w, label)
    BY <1>14 DEF BulkUpsert, HideStale, Commit
  <2>3. Blank(FullJob).write = NoDocument /\ Blank(FullJob) \in Locals
    BY Blanks
  <2> QED
    BY <1>1, <1>13, <2>1, <2>2, <2>3
<1>15. ASSUME FindByExternalId(w) \/ CheckRoom(w) \/ WriteConflict(w) \/ SyncToMeilisearch(w)
       PROVE  Noted
  <2>1. UNCHANGED sync
    BY <1>15 DEF FindByExternalId, CheckRoom, WriteConflict, SyncToMeilisearch
  <2>2. \/ step[w] = "meili"
        \/ \E label \in {"room", "upsert", "mark", "fetch"} : Goto(w, label)
    BY <1>15 DEF FindByExternalId, CheckRoom, WriteConflict, SyncToMeilisearch, At
  <2> QED
    BY <1>5, <2>1, <2>2
<1>16. ASSUME Upsert(w) \/ MarkHidden(w) PROVE Noted
  <2>1. \A doc : [sync[w] EXCEPT !.write = doc].write = doc
    BY <1>1 DEF Locals
  <2>2. ASSUME Upsert(w) PROVE Noted
    <3>1. Local(w, [sync[w] EXCEPT !.write =
             [version |-> sync[w].got, visible |-> TRUE, fresh |-> FullSyncs]])
      BY <2>2 DEF Upsert
    <3>2. [version |-> sync[w].got, visible |-> TRUE, fresh |-> FullSyncs].fresh = FullSyncs
      OBVIOUS
    <3> QED
      BY <1>4, <2>1, <3>1, <3>2
  <2>3. ASSUME MarkHidden(w) PROVE Noted
    <3>1. Local(w, [sync[w] EXCEPT !.write =
             [stored[sync[w].product] EXCEPT !.visible = FALSE, !.fresh = FullSyncs]])
      BY <2>3 DEF MarkHidden
    <3>2. stored[sync[w].product] \in Documents
      BY <1>1, <2>3 DEF MarkHidden, At, ProductSteps, TxSteps, ProductTypeOK
    <3>3. [stored[sync[w].product] EXCEPT !.visible = FALSE, !.fresh = FullSyncs].fresh
            = FullSyncs
      BY <3>2 DEF Documents
    <3> QED
      BY <1>4, <2>1, <3>1, <3>3
  <2> QED
    BY <1>16, <2>2, <2>3
<1>17. ASSUME EndFullSync(w) \/ ProductNotFound(w) \/ LimitExceeded(w)
                  \/ NothingToHide(w) \/ Fails(w)
       PROVE  Noted
  BY <1>6, <1>17 DEF EndFullSync, ProductNotFound, LimitExceeded, NothingToHide, Fails, Throws
<1>18. Noted
  BY <1>7, <1>8, <1>9, <1>10, <1>12, <1>14, <1>15, <1>16, <1>17
     DEF WorkerStep, Process, FullSync, ProductChange
<1> QED
  BY <1>6, <1>18 DEF Noted
-------------------------------------------------------------------------------
TypeInv == ProductTypeOK /\ KnownInv /\ FreshInv

(* What the merchant and the nightly job do: nothing to handlers and what  *)
(* is stored, and a deletion alone makes a version disappear from Salla.   *)
LEMMA Outside ==
    ASSUME ProductTypeOK, KnownInv, Merchant \/ RunDailyReconciliation
    PROVE  /\ UNCHANGED <<stored, index, step, sync>>
           /\ limit' \in Plans \cup {0} /\ queue' \in [Jobs -> Nat]
           /\ events' \in 0..MaxEvents
           /\ calm' \in {calm, {}} /\ whole' \in {whole, {}}
           /\ \/ UNCHANGED <<salla, whole>>
              \/ \E p \in Products : CreateOrUpdate(p)
              \/ whole' = {}
           /\ salla' \in [Products -> [version : Versions, live : BOOLEAN]]
           /\ \A p \in Products : /\ salla[p].version # 0 => salla'[p].version # 0
                                  /\ salla'[p].version <= events' + 1
                                  /\ salla'[p].live => salla'[p].version # 0
           /\ calm' # {} => UNCHANGED <<salla, calm>>
<1>1. /\ salla \in [Products -> [version : Versions, live : BOOLEAN]]
      /\ limit \in Plans \cup {0} /\ queue \in [Jobs -> Nat] /\ events \in 0..MaxEvents
      /\ \A p \in Products : /\ salla[p].version <= events + 1
                             /\ salla[p].live => salla[p].version # 0
  BY DEF ProductTypeOK, KnownInv
<1>2. ASSUME NEW j \in Jobs, Enqueue(j) PROVE queue' \in [Jobs -> Nat]
  BY <1>1, <1>2 DEF Enqueue
<1>3. /\ \A p \in Products : /\ [kind |-> "changed", product |-> p] \in Jobs
                             /\ [kind |-> "deleted", product |-> p] \in Jobs
      /\ FullJob \in Jobs
  BY Blanks DEF Jobs
<1>4. ASSUME Event PROVE events' \in 0..MaxEvents /\ events' = events + 1
  BY <1>1, <1>4, SyncAssumption DEF Event
<1>5. \A p \in Products : salla[p].version \in 0..(MaxEvents + 1) /\ salla[p].live \in BOOLEAN
  BY <1>1 DEF Versions
<1>6. ASSUME events' \in {events, events + 1}
      PROVE  \A p \in Products : salla[p].version <= events' + 1
  BY <1>1, <1>5, <1>6, SyncAssumption
<1>7. CASE \E p \in Products : CreateOrUpdate(p)
  <2>1. PICK p \in Products : CreateOrUpdate(p)
    BY <1>7
  <2>2. /\ Event /\ Enqueue([kind |-> "changed", product |-> p]) /\ calm' = {}
        /\ salla' = [salla EXCEPT ![p] = [version |-> @.version + 1, live |-> TRUE]]
        /\ UNCHANGED <<limit, stored, index, step, sync, whole>>
    BY <2>1 DEF CreateOrUpdate
  <2>3. salla[p].version + 1 \in 0..(MaxEvents + 1) /\ salla[p].version + 1 <= events' + 1
        /\ salla[p].version + 1 # 0
    BY <1>1, <1>4, <1>5, <2>2, SyncAssumption
  <2>4. /\ salla' \in [Products -> [version : Versions, live : BOOLEAN]]
        /\ salla'[p] = [version |-> salla[p].version + 1, live |-> TRUE]
        /\ \A q \in Products \ {p} : salla'[q] = salla[q]
    BY <1>1, <2>2, <2>3 DEF Versions
  <2>5. \A q \in Products : /\ salla[q].version # 0 => salla'[q].version # 0
                            /\ salla'[q].version <= events' + 1
                            /\ salla'[q].live => salla'[q].version # 0
    BY <1>1, <1>4, <1>6, <2>2, <2>3, <2>4
  <2> QED
    BY <1>1, <1>2, <1>3, <1>4, <1>7, <2>2, <2>4, <2>5
<1>8. CASE \E p \in Products : Delete(p)
  <2>1. PICK p \in Products : Delete(p)
    BY <1>8
  <2>2. /\ Event /\ Enqueue([kind |-> "deleted", product |-> p]) /\ calm' = {} /\ whole' = {}
        /\ salla' = [salla EXCEPT ![p].live = FALSE]
        /\ UNCHANGED <<limit, stored, index, step, sync>>
    BY <2>1 DEF Delete
  <2>3. /\ salla' \in [Products -> [version : Versions, live : BOOLEAN]]
        /\ \A q \in Products : /\ salla'[q].version = salla[q].version
                               /\ salla'[q].live => salla[q].live
    BY <1>1, <2>2
  <2> QED
    BY <1>1, <1>2, <1>3, <1>4, <1>6, <2>2, <2>3
<1>9. CASE \E l \in Plans \cup {0} : StartPlan(l)
  BY <1>1, <1>2, <1>3, <1>4, <1>6, <1>9 DEF StartPlan
<1>10. CASE EndPlan
  BY <1>1, <1>4, <1>6, <1>10 DEF EndPlan
<1>11. CASE RunDailyReconciliation
  BY <1>1, <1>2, <1>3, <1>6, <1>11 DEF RunDailyReconciliation
<1> QED
  BY <1>7, <1>8, <1>9, <1>10, <1>11 DEF Merchant

(* Types hold at the start,                                                *)
LEMMA TypeInit == Init => TypeInv
<1> SUFFICES ASSUME Init PROVE TypeInv
  OBVIOUS
<1>1. /\ salla \in [Products -> {[version |-> 0, live |-> FALSE],
                                 [version |-> 1, live |-> TRUE]}]
      /\ limit \in Plans \cup {0} /\ queue = [j \in Jobs |-> 0]
      /\ stored = [p \in Products |-> NoDocument] /\ index = [p \in Products |-> 0]
      /\ step = [w \in Workers |-> "idle"] /\ sync = [w \in Workers |-> Blank(FullJob)]
      /\ calm = {} /\ whole = {} /\ events = 0
  BY DEF Init
<1>2. /\ 0 \in Versions /\ 1 \in Versions /\ 0 \in 0..MaxEvents
  BY SyncAssumption DEF Versions
<1>3. \A p \in Products : /\ salla[p] \in [version : Versions, live : BOOLEAN]
                          /\ salla[p].version <= events + 1
                          /\ salla[p].live => salla[p].version # 0
  <2>1. ASSUME NEW p \in Products
        PROVE  /\ salla[p] \in [version : Versions, live : BOOLEAN]
               /\ salla[p].version \in {0, 1}
               /\ salla[p].live => salla[p].version # 0
    <3>1. salla[p] \in {[version |-> 0, live |-> FALSE], [version |-> 1, live |-> TRUE]}
      BY <1>1
    <3>2. CASE salla[p] = [version |-> 0, live |-> FALSE]
      BY <1>2, <3>2
    <3>3. CASE salla[p] = [version |-> 1, live |-> TRUE]
      BY <1>2, <3>3
    <3> QED
      BY <3>1, <3>2, <3>3
  <2> QED
    BY <1>1, <2>1
<1>4. salla \in [Products -> [version : Versions, live : BOOLEAN]]
  BY <1>1, <1>3
<1>5. "idle" \notin KnownSteps \cup ProductSteps
  BY DEF KnownSteps, ProductSteps, TxSteps
<1>6. /\ NoDocument.fresh = {} /\ NoDocument.version = 0
      /\ \A j \in Jobs : Blank(j).write = NoDocument
  BY DEF NoDocument, Blank
<1>7. ProductTypeOK
  BY <1>1, <1>2, <1>4, <1>5, Blanks DEF ProductTypeOK, ProductSteps
<1>8. KnownInv
  BY <1>1, <1>3, <1>5, <1>6 DEF KnownInv, KnownSteps
<1>9. FreshInv
  BY <1>1, <1>6, Blanks DEF FreshInv
<1> QED
  BY <1>7, <1>8, <1>9 DEF TypeInv

(* and no step of the merchant, of the nightly job or of a worker breaks one.*)
LEMMA TypeStep == TypeInv /\ [Next]_vars => TypeInv'
<1> SUFFICES ASSUME ProductTypeOK, KnownInv, FreshInv, [Next]_vars PROVE TypeInv'
  BY DEF TypeInv
<1>1. CASE Merchant \/ RunDailyReconciliation
  <2>1. /\ UNCHANGED <<stored, index, step, sync>>
        /\ limit' \in Plans \cup {0} /\ queue' \in [Jobs -> Nat]
        /\ events' \in 0..MaxEvents
        /\ calm' \in {calm, {}} /\ whole' \in {whole, {}}
        /\ salla' \in [Products -> [version : Versions, live : BOOLEAN]]
        /\ \A p \in Products : /\ salla[p].version # 0 => salla'[p].version # 0
                               /\ salla'[p].version <= events' + 1
                               /\ salla'[p].live => salla'[p].version # 0
    BY <1>1, Outside
  <2>2. calm' \subseteq whole' /\ whole' \subseteq whole
    BY <1>1, <2>1 DEF Merchant, CreateOrUpdate, Delete, StartPlan, EndPlan,
       RunDailyReconciliation, ProductTypeOK
  <2>3. ProductTypeOK'
    BY <2>1, <2>2 DEF ProductTypeOK
  <2>4. KnownInv'
    <3>1. \A p \in Products : stored'[p].version # 0 => salla'[p].version # 0
      BY <2>1 DEF KnownInv
    <3>2. ASSUME NEW v \in Workers, step'[v] \in KnownSteps
          PROVE  salla'[sync'[v].product].version # 0
      <4>1. /\ step[v] \in KnownSteps /\ sync'[v].product = sync[v].product
            /\ salla[sync[v].product].version # 0
        BY <2>1, <3>2 DEF KnownInv, KnownSteps
      <4>2. sync[v].product \in Products
        BY <4>1, LocalsAre DEF KnownSteps, ProductSteps, TxSteps
      <4> QED
        BY <2>1, <4>1, <4>2
    <3> QED
      BY <2>1, <3>1, <3>2 DEF KnownInv, KnownSteps
  <2>5. FreshInv'
    <3>1. FullSyncs' = FullSyncs
      BY <2>1 DEF FullSyncs
    <3> QED
      BY <2>1, <2>2, <3>1 DEF FreshInv
  <2> QED
    BY <2>3, <2>4, <2>5 DEF TypeInv
<1>2. ASSUME NEW w \in Workers, WorkerStep(w) PROVE TypeInv'
  <2>1. /\ UNCHANGED <<salla, limit>>
        /\ sync' \in [Workers -> Locals]
        /\ step' \in [Workers -> {"idle"} \cup FullSteps \cup TxSteps]
        /\ \A v \in Workers \ {w} :
              sync'[v].write.fresh \in {sync[v].write.fresh, sync[v].write.fresh \ {w}}
        /\ \A v \in Workers : step'[v] \in ProductSteps => sync'[v].product \in Products
        /\ \A v \in Workers : step'[v] \in KnownSteps => salla'[sync'[v].product].version # 0
    BY <1>2, OwnWork
  <2>2. /\ stored' \in [Products -> Documents] /\ index' \in [Products -> Versions]
        /\ queue' \in [Jobs -> Nat] /\ events' \in 0..MaxEvents /\ events' >= events
        /\ \A p \in Products : stored'[p].version # 0 => salla[p].version # 0
        /\ \A p \in Products :
              \/ stored'[p].fresh \in {stored[p].fresh, stored[p].fresh \ {w}}
              \/ stored'[p].fresh = FullSyncs
              \/ stored'[p].fresh = sync[w].write.fresh
    BY <1>2, Storing
  <2>3. /\ ~Leave(w) => FullSyncs \subseteq FullSyncs'
        /\ FullSyncs \ {w} = FullSyncs' \ {w}
        /\ calm' \subseteq whole' /\ whole' \ {w} \subseteq whole
        /\ w \in whole' => w \in whole \/ (step[w] = "idle" /\ step'[w] = "limit")
        /\ Leave(w) => w \notin whole'
    BY <1>2, GoesOn
  <2>4. /\ sync'[w].write.fresh \subseteq FullSyncs
        /\ Leave(w) => sync'[w].write.fresh = {}
    BY <1>2, WriteNotes
  <2>5. whole \subseteq Workers /\ whole \subseteq FullSyncs
        /\ events \in 0..MaxEvents
        /\ salla \in [Products -> [version : Versions, live : BOOLEAN]]
        /\ limit \in Plans \cup {0}
    BY DEF ProductTypeOK, FreshInv
  <2>6. ProductTypeOK'
    <3>1. whole' \subseteq Workers
      BY <2>3, <2>5
    <3> QED
      BY <2>1, <2>2, <2>3, <2>5, <3>1 DEF ProductTypeOK, ProductSteps
  <2>7. KnownInv'
    <3>1. \A p \in Products : /\ salla'[p].version <= events' + 1
                              /\ salla'[p].live => salla'[p].version # 0
      <4>1. \A p \in Products : salla[p].version \in 0..(MaxEvents + 1)
        BY <2>5 DEF Versions
      <4> QED
        BY <2>1, <2>2, <2>5, <4>1, SyncAssumption DEF KnownInv
    <3> QED
      BY <2>1, <2>2, <3>1 DEF KnownInv, KnownSteps
  <2>8. FreshInv'
    <3>1. CASE Leave(w)
      <4>1. /\ \A p \in Products : stored'[p].fresh = stored[p].fresh \ {w}
            /\ \A v \in Workers \ {w} : sync'[v].write.fresh = sync[v].write.fresh \ {w}
        BY <3>1, AfterLeave
      <4>2. /\ \A p \in Products : stored[p].fresh \subseteq FullSyncs
            /\ \A v \in Workers : sync[v].write.fresh \subseteq FullSyncs
        BY DEF FreshInv
      <4>3. whole' \subseteq FullSyncs'
        BY <2>3, <2>5, <3>1
      <4> QED
        BY <2>3, <2>4, <3>1, <4>1, <4>2, <4>3 DEF FreshInv
    <3>2. CASE ~Leave(w)
      <4>1. \A p \in Products : stored'[p].fresh \subseteq FullSyncs
        BY <2>2 DEF FreshInv
      <4>2. \A v \in Workers : sync'[v].write.fresh \subseteq FullSyncs
        BY <2>1, <2>4 DEF FreshInv
      <4>3. whole' \subseteq FullSyncs'
        <5>1. w \in whole' => w \in FullSyncs'
          BY <2>3, <2>5, <3>2 DEF FullSyncs, FullSteps
        <5> QED
          BY <2>3, <2>5, <5>1
      <4> QED
        BY <2>3, <3>2, <4>1, <4>2, <4>3 DEF FreshInv
    <3> QED
      BY <3>1, <3>2
  <2> QED
    BY <2>6, <2>7, <2>8 DEF TypeInv
<1>3. CASE UNCHANGED vars
  BY <1>3 DEF vars, TypeInv, ProductTypeOK, KnownInv, FreshInv, FullSyncs
<1> QED
  BY <1>1, <1>2, <1>3 DEF Next, WorkerStep

(* So they hold always.                                                    *)
LEMMA TypesHold == Spec => []TypeInv
BY TypeInit, TypeStep, PTL DEF Spec

(* Catalogue, collection, index and the variables of the handlers stay of  *)
(* their types whatever the merchant, webhooks and full syncs do together. *)
THEOREM ProductTypes == Spec => []ProductTypeOK
<1>1. TypeInv => ProductTypeOK
  BY DEF TypeInv
<1> QED
  BY <1>1, TypesHold, PTL
-------------------------------------------------------------------------------
(* No write makes a live product due for hiding by a full sync that lost   *)
(* none of the listing: every write notes all full syncs that are running. *)
LEMMA DueShrinks ==
    ASSUME TypeInv, NEW w \in Workers, WorkerStep(w), NEW x \in whole, x \in whole'
    PROVE  /\ Live' = Live /\ \A p : Position(p)' = Position(p)
           /\ Due(x)' \subseteq Due(x)
           /\ BulkUpsert(w) => sync[w].product \notin Due(x)'
<1> USE DEF TypeInv
<1>1. /\ salla' = salla /\ x \in Workers /\ x \in FullSyncs
      /\ Leave(w) => w \notin whole'
  BY OwnWork, GoesOn DEF ProductTypeOK, FreshInv
<1>2. Live' = Live
  BY <1>1 DEF Live
<1>3. Leave(w) => x # w
  BY <1>1
<1>4. ASSUME NEW p \in Live, p \in Visible', x \notin stored'[p].fresh
      PROVE  p \in Due(x) /\ ~(BulkUpsert(w) /\ p = sync[w].product)
  <2>0. p \in Products /\ stored'[p].version # 0 /\ stored'[p].visible
    BY <1>4 DEF Visible
  <2>1. \/ /\ stored'[p].version = stored[p].version
           /\ stored'[p].visible => stored[p].visible
           /\ \/ stored'[p].fresh = stored[p].fresh
              \/ Leave(w) /\ stored'[p].fresh = stored[p].fresh \ {w}
        \/ BulkUpsert(w) /\ p = sync[w].product /\ stored'[p].fresh = FullSyncs
        \/ Commit(w) /\ p = sync[w].product /\ stored'[p] = sync[w].write
    BY <2>0, Storing
  <2>2. CASE /\ stored'[p].version = stored[p].version
             /\ stored'[p].visible => stored[p].visible
             /\ \/ stored'[p].fresh = stored[p].fresh
                \/ Leave(w) /\ stored'[p].fresh = stored[p].fresh \ {w}
    <3>1. p \in Visible /\ x \notin stored[p].fresh
      BY <1>3, <1>4, <2>0, <2>2 DEF Visible
    <3>2. ~(BulkUpsert(w) /\ p = sync[w].product)
      <4>1. SUFFICES ASSUME BulkUpsert(w), p = sync[w].product PROVE FALSE
        OBVIOUS
      <4>2. stored \in [Products -> Documents]
        BY DEF ProductTypeOK
      <4>3. stored'[p].fresh = FullSyncs
        BY <2>0, <4>1, <4>2 DEF BulkUpsert
      <4> QED
        BY <1>1, <1>4, <4>3
    <3> QED
      BY <3>1, <3>2 DEF Due
  <2>3. CASE BulkUpsert(w) /\ p = sync[w].product /\ stored'[p].fresh = FullSyncs
    BY <1>1, <1>4, <2>3
  <2>4. CASE Commit(w) /\ p = sync[w].product /\ stored'[p] = sync[w].write
    <3>1. Writing(w) /\ x \notin sync[w].write.fresh /\ ~BulkUpsert(w)
      BY <1>4, <2>0, <2>4 DEF Writing, Commit, BulkUpsert, At
    <3> QED
      BY <2>4, <3>1 DEF Due
  <2> QED
    BY <2>1, <2>2, <2>3, <2>4
<1>5. ASSUME NEW p \in Live, NEW v \in Workers, Writing(v)', sync'[v].product = p,
             x \notin sync'[v].write.fresh
      PROVE  p \in Due(x) /\ ~(BulkUpsert(w) /\ p = sync[w].product)
  <2>1. CASE v = w
    <3>1. /\ step'[w] \in {"meili", "commit"}
          /\ sync'[w].write = sync[w].write /\ sync'[w].product = sync[w].product
          /\ step[w] = "meili"
      BY <1>1, <1>5, <2>1, WriteNotes DEF Writing
    <3>2. Writing(w) /\ sync[w].product = p /\ x \notin sync[w].write.fresh
      BY <1>5, <2>1, <3>1 DEF Writing
    <3>3. ~BulkUpsert(w)
      BY <3>1 DEF BulkUpsert, At
    <3> QED
      BY <3>2, <3>3 DEF Due
  <2>2. CASE v # w
    <3>1. /\ step'[v] = step[v] /\ SameWork(sync'[v], sync[v])
          /\ \/ sync'[v].write.fresh = sync[v].write.fresh
             \/ Leave(w) /\ sync'[v].write.fresh = sync[v].write.fresh \ {w}
      BY <2>2, OwnWork
    <3>2. Writing(v) /\ sync[v].product = p /\ x \notin sync[v].write.fresh
      BY <1>3, <1>5, <3>1 DEF Writing, SameWork
    <3>3. ~(BulkUpsert(w) /\ p = sync[w].product)
      BY <3>2 DEF BulkUpsert, Locked, Writing
    <3> QED
      BY <3>2, <3>3 DEF Due
  <2> QED
    BY <2>1, <2>2
<1>6. ASSUME NEW p \in Due(x)' PROVE p \in Due(x) /\ ~(BulkUpsert(w) /\ p = sync[w].product)
  <2>1. p \in Live'
    BY <1>6 DEF Due
  <2>2. \/ p \in Visible' /\ x \notin stored'[p].fresh
        \/ \E v \in Workers : /\ Writing(v)' /\ sync'[v].product = p
                              /\ x \notin sync'[v].write.fresh
    BY <1>6 DEF Due
  <2> QED
    BY <1>2, <1>4, <1>5, <2>1, <2>2
<1>7. \A p : Position(p)' = Position(p)
  BY <1>2 DEF Position
<1> QED
  BY <1>2, <1>6, <1>7

(* Live products stand on the pages from the first to the last.            *)
LEMMA Pages ==
    ASSUME TypeInv, NEW p \in Live
    PROVE  /\ p \in Products /\ Position(p) \in Nat /\ Position(p) >= 1
           /\ Position(p) <= Cardinality(Live) /\ Cardinality(Live) \in Nat
           /\ \A q \in Live : Position(q) = Position(p) => q = p
<1>1. Live \subseteq Products /\ p \in Products
  BY DEF Live
<1>2. /\ Place(Live, p) \in Nat /\ Place(Live, p) >= 1
      /\ Place(Live, p) <= Cardinality(Live)
      /\ \A q \in Live : Place(Live, q) = Place(Live, p) => q = p
  BY <1>1, Places
<1>3. Cardinality(Live) \in Nat
  BY <1>1, ProductsCount, SyncAssumption
<1> QED
  BY <1>1, <1>2, <1>3, PositionIsPlace

(* No full sync runs at the start,                                         *)
LEMMA SweepInit == Init => SweepInv
BY DEF Init, SweepInv

(* A full sync that moves on keeps what is due ahead of it.                *)
LEMMA SweepOwn ==
    ASSUME TypeInv, NEW w \in Workers, Swept(w), WorkerStep(w), w \in whole, w \in whole'
    PROVE  Swept(w)'
<1>1. /\ Live' = Live /\ \A p : Position(p)' = Position(p)
      /\ Due(w)' \subseteq Due(w)
      /\ BulkUpsert(w) => sync[w].product \notin Due(w)'
  BY DueShrinks
<1>2. Due(w) \subseteq Live
  BY DEF Due
<1>3. /\ step[w] \in FullSteps /\ step \in [Workers -> {"idle"} \cup FullSteps \cup TxSteps]
      /\ sync[w].page \in Products /\ sync[w].pages \in 0..N /\ sync[w] \in Locals
      /\ sync \in [Workers -> Locals]
      /\ ~Leave(w)
  BY LocalsAre, GoesOn DEF TypeInv, FreshInv, FullSyncs, ProductTypeOK
<1>4. /\ sync[w].page \in Int /\ N \in Nat
      /\ Cardinality(Live) \in Nat
      /\ \A p \in Live : Position(p) \in Nat /\ Position(p) <= Cardinality(Live)
  BY <1>3, Pages, Listing, SyncAssumption DEF Products, TypeInv
<1> USE DEF At
<1>5. ASSUME NEW label \in {"count", "list"}, step[w] \in {"limit", "count"},
             step'[w] = label, sync'[w].page = sync[w].page
      PROVE  Swept(w)'
  BY <1>1, <1>2, <1>5 DEF Swept
<1>6. CASE ReadLimit(w) \/ ReadUsage(w)
  <2>1. \A y : /\ [sync[w] EXCEPT !.limit = y].page = sync[w].page
               /\ [sync[w] EXCEPT !.used = y].page = sync[w].page
    BY <1>3 DEF Locals
  <2>2. step[w] \in {"limit", "count"} /\ step'[w] \in {"count", "list"}
    BY <1>3, <1>6 DEF ReadLimit, ReadUsage, Goto
  <2>3. sync'[w].page = sync[w].page
    BY <1>3, <1>6, <2>1 DEF ReadLimit, ReadUsage, Local
  <2> QED
    BY <1>5, <2>2, <2>3
<1>7. CASE ListTooMany(w)
  <2>1. [AfterTurn(sync[w], 1) EXCEPT !.cut = TRUE].cut
    BY DEF AfterTurn, Blank
  <2>2. step'[w] = "hide" /\ sync'[w].cut
    BY <1>3, <1>7, <2>1 DEF ListTooMany, Goto, Local
  <2> QED
    BY <2>2 DEF Swept
<1>8. ASSUME NEW fields \in Locals, Turn(w, fields), fields.page = sync[w].page,
             \A p \in Due(w)' : /\ Position(p) >= sync[w].page + 1
                                /\ MorePages(fields.page, fields.pages)
      PROVE  Swept(w)'
  <2>1. \/ /\ step'[w] = "list" /\ sync'[w].page = sync[w].page + 1
        \/ /\ ~MorePages(fields.page, fields.pages) /\ step'[w] = "hide"
    BY <1>3, <1>8, Turned DEF Goto, TypeInv
  <2> QED
    BY <1>1, <1>8, <2>1 DEF Swept
<1>9. CASE ListNothing(w)
  <2>1. Listed(w) \in Locals /\ Listed(w).page = sync[w].page
        /\ Listed(w).pages = Cardinality(Live)
    BY Listing DEF TypeInv
  <2>2. ASSUME NEW p \in Due(w)'
        PROVE  Position(p) >= sync[w].page + 1 /\ MorePages(Listed(w).page, Listed(w).pages)
    <3>1. p \in Live /\ Position(p) >= sync[w].page
      BY <1>1, <1>2, <1>9 DEF ListNothing, Swept
    <3>2. Position(p) # sync[w].page
      BY <1>9, <3>1 DEF ListNothing, OnPage
    <3>3. Position(p) \in Nat /\ Position(p) <= Cardinality(Live)
      BY <1>4, <3>1
    <3> QED
      BY <1>4, <2>1, <3>1, <3>2, <3>3 DEF MorePages
  <2> QED
    BY <1>8, <1>9, <2>1, <2>2 DEF ListNothing
<1>10. CASE ListProduct(w)
  <2>1. PICK q \in OnPage(sync[w].page) :
           Local(w, [Listed(w) EXCEPT !.product = q, !.got = salla[q].version,
                                      !.used = @ + Slots(q)])
    BY <1>10 DEF ListProduct
  <2>2. /\ step[w] = "list" /\ step'[w] = "bulk"
    BY <1>3, <1>10 DEF ListProduct, Goto
  <2>3. /\ [Listed(w) EXCEPT !.product = q, !.got = salla[q].version,
                             !.used = @ + Slots(q)].page = sync[w].page
        /\ [Listed(w) EXCEPT !.product = q, !.got = salla[q].version,
                             !.used = @ + Slots(q)].pages = Cardinality(Live)
        /\ [Listed(w) EXCEPT !.product = q, !.got = salla[q].version,
                             !.used = @ + Slots(q)].product = q
    BY Listing DEF TypeInv, Locals
  <2>4. /\ sync'[w].page = sync[w].page /\ sync'[w].pages = Cardinality(Live)
        /\ sync'[w].product = q
    BY <1>3, <2>1, <2>3 DEF Local
  <2>5. q \in Live /\ Position(q) = sync[w].page
    BY DEF OnPage
  <2>6. ASSUME NEW p \in Due(w)', p # q
        PROVE  Position(p) >= sync[w].page + 1 /\ MorePages(sync[w].page, Cardinality(Live))
    <3>1. p \in Live /\ Position(p) >= sync[w].page
      BY <1>1, <1>2, <2>2 DEF Swept
    <3>2. Position(p) # sync[w].page
      BY <2>5, <2>6, <3>1, Pages
    <3>3. Position(p) \in Nat /\ Position(p) <= Cardinality(Live)
      BY <1>4, <3>1
    <3> QED
      BY <1>4, <3>1, <3>2, <3>3 DEF MorePages
  <2> QED
    BY <1>1, <2>2, <2>4, <2>6 DEF Swept
<1>11. CASE BulkUpsert(w)
  <2>1. /\ step[w] = "bulk" /\ step'[w] = "readback" /\ sync'[w] = sync[w]
    BY <1>3, <1>11 DEF BulkUpsert, Goto, LocalAfterWrite
  <2>2. Due(w)' \subseteq Due(w) \ {sync[w].product}
    BY <1>1, <1>11
  <2> QED
    BY <1>1, <2>1, <2>2 DEF Swept
<1>12. CASE ReadBack(w)
  <2>1. \A y : /\ [sync[w] EXCEPT !.got = y].page = sync[w].page
               /\ [sync[w] EXCEPT !.got = y].pages = sync[w].pages
    BY <1>3 DEF Locals
  <2>2. /\ step[w] = "readback" /\ step'[w] = "docs"
        /\ sync'[w].page = sync[w].page /\ sync'[w].pages = sync[w].pages
    BY <1>3, <1>12, <2>1 DEF ReadBack, Goto, Local
  <2> QED
    BY <1>1, <2>2 DEF Swept
<1>13. CASE AddDocuments(w) \/ DocumentsFail(w)
  <2>1. Turn(w, sync[w]) /\ step[w] \in {"readback", "docs"}
    BY <1>13 DEF AddDocuments, DocumentsFail
  <2>2. \A p \in Due(w)' : /\ Position(p) >= sync[w].page + 1
                           /\ MorePages(sync[w].page, sync[w].pages)
    BY <1>1, <2>1 DEF Swept
  <2> QED
    BY <1>3, <1>8, <2>1, <2>2
<1>14. CASE HideStale(w)
  <2>1. step'[w] = "done"
    BY <1>3, <1>14 DEF HideStale, Goto
  <2> QED
    BY <2>1 DEF Swept
<1>15. ~SkipProduct(w)
  BY DEF SkipProduct
<1>16. ~EndFullSync(w) /\ ~Fails(w) /\ ~(\E j \in Jobs : Take(w, j)) /\ ~ProductChange(w)
  BY <1>3 DEF EndFullSync, Fails, Throws, Take, ProductChange, FullSteps,
     FetchProduct, ProductNotFound, FindByExternalId, CheckRoom, LimitExceeded,
     Upsert, WriteConflict, SyncToMeilisearch, MarkHidden, NothingToHide, Commit
<1> QED
  BY <1>6, <1>7, <1>9, <1>10, <1>11, <1>12, <1>13, <1>14, <1>15, <1>16
     DEF WorkerStep, Process, FullSync

(* and every step keeps what is due ahead of each.                         *)
LEMMA SweepStep == TypeInv /\ SweepInv /\ [Next]_vars => SweepInv'
<1> SUFFICES ASSUME TypeInv, SweepInv, [Next]_vars PROVE SweepInv'
  OBVIOUS
<1>1. \A x \in whole : Swept(x)
  BY DEF SweepInv
<1>2. SUFFICES ASSUME NEW x \in whole' PROVE Swept(x)'
  BY DEF SweepInv
<1>3. CASE Merchant \/ RunDailyReconciliation
  <2>1. /\ UNCHANGED <<stored, index, step, sync>>
        /\ UNCHANGED <<salla, whole>> \/ \E p \in Products : CreateOrUpdate(p)
    BY <1>2, <1>3, Outside DEF TypeInv
  <2>2. CASE UNCHANGED <<salla, whole>>
    <3>1. Live' = Live /\ Due(x)' = Due(x) /\ Swept(x)
      BY <1>1, <1>2, <2>1, <2>2 DEF Live, Due, Visible, Writing
    <3>2. \A p : Position(p)' = Position(p)
      BY <3>1 DEF Position
    <3> QED
      BY <2>1, <3>1, <3>2 DEF Swept
  <2>3. ASSUME NEW n \in Products, CreateOrUpdate(n) PROVE Swept(x)'
    <3>1. /\ salla \in [Products -> [version : Versions, live : BOOLEAN]]
          /\ salla[n].version = 0 \/ salla[n].live
          /\ salla' = [salla EXCEPT ![n] = [version |-> @.version + 1, live |-> TRUE]]
          /\ whole' = whole
      BY <2>3 DEF CreateOrUpdate, TypeInv, ProductTypeOK
    <3>2. Live' = Live \cup {n} /\ Live' \subseteq Products /\ Live \subseteq Products
      BY <3>1 DEF Live
    <3>3. \A p \in Products : Position(p)' \in Nat /\ Position(p) \in Nat
                                 /\ Position(p)' >= Position(p)
      <4>1. ASSUME NEW p \in Products
            PROVE  /\ Place(Live', p) \in Nat /\ Place(Live, p) \in Nat
                   /\ Place(Live, p) <= Place(Live', p)
        BY <3>2, Places
      <4>2. \A p : Position(p)' = Place(Live', p) /\ Position(p) = Place(Live, p)
        BY DEF Position, Place
      <4> QED
        BY <4>1, <4>2
    <3>4. n \notin Live => n \notin Visible /\ \A v \in Workers : Writing(v) => sync[v].product # n
      BY <3>1 DEF Live, Visible, Writing, TypeInv, KnownInv
    <3>5. Due(x)' \subseteq Due(x)
      <4>1. Due(x)' = {p \in Live' : p \in Visible /\ x \notin stored[p].fresh} \cup
                      {p \in Live' : \E v \in Workers : /\ Writing(v) /\ sync[v].product = p
                                                        /\ x \notin sync[v].write.fresh}
        BY <2>1 DEF Due, Visible, Writing
      <4> QED
        BY <3>2, <3>4, <4>1 DEF Due
    <3>6. Swept(x) /\ Due(x) \subseteq Products /\ x \in Workers
      BY <1>1, <1>2, <3>1, <3>2 DEF Due, TypeInv, ProductTypeOK
    <3>7. sync[x].page \in Int
      BY <3>6, LocalsAre DEF TypeInv, Products
    <3>8. \A k \in Int : \A p \in Due(x)' : Position(p) >= k => Position(p)' >= k
      BY <3>3, <3>5, <3>6
    <3> QED
      BY <2>1, <3>5, <3>6, <3>7, <3>8 DEF Swept
  <2> QED
    BY <2>1, <2>2, <2>3
<1>4. ASSUME NEW w \in Workers, WorkerStep(w) PROVE Swept(x)'
  <2>1. /\ whole' \ {w} \subseteq whole
        /\ x = w => x \in whole \/ (step[w] = "idle" /\ step'[w] = "limit")
    BY <1>2, <1>4, GoesOn DEF TypeInv
  <2>2. CASE x = w /\ x \in whole
    BY <1>1, <1>2, <1>4, <2>2, SweepOwn
  <2>3. CASE x = w /\ step[w] = "idle" /\ step'[w] = "limit"
    <3>1. PICK j \in Jobs : Take(w, j)
      BY <1>4, <2>3 DEF WorkerStep, Process, FullSync, ProductChange, SkipProduct,
         DocumentsFail, Fails, ReadLimit, ReadUsage, ListNothing, ListTooMany,
         ListProduct, BulkUpsert, ReadBack, AddDocuments, HideStale, EndFullSync,
         FetchProduct, ProductNotFound, FindByExternalId, CheckRoom, LimitExceeded,
         Upsert, WriteConflict, SyncToMeilisearch, MarkHidden, NothingToHide, Commit, At
    <3>2. sync'[w].page = 1
      BY <3>1, Blanks DEF Take, Local, TypeInv, ProductTypeOK
    <3>3. TypeInv'
      BY TypeStep
    <3>4. \A p \in Due(w)' : Position(p)' >= 1
      <4>1. Due(w)' \subseteq Live'
        BY DEF Due
      <4>2. \A p \in Live' : Position(p)' >= 1
        <5>1. Live' \subseteq Products
          BY DEF Live
        <5>2. \A p : Position(p)' = Place(Live', p)
          BY DEF Position, Place
        <5> QED
          BY <5>1, <5>2, Places
      <4> QED
        BY <4>1, <4>2
    <3> QED
      BY <2>3, <3>2, <3>4 DEF Swept
  <2>4. CASE x # w
    <3>1. /\ Live' = Live /\ \A p : Position(p)' = Position(p)
          /\ Due(x)' \subseteq Due(x) /\ Swept(x) /\ x \in Workers
      BY <1>1, <1>2, <1>4, <2>1, <2>4, DueShrinks DEF TypeInv, ProductTypeOK
    <3>2. step'[x] = step[x] /\ SameWork(sync'[x], sync[x])
      BY <1>4, <2>4, <3>1, OwnWork DEF TypeInv
    <3> QED
      BY <3>1, <3>2 DEF Swept, SameWork
  <2> QED
    BY <1>2, <2>1, <2>2, <2>3, <2>4
<1>5. CASE UNCHANGED vars
  <2>1. Due(x)' = Due(x) /\ Swept(x) /\ x \in whole
    BY <1>1, <1>2, <1>5 DEF vars, Due, Live, Visible, Writing
  <2>2. \A p : Position(p)' = Position(p)
    BY <1>5 DEF vars, Position, Live
  <2> QED
    BY <1>5, <2>1, <2>2 DEF vars, Swept
<1> QED
  BY <1>3, <1>4, <1>5 DEF Next, WorkerStep

(* So it is ahead always.                                                  *)
LEMMA SweepHolds == Spec => [](TypeInv /\ SweepInv)
<1>1. Init => TypeInv /\ SweepInv
  BY TypeInit, SweepInit
<1>2. TypeInv /\ SweepInv /\ [Next]_vars => (TypeInv /\ SweepInv)'
  BY TypeStep, SweepStep
<1> QED
  BY <1>1, <1>2, PTL DEF Spec

(* A full sync that comes to its end has just hidden what it did not meet. *)
LEMMA HidingStep ==
    ASSUME TypeInv, [Next]_vars, NEW w \in Workers, Hides(w)
    PROVE  /\ HideStale(w) /\ UNCHANGED <<salla, index>>
           /\ Live' = Live /\ Visible' = Visible \ Stale(w)
           /\ \A p \in Products : /\ stored'[p].version = stored[p].version
                                  /\ stored'[p].fresh = stored[p].fresh
<1>1. /\ step \in [Workers -> {"idle"} \cup FullSteps \cup TxSteps]
      /\ \A p \in Products : stored[p] \in Documents
      /\ \A v \in Workers : sync[v] \in Locals
      /\ step[w] = "hide" /\ step'[w] = "done"
  BY LocalsAre DEF TypeInv, ProductTypeOK, Hides, At
<1>2. HideStale(w)
  <2>1. ~(Merchant \/ RunDailyReconciliation) /\ ~UNCHANGED vars
    BY <1>1, Outside DEF TypeInv, vars
  <2>2. PICK v \in Workers : WorkerStep(v)
    BY <2>1 DEF Next, WorkerStep
  <2>3. v = w
    BY <1>1, <2>2, OwnWork DEF TypeInv
  <2>4. ~Leave(w)
    BY <1>1 DEF Leave, Done, Goto
  <2> QED
    BY <1>1, <2>2, <2>3, <2>4 DEF WorkerStep, Take, Process, FullSync, ProductChange,
       SkipProduct, DocumentsFail, Fails, Throws, ReadLimit, ReadUsage, ListNothing,
       ListTooMany, ListProduct, BulkUpsert, ReadBack, AddDocuments, EndFullSync,
       FetchProduct, ProductNotFound, FindByExternalId, CheckRoom, LimitExceeded,
       Upsert, WriteConflict, SyncToMeilisearch, MarkHidden, NothingToHide, Commit, At
<1>3. /\ UNCHANGED <<salla, index>>
      /\ stored' = [p \in Products |->
            IF p \in Stale(w) THEN [stored[p] EXCEPT !.visible = FALSE] ELSE stored[p]]
  BY <1>2 DEF HideStale
<1>4. ASSUME NEW p \in Products
      PROVE  /\ stored'[p].version = stored[p].version
             /\ stored'[p].fresh = stored[p].fresh
             /\ p \in Stale(w) => ~stored'[p].visible
             /\ p \notin Stale(w) => stored'[p].visible = stored[p].visible
  BY <1>1, <1>3 DEF Documents
<1>5. Live' = Live
  BY <1>3 DEF Live
<1>6. Visible' = Visible \ Stale(w)
  BY <1>4 DEF Visible
<1> QED
  BY <1>2, <1>3, <1>4, <1>5, <1>6

(* Whatever the merchant, webhooks and other full syncs do meanwhile, a    *)
(* full sync that reads the whole listing hides no product that is live.   *)
THEOREM SweepNeverHidesLive == Spec => SweepSparesLive
<1>1. TypeInv /\ SweepInv /\ [Next]_vars =>
          [\A w \in Workers : Hides(w) /\ w \in whole /\ ~sync[w].cut =>
              Visible \ Visible' \subseteq Products \ Live]_vars
  <2> SUFFICES ASSUME TypeInv, SweepInv, [Next]_vars, NEW w \in Workers, Hides(w),
                      w \in whole, ~sync[w].cut
               PROVE  Visible \ Visible' \subseteq Products \ Live
    OBVIOUS
  <2>1. Due(w) = {}
    BY DEF SweepInv, Swept, Hides, At
  <2>2. Visible' = Visible \ Stale(w)
    BY HidingStep
  <2>3. Stale(w) \subseteq Products /\ Stale(w) \cap Live \subseteq Due(w)
    BY DEF Stale, Due, Visible
  <2> QED
    BY <2>1, <2>2, <2>3
<1> QED
  BY <1>1, SweepHolds, PTL DEF Spec, SweepSparesLive
-------------------------------------------------------------------------------
(* What is read by a full sync that nothing interferes with is changed by  *)
(* its own writes alone.                                                   *)
LEMMA Undisturbed ==
    ASSUME TypeInv, NEW v \in Workers, WorkerStep(v), NEW w \in calm, w \in calm'
    PROVE  /\ w \in Workers /\ salla' = salla /\ Live' = Live
           /\ \A p : Position(p)' = Position(p)
           /\ \/ v = w /\ (BulkUpsert(w) \/ HideStale(w))
              \/ /\ \A p \in Products : /\ stored'[p].version = stored[p].version
                                        /\ stored'[p].visible = stored[p].visible
                                        /\ w \in stored'[p].fresh <=> w \in stored[p].fresh
                 /\ Written(w)' = Written(w)
           /\ \/ index' = index
              \/ v = w /\ AddDocuments(w)
<1>1. /\ w \in Workers /\ salla' = salla /\ w \in FullSyncs
      /\ calm' \subseteq whole'
      /\ Leave(v) => v \notin whole'
  BY OwnWork, GoesOn DEF TypeInv, FreshInv, ProductTypeOK
<1>2. Live' = Live
  BY <1>1 DEF Live
<1>3. \A p : Position(p)' = Position(p)
  BY <1>2 DEF Position
<1> DEFINE Same == \A p \in Products : /\ stored'[p].version = stored[p].version
                                       /\ stored'[p].visible = stored[p].visible
                                       /\ w \in stored'[p].fresh <=> w \in stored[p].fresh
<1>4. \/ UNCHANGED stored \/ Leave(v) \/ HideStale(v) \/ BulkUpsert(v) \/ Commit(v)
  BY DEF WorkerStep, Take, Process, FullSync, ProductChange, SkipProduct,
     DocumentsFail, Fails, ReadLimit, ReadUsage, ListNothing, ListTooMany,
     ListProduct, ReadBack, AddDocuments, EndFullSync,
     FetchProduct, ProductNotFound, FindByExternalId, CheckRoom, LimitExceeded, Throws,
     Upsert, WriteConflict, SyncToMeilisearch, MarkHidden, NothingToHide, shared
<1>5. ASSUME HideStale(v) \/ BulkUpsert(v) \/ Commit(v) PROVE v = w /\ ~Commit(v)
  <2>1. v = w
    BY <1>5 DEF HideStale, BulkUpsert, Commit, LocalAfterWrite
  <2>2. ~Commit(w)
    BY <1>1 DEF Commit, FullSyncs, FullSteps, At
  <2> QED
    BY <2>1, <2>2
<1>6. ASSUME Leave(v) PROVE Same
  <2>1. v # w
    BY <1>1, <1>6
  <2> QED
    BY <1>6, <2>1, AfterLeave DEF TypeInv
<1>7. Same => Written(w)' = Written(w)
  BY DEF Written, Visible
<1>8. UNCHANGED stored => Same
  OBVIOUS
<1>9. \/ UNCHANGED index \/ AddDocuments(v) \/ SyncToMeilisearch(v)
  BY DEF WorkerStep, Take, Process, FullSync, ProductChange, SkipProduct,
     DocumentsFail, Fails, ReadLimit, ReadUsage, ListNothing, ListTooMany,
     ListProduct, BulkUpsert, HideStale, Commit, ReadBack, EndFullSync,
     FetchProduct, ProductNotFound, FindByExternalId, CheckRoom, LimitExceeded, Throws,
     Upsert, WriteConflict, MarkHidden, NothingToHide, shared
<1>10. /\ AddDocuments(v) => v = w
       /\ ~SyncToMeilisearch(v)
  BY DEF AddDocuments, SyncToMeilisearch
<1> HIDE DEF Same
<1>11. Same \/ (v = w /\ (BulkUpsert(w) \/ HideStale(w)))
  BY <1>4, <1>5, <1>6, <1>8
<1> QED
  BY <1>1, <1>2, <1>3, <1>7, <1>9, <1>10, <1>11 DEF Same

(* The steps of others leave it all as it is.                              *)
LEMMA OthersKeep ==
    ASSUME TypeInv, NEW v \in Workers, WorkerStep(v), NEW w \in calm, w \in calm', v # w,
           Reconciling(w), Budgeting(w)
    PROVE  Reconciling(w)' /\ Budgeting(w)'
<1>1. /\ w \in Workers /\ salla' = salla /\ Live' = Live /\ index' = index
      /\ \A p : Position(p)' = Position(p)
      /\ Written(w)' = Written(w)
      /\ \A p \in Products : /\ stored'[p].version = stored[p].version
                             /\ stored'[p].visible = stored[p].visible
                             /\ w \in stored'[p].fresh <=> w \in stored[p].fresh
  BY Undisturbed
<1>2. /\ step'[w] = step[w] /\ SameWork(sync'[w], sync[w])
      /\ step[w] \in {"readback", "docs"} => sync[w].product \in Products
      /\ Live \subseteq Products
  BY <1>1, OwnWork, LocalsAre DEF TypeInv, ProductSteps, Live
<1>3. \A p \in Products : /\ UpToDate(w, p)' <=> UpToDate(w, p)
                          /\ Current(p)' <=> Current(p)
  BY <1>1 DEF UpToDate, Current, Found
<1>4. Reconciling(w)'
  <2>1. \A p \in Products : w \in stored'[p].fresh => p \in Live'
    BY <1>1 DEF Reconciling
  <2>2. step'[w] \in {"readback", "docs"} =>
           w \in stored'[sync'[w].product].fresh /\ Current(sync[w].product)'
    BY <1>1, <1>2, <1>3 DEF Reconciling, SameWork
  <2>3. /\ step'[w] \in {"list", "bulk", "readback", "docs"} =>
              \A p \in Live' : Position(p)' < sync'[w].page => UpToDate(w, p)'
        /\ step'[w] = "hide" /\ ~sync'[w].cut => \A p \in Live' : UpToDate(w, p)'
    BY <1>1, <1>2, <1>3 DEF Reconciling, SameWork
  <2>4. /\ step'[w] \in {"limit", "count"} => sync'[w].page = 1
        /\ step'[w] \in {"bulk", "readback", "docs"} =>
              /\ sync'[w].product \in Live' /\ Position(sync[w].product)' = sync'[w].page
              /\ sync'[w].pages = Cardinality(Live')
        /\ step'[w] \in {"bulk", "docs"} => sync'[w].got = salla'[sync'[w].product].version
    BY <1>1, <1>2 DEF Reconciling, SameWork
  <2> QED
    BY <2>1, <2>2, <2>3, <2>4 DEF Reconciling
<1>5. Budgeting(w)'
  BY <1>1, <1>2 DEF Budgeting, Within, SameWork, SlotsOf
<1> QED
  BY <1>4, <1>5

(* A turn of the loop keeps it: what stands up to the page is up to date.  *)
LEMMA TurnKeeps ==
    ASSUME TypeInv, NEW w \in Workers, NEW fields \in Locals, Turn(w, fields),
           salla' = salla, step[w] \in {"list", "docs"}, Budgeting(w),
           fields.page = sync[w].page, fields.pages = Cardinality(Live),
           fields.limit = sync[w].limit, fields.used = sync[w].used,
           stored' = stored, \A p \in Products : w \in stored[p].fresh => p \in Live,
           \A p \in Live : Position(p) < sync[w].page + 1 => UpToDate(w, p)'
    PROVE  Reconciling(w)' /\ Budgeting(w)'
<1>1. /\ Live' = Live /\ Live \subseteq Products /\ Written(w)' = Written(w)
      /\ \A p : Position(p)' = Position(p)
  BY DEF Live, Written, Visible, Position
<1>2. /\ step \in [Workers -> {"idle"} \cup FullSteps \cup TxSteps]
      /\ sync[w].page \in Int
      /\ Cardinality(Live) \in Nat
      /\ \A p \in Live : Position(p) \in Nat /\ Position(p) <= Cardinality(Live)
  BY LocalsAre, Pages, Listing, SyncAssumption DEF TypeInv, ProductTypeOK, Products
<1>3. /\ sync'[w].limit = sync[w].limit /\ sync'[w].used = sync[w].used
      /\ \/ step'[w] = "list" /\ sync'[w].page = sync[w].page + 1
         \/ ~MorePages(fields.page, fields.pages) /\ step'[w] = "hide"
  BY <1>2, Turned DEF TypeInv, Goto
<1>4. \A p \in Products : w \in stored'[p].fresh => p \in Live'
  BY <1>1
<1>5. CASE step'[w] = "list" /\ sync'[w].page = sync[w].page + 1
  <2>1. \A p \in Live' : Position(p)' < sync'[w].page => UpToDate(w, p)'
    BY <1>1, <1>5
  <2> QED
    <3>1. Reconciling(w)'
      BY <1>4, <1>5, <2>1 DEF Reconciling
    <3>2. Budgeting(w)'
      BY <1>1, <1>3, <1>5 DEF Budgeting, Within, FullSteps, SlotsOf
    <3> QED
      BY <3>1, <3>2
<1>6. CASE ~MorePages(fields.page, fields.pages) /\ step'[w] = "hide"
  <2>1. \A p \in Live : Position(p) < sync[w].page + 1
    BY <1>2, <1>6 DEF MorePages
  <2>2. \A p \in Live' : UpToDate(w, p)'
    BY <1>1, <2>1
  <2> QED
    <3>1. Reconciling(w)'
      BY <1>4, <1>6, <2>2 DEF Reconciling
    <3>2. Budgeting(w)'
      BY <1>1, <1>3, <1>6 DEF Budgeting, Within, FullSteps, SlotsOf
    <3> QED
      BY <3>1, <3>2
<1> QED
  BY <1>3, <1>5, <1>6

(* The step of the full sync itself.                                       *)
LEMMA CalmOwn ==
    ASSUME TypeInv, NEW w \in calm, WorkerStep(w), w \in calm',
           Reconciling(w), Budgeting(w)
    PROVE  Reconciling(w)' /\ Budgeting(w)'
<1> USE DEF At
<1>1. /\ w \in Workers /\ salla' = salla /\ Live' = Live /\ Live \subseteq Products
      /\ \A p : Position(p)' = Position(p)
      /\ \/ BulkUpsert(w) \/ HideStale(w)
         \/ /\ \A p \in Products : /\ stored'[p].version = stored[p].version
                                   /\ stored'[p].visible = stored[p].visible
                                   /\ w \in stored'[p].fresh <=> w \in stored[p].fresh
            /\ Written(w)' = Written(w)
      /\ index' = index \/ AddDocuments(w)
  <2>1. w \in Workers /\ Live \subseteq Products
    BY DEF TypeInv, ProductTypeOK, Live
  <2> QED
    BY <2>1, Undisturbed
<1>2. /\ step[w] \in FullSteps /\ step \in [Workers -> {"idle"} \cup FullSteps \cup TxSteps]
      /\ sync[w].page \in Int /\ sync[w] \in Locals /\ sync[w].used \in Nat
      /\ sync[w].limit \in Nat \cup {Unlimited}
      /\ sync \in [Workers -> Locals] /\ stored \in [Products -> Documents]
      /\ ~Leave(w) /\ w \in FullSyncs
      /\ \A label : Goto(w, label) => step'[w] = label
      /\ \A fields : Local(w, fields) => sync'[w] = fields
  <2>1. /\ step[w] \in FullSteps /\ step \in [Workers -> {"idle"} \cup FullSteps \cup TxSteps]
        /\ sync[w].page \in Int /\ sync[w] \in Locals /\ sync[w].used \in Nat
        /\ sync[w].limit \in Nat \cup {Unlimited}
        /\ sync \in [Workers -> Locals] /\ stored \in [Products -> Documents]
        /\ ~Leave(w) /\ w \in FullSyncs
    BY <1>1, LocalsAre, GoesOn DEF TypeInv, FreshInv, FullSyncs, ProductTypeOK, Products
  <2> QED
    BY <1>1, <2>1 DEF Goto, Local
<1>3. /\ Cardinality(Live) \in Nat
      /\ \A p \in Live : Position(p) \in Nat /\ Position(p) >= 1
                           /\ Position(p) <= Cardinality(Live)
  BY <1>1, Pages, Listing DEF TypeInv, Products
<1>4. SlotsOf(Written(w)) \in Nat /\ SlotsOf({}) = 0 /\ \A p : Slots(p) \in Nat
  <2>1. Written(w) \subseteq Products /\ {} \subseteq Written(w)
    BY DEF Written, Visible
  <2> QED
    BY <2>1, SlotsCount DEF Slots
<1>5. \A p \in Products : w \in stored[p].fresh => p \in Live
  BY DEF Reconciling
<1> DEFINE Untouched == /\ stored' = stored /\ index' = index /\ Written(w)' = Written(w)
                        /\ \A p \in Products : UpToDate(w, p)' <=> UpToDate(w, p)
<1>6. ASSUME UNCHANGED <<stored, index>> PROVE Untouched
  <2>1. Written(w)' = Written(w)
    BY <1>6 DEF Written, Visible
  <2>2. \A p \in Products : UpToDate(w, p)' <=> UpToDate(w, p)
    BY <1>1, <1>6 DEF UpToDate, Current, Found
  <2> QED
    BY <1>6, <2>1, <2>2
<1>7. CASE ReadLimit(w)
  <2>1. \A y : [sync[w] EXCEPT !.limit = y].page = sync[w].page
    BY <1>2 DEF Locals
  <2>2. /\ step[w] = "limit" /\ step'[w] = "count"
        /\ sync'[w].page = sync[w].page
    BY <1>2, <1>7, <2>1 DEF ReadLimit
  <2>3. Untouched
    BY <1>6, <1>7 DEF ReadLimit, shared
  <2>4. Reconciling(w)'
    BY <1>1, <1>5, <2>2, <2>3 DEF Reconciling
  <2>5. Budgeting(w)'
    BY <2>2, <2>3 DEF Budgeting
  <2> QED
    BY <2>4, <2>5
<1>8. CASE ReadUsage(w)
  <2>1. /\ [sync[w] EXCEPT !.used = Usage].page = sync[w].page
        /\ [sync[w] EXCEPT !.used = Usage].used = Usage
    BY <1>2 DEF Locals
  <2>2. /\ step[w] = "count" /\ step'[w] = "list"
        /\ sync'[w].page = 1 /\ sync'[w].used = Usage
    BY <1>2, <1>8, <2>1 DEF ReadUsage, Reconciling
  <2>3. Untouched
    BY <1>6, <1>8 DEF ReadUsage, shared
  <2>4. Usage \in Nat
    BY SlotsCount DEF Usage, Visible
  <2>5. \A p \in Live' : ~(Position(p)' < sync'[w].page)
    BY <1>1, <1>3, <2>2
  <2>6. Reconciling(w)'
    BY <1>1, <1>5, <2>2, <2>3, <2>5 DEF Reconciling
  <2>7. Written(w)' = {}
    BY <2>2, <2>3 DEF Budgeting
  <2>8. SlotsOf(Written(w))' = 0
    BY <1>4, <2>7 DEF SlotsOf
  <2>9. Budgeting(w)'
    BY <2>2, <2>4, <2>7, <2>8 DEF Budgeting, Within
  <2> QED
    BY <2>6, <2>9
<1>9. CASE ListTooMany(w)
  <2>1. /\ [AfterTurn(sync[w], 1) EXCEPT !.cut = TRUE].cut
        /\ [AfterTurn(sync[w], 1) EXCEPT !.cut = TRUE].limit = sync[w].limit
        /\ [AfterTurn(sync[w], 1) EXCEPT !.cut = TRUE].used = sync[w].used
    BY DEF AfterTurn, Blank
  <2>2. /\ step[w] = "list" /\ step'[w] = "hide" /\ sync'[w].cut
        /\ sync'[w].limit = sync[w].limit /\ sync'[w].used = sync[w].used
    BY <1>2, <1>9, <2>1 DEF ListTooMany
  <2>3. Untouched
    BY <1>6, <1>9 DEF ListTooMany, shared
  <2>4. Reconciling(w)'
    BY <1>1, <1>5, <2>2, <2>3 DEF Reconciling
  <2>5. Budgeting(w)'
    BY <2>2, <2>3 DEF Budgeting, Within, FullSteps, SlotsOf
  <2> QED
    BY <2>4, <2>5
<1>10. CASE ListNothing(w)
  <2>1. /\ Listed(w) \in Locals /\ Listed(w).page = sync[w].page
        /\ Listed(w).limit = sync[w].limit /\ Listed(w).used = sync[w].used
        /\ Listed(w).pages = Cardinality(Live)
    BY <1>1, Listing DEF TypeInv
  <2>2. step[w] = "list" /\ Turn(w, Listed(w)) /\ OnPage(sync[w].page) = {}
    BY <1>10 DEF ListNothing
  <2>3. Untouched
    BY <1>6, <1>10 DEF ListNothing, shared
  <2>4. ASSUME NEW p \in Live, Position(p) < sync[w].page + 1 PROVE UpToDate(w, p)'
    <3>1. Position(p) # sync[w].page
      BY <2>2, <2>4 DEF OnPage
    <3>2. Position(p) < sync[w].page
      BY <1>2, <1>3, <2>4, <3>1
    <3> QED
      BY <1>1, <2>2, <2>3, <2>4, <3>2 DEF Reconciling
  <2> QED
    BY <1>1, <1>5, <2>1, <2>2, <2>3, <2>4, TurnKeeps
<1>11. CASE ListProduct(w)
  <2>1. PICK q \in OnPage(sync[w].page) :
           /\ ~Exceeds(sync[w].limit, sync[w].used, q)
           /\ Local(w, [Listed(w) EXCEPT !.product = q, !.got = salla[q].version,
                                         !.used = @ + Slots(q)])
    BY <1>11 DEF ListProduct
  <2> DEFINE fields == [Listed(w) EXCEPT !.product = q, !.got = salla[q].version,
                                         !.used = @ + Slots(q)]
  <2>2. /\ fields.page = sync[w].page /\ fields.pages = Cardinality(Live)
        /\ fields.product = q /\ fields.got = salla[q].version
        /\ fields.limit = sync[w].limit /\ fields.used = sync[w].used + Slots(q)
    BY <1>1, Listing DEF TypeInv, Locals
  <2> HIDE DEF fields
  <2>3. /\ step[w] = "list" /\ step'[w] = "bulk" /\ sync'[w] = fields
    BY <1>2, <1>11, <2>1 DEF ListProduct, fields
  <2>4. Untouched
    BY <1>6, <1>11 DEF ListProduct, shared
  <2>5. q \in Live /\ Position(q) = sync[w].page
    BY DEF OnPage
  <2>6. Reconciling(w)'
    BY <1>1, <1>5, <2>2, <2>3, <2>4, <2>5 DEF Reconciling
  <2>7. Slots(q)' = Slots(q) /\ SlotsOf(Written(w))' = SlotsOf(Written(w))
    BY <2>4 DEF Slots, SlotsOf
  <2>8. /\ SlotsOf(Written(w)) <= sync[w].used
        /\ sync[w].limit # Unlimited => sync[w].used + Slots(q) <= sync[w].limit
    BY <1>2, <1>4, <2>1, <2>3 DEF Budgeting, FullSteps, Exceeds
  <2>9. SlotsOf(Written(w)) <= sync[w].used + Slots(q)
           /\ SlotsOf(Written(w)) + Slots(q) <= sync[w].used + Slots(q)
    BY <1>2, <1>4, <2>8
  <2>10. Budgeting(w)'
    BY <2>2, <2>3, <2>4, <2>7, <2>8, <2>9 DEF Budgeting, Within, Slots
  <2> QED
    BY <2>6, <2>10
<1>12. CASE BulkUpsert(w)
  <2>0. PICK x : x = sync[w].product
    OBVIOUS
  <2> DEFINE doc == [version |-> sync[w].got, visible |-> TRUE, fresh |-> FullSyncs]
  <2>1. /\ step[w] = "bulk" /\ step'[w] = "readback" /\ sync'[w] = sync[w]
        /\ stored' = [stored EXCEPT ![x] = doc] /\ UNCHANGED index
    BY <1>1, <1>2, <2>0, <1>12 DEF BulkUpsert, LocalAfterWrite
  <2>2. /\ x \in Live /\ x \in Products /\ Position(x) = sync[w].page
        /\ sync[w].got = salla[x].version /\ sync[w].pages = Cardinality(Live)
    BY <1>1, <2>0, <2>1 DEF Reconciling
  <2>3. /\ stored'[x] = doc /\ \A p \in Products \ {x} : stored'[p] = stored[p]
    BY <1>2, <2>1, <2>2
  <2>4. w \in doc.fresh /\ doc.visible /\ doc.version = salla[x].version
    BY <1>2, <2>2
  <2> HIDE DEF doc
  <2>5. w \in stored'[x].fresh /\ Current(x)'
    BY <1>1, <2>1, <2>3, <2>4 DEF Current
  <2>6. ASSUME NEW p \in Live, Position(p) < sync[w].page PROVE UpToDate(w, p)'
    <3>1. UpToDate(w, p) /\ p # x /\ p \in Products
      BY <1>1, <1>2, <1>3, <2>1, <2>2, <2>6 DEF Reconciling
    <3> QED
      BY <1>1, <2>1, <2>3, <3>1 DEF UpToDate, Current, Found
  <2>7. \A p \in Products : w \in stored'[p].fresh => p \in Live'
    BY <1>1, <1>5, <2>2, <2>3
  <2>8. Reconciling(w)'
    <3>1. x = sync'[w].product
      BY <2>0, <2>1
    <3>2. /\ sync'[w].product \in Live' /\ Position(x)' = sync'[w].page
          /\ sync'[w].pages = Cardinality(Live')
          /\ w \in stored'[sync'[w].product].fresh
      BY <1>1, <2>1, <2>2, <2>5, <3>1
    <3>3. \A p \in Live' : Position(p)' < sync'[w].page => UpToDate(w, p)'
      BY <1>1, <2>1, <2>6
    <3> QED
      BY <2>1, <2>5, <2>7, <3>1, <3>2, <3>3 DEF Reconciling
  <2>9. Written(w)' \subseteq Written(w) \cup {x}
    BY <2>3 DEF Written, Visible
  <2>10. /\ SlotsOf(Written(w)) + Slots(x) <= sync[w].used
         /\ sync[w].limit # Unlimited => sync[w].used <= sync[w].limit
    BY <2>0, <2>1 DEF Budgeting
  <2>11. SlotsOf(Written(w)') <= SlotsOf(Written(w) \cup {x})
            /\ SlotsOf(Written(w) \cup {x}) <= SlotsOf(Written(w)) + Slots(x)
            /\ SlotsOf(Written(w)') \in Nat /\ SlotsOf(Written(w) \cup {x}) \in Nat
    <3>1. Written(w) \cup {x} \subseteq Products /\ Written(w) \subseteq Products
      BY <2>2 DEF Written, Visible
    <3>2. Written(w)' \subseteq Products
      BY <2>9, <3>1
    <3> QED
      BY <2>2, <2>9, <3>1, <3>2, SlotsCount
  <2>12. SlotsOf(Written(w)') <= sync[w].used
    BY <1>2, <1>4, <2>10, <2>11
  <2>13. SlotsOf(Written(w))' = SlotsOf(Written(w)')
    BY DEF SlotsOf
  <2>14. Budgeting(w)'
    BY <2>1, <2>10, <2>12, <2>13 DEF Budgeting, Within
  <2> QED
    BY <2>8, <2>14
<1>13. CASE ReadBack(w)
  <2>0. PICK x : x = sync[w].product
    OBVIOUS
  <2>1. \A y : /\ [sync[w] EXCEPT !.got = y].page = sync[w].page
               /\ [sync[w] EXCEPT !.got = y].pages = sync[w].pages
               /\ [sync[w] EXCEPT !.got = y].product = sync[w].product
               /\ [sync[w] EXCEPT !.got = y].limit = sync[w].limit
               /\ [sync[w] EXCEPT !.got = y].used = sync[w].used
               /\ [sync[w] EXCEPT !.got = y].got = y
    BY <1>2 DEF Locals
  <2>2. /\ step[w] = "readback" /\ step'[w] = "docs"
        /\ sync'[w] = [sync[w] EXCEPT !.got = Searchable(stored[x])]
    BY <1>2, <1>13, <2>0 DEF ReadBack
  <2>3. Untouched
    BY <1>6, <1>13 DEF ReadBack, shared
  <2>4. Current(x) /\ w \in stored[x].fresh
    BY <2>0, <2>2 DEF Reconciling
  <2>5. Searchable(stored[x]) = salla[x].version
    BY <2>4 DEF Searchable, Current
  <2>6. /\ sync'[w].page = sync[w].page /\ sync'[w].pages = sync[w].pages
        /\ sync'[w].product = x /\ sync'[w].got = salla[x].version
        /\ sync'[w].limit = sync[w].limit /\ sync'[w].used = sync[w].used
    BY <2>0, <2>1, <2>2, <2>5
  <2>7. /\ x \in Live /\ Position(x) = sync[w].page /\ sync[w].pages = Cardinality(Live)
        /\ \A p \in Live : Position(p) < sync[w].page => UpToDate(w, p)
    BY <2>0, <2>2 DEF Reconciling
  <2>8. Current(sync[w].product)'
    <3>1. stored'[x].visible /\ stored'[x].version = salla'[x].version
      BY <1>1, <2>3, <2>4 DEF Current
    <3> QED
      BY <2>6, <3>1 DEF Current
  <2>9. /\ \A p \in Live' : Position(p)' < sync'[w].page => UpToDate(w, p)'
        /\ sync'[w].product \in Live' /\ Position(sync[w].product)' = sync'[w].page
        /\ sync'[w].pages = Cardinality(Live')
        /\ sync'[w].got = salla'[sync'[w].product].version
        /\ w \in stored'[sync'[w].product].fresh
        /\ \A p \in Products : w \in stored'[p].fresh => p \in Live'
    BY <1>1, <1>5, <2>3, <2>4, <2>6, <2>7
  <2>10. Reconciling(w)'
    BY <2>2, <2>8, <2>9 DEF Reconciling
  <2>11. Budgeting(w)'
    BY <2>2, <2>3, <2>6 DEF Budgeting, Within, FullSteps, SlotsOf
  <2> QED
    BY <2>10, <2>11
<1>14. CASE AddDocuments(w)
  <2>0. PICK x : x = sync[w].product
    OBVIOUS
  <2>1. /\ step[w] = "docs" /\ Turn(w, sync[w]) /\ UNCHANGED stored
        /\ index' = [index EXCEPT ![x] = sync[w].got]
    BY <1>14, <2>0 DEF AddDocuments
  <2>2. /\ x \in Live /\ Position(x) = sync[w].page /\ sync[w].pages = Cardinality(Live)
        /\ sync[w].got = salla[x].version /\ w \in stored[x].fresh /\ Current(x)
        /\ \A p \in Live : Position(p) < sync[w].page => UpToDate(w, p)
    BY <2>0, <2>1 DEF Reconciling
  <2>3. index'[x] = salla[x].version /\ \A p \in Products \ {x} : index'[p] = index[p]
    BY <1>1, <2>1, <2>2 DEF TypeInv, ProductTypeOK
  <2>4. ASSUME NEW p \in Live, Position(p) < sync[w].page + 1 PROVE UpToDate(w, p)'
    <3>1. w \in stored[p].fresh /\ Current(p) /\ (p = x \/ Found(p))
      <4>1. CASE Position(p) < sync[w].page
        BY <2>2, <2>4, <4>1 DEF UpToDate
      <4>2. CASE Position(p) = sync[w].page
        <5>1. p = x
          BY <2>2, <2>4, <4>2, Pages
        <5> QED
          BY <2>2, <5>1
      <4> QED
        BY <1>2, <1>3, <2>4, <4>1, <4>2
    <3> QED
      BY <1>1, <2>1, <2>3, <3>1 DEF UpToDate, Current, Found
  <2> QED
    BY <1>1, <1>2, <1>5, <2>1, <2>2, <2>4, TurnKeeps
<1>15. CASE HideStale(w)
  <2>1. step[w] = "hide" /\ step'[w] = "done"
    BY <1>2, <1>15 DEF HideStale
  <2>2. \A p \in Products : stored'[p].fresh = stored[p].fresh
    BY <1>2, <1>15 DEF HideStale, Documents
  <2> QED
    BY <1>1, <1>5, <2>1, <2>2 DEF Reconciling, Budgeting
<1>16. ~SkipProduct(w) /\ ~DocumentsFail(w)
  BY DEF SkipProduct, DocumentsFail
<1>17. ~EndFullSync(w) /\ ~Fails(w) /\ ~(\E j \in Jobs : Take(w, j)) /\ ~ProductChange(w)
  BY <1>2 DEF EndFullSync, Fails, Throws, Take, ProductChange, FullSteps,
     FetchProduct, ProductNotFound, FindByExternalId, CheckRoom, LimitExceeded,
     Upsert, WriteConflict, SyncToMeilisearch, MarkHidden, NothingToHide, Commit
<1> QED
  BY <1>7, <1>8, <1>9, <1>10, <1>11, <1>12, <1>13, <1>14, <1>15, <1>16, <1>17
     DEF WorkerStep, Process, FullSync

(* No full sync runs at the start,                                         *)
LEMMA CalmInit == Init => CalmInv /\ BudgetInv
BY DEF Init, CalmInv, BudgetInv

(* and every step keeps what one has written up to date, and in its budget.*)
LEMMA CalmStep == TypeInv /\ CalmInv /\ BudgetInv /\ [Next]_vars => (CalmInv /\ BudgetInv)'
<1> SUFFICES ASSUME TypeInv, [Next]_vars, \A w \in calm : Reconciling(w) /\ Budgeting(w),
                    NEW w \in calm'
             PROVE  Reconciling(w)' /\ Budgeting(w)'
  BY DEF CalmInv, BudgetInv
<1>1. CASE Merchant \/ RunDailyReconciliation
  <2>1. UNCHANGED <<stored, index, step, sync, salla, calm>>
    BY <1>1, Outside DEF TypeInv
  <2>2. /\ Live' = Live /\ Written(w)' = Written(w)
        /\ Reconciling(w) /\ Budgeting(w)
    BY <2>1 DEF Live, Written, Visible
  <2>3. /\ \A p : Position(p)' = Position(p)
        /\ \A p : UpToDate(w, p)' <=> UpToDate(w, p)
        /\ \A p : Current(p)' <=> Current(p)
    BY <2>1, <2>2 DEF Position, UpToDate, Current, Found
  <2>4. Reconciling(w)'
    BY <2>1, <2>2, <2>3 DEF Reconciling
  <2>5. Budgeting(w)'
    BY <2>1, <2>2 DEF Budgeting, Within, SlotsOf, Slots
  <2> QED
    BY <2>4, <2>5
<1>2. ASSUME NEW v \in Workers, WorkerStep(v) PROVE Reconciling(w)' /\ Budgeting(w)'
  <2>1. /\ w # v => w \in calm
        /\ w = v => w \in calm \/ (step[w] = "idle" /\ step'[w] = "limit")
    BY <1>2, GoesOn DEF TypeInv
  <2>2. CASE w \in calm /\ w # v
    BY <1>2, <2>2, OthersKeep
  <2>3. CASE w \in calm /\ w = v
    BY <1>2, <2>3, CalmOwn
  <2>4. CASE w = v /\ step[w] = "idle" /\ step'[w] = "limit"
    <3>1. PICK j \in Jobs : Take(w, j)
      BY <1>2, <2>4 DEF WorkerStep, Process, FullSync, ProductChange, SkipProduct,
         DocumentsFail, Fails, ReadLimit, ReadUsage, ListNothing, ListTooMany,
         ListProduct, BulkUpsert, ReadBack, AddDocuments, HideStale, EndFullSync,
         FetchProduct, ProductNotFound, FindByExternalId, CheckRoom, LimitExceeded,
         Upsert, WriteConflict, SyncToMeilisearch, MarkHidden, NothingToHide, Commit, At
    <3>2. sync'[w].page = 1 /\ UNCHANGED stored
      BY <1>2, <2>4, <3>1, Blanks DEF Take, Local, TypeInv, ProductTypeOK
    <3>3. \A p \in Products : w \notin stored[p].fresh
      BY <2>4 DEF TypeInv, FreshInv, FullSyncs, FullSteps
    <3>4. Written(w)' = {}
      BY <3>2, <3>3 DEF Written, Visible
    <3>5. Reconciling(w)'
      BY <2>4, <3>2, <3>3 DEF Reconciling
    <3>6. Budgeting(w)'
      BY <2>4, <3>4 DEF Budgeting
    <3> QED
      BY <3>5, <3>6
  <2> QED
    BY <2>1, <2>2, <2>3, <2>4
<1>3. CASE UNCHANGED vars
  <2>1. /\ Live' = Live /\ Written(w)' = Written(w)
        /\ Reconciling(w) /\ Budgeting(w)
    BY <1>3 DEF vars, Live, Written, Visible
  <2>2. /\ \A p : Position(p)' = Position(p)
        /\ \A p : UpToDate(w, p)' <=> UpToDate(w, p)
        /\ \A p : Current(p)' <=> Current(p)
    BY <1>3, <2>1 DEF vars, Position, UpToDate, Current, Found
  <2>3. Reconciling(w)'
    BY <1>3, <2>1, <2>2 DEF vars, Reconciling
  <2>4. Budgeting(w)'
    BY <1>3, <2>1 DEF vars, Budgeting, Within, SlotsOf, Slots
  <2> QED
    BY <2>3, <2>4
<1> QED
  BY <1>1, <1>2, <1>3 DEF Next, WorkerStep

(* So both hold always.                                                    *)
LEMMA CalmHolds == Spec => [](TypeInv /\ CalmInv /\ BudgetInv)
<1>1. Init => TypeInv /\ CalmInv /\ BudgetInv
  BY TypeInit, CalmInit
<1>2. TypeInv /\ CalmInv /\ BudgetInv /\ [Next]_vars => (TypeInv /\ CalmInv /\ BudgetInv)'
  BY TypeStep, CalmStep
<1> QED
  BY <1>1, <1>2, PTL DEF Spec

(* A full sync that nothing interferes with and no limit cuts short leaves *)
(* exactly the live products visible, and each of them up to date in the   *)
(* collection and in the index, however many products and pages there are. *)
THEOREM CatalogueIsReconciled == Spec => FullSyncReconciles
<1>1. TypeInv /\ CalmInv /\ [Next]_vars =>
          [\A w \in Workers : Hides(w) /\ w \in calm /\ ~sync[w].cut =>
              /\ Visible' = Live
              /\ \A p \in Live : /\ stored'[p].version = salla[p].version
                                 /\ index[p] = salla[p].version]_vars
  <2> SUFFICES ASSUME TypeInv, CalmInv, [Next]_vars, NEW w \in Workers, Hides(w),
                      w \in calm, ~sync[w].cut
               PROVE  /\ Visible' = Live
                      /\ \A p \in Live : /\ stored'[p].version = salla[p].version
                                         /\ index[p] = salla[p].version
    OBVIOUS
  <2>1. /\ \A p \in Products : w \in stored[p].fresh => p \in Live
        /\ \A p \in Live : w \in stored[p].fresh /\ Current(p) /\ Found(p)
    BY DEF CalmInv, Reconciling, UpToDate, Hides, At
  <2>2. /\ Visible' = Visible \ Stale(w)
        /\ \A p \in Products : stored'[p].version = stored[p].version
    BY HidingStep
  <2>3. \A p \in Live : p \in Products /\ salla[p].version # 0
    BY DEF Live, TypeInv, KnownInv
  <2>4. Visible \ Stale(w) = Live
    BY <2>1, <2>3 DEF Stale, Visible, Current
  <2> QED
    BY <2>1, <2>2, <2>3, <2>4 DEF Current, Found
<1> QED
  BY <1>1, CalmHolds, PTL DEF Spec, FullSyncReconciles

(* A full sync that nothing interferes with leaves the store within the    *)
(* limit that it has read, for every plan and every number of variants.    *)
THEOREM StoreFitsThePlan == Spec => FullSyncWithinLimit
<1>1. TypeInv /\ BudgetInv /\ [Next]_vars =>
          [\A w \in Workers : Hides(w) /\ w \in calm /\ sync[w].limit # Unlimited =>
              Usage' <= sync[w].limit]_vars
  <2> SUFFICES ASSUME TypeInv, BudgetInv, [Next]_vars, NEW w \in Workers, Hides(w),
                      w \in calm, sync[w].limit # Unlimited
               PROVE  Usage' <= sync[w].limit
    OBVIOUS
  <2>1. /\ SlotsOf(Written(w)) <= sync[w].used
        /\ Written(w) # {} => sync[w].used <= sync[w].limit
    BY DEF BudgetInv, Budgeting, Within, Hides, At, FullSteps
  <2>2. Visible' = Written(w)
    <3>1. Visible \ Stale(w) = Written(w)
      BY DEF Stale, Written
    <3> QED
      BY <3>1, HidingStep
  <2>3. Usage' = SlotsOf(Written(w))
    BY <2>2 DEF Usage, SlotsOf
  <2>4. sync[w].limit \in Nat /\ sync[w].used \in Nat
    BY LocalsAre DEF TypeInv
  <2>5. SlotsOf(Written(w)) \in Nat /\ SlotsOf({}) = 0
    <3>1. Written(w) \subseteq Products /\ {} \subseteq Written(w)
      BY DEF Written, Visible
    <3> QED
      BY <3>1, SlotsCount
  <2> QED
    BY <2>1, <2>3, <2>4, <2>5
<1> QED
  BY <1>1, CalmHolds, PTL DEF Spec, FullSyncWithinLimit

==============================================================================
