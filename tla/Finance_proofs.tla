--------------------------- MODULE Finance_proofs ---------------------------
(***************************************************************************)
(* Proofs about StockBook and InventoryLedger, for any number of products,  *)
(* documents, dates, prices and writers, about the OpeningImport beside     *)
(* them, about RecurringExpenses, for any calendar and any number of        *)
(* requests, and about FinanceReports, for any periods, filters and         *)
(* expenses.  A set of entries is finite, so a claim about every replay is  *)
(* shown by looking at a least set of entries for which it fails: by its    *)
(* last entry it differs from a smaller one.                                *)
(***************************************************************************)
EXTENDS FinanceReports, OpeningImport, RecurringExpenses, FiniteSetTheorems, WellFoundedInduction, TLAPS

Entry == Purchases \cup Sales
Ledgers == [Documents -> Entry \cup {NoDoc}]
Holding(d) == {e \in Documents : d[e] # NoDoc}

(* What a purchase or a sale is made of; a document that is not there has   *)
(* nothing of any product.                                                  *)
LEMMA EntryTypes ==
    /\ \A x \in Entry : /\ x.kind \in {"purchase", "sale"} /\ x.date \in Nat /\ x.created \in Nat
                        /\ x.items \in [Products -> Nat] /\ x.cost \in Nat
                        /\ \E p \in Products : x.items[p] > 0
    /\ NoDoc \notin Entry
    /\ \A p \in Products : NoDoc.items[p] = 0
<1>1. Items \subseteq [Products -> Nat]
  BY StockAssumption DEF Items
<1>2. \A i \in Items : \E p \in Products : i[p] > 0
  <2> SUFFICES ASSUME NEW i \in Items, \A p \in Products : ~(i[p] > 0) PROVE FALSE
    OBVIOUS
  <2>1. i \in [Products -> Nat] /\ i # NoItems
    BY <1>1 DEF Items
  <2>2. \A p \in Products : i[p] = 0
    BY <2>1
  <2> QED
    BY <2>1, <2>2 DEF NoItems
<1>3. ASSUME NEW x \in Entry
      PROVE  /\ x.kind \in {"purchase", "sale"} /\ x.date \in Nat /\ x.created \in Nat
             /\ x.items \in Items /\ x.cost \in Nat
  <2>1. CASE x \in Purchases
    <3>1. /\ x.kind = "purchase" /\ x.date \in Dates /\ x.created \in Creations
          /\ x.items \in Items /\ x.cost \in Costs
      BY <2>1 DEF Purchases
    <3> QED
      BY <3>1, StockAssumption
  <2>2. CASE x \in Sales
    <3>1. /\ x.kind = "sale" /\ x.date \in Dates /\ x.created \in Creations
          /\ x.items \in Items /\ x.cost = 0
      BY <2>2 DEF Sales
    <3>2. x.date \in Nat /\ x.created \in Nat
      BY <3>1, StockAssumption
    <3>3. x.cost \in Nat
      BY <3>1
    <3> QED
      BY <3>1, <3>2, <3>3
  <2> QED
    BY <2>1, <2>2 DEF Entry
<1>4. NoDoc \notin Entry
  BY DEF Entry, Purchases, Sales, NoDoc
<1>5. \A p \in Products : NoDoc.items[p] = 0
  BY DEF NoDoc, NoItems
<1> QED
  BY <1>1, <1>2, <1>3, <1>4, <1>5

(* Entries are documents held.                                              *)
LEMMA EntriesHeld ==
    ASSUME NEW d \in Ledgers, NEW p \in Products
    PROVE  /\ Entries(d, p) \subseteq Holding(d)
           /\ \A e \in Holding(d) : d[e] \in Entry
           /\ Holding(d) \subseteq Documents
BY EntryTypes DEF Entries, Holding, Ledgers

(* compareLedgerEntries orders the entries of a product.                    *)
LEMMA EarlierOrders ==
    ASSUME NEW d \in Ledgers, NEW e \in Holding(d), NEW f \in Holding(d)
    PROVE  /\ e = f \/ Earlier(d, e, f) \/ Earlier(d, f, e)
           /\ ~(Earlier(d, e, f) /\ Earlier(d, f, e))
           /\ ~Earlier(d, e, e)
<1>1. d[e] \in Entry /\ d[f] \in Entry
  BY DEF Ledgers, Holding
<1>2. e \in Nat /\ f \in Nat
  BY StockAssumption DEF Holding
<1>3. /\ d[e].kind \in {"purchase", "sale"} /\ d[e].date \in Nat /\ d[e].created \in Nat
      /\ d[f].kind \in {"purchase", "sale"} /\ d[f].date \in Nat /\ d[f].created \in Nat
  BY <1>1, EntryTypes
<1> QED
  BY <1>2, <1>3 DEF Earlier

LEMMA EarlierLinks ==
    ASSUME NEW d \in Ledgers, NEW e \in Holding(d), NEW f \in Holding(d), NEW g \in Holding(d),
           Earlier(d, e, f), Earlier(d, f, g)
    PROVE  Earlier(d, e, g)
<1>1. d[e] \in Entry /\ d[f] \in Entry /\ d[g] \in Entry
  BY DEF Ledgers, Holding
<1>2. e \in Nat /\ f \in Nat /\ g \in Nat
  BY StockAssumption DEF Holding
<1>3. /\ d[e].kind \in {"purchase", "sale"} /\ d[e].date \in Nat /\ d[e].created \in Nat
      /\ d[f].kind \in {"purchase", "sale"} /\ d[f].date \in Nat /\ d[f].created \in Nat
      /\ d[g].kind \in {"purchase", "sale"} /\ d[g].date \in Nat /\ d[g].created \in Nat
  BY <1>1, EntryTypes
<1> QED
  BY <1>2, <1>3 DEF Earlier

(* Of counterexamples among the subsets of a finite set one is least.       *)
LEMMA LeastSubset ==
    ASSUME NEW E, IsFiniteSet(E), NEW T \in SUBSET (SUBSET E), T # {}
    PROVE  \E s \in T : \A u \in SUBSET s : u # s => u \notin T
<1>1. T \subseteq FiniteSubsetsOf(E)
  BY FS_Subset DEF FiniteSubsetsOf
<1>2. PICK s \in T : \A u \in T : ~(<<u, s>> \in StrictSubsetOrdering(E))
  BY <1>1, FS_StrictSubsetOrderingWellFounded, WFMin
<1>3. ASSUME NEW u \in SUBSET s, u # s, u \in T PROVE FALSE
  BY <1>2, <1>3 DEF StrictSubsetOrdering
<1> QED
  BY <1>3

(* The sort has a last entry.                                               *)
LEMMA LatestIs ==
    ASSUME NEW d \in Ledgers, NEW E \in SUBSET Holding(d), IsFiniteSet(E), E # {}
    PROVE  /\ Latest(d, E) \in E
           /\ \A f \in E \ {Latest(d, E)} : Earlier(d, f, Latest(d, E))
<1> DEFINE Last(s, e) == e \in s /\ \A f \in s \ {e} : Earlier(d, f, e)
           T == {s \in SUBSET E : s # {} /\ ~ \E e \in s : Last(s, e)}
<1>1. T = {}
  <2> SUFFICES ASSUME T # {} PROVE FALSE
    OBVIOUS
  <2>1. PICK s \in T : \A u \in SUBSET s : u # s => u \notin T
    <3> HIDE DEF T
    <3>1. T \in SUBSET (SUBSET E)
      BY DEF T
    <3> QED
      BY <3>1, LeastSubset
  <2>2. PICK e \in s : TRUE
    OBVIOUS
  <2>3. s \in SUBSET E /\ ~Last(s, e)
    OBVIOUS
  <2>4. s \ {e} # {}
    BY <2>3
  <2>5. s \ {e} \notin T
    BY <2>1
  <2>6. PICK f \in s \ {e} : Last(s \ {e}, f)
    BY <2>3, <2>4, <2>5
  <2>7. e \in Holding(d) /\ f \in Holding(d) /\ s \subseteq Holding(d)
    BY <2>3
  <2>8. CASE Earlier(d, e, f)
    <3>1. Last(s, f)
      BY <2>6, <2>8
    <3> QED
      BY <3>1
  <2>9. CASE Earlier(d, f, e)
    <3>1. \A g \in s \ {e, f} : Earlier(d, g, e)
      BY <2>6, <2>7, <2>9, EarlierLinks
    <3>2. Last(s, e)
      BY <3>1, <2>9
    <3> QED
      BY <3>2, <2>3
  <2> QED
    BY <2>6, <2>7, <2>8, <2>9, EarlierOrders
<1>2. \E e \in E : \A f \in E \ {e} : Earlier(d, f, e)
  BY <1>1
<1> QED
  BY <1>2 DEF Latest

(* What an entry makes of the replay before it, which ends at a shortage.   *)
Entered(d, p, s, e) == IF s.short THEN s ELSE Enter(s, d[e].items[p], d[e], e)

(* g is the replay of every set of entries of p.                            *)
Replays(d, p, g) ==
    g = [S \in SUBSET Entries(d, p) |->
            IF S = {} THEN Start ELSE Entered(d, p, g[S \ {Latest(d, S)}], Latest(d, S))]

LEMMA ReplayReplays ==
    ASSUME NEW d, NEW p
    PROVE  Replay(d, p) = (CHOOSE g : Replays(d, p, g))[Entries(d, p)]
BY DEF Replay, Replays, Entered

(* The replay of the subsets of E exists.                                   *)
LEMMA ReplayExists ==
    ASSUME NEW d \in Ledgers, NEW p \in Products, IsFiniteSet(Entries(d, p))
    PROVE  \E g : Replays(d, p, g)
<1> DEFINE On(E, g) == 
             /\ DOMAIN g = SUBSET E
             /\ g = [S \in SUBSET E |->
                  IF S = {} THEN Start ELSE Entered(d, p, g[S \ {Latest(d, S)}], Latest(d, S))]
           T == {E \in SUBSET Entries(d, p) : ~ \E g : On(E, g)}
<1>1. T = {}
  <2> SUFFICES ASSUME T # {} PROVE FALSE
    OBVIOUS
  <2>1. PICK E \in T : \A u \in SUBSET E : u # E => u \notin T
    <3> HIDE DEF T
    <3>1. T \in SUBSET (SUBSET Entries(d, p))
      BY DEF T
    <3> QED
      BY <3>1, LeastSubset
  <2>2. E \in SUBSET Entries(d, p) /\ ~ \E g : On(E, g)
    OBVIOUS
  <2>3. CASE E = {}
    <3> DEFINE g == [S \in SUBSET E |-> Start]
    <3>1. \A S \in SUBSET E : S = {}
      BY <2>3
    <3>2. On(E, g)
      BY <3>1
    <3> QED
      BY <3>2, <2>2
  <2>4. CASE E # {}
    <3>1. E \in SUBSET Holding(d) /\ IsFiniteSet(E)
      BY <2>2, EntriesHeld, FS_Subset
    <3> DEFINE e == Latest(d, E)
    <3>2. e \in E /\ \A f \in E \ {e} : Earlier(d, f, e)
      BY <3>1, <2>4, LatestIs
    <3>3. E \ {e} \notin T
      BY <2>1, <3>2
    <3>4. PICK h : On(E \ {e}, h)
      BY <3>3, <2>2
    <3>5. \A S \in SUBSET E : e \in S => Latest(d, S) = e
      <4> SUFFICES ASSUME NEW S \in SUBSET E, e \in S PROVE Latest(d, S) = e
        OBVIOUS
      <4>1. Latest(d, S) \in S /\ \A f \in S \ {Latest(d, S)} : Earlier(d, f, Latest(d, S))
        BY <3>1, FS_Subset, LatestIs
      <4> HIDE DEF e
      <4> QED
        BY <4>1, <3>1, <3>2, EarlierOrders
    <3>6. \A S \in SUBSET E : S # {} => Latest(d, S) \in S
      BY <3>1, FS_Subset, LatestIs
    <3> HIDE DEF e
    <3> DEFINE g == [S \in SUBSET E |-> IF e \in S THEN Entered(d, p, h[S \ {e}], e) ELSE h[S]]
    <3>7. ASSUME NEW S \in SUBSET E
          PROVE  g[S] = IF S = {} THEN Start ELSE Entered(d, p, g[S \ {Latest(d, S)}], Latest(d, S))
      <4>1. CASE e \in S
        <5>1. Latest(d, S) = e
          BY <4>1, <3>5
        <5>2. g[S] = Entered(d, p, h[S \ {e}], e)
          BY <4>1
        <5>3. g[S \ {e}] = h[S \ {e}]
          OBVIOUS
        <5> QED
          BY <5>1, <5>2, <5>3, <4>1
      <4>2. CASE e \notin S
        <5>1. g[S] = h[S] /\ S \in SUBSET (E \ {e})
          BY <4>2
        <5>2. h[S] = IF S = {} THEN Start ELSE Entered(d, p, h[S \ {Latest(d, S)}], Latest(d, S))
          BY <5>1, <3>4
        <5>3. g[S \ {Latest(d, S)}] = h[S \ {Latest(d, S)}]
          BY <4>2
        <5> HIDE DEF g
        <5> QED
          BY <5>1, <5>2, <5>3
      <4> QED
        BY <4>1, <4>2
    <3>8. DOMAIN g = SUBSET E /\ g = [S \in SUBSET E |-> g[S]]
      OBVIOUS
    <3>9. On(E, g)
      <4> HIDE DEF g
      <4> QED
        BY <3>7, <3>8
    <3> QED
      BY <3>9, <2>2
  <2> QED
    BY <2>3, <2>4
<1>2. \E g : On(Entries(d, p), g)
  BY <1>1
<1> QED
  BY <1>2 DEF Replays

Extends(d, p, g, T, S) ==
    \/ S = {} /\ g[S] = Start
    \/ \E e \in S : /\ \A f \in S \ {e} : Earlier(d, f, e)
                    /\ S \ {e} \notin T
                    /\ g[S] = Entered(d, p, g[S \ {e}], e)

(* Among sets of entries there is one that is empty, or lacks the property   *)
(* only by its last entry: what every set of entries is replayed to is      *)
(* shown by looking at one entry.                                           *)
LEMMA LeastReplay ==
    ASSUME NEW d \in Ledgers, NEW p \in Products, IsFiniteSet(Entries(d, p)),
           NEW g, Replays(d, p, g), NEW T \in SUBSET (SUBSET Entries(d, p)), T # {}
    PROVE  \E S \in T : Extends(d, p, g, T, S)
<1>1. PICK S \in T : \A u \in SUBSET S : u # S => u \notin T
  BY LeastSubset
<1>2. S \in SUBSET Entries(d, p)
  OBVIOUS
<1>3. g[S] = IF S = {} THEN Start ELSE Entered(d, p, g[S \ {Latest(d, S)}], Latest(d, S))
  BY <1>2 DEF Replays
<1>4. CASE S # {}
  <2>1. S \in SUBSET Holding(d) /\ IsFiniteSet(S)
    BY <1>2, EntriesHeld, FS_Subset
  <2>2. Latest(d, S) \in S /\ \A f \in S \ {Latest(d, S)} : Earlier(d, f, Latest(d, S))
    BY <2>1, <1>4, LatestIs
  <2>3. S \ {Latest(d, S)} \notin T
    BY <2>2, <1>1
  <2> QED
    BY <2>2, <2>3, <1>3, <1>4 DEF Extends
<1> QED
  BY <1>3, <1>4 DEF Extends

(* The replay of p is the value, at all its entries, of a function that     *)
(* satisfies the recursion.                                                 *)
LEMMA ReplayIs ==
    ASSUME NEW d \in Ledgers, NEW p \in Products, IsFiniteSet(Entries(d, p))
    PROVE  \E g : Replays(d, p, g) /\ Replay(d, p) = g[Entries(d, p)]
<1> DEFINE g == CHOOSE g : Replays(d, p, g)
<1>1. Replays(d, p, g)
  BY ReplayExists
<1>2. Replay(d, p) = g[Entries(d, p)]
  BY ReplayReplays
<1> HIDE DEF g
<1> QED
  BY <1>1, <1>2

(* Documents that agree on their entries of p have the same replay of p.    *)
LEMMA ReplayLocal ==
    ASSUME NEW d \in Ledgers, NEW b \in Ledgers, NEW p \in Products, IsFiniteSet(Entries(d, p)),
           Entries(b, p) = Entries(d, p), \A e \in Entries(d, p) : b[e] = d[e]
    PROVE  Replay(b, p) = Replay(d, p)
<1>1. PICK g : Replays(d, p, g) /\ Replay(d, p) = g[Entries(d, p)]
  BY ReplayIs
<1>2. PICK h : Replays(b, p, h) /\ Replay(b, p) = h[Entries(b, p)]
  BY ReplayIs
<1> DEFINE T == {S \in SUBSET Entries(d, p) : g[S] # h[S]}
<1>3. T = {}
  <2> SUFFICES ASSUME T # {} PROVE FALSE
    OBVIOUS
  <2>1. T \in SUBSET (SUBSET Entries(d, p))
    OBVIOUS
  <2>2. PICK S \in T : Extends(d, p, g, T, S)
    <3>1. Replays(d, p, g)
      BY <1>1
    <3> HIDE DEF T
    <3> QED
      BY <3>1, <2>1, LeastReplay
  <2>3. S \in SUBSET Entries(d, p) /\ g[S] # h[S]
    OBVIOUS
  <2>4. h[S] = IF S = {} THEN Start ELSE Entered(b, p, h[S \ {Latest(b, S)}], Latest(b, S))
    BY <2>3, <1>2 DEF Replays
  <2>5. PICK e \in S : /\ \A f \in S \ {e} : Earlier(d, f, e)
                       /\ S \ {e} \notin T
                       /\ g[S] = Entered(d, p, g[S \ {e}], e)
    <3> HIDE DEF T
    <3> QED
      BY <2>2, <2>3, <2>4 DEF Extends
  <2>6. S \in SUBSET Holding(b) /\ S \in SUBSET Holding(d) /\ IsFiniteSet(S)
    BY <2>3, EntriesHeld, FS_Subset
  <2>7. Latest(b, S) \in S /\ \A f \in S \ {Latest(b, S)} : Earlier(b, f, Latest(b, S))
    BY <2>5, <2>6, LatestIs
  <2>8. \A f \in S : b[f] = d[f]
    BY <2>3
  <2>9. \A f, c \in S : Earlier(b, f, c) <=> Earlier(d, f, c)
    BY <2>8 DEF Earlier
  <2>10. Latest(b, S) = e
    BY <2>5, <2>6, <2>7, <2>9, EarlierOrders
  <2>11. Entered(b, p, h[S \ {e}], e) = Entered(d, p, h[S \ {e}], e)
    BY <2>8 DEF Entered
  <2>12. g[S \ {e}] = h[S \ {e}]
    BY <2>3, <2>5
  <2> QED
    BY <2>3, <2>4, <2>5, <2>10, <2>11, <2>12
<1> QED
  BY <1>1, <1>2, <1>3

-----------------------------------------------------------------------------
(* Sums over finite sets.                                                   *)
Adds(F, E, g) ==
    g = [S \in SUBSET E |-> IF S = {} THEN 0
                            ELSE F[CHOOSE x \in S : TRUE] + g[S \ {CHOOSE x \in S : TRUE}]]

(* The function that MapThenSumSet chooses exists.                          *)
LEMMA SumExists == ASSUME NEW E, IsFiniteSet(E), NEW F PROVE \E g : Adds(F, E, g)
<1> DEFINE Some(S) == CHOOSE x \in S : TRUE
           Value(g, S) == IF S = {} THEN 0 ELSE F[Some(S)] + g[S \ {Some(S)}]
           On(n, g) == \A S \in SUBSET E : Cardinality(S) <= n => g[S] = Value(g, S)
           T == {n \in Nat : ~ \E g : On(n, g)}
<1>0. \A S \in SUBSET E : /\ IsFiniteSet(S) /\ Cardinality(S) \in Nat
                          /\ (Cardinality(S) = 0 <=> S = {})
                          /\ S # {} => Some(S) \in S /\ Cardinality(S \ {Some(S)}) = Cardinality(S) - 1
  BY FS_Subset, FS_CardinalityType, FS_EmptySet, FS_RemoveElement
<1> HIDE DEF Some
<1>1. T = {}
  <2> SUFFICES ASSUME T # {} PROVE FALSE
    OBVIOUS
  <2>1. PICK n \in T : \A m \in T : ~(<<m, n>> \in OpToRel(<, Nat))
    <3>1. T \subseteq Nat
      OBVIOUS
    <3> HIDE DEF T
    <3> QED
      BY <3>1, NatLessThanWellFounded, WFMin
  <2>2. n \in Nat /\ \A m \in T : ~(m < n)
    <3>1. n \in Nat /\ \A m \in T : m \in Nat
      OBVIOUS
    <3> HIDE DEF T
    <3> QED
      BY <2>1, <3>1 DEF OpToRel
  <2>3. CASE n = 0
    <3> DEFINE g == [S \in SUBSET E |-> 0]
    <3>1. ASSUME NEW S \in SUBSET E, Cardinality(S) <= 0 PROVE S = {}
      <4>1. Cardinality(S) \in Nat /\ (Cardinality(S) = 0 <=> S = {})
        BY <1>0
      <4> QED
        BY <4>1, <3>1
    <3>2. ASSUME NEW S \in SUBSET E, Cardinality(S) <= n PROVE g[S] = Value(g, S)
      BY <3>1, <3>2, <2>3
    <3>3. On(n, g)
      BY <3>2
    <3> QED
      BY <3>3
  <2>4. CASE n # 0
    <3>1. n - 1 \in Nat /\ n - 1 \notin T
      <4> HIDE DEF T
      <4> QED
        BY <2>2, <2>4
    <3>2. PICK h : On(n - 1, h)
      BY <3>1
    <3> DEFINE g == [S \in SUBSET E |-> IF Cardinality(S) <= n - 1 THEN h[S] ELSE Value(h, S)]
    <3>3. \A S \in SUBSET E : Cardinality(S) <= n - 1 => g[S] = h[S] /\ h[S] = Value(h, S)
      BY <3>2
    <3>4. ASSUME NEW S \in SUBSET E, Cardinality(S) <= n PROVE g[S] = Value(g, S)
      <4>1. S # {} => /\ S \ {Some(S)} \in SUBSET E
                      /\ g[S \ {Some(S)}] = h[S \ {Some(S)}]
        <5>1. S # {} => Cardinality(S \ {Some(S)}) <= n - 1
          BY <1>0, <3>4, <2>2
        <5> HIDE DEF g
        <5> QED
          BY <5>1, <3>3
      <4>2. Value(g, S) = Value(h, S)
        <5> HIDE DEF g
        <5> QED
          BY <4>1
      <4>3. g[S] = Value(h, S)
        BY <3>3
      <4> QED
        BY <4>2, <4>3
    <3>5. On(n, g)
      BY <3>4
    <3> QED
      BY <3>5
  <2> QED
    BY <2>3, <2>4
<1>2. Cardinality(E) \in Nat /\ \A S \in SUBSET E : Cardinality(S) <= Cardinality(E)
  BY FS_Subset, FS_CardinalityType
<1>3. PICK g : On(Cardinality(E), g)
  BY <1>1, <1>2
<1> DEFINE h == [S \in SUBSET E |-> g[S]]
<1>4. \A S \in SUBSET E : h[S] = IF S = {} THEN 0 ELSE F[Some(S)] + h[S \ {Some(S)}]
  BY <1>0, <1>2, <1>3
<1>5. h = [S \in SUBSET E |-> IF S = {} THEN 0 ELSE F[Some(S)] + h[S \ {Some(S)}]]
  <2>1. h = [S \in SUBSET E |-> h[S]]
    OBVIOUS
  <2> HIDE DEF h
  <2> QED
    BY <2>1, <1>4
<1>6. Adds(F, E, h)
  BY <1>5 DEF Adds, Some
<1> QED
  BY <1>6

(* Sums over a set agree, and any element may be taken first.               *)
LEMMA SumUnique ==
    ASSUME NEW E, IsFiniteSet(E), NEW F, NEW g, Adds(F, E, g),
           NEW D, NEW G, NEW h, Adds(G, D, h), E \subseteq D, \A x \in E : F[x] = G[x]
    PROVE  g[E] = h[E]
<1> DEFINE T == {S \in SUBSET E : g[S] # h[S]}
<1>1. T = {}
  <2> SUFFICES ASSUME T # {} PROVE FALSE
    OBVIOUS
  <2>1. PICK S \in T : \A u \in SUBSET S : u # S => u \notin T
    <3>1. T \in SUBSET (SUBSET E)
      OBVIOUS
    <3> HIDE DEF T
    <3> QED
      BY <3>1, LeastSubset
  <2> DEFINE x == CHOOSE x \in S : TRUE
  <2>2. S # {} => x \in S
    OBVIOUS
  <2>3. /\ S \in SUBSET E /\ S \in SUBSET D /\ g[S] # h[S]
        /\ g[S] = IF S = {} THEN 0 ELSE F[x] + g[S \ {x}]
        /\ h[S] = IF S = {} THEN 0 ELSE G[x] + h[S \ {x}]
    BY DEF Adds
  <2> HIDE DEF x
  <2>4. S # {} => g[S \ {x}] = h[S \ {x}]
    BY <2>1, <2>2
  <2> QED
    BY <2>2, <2>3, <2>4
<1> QED
  BY <1>1

LEMMA SumTakes ==
    ASSUME NEW E, IsFiniteSet(E), NEW F, NEW g, Adds(F, E, g), \A x \in E : F[x] \in Int
    PROVE  \A S \in SUBSET E : g[S] \in Int /\ \A x \in S : g[S] = F[x] + g[S \ {x}]
<1> DEFINE Good(S) == g[S] \in Int /\ \A x \in S : g[S] = F[x] + g[S \ {x}]
           T == {S \in SUBSET E : ~Good(S)}
<1>1. T = {}
  <2> SUFFICES ASSUME T # {} PROVE FALSE
    OBVIOUS
  <2>1. PICK S \in T : \A u \in SUBSET S : u # S => u \notin T
    <3>1. T \in SUBSET (SUBSET E)
      OBVIOUS
    <3> HIDE DEF T
    <3> QED
      BY <3>1, LeastSubset
  <2> DEFINE c == CHOOSE x \in S : TRUE
  <2>2. S # {} => c \in S
    OBVIOUS
  <2>3. /\ S \in SUBSET E /\ ~Good(S)
        /\ g[S] = IF S = {} THEN 0 ELSE F[c] + g[S \ {c}]
    BY DEF Adds
  <2> HIDE DEF c
  <2>4. \A u \in SUBSET S : u # S => Good(u)
    BY <2>1
  <2>5. CASE S = {}
    BY <2>3, <2>5
  <2>6. CASE S # {}
    <3>1. c \in S /\ g[S] = F[c] + g[S \ {c}]
      BY <2>6, <2>2, <2>3
    <3>2. Good(S \ {c})
      BY <3>1, <2>4
    <3>3. \A x \in S : F[x] \in Int
      BY <2>3
    <3>4. g[S] \in Int
      BY <3>1, <3>2, <3>3
    <3>5. ASSUME NEW x \in S, x # c PROVE g[S] = F[x] + g[S \ {x}]
      <4>1. Good(S \ {x}) /\ Good(S \ {c}) /\ Good(S \ {x, c})
        BY <3>1, <2>4
      <4>2. (S \ {x}) \ {c} = S \ {x, c} /\ (S \ {c}) \ {x} = S \ {x, c} /\ c \in S \ {x} /\ x \in S \ {c}
        BY <3>1, <3>5
      <4>3. g[S \ {x}] = F[c] + g[S \ {x, c}] /\ g[S \ {c}] = F[x] + g[S \ {x, c}]
        BY <4>1, <4>2
      <4>4. g[S \ {x, c}] \in Int
        BY <4>1
      <4> HIDE DEF Good
      <4> QED
        BY <4>3, <4>4, <3>1, <3>3
    <3> QED
      BY <3>1, <3>4, <3>5, <2>3
  <2> QED
    BY <2>5, <2>6
<1> QED
  BY <1>1

SumOver(F, S) == (CHOOSE g : Adds(F, S, g))[S]

(* A sum takes its elements one by one.                                     *)
LEMMA SumOverTakes ==
    ASSUME NEW S, IsFiniteSet(S), NEW F, \A x \in S : F[x] \in Int
    PROVE  /\ SumOver(F, S) \in Int
           /\ S = {} => SumOver(F, S) = 0
           /\ \A x \in S : SumOver(F, S) = F[x] + SumOver(F, S \ {x})
<1> DEFINE g == CHOOSE g : Adds(F, S, g)
<1>1. Adds(F, S, g)
  BY SumExists
<1>2. SumOver(F, S) = g[S]
  BY DEF SumOver
<1> HIDE DEF g
<1>3. \A u \in SUBSET S : g[u] \in Int /\ \A x \in u : g[u] = F[x] + g[u \ {x}]
  BY <1>1, SumTakes
<1>4. S = {} => g[S] = 0
  BY <1>1 DEF Adds
<1>5. ASSUME NEW x \in S PROVE SumOver(F, S \ {x}) = g[S \ {x}]
  <2>1. IsFiniteSet(S \ {x}) /\ S \ {x} \subseteq S
    BY FS_RemoveElement
  <2> DEFINE h == CHOOSE h : Adds(F, S \ {x}, h)
  <2>2. Adds(F, S \ {x}, h)
    BY <2>1, SumExists
  <2>3. SumOver(F, S \ {x}) = h[S \ {x}]
    BY DEF SumOver
  <2> HIDE DEF h
  <2>4. h[S \ {x}] = g[S \ {x}]
    BY <2>1, <2>2, <1>1, SumUnique
  <2> QED
    BY <2>3, <2>4
<1> QED
  BY <1>2, <1>3, <1>4, <1>5

LEMMA SumOverSame ==
    ASSUME NEW S, IsFiniteSet(S), NEW F, NEW G, \A x \in S : F[x] = G[x]
    PROVE  SumOver(F, S) = SumOver(G, S)
<1> DEFINE g == CHOOSE g : Adds(F, S, g)
           h == CHOOSE h : Adds(G, S, h)
<1>1. Adds(F, S, g) /\ Adds(G, S, h)
  BY SumExists
<1>2. SumOver(F, S) = g[S] /\ SumOver(G, S) = h[S]
  BY DEF SumOver
<1> HIDE DEF g, h
<1>3. g[S] = h[S]
  BY <1>1, SumUnique
<1> QED
  BY <1>2, <1>3

LEMMA SumIs ==
    ASSUME NEW S, IsFiniteSet(S), NEW F, NEW g, Adds(F, S, g)
    PROVE  g[S] = SumOver(F, S)
<1> DEFINE h == CHOOSE h : Adds(F, S, h)
<1>1. Adds(F, S, h)
  OBVIOUS
<1> HIDE DEF h
<1>2. g[S] = h[S]
  BY <1>1, SumUnique
<1> QED
  BY <1>2 DEF SumOver, h

-----------------------------------------------------------------------------
(* The sums of the specification are such sums.                             *)
UnitsIn(d, p) == [f \in Documents |-> d[f].items[p]]
Paid(d, p) == [f \in Documents |-> d[f].items[p] * d[f].cost]
AtCost(d, p, c) == [f \in Documents |-> d[f].items[p] * c[f]]

UnitTotal(d, p, S) == MapThenSumSet(LAMBDA f : d[f].items[p], S)
PaidTotal(d, p, S) == MapThenSumSet(LAMBDA f : d[f].items[p] * d[f].cost, S)
CostTotal(d, p, b, S) == MapThenSumSet(LAMBDA f : d[f].items[p] * b[f].snapshot[p], S)
CountTotal(d, p, S) == MapThenSumSet(LAMBDA f : d[f].items[p] * 1, S)

LEMMA UnitTotalIs ==
    ASSUME NEW d, NEW p, NEW S \in SUBSET Documents, IsFiniteSet(S)
    PROVE  UnitTotal(d, p, S) = SumOver([f \in Documents |-> d[f].items[p]], S)
<1> DEFINE F == [f \in Documents |-> d[f].items[p]]
           Sums(g) == g = [s \in SUBSET S |-> IF s = {} THEN 0
                           ELSE d[CHOOSE x \in s : TRUE].items[p] + g[s \ {CHOOSE x \in s : TRUE}]]
           g == CHOOSE g : Sums(g)
<1>1. UnitTotal(d, p, S) = g[S]
  BY DEF UnitTotal, MapThenSumSet, MapThenFoldSet
<1>2. ASSUME NEW k PROVE Sums(k) <=> Adds(F, S, k)
  <2>1. \A s \in SUBSET S : s # {} => F[CHOOSE x \in s : TRUE] = d[CHOOSE x \in s : TRUE].items[p]
    OBVIOUS
  <2> HIDE DEF F
  <2> QED
    BY <2>1 DEF Adds
<1>3. Adds(F, S, g)
  <2> HIDE DEF Sums, F
  <2>1. \E k : Sums(k)
    BY <1>2, SumExists
  <2>2. Sums(g)
    BY <2>1
  <2> QED
    BY <1>2, <2>2
<1> HIDE DEF F, g
<1>4. g[S] = SumOver(F, S)
  BY <1>3, SumIs
<1> QED
  BY <1>1, <1>4 DEF F

LEMMA PaidTotalIs ==
    ASSUME NEW d, NEW p, NEW S \in SUBSET Documents, IsFiniteSet(S)
    PROVE  PaidTotal(d, p, S) = SumOver([f \in Documents |-> d[f].items[p] * d[f].cost], S)
<1> DEFINE F == [f \in Documents |-> d[f].items[p] * d[f].cost]
           Sums(g) == g = [s \in SUBSET S |-> IF s = {} THEN 0
                           ELSE d[CHOOSE x \in s : TRUE].items[p] * d[CHOOSE x \in s : TRUE].cost + g[s \ {CHOOSE x \in s : TRUE}]]
           g == CHOOSE g : Sums(g)
<1>1. PaidTotal(d, p, S) = g[S]
  BY DEF PaidTotal, MapThenSumSet, MapThenFoldSet
<1>2. ASSUME NEW k PROVE Sums(k) <=> Adds(F, S, k)
  <2>1. \A s \in SUBSET S : s # {} => F[CHOOSE x \in s : TRUE] = d[CHOOSE x \in s : TRUE].items[p] * d[CHOOSE x \in s : TRUE].cost
    OBVIOUS
  <2> HIDE DEF F
  <2> QED
    BY <2>1 DEF Adds
<1>3. Adds(F, S, g)
  <2> HIDE DEF Sums, F
  <2>1. \E k : Sums(k)
    BY <1>2, SumExists
  <2>2. Sums(g)
    BY <2>1
  <2> QED
    BY <1>2, <2>2
<1> HIDE DEF F, g
<1>4. g[S] = SumOver(F, S)
  BY <1>3, SumIs
<1> QED
  BY <1>1, <1>4 DEF F

LEMMA CostTotalIs ==
    ASSUME NEW d, NEW p, NEW b, NEW S \in SUBSET Documents, IsFiniteSet(S)
    PROVE  CostTotal(d, p, b, S) = SumOver([f \in Documents |-> d[f].items[p] * b[f].snapshot[p]], S)
<1> DEFINE F == [f \in Documents |-> d[f].items[p] * b[f].snapshot[p]]
           Sums(g) == g = [s \in SUBSET S |-> IF s = {} THEN 0
                           ELSE d[CHOOSE x \in s : TRUE].items[p] * b[CHOOSE x \in s : TRUE].snapshot[p] + g[s \ {CHOOSE x \in s : TRUE}]]
           g == CHOOSE g : Sums(g)
<1>1. CostTotal(d, p, b, S) = g[S]
  BY DEF CostTotal, MapThenSumSet, MapThenFoldSet
<1>2. ASSUME NEW k PROVE Sums(k) <=> Adds(F, S, k)
  <2>1. \A s \in SUBSET S : s # {} => F[CHOOSE x \in s : TRUE] = d[CHOOSE x \in s : TRUE].items[p] * b[CHOOSE x \in s : TRUE].snapshot[p]
    OBVIOUS
  <2> HIDE DEF F
  <2> QED
    BY <2>1 DEF Adds
<1>3. Adds(F, S, g)
  <2> HIDE DEF Sums, F
  <2>1. \E k : Sums(k)
    BY <1>2, SumExists
  <2>2. Sums(g)
    BY <2>1
  <2> QED
    BY <1>2, <2>2
<1> HIDE DEF F, g
<1>4. g[S] = SumOver(F, S)
  BY <1>3, SumIs
<1> QED
  BY <1>1, <1>4 DEF F

LEMMA CountTotalIs ==
    ASSUME NEW d, NEW p, NEW S \in SUBSET Documents, IsFiniteSet(S)
    PROVE  CountTotal(d, p, S) = SumOver([f \in Documents |-> d[f].items[p] * 1], S)
<1> DEFINE F == [f \in Documents |-> d[f].items[p] * 1]
           Sums(g) == g = [s \in SUBSET S |-> IF s = {} THEN 0
                           ELSE d[CHOOSE x \in s : TRUE].items[p] * 1 + g[s \ {CHOOSE x \in s : TRUE}]]
           g == CHOOSE g : Sums(g)
<1>1. CountTotal(d, p, S) = g[S]
  BY DEF CountTotal, MapThenSumSet, MapThenFoldSet
<1>2. ASSUME NEW k PROVE Sums(k) <=> Adds(F, S, k)
  <2>1. \A s \in SUBSET S : s # {} => F[CHOOSE x \in s : TRUE] = d[CHOOSE x \in s : TRUE].items[p] * 1
    OBVIOUS
  <2> HIDE DEF F
  <2> QED
    BY <2>1 DEF Adds
<1>3. Adds(F, S, g)
  <2> HIDE DEF Sums, F
  <2>1. \E k : Sums(k)
    BY <1>2, SumExists
  <2>2. Sums(g)
    BY <2>1
  <2> QED
    BY <1>2, <2>2
<1> HIDE DEF F, g
<1>4. g[S] = SumOver(F, S)
  BY <1>3, SumIs
<1> QED
  BY <1>1, <1>4 DEF F

(* Integer division.                                                        *)
LEMMA DivIs ==
    ASSUME NEW a \in Nat, NEW b \in Nat \ {0}
    PROVE  /\ a \div b \in Nat
           /\ b * (a \div b) <= a /\ a < b * (a \div b) + b
           /\ a % b = 0 => a = b * (a \div b)
OBVIOUS

LEMMA MaxIs ==
    ASSUME NEW m \in Nat, NEW D \in SUBSET (0..m), D # {}
    PROVE  Max(D) \in D /\ \A k \in D : Max(D) >= k
<1> DEFINE T == {n \in Nat : m - n \in D}
<1>1. PICK k \in D : TRUE
  OBVIOUS
<1>2. k \in 0..m /\ m - k \in Nat /\ m - (m - k) = k
  OBVIOUS
<1>3. m - k \in T
  BY <1>2
<1>4. PICK n \in T : \A i \in T : ~(<<i, n>> \in OpToRel(<, Nat))
  <2>1. T \subseteq Nat /\ T # {}
    BY <1>3
  <2> HIDE DEF T
  <2> QED
    BY <2>1, NatLessThanWellFounded, WFMin
<1>5. n \in Nat /\ m - n \in D /\ \A i \in T : i \in Nat
  OBVIOUS
<1>6. \A i \in T : ~(i < n)
  <2> HIDE DEF T
  <2> QED
    BY <1>4, <1>5 DEF OpToRel
<1>7. ASSUME NEW j \in D PROVE m - n >= j
  <2>1. j \in 0..m /\ m - j \in Nat /\ m - (m - j) = j
    OBVIOUS
  <2>2. m - j \in T
    BY <2>1
  <2>3. ~(m - j < n)
    BY <2>2, <1>6
  <2> QED
    BY <2>1, <2>3, <1>5
<1> QED
  BY <1>5, <1>7 DEF Max

(* Fractions are reduced: both terms by the same factor.                    *)
LEMMA FractionIs ==
    ASSUME NEW n \in Nat, NEW m \in Nat \ {0}
    PROVE  \E k \in Nat \ {0} : \E a \in Nat : \E b \in Nat \ {0} :
              Fraction(n, m) = <<a, b>> /\ n = k * a /\ m = k * b
<1> DEFINE D == {k \in 1..m : n % k = 0 /\ m % k = 0}
           k == Max(D)
<1>1. 1 \in D
  BY DivIs
<1>2. k \in D
  <2>1. D \in SUBSET (0..m) /\ D # {}
    BY <1>1
  <2> HIDE DEF D
  <2> QED
    BY <2>1, MaxIs
<1>3. Fraction(n, m) = <<n \div k, m \div k>>
  BY DEF Fraction
<1> HIDE DEF k
<1>4. k \in Nat \ {0} /\ n % k = 0 /\ m % k = 0
  BY <1>2
<1>5. n \div k \in Nat /\ m \div k \in Nat /\ n = k * (n \div k) /\ m = k * (m \div k)
  BY <1>4, DivIs
<1>6. m \div k # 0
  BY <1>4, <1>5
<1> QED
  BY <1>3, <1>4, <1>5, <1>6

Money == Nat \X (Nat \ {0})
States == [quantity : Nat, value : Money, average : Money, costs : [Documents -> Nat], short : BOOLEAN]

(* The value is that of the quantity at the average cost.                   *)
Worth(s) == s.value[1] * s.average[2] = s.quantity * s.average[1] * s.value[2]

LEMMA MoneyIs ==
    /\ \A a \in Money : a[1] \in Nat /\ a[2] \in Nat \ {0}
    /\ \A n \in Nat, m \in Nat \ {0} : /\ <<n, m>> \in Money
                                       /\ <<n, m>>[1] = n /\ <<n, m>>[2] = m
BY DEF Money

LEMMA StateIs ==
    /\ \A s \in States : /\ s.quantity \in Nat /\ s.value \in Money /\ s.average \in Money
                         /\ s.costs \in [Documents -> Nat] /\ s.short \in BOOLEAN
    /\ \A q \in Nat, v \in Money, a \in Money, c \in [Documents -> Nat], b \in BOOLEAN :
          [quantity |-> q, value |-> v, average |-> a, costs |-> c, short |-> b] \in States
BY DEF States

LEMMA Spreads ==
    ASSUME NEW n \in Int, NEW q \in Int, NEW a \in Int, NEW b \in Int
    PROVE  (n - q) * a * b = n * a * b - q * a * b
OBVIOUS

LEMMA Cancels ==
    ASSUME NEW k \in Nat \ {0}, NEW a \in Int, NEW b \in Int
    PROVE  /\ k * a = k * b => a = b
           /\ k * a <= k * b => a <= b
OBVIOUS

(* A stored cost is a fraction, in storable parts, rounded half up.         *)
LEMMA StoredIs ==
    ASSUME NEW a \in Money
    PROVE  /\ Stored(a) \in Nat
           /\ 2 * a[2] * Stored(a) <= 2 * a[1] * Grain + a[2]
           /\ 2 * a[1] * Grain + a[2] < 2 * a[2] * Stored(a) + 2 * a[2]
<1>1. a[1] \in Nat /\ a[2] \in Nat \ {0} /\ Grain \in Nat
  BY MoneyIs, StockAssumption
<1> DEFINE n == 2 * a[1] * Grain + a[2]
           m == 2 * a[2]
<1>2. n \in Nat /\ m \in Nat \ {0}
  BY <1>1
<1>3. Stored(a) = n \div m
  BY DEF Stored
<1> HIDE DEF n, m
<1>4. n \div m \in Nat /\ m * (n \div m) <= n /\ n < m * (n \div m) + m
  BY <1>2, DivIs
<1> QED
  BY <1>3, <1>4 DEF n, m

LEMMA StartSound == Start \in States /\ Worth(Start) /\ Start.quantity = 0 /\ Start.short = FALSE
<1>1. <<0, 1>> \in Money /\ <<0, 1>>[1] = 0 /\ <<0, 1>>[2] = 1
  BY MoneyIs
<1>2. [e \in Documents |-> 0] \in [Documents -> Nat] /\ FALSE \in BOOLEAN /\ 0 \in Nat
  OBVIOUS
<1>3. Start \in States
  BY <1>1, <1>2, StateIs DEF Start
<1>4. Start.value = <<0, 1>> /\ Start.average = <<0, 1>> /\ Start.quantity = 0 /\ Start.short = FALSE
  BY DEF Start
<1>5. Worth(Start)
  BY <1>1, <1>4 DEF Worth
<1> QED
  BY <1>3, <1>4, <1>5

(* What reducing a fraction keeps.                                          *)
LEMMA FractionKeeps ==
    ASSUME NEW n \in Nat, NEW m \in Nat \ {0}
    PROVE  /\ Fraction(n, m) \in Money
           /\ Fraction(n, m)[1] * m = n * Fraction(n, m)[2]
<1>1. PICK k \in Nat \ {0}, a \in Nat, b \in Nat \ {0} : Fraction(n, m) = <<a, b>> /\ n = k * a /\ m = k * b
  BY FractionIs
<1>2. <<a, b>> \in Money /\ <<a, b>>[1] = a /\ <<a, b>>[2] = b
  BY MoneyIs
<1>3. a * (k * b) = (k * a) * b
  OBVIOUS
<1> QED
  BY <1>1, <1>2, <1>3

LEMMA PlusIs ==
    ASSUME NEW v \in Money, NEW n \in Nat, NEW w, w = Plus(v, n)
    PROVE  w \in Money /\ w[1] * v[2] = (v[1] + n * v[2]) * w[2]
<1> DEFINE t == v[1] + n * v[2]
           m == v[2]
<1>1. t \in Nat /\ m \in Nat \ {0}
  BY MoneyIs
<1>2. w = Fraction(t, m)
  BY DEF Plus
<1> HIDE DEF t, m
<1>3. Fraction(t, m) \in Money /\ Fraction(t, m)[1] * m = t * Fraction(t, m)[2]
  BY <1>1, FractionKeeps
<1> QED
  BY <1>2, <1>3 DEF t, m

LEMMA PerIs ==
    ASSUME NEW v \in Money, NEW n \in Nat \ {0}, NEW w, w = Per(v, n)
    PROVE  w \in Money /\ v[1] * w[2] = n * w[1] * v[2]
<1> DEFINE t == v[1]
           m == v[2] * n
<1>1. t \in Nat /\ m \in Nat \ {0} /\ v[2] \in Nat
  BY MoneyIs
<1>2. w = Fraction(t, m)
  BY DEF Per
<1> HIDE DEF t, m
<1>3. Fraction(t, m) \in Money /\ Fraction(t, m)[1] * m = t * Fraction(t, m)[2]
  BY <1>1, FractionKeeps
<1>4. w \in Money /\ w[1] \in Nat /\ w[1] * (v[2] * n) = v[1] * w[2]
  BY <1>2, <1>3, MoneyIs DEF t, m
<1>5. \A x, y \in Int : x * (y * n) = n * x * y
  OBVIOUS
<1>6. w[1] * (v[2] * n) = n * w[1] * v[2]
  BY <1>1, <1>4, <1>5
<1> QED
  BY <1>4, <1>6

(* Units at the average cost are taken off the value of the quantity n.     *)
LEMMA MinusIs ==
    ASSUME NEW v \in Money, NEW a \in Money, NEW n \in Nat, NEW k \in Nat, k <= n,
           v[1] * a[2] = n * a[1] * v[2], NEW w, w = Minus(v, a, k)
    PROVE  /\ w \in Money /\ w[1] * a[2] = (n - k) * a[1] * w[2]
           /\ w[1] * (v[2] * a[2]) = (v[1] * a[2] - k * a[1] * v[2]) * w[2]
           /\ n = k => v[1] * a[2] - k * a[1] * v[2] = 0
<1>1. PICK v1 \in Nat, v2 \in Nat \ {0}, a1 \in Nat, a2 \in Nat \ {0} :
         v1 = v[1] /\ v2 = v[2] /\ a1 = a[1] /\ a2 = a[2]
  BY MoneyIs
<1> DEFINE t == v1 * a2 - k * a1 * v2
           m == v2 * a2
<1>2. t = (n - k) * a1 * v2
  <2>1. (n - k) * a1 * v2 = n * a1 * v2 - k * a1 * v2
    BY Spreads
  <2>2. v1 * a2 = n * a1 * v2
    BY <1>1
  <2> QED
    BY <2>1, <2>2
<1>3. (n - k) * a1 * v2 \in Nat /\ m \in Nat \ {0}
  <2>1. n - k \in Nat
    OBVIOUS
  <2>2. \A i, j, l \in Nat : i * j * l \in Nat
    OBVIOUS
  <2> QED
    BY <2>1, <2>2
<1>4. t \in Nat
  BY <1>2, <1>3
<1>5. w = Fraction(t, m)
  BY <1>1 DEF Minus
<1>6. w \in Money /\ w[1] * m = t * w[2]
  <2> HIDE DEF t, m
  <2>1. Fraction(t, m) \in Money /\ Fraction(t, m)[1] * m = t * Fraction(t, m)[2]
    BY <1>3, <1>4, FractionKeeps
  <2> QED
    BY <1>5, <2>1
<1>7. PICK w1 \in Nat, w2 \in Nat \ {0} : w1 = w[1] /\ w2 = w[2]
  BY <1>6, MoneyIs
<1>8. w1 * a2 = (n - k) * a1 * w2
  <2>1. PICK r \in Nat : r = n - k
    OBVIOUS
  <2>2. w1 * (v2 * a2) = (r * a1 * v2) * w2
    BY <1>2, <1>6, <1>7, <2>1
  <2>3. v2 * (w1 * a2) = v2 * (r * a1 * w2)
    BY <2>2
  <2>4. w1 * a2 = r * a1 * w2
    BY <2>3, Cancels
  <2> QED
    BY <2>1, <2>4
<1>9. n = k => t = 0
  BY <1>2
<1> QED
  BY <1>1, <1>6, <1>7, <1>8, <1>9

(* A purchase adds its price to the value.                                  *)
LEMMA EnterBuys ==
    ASSUME NEW s \in States, NEW q \in Nat \ {0}, NEW x \in Entry, x.kind = "purchase",
           NEW e \in Documents, NEW t, t = Enter(s, q, x, e)
    PROVE  /\ t \in States /\ Worth(t)
           /\ t.quantity = s.quantity + q /\ t.costs = s.costs /\ t.short = s.short
           /\ t.value[1] * s.value[2] = (s.value[1] + x.cost * q * s.value[2]) * t.value[2]
<1> DEFINE Q == s.quantity + q
           n == x.cost * q
           value == Plus(s.value, n)
           average == Per(value, Q)
<1>1. /\ s.quantity \in Nat /\ s.value \in Money /\ s.average \in Money
      /\ s.costs \in [Documents -> Nat] /\ s.short \in BOOLEAN
  BY StateIs
<1>2. Q \in Nat \ {0} /\ n \in Nat
  BY <1>1, EntryTypes
<1>3. t = [s EXCEPT !.quantity = Q, !.value = value, !.average = average]
  BY DEF Enter
<1> HIDE DEF n, Q, value, average
<1>4. value \in Money /\ value[1] * s.value[2] = (s.value[1] + n * s.value[2]) * value[2]
  BY <1>1, <1>2, PlusIs DEF value
<1>5. average \in Money /\ value[1] * average[2] = Q * average[1] * value[2]
  BY <1>2, <1>4, PerIs DEF average
<1>6. t = [quantity |-> Q, value |-> value, average |-> average, costs |-> s.costs, short |-> s.short]
  BY <1>3 DEF States
<1>7. t \in States
  BY <1>1, <1>2, <1>4, <1>5, <1>6, StateIs
<1>8. Worth(t)
  BY <1>5, <1>6 DEF Worth
<1>9. t.quantity = Q /\ t.value = value /\ t.costs = s.costs /\ t.short = s.short
  BY <1>6
<1>10. t.value[1] * s.value[2] = (s.value[1] + x.cost * q * s.value[2]) * t.value[2]
  BY <1>4, <1>9 DEF n
<1> QED
  BY <1>7, <1>8, <1>9, <1>10 DEF Q

(* A sale takes the average cost of its units off the value.                *)
LEMMA EnterSells ==
    ASSUME NEW s \in States, Worth(s), NEW q \in Nat \ {0}, NEW x \in Entry, x.kind = "sale",
           NEW e \in Documents, NEW t, t = Enter(s, q, x, e), q <= s.quantity
    PROVE  /\ t \in States /\ Worth(t)
           /\ t.quantity = s.quantity - q /\ t.costs = [s.costs EXCEPT ![e] = Stored(s.average)]
           /\ t.short = s.short /\ (t.quantity > 0 => t.average = s.average)
           /\ t.value[1] * (s.value[2] * s.average[2])
                 = (s.value[1] * s.average[2] - q * s.average[1] * s.value[2]) * t.value[2]
<1> DEFINE Q == s.quantity - q
           value == Minus(s.value, s.average, q)
           costs == [s.costs EXCEPT ![e] = Stored(s.average)]
           left == [quantity |-> Q, value |-> value, average |-> s.average, costs |-> costs, short |-> s.short]
           none == [quantity |-> Q, value |-> <<0, 1>>, average |-> <<0, 1>>, costs |-> costs, short |-> s.short]
<1>1. /\ s.quantity \in Nat /\ s.value \in Money /\ s.average \in Money
      /\ s.costs \in [Documents -> Nat] /\ s.short \in BOOLEAN
  BY StateIs
<1>2. Q \in Nat /\ costs \in [Documents -> Nat]
  BY <1>1, StoredIs
<1>3. s.value[1] * s.average[2] = s.quantity * s.average[1] * s.value[2]
  BY DEF Worth
<1>4. /\ value \in Money /\ value[1] * s.average[2] = Q * s.average[1] * value[2]
      /\ value[1] * (s.value[2] * s.average[2])
            = (s.value[1] * s.average[2] - q * s.average[1] * s.value[2]) * value[2]
      /\ s.quantity = q => s.value[1] * s.average[2] - q * s.average[1] * s.value[2] = 0
  <2> DEFINE v == s.value
             a == s.average
             n == s.quantity
  <2>1. v \in Money /\ a \in Money /\ n \in Nat /\ q <= n /\ v[1] * a[2] = n * a[1] * v[2] /\ value = Minus(v, a, q)
    BY <1>1, <1>3
  <2> HIDE DEF v, a, n, value
  <2>2. /\ value \in Money /\ value[1] * a[2] = (n - q) * a[1] * value[2]
        /\ value[1] * (v[2] * a[2]) = (v[1] * a[2] - q * a[1] * v[2]) * value[2]
        /\ n = q => v[1] * a[2] - q * a[1] * v[2] = 0
    BY <2>1, MinusIs
  <2> QED
    BY <2>2 DEF v, a, n
<1>5. t = IF Q = 0 THEN none ELSE left
  <2> DEFINE taken == [s EXCEPT !.quantity = @ - q, !.costs[e] = Stored(s.average),
                                !.value = Minus(@, s.average, q)]
  <2>1. s = [quantity |-> s.quantity, value |-> s.value, average |-> s.average, costs |-> s.costs, short |-> s.short]
    BY DEF States
  <2>2. left = taken
    <3>1. taken = [s EXCEPT !.quantity = Q, !.costs = costs, !.value = value]
      OBVIOUS
    <3> HIDE DEF Q, value, costs, taken
    <3> QED
      BY <2>1, <3>1
  <2>3. left.quantity = Q
    OBVIOUS
  <2>4. none = [left EXCEPT !.average = <<0, 1>>, !.value = <<0, 1>>]
    <3> DEFINE nothing == <<0, 1>>
    <3> HIDE DEF Q, value, costs
    <3>1. left \in States
      BY <1>1, <1>2, <1>4, StateIs
    <3>2. left.quantity = Q /\ left.costs = costs /\ left.short = s.short
      OBVIOUS
    <3> HIDE DEF left, nothing
    <3>3. ASSUME NEW r, r = [left EXCEPT !.average = nothing, !.value = nothing]
          PROVE  r = [quantity |-> left.quantity, value |-> nothing, average |-> nothing,
                      costs |-> left.costs, short |-> left.short]
      BY <3>1, <3>3 DEF States
    <3> QED
      BY <3>2, <3>3 DEF nothing
  <2>5. ~(q > s.quantity)
    BY <1>1
  <2>6. x.kind # "purchase"
    OBVIOUS
  <2> HIDE DEF left, none, Q
  <2> QED
    BY <2>2, <2>3, <2>4, <2>5, <2>6 DEF Enter
<1> HIDE DEF Q, value, costs
<1>6. CASE Q # 0
  <2>1. t = left
    BY <1>5, <1>6
  <2>2. /\ t.quantity = Q /\ t.value = value /\ t.average = s.average /\ t.costs = costs /\ t.short = s.short
    BY <2>1
  <2>3. t \in States
    BY <2>1, <1>1, <1>2, <1>4, StateIs
  <2>4. Worth(t)
    BY <2>2, <1>4 DEF Worth
  <2> QED
    BY <2>2, <2>3, <2>4, <1>4 DEF Q, costs
<1>7. CASE Q = 0
  <2>1. t = none
    BY <1>5, <1>7
  <2>2. /\ t.quantity = 0 /\ t.value = <<0, 1>> /\ t.average = <<0, 1>> /\ t.costs = costs /\ t.short = s.short
    BY <2>1, <1>7
  <2>3. t \in States
    <3>1. <<0, 1>> \in Money
      BY MoneyIs
    <3> QED
      BY <2>1, <3>1, <1>1, <1>2, StateIs
  <2>4. Worth(t)
    BY <2>2 DEF Worth
  <2>5. s.quantity = q
    BY <1>1, <1>7 DEF Q
  <2>6. t.value[1] = 0 /\ t.value[2] = 1 /\ s.value[2] * s.average[2] \in Int
    BY <2>2, <1>1, MoneyIs
  <2>7. t.value[1] * (s.value[2] * s.average[2])
           = (s.value[1] * s.average[2] - q * s.average[1] * s.value[2]) * t.value[2]
    BY <2>5, <2>6, <1>4
  <2> QED
    BY <2>2, <2>3, <2>4, <2>7, <1>7 DEF Q, costs
<1> QED
  BY <1>6, <1>7

(* A sale of more than there is ends the replay.                            *)
LEMMA EnterFails ==
    ASSUME NEW s \in States, NEW q \in Nat \ {0}, NEW x \in Entry, x.kind = "sale",
           NEW e \in Documents, q > s.quantity
    PROVE  Enter(s, q, x, e) = [s EXCEPT !.short = TRUE]
BY DEF Enter

(* What an entry of p does to the state s of a replay when it is not short. *)
Buys(d, p, s, e, t) ==
    /\ d[e].kind = "purchase" /\ t.quantity = s.quantity + d[e].items[p] /\ t.costs = s.costs
    /\ t.value[1] * s.value[2] = (s.value[1] + d[e].cost * d[e].items[p] * s.value[2]) * t.value[2]

Sells(d, p, s, e, t) ==
    /\ d[e].kind = "sale" /\ d[e].items[p] <= s.quantity /\ t.quantity = s.quantity - d[e].items[p]
    /\ t.costs = [s.costs EXCEPT ![e] = Stored(s.average)]
    /\ t.quantity > 0 => t.average = s.average
    /\ t.value[1] * (s.value[2] * s.average[2])
          = (s.value[1] * s.average[2] - d[e].items[p] * s.average[1] * s.value[2]) * t.value[2]

LEMMA EnteredIs ==
    ASSUME NEW d \in Ledgers, NEW p \in Products, NEW e \in Entries(d, p),
           NEW s \in States, Worth(s), NEW t, t = Entered(d, p, s, e)
    PROVE  /\ t \in States /\ Worth(t)
           /\ ~t.short => ~s.short /\ (Buys(d, p, s, e, t) \/ Sells(d, p, s, e, t))
<1> DEFINE x == d[e]
           q == x.items[p]
<1>1. x \in Entry /\ e \in Documents
  BY EntriesHeld
<1>2. x.kind \in {"purchase", "sale"} /\ q \in Nat \ {0}
  BY <1>1, EntryTypes DEF Entries
<1>3. s.quantity \in Nat /\ s.short \in BOOLEAN
  BY StateIs
<1>4. t = IF s.short THEN s ELSE Enter(s, q, x, e)
  BY DEF Entered
<1> HIDE DEF q, x
<1>9. s.value \in Money /\ s.average \in Money /\ s.costs \in [Documents -> Nat]
  BY StateIs
<1>5. CASE s.short
  BY <1>4, <1>5
<1>6. CASE ~s.short /\ x.kind = "purchase"
  <2>1. t = Enter(s, q, x, e)
    BY <1>4, <1>6
  <2> HIDE <1>4
  <2>2. x.kind = "purchase" /\ q \in Nat \ {0} /\ x \in Entry /\ e \in Documents
    BY <1>1, <1>2, <1>6
  <2>4. t \in States /\ Worth(t)
    BY <2>1, <2>2, EnterBuys
  <2>5. t.quantity = s.quantity + q /\ t.costs = s.costs
    BY <2>1, <2>2, EnterBuys
  <2>6. t.value[1] * s.value[2] = (s.value[1] + x.cost * q * s.value[2]) * t.value[2]
    BY <2>1, <2>2, EnterBuys
  <2>3. Buys(d, p, s, e, t)
    BY <2>2, <2>5, <2>6 DEF Buys, q, x
  <2> QED
    BY <2>3, <2>4, <1>6
<1>7. CASE ~s.short /\ x.kind = "sale" /\ q <= s.quantity
  <2>1. t = Enter(s, q, x, e)
    BY <1>4, <1>7
  <2>2. /\ t \in States /\ Worth(t)
        /\ t.quantity = s.quantity - q /\ t.costs = [s.costs EXCEPT ![e] = Stored(s.average)]
        /\ (t.quantity > 0 => t.average = s.average)
        /\ t.value[1] * (s.value[2] * s.average[2])
             = (s.value[1] * s.average[2] - q * s.average[1] * s.value[2]) * t.value[2]
    BY <2>1, <1>1, <1>2, <1>7, EnterSells
  <2>3. Sells(d, p, s, e, t)
    BY <2>2, <1>7 DEF Sells, q, x
  <2> QED
    BY <2>2, <2>3, <1>7
<1>8. CASE ~s.short /\ x.kind = "sale" /\ q > s.quantity
  <2>1. t = [s EXCEPT !.short = TRUE]
    BY <1>1, <1>2, <1>4, <1>8, EnterFails
  <2>2. t = [quantity |-> s.quantity, value |-> s.value, average |-> s.average, costs |-> s.costs, short |-> TRUE]
    BY <2>1 DEF States
  <2>3. t \in States /\ t.short = TRUE
    BY <2>2, <1>3, <1>9 DEF States
  <2>4. Worth(t)
    BY <2>2 DEF Worth
  <2> QED
    BY <2>3, <2>4
<1> QED
  BY <1>2, <1>3, <1>5, <1>6, <1>7, <1>8

(* Every replay is well typed and keeps its value at quantity times         *)
(* average.                                                                 *)
LEMMA ReplayStates ==
    ASSUME NEW d \in Ledgers, NEW p \in Products, IsFiniteSet(Entries(d, p)),
           NEW g, Replays(d, p, g)
    PROVE  \A S \in SUBSET Entries(d, p) : g[S] \in States /\ Worth(g[S])
<1> DEFINE T == {S \in SUBSET Entries(d, p) : ~(g[S] \in States /\ Worth(g[S]))}
<1>1. T = {}
  <2> SUFFICES ASSUME T # {} PROVE FALSE
    OBVIOUS
  <2>1. T \in SUBSET (SUBSET Entries(d, p))
    OBVIOUS
  <2>2. PICK S \in T : Extends(d, p, g, T, S)
    <3> HIDE DEF T
    <3> QED
      BY <2>1, LeastReplay
  <2>3. S \in SUBSET Entries(d, p) /\ ~(g[S] \in States /\ Worth(g[S]))
    OBVIOUS
  <2>4. PICK e \in S : S \ {e} \notin T /\ g[S] = Entered(d, p, g[S \ {e}], e)
    <3> HIDE DEF T
    <3> QED
      BY <2>2, <2>3, StartSound DEF Extends
  <2>5. g[S \ {e}] \in States /\ Worth(g[S \ {e}])
    BY <2>3, <2>4
  <2> QED
    BY <2>3, <2>4, <2>5, EnteredIs
<1> QED
  BY <1>1

Continues(d, p, g, T, S) ==
    \/ S = {} /\ g[S] = Start
    \/ \E e \in S : /\ \A f \in S \ {e} : Earlier(d, f, e)
                    /\ S \ {e} \notin T
                    /\ ~g[S].short => /\ ~g[S \ {e}].short
                                      /\ \/ Buys(d, p, g[S \ {e}], e, g[S])
                                         \/ Sells(d, p, g[S \ {e}], e, g[S])

(* What holds of every replay that is not short holds of none, and is kept   *)
(* by each entry, the entries taken in order.                               *)
LEMMA LeastLedger ==
    ASSUME NEW d \in Ledgers, NEW p \in Products, IsFiniteSet(Entries(d, p)),
           NEW g, Replays(d, p, g), NEW T \in SUBSET (SUBSET Entries(d, p)), T # {}
    PROVE  \E S \in T : Continues(d, p, g, T, S)
<1>1. PICK S \in T : Extends(d, p, g, T, S)
  BY LeastReplay
<1>2. S \in SUBSET Entries(d, p)
  OBVIOUS
<1>3. ASSUME NEW e \in S, g[S] = Entered(d, p, g[S \ {e}], e)
      PROVE  ~g[S].short => /\ ~g[S \ {e}].short
                            /\ \/ Buys(d, p, g[S \ {e}], e, g[S])
                               \/ Sells(d, p, g[S \ {e}], e, g[S])
  <2>1. g[S \ {e}] \in States /\ Worth(g[S \ {e}]) /\ e \in Entries(d, p)
    BY <1>2, ReplayStates
  <2> QED
    BY <2>1, <1>3, EnteredIs
<1> QED
  BY <1>1, <1>3 DEF Extends, Continues

-----------------------------------------------------------------------------
(* No more sold than bought, at any entry.                                  *)
Of(d, kind, S) == {f \in S : d[f].kind = kind}

LEMMA KindSum ==
    ASSUME NEW d, NEW S, IsFiniteSet(S), NEW F, \A x \in S : F[x] \in Int,
           NEW e \in S, NEW kind
    PROVE  /\ SumOver(F, Of(d, kind, S)) \in Int /\ SumOver(F, Of(d, kind, S \ {e})) \in Int
           /\ d[e].kind = kind => SumOver(F, Of(d, kind, S)) = F[e] + SumOver(F, Of(d, kind, S \ {e}))
           /\ d[e].kind # kind => SumOver(F, Of(d, kind, S)) = SumOver(F, Of(d, kind, S \ {e}))
<1>1. Of(d, kind, S) \subseteq S /\ Of(d, kind, S \ {e}) \subseteq S
  BY DEF Of
<1>2. IsFiniteSet(Of(d, kind, S)) /\ IsFiniteSet(Of(d, kind, S \ {e}))
  BY <1>1, FS_Subset
<1>3. SumOver(F, Of(d, kind, S)) \in Int /\ SumOver(F, Of(d, kind, S \ {e})) \in Int
  BY <1>1, <1>2, SumOverTakes
<1>4. ASSUME d[e].kind = kind
      PROVE  SumOver(F, Of(d, kind, S)) = F[e] + SumOver(F, Of(d, kind, S \ {e}))
  <2>1. e \in Of(d, kind, S) /\ Of(d, kind, S \ {e}) = Of(d, kind, S) \ {e}
    BY <1>4 DEF Of
  <2>2. \A x \in Of(d, kind, S) : F[x] \in Int
    BY <1>1
  <2>3. SumOver(F, Of(d, kind, S)) = F[e] + SumOver(F, Of(d, kind, S) \ {e})
    BY <2>1, <2>2, <1>2, SumOverTakes
  <2> QED
    BY <2>1, <2>3
<1>5. ASSUME d[e].kind # kind
      PROVE  Of(d, kind, S) = Of(d, kind, S \ {e})
  BY <1>5 DEF Of
<1> QED
  BY <1>3, <1>4, <1>5

Through(d, S, e) == {f \in S : f = e \/ Earlier(d, f, e)}

(* A replay that is not short sells no more than was bought, at any of its  *)
(* entries.                                                                 *)
LEMMA LedgerCovers ==
    ASSUME NEW d \in Ledgers, NEW p \in Products, IsFiniteSet(Entries(d, p)),
           NEW g, Replays(d, p, g), NEW S \in SUBSET Entries(d, p), ~g[S].short
    PROVE  /\ SumOver(UnitsIn(d, p), Of(d, "sale", S)) + g[S].quantity = SumOver(UnitsIn(d, p), Of(d, "purchase", S))
           /\ \A e \in S : SumOver(UnitsIn(d, p), Of(d, "sale", Through(d, S, e)))
                              <= SumOver(UnitsIn(d, p), Of(d, "purchase", Through(d, S, e)))
<1> DEFINE Sum(kind, s) == SumOver(UnitsIn(d, p), Of(d, kind, s))
           Covers(s) == /\ Sum("sale", s) + g[s].quantity = Sum("purchase", s)
                        /\ \A e \in s : Sum("sale", Through(d, s, e)) <= Sum("purchase", Through(d, s, e))
           T == {s \in SUBSET Entries(d, p) : ~g[s].short /\ ~Covers(s)}
<1>1. T = {}
  <2> SUFFICES ASSUME T # {} PROVE FALSE
    OBVIOUS
  <2>1. T \in SUBSET (SUBSET Entries(d, p))
    OBVIOUS
  <2>2. PICK s \in T : Continues(d, p, g, T, s)
    <3> HIDE DEF T
    <3> QED
      BY <2>1, LeastLedger
  <2>3. s \in SUBSET Entries(d, p) /\ ~g[s].short /\ ~Covers(s)
    OBVIOUS
  <2>4. IsFiniteSet(s) /\ s \subseteq Holding(d) /\ s \subseteq Documents
    BY <2>3, FS_Subset, EntriesHeld
  <2>5. \A x \in s : UnitsIn(d, p)[x] \in Int
    BY <2>3, EntriesHeld, EntryTypes DEF UnitsIn
  <2>6. CASE s = {}
    <3>1. Of(d, "sale", {}) = {} /\ Of(d, "purchase", {}) = {}
      BY DEF Of
    <3>2. Sum("sale", {}) = 0 /\ Sum("purchase", {}) = 0
      BY <3>1, FS_EmptySet, SumOverTakes
    <3>3. g[s] = Start
      <4> HIDE DEF T
      <4> QED
        BY <2>2, <2>6 DEF Continues
    <3> QED
      BY <2>3, <2>6, <3>2, <3>3, StartSound
  <2>7. CASE s # {}
    <3>1. PICK e \in s : /\ \A f \in s \ {e} : Earlier(d, f, e)
                         /\ s \ {e} \notin T
                         /\ ~g[s \ {e}].short
                         /\ \/ Buys(d, p, g[s \ {e}], e, g[s])
                            \/ Sells(d, p, g[s \ {e}], e, g[s])
      <4> HIDE DEF T
      <4> QED
        BY <2>2, <2>3, <2>7 DEF Continues
    <3> DEFINE u == s \ {e}
    <3>2. Covers(u)
      BY <2>3, <3>1
    <3>3. g[u].quantity \in Nat /\ g[s].quantity \in Nat
      BY <2>3, ReplayStates, StateIs
    <3>4. UnitsIn(d, p)[e] = d[e].items[p] /\ d[e].items[p] \in Nat
      BY <2>3, <2>4, <2>5, EntriesHeld, EntryTypes DEF UnitsIn
    <3>5. /\ Sum("sale", s) \in Int /\ Sum("sale", u) \in Int
          /\ Sum("purchase", s) \in Int /\ Sum("purchase", u) \in Int
          /\ d[e].kind = "sale" => /\ Sum("sale", s) = d[e].items[p] + Sum("sale", u)
                                   /\ Sum("purchase", s) = Sum("purchase", u)
          /\ d[e].kind = "purchase" => /\ Sum("purchase", s) = d[e].items[p] + Sum("purchase", u)
                                       /\ Sum("sale", s) = Sum("sale", u)
      BY <2>4, <2>5, <3>4, KindSum
    <3>6. Sum("sale", u) + g[u].quantity = Sum("purchase", u)
      BY <3>2
    <3> HIDE DEF Sum, u
    <3>7. Sum("sale", s) + g[s].quantity = Sum("purchase", s)
      <4>1. CASE Buys(d, p, g[u], e, g[s])
        <5>1. d[e].kind = "purchase" /\ g[s].quantity = g[u].quantity + d[e].items[p]
          BY <4>1 DEF Buys
        <5> QED
          BY <5>1, <3>3, <3>4, <3>5, <3>6
      <4>2. CASE Sells(d, p, g[u], e, g[s])
        <5>1. d[e].kind = "sale" /\ g[s].quantity = g[u].quantity - d[e].items[p]
          BY <4>2 DEF Sells
        <5> QED
          BY <5>1, <3>3, <3>4, <3>5, <3>6
      <4> QED
        BY <3>1, <4>1, <4>2 DEF u
    <3>8. ASSUME NEW f \in s
          PROVE  Sum("sale", Through(d, s, f)) <= Sum("purchase", Through(d, s, f))
      <4>1. CASE f = e
        <5>1. Through(d, s, e) = s
          BY <3>1 DEF Through
        <5> QED
          BY <5>1, <4>1, <3>3, <3>5, <3>7
      <4>2. CASE f # e
        <5>1. Earlier(d, f, e) /\ f \in u
          BY <3>1, <4>2 DEF u
        <5>2. ~Earlier(d, e, f)
          BY <5>1, <2>4, EarlierOrders
        <5>3. Through(d, s, f) = Through(d, u, f)
          BY <5>2, <4>2 DEF Through, u
        <5>4. Sum("sale", Through(d, u, f)) <= Sum("purchase", Through(d, u, f))
          BY <5>1, <3>2
        <5> QED
          BY <5>3, <5>4
      <4> QED
        BY <4>1, <4>2
    <3> QED
      BY <2>3, <3>7, <3>8
  <2> QED
    BY <2>6, <2>7
<1> QED
  BY <1>1

LEMMA TimesMonotone ==
    ASSUME NEW k \in Nat, NEW a \in Int, NEW b \in Int, a <= b
    PROVE  k * a <= k * b
OBVIOUS

(* The average b after q units at the cost c, where it was a for n units:    *)
(* the value goes from v to w.                                              *)
LEMMA AverageMoves ==
    ASSUME NEW v1 \in Nat, NEW v2 \in Nat \ {0}, NEW w1 \in Nat, NEW w2 \in Nat \ {0},
           NEW a1 \in Nat, NEW a2 \in Nat \ {0}, NEW b1 \in Nat, NEW b2 \in Nat \ {0},
           NEW n \in Nat, NEW q \in Nat \ {0}, NEW c \in Nat,
           v1 * a2 = n * a1 * v2, w1 * b2 = (n + q) * b1 * w2, w1 * v2 = (v1 + c * q * v2) * w2
    PROVE  ((n + q) * a2) * b1 = b2 * (n * a1 + c * q * a2)
<1>1. PICK m \in Nat : m = n + q
  OBVIOUS
<1>2. PICK r \in Nat : r = c * q
  OBVIOUS
<1>3. PICK k \in Nat \ {0} : k = w2 * v2
  OBVIOUS
<1>4. k * ((m * a2) * b1) = (m * b1 * w2) * (v2 * a2)
  BY <1>3
<1>5. (m * b1 * w2) * (v2 * a2) = (w1 * v2) * (b2 * a2)
  <2>1. m * b1 * w2 = w1 * b2
    BY <1>1
  <2> QED
    BY <2>1
<1>6. (w1 * v2) * (b2 * a2) = ((v1 + r * v2) * w2) * (b2 * a2)
  <2>1. w1 * v2 = (v1 + r * v2) * w2
    BY <1>2
  <2> QED
    BY <2>1
<1>7. ((v1 + r * v2) * w2) * (b2 * a2) = (w2 * b2) * (v1 * a2 + r * v2 * a2)
  OBVIOUS
<1>8. (w2 * b2) * (v1 * a2 + r * v2 * a2) = (w2 * b2) * (n * a1 * v2 + r * v2 * a2)
  OBVIOUS
<1>9. (w2 * b2) * (n * a1 * v2 + r * v2 * a2) = k * (b2 * (n * a1 + r * a2))
  BY <1>3
<1>10. k * ((m * a2) * b1) = k * (b2 * (n * a1 + r * a2))
  BY <1>4, <1>5, <1>6, <1>7, <1>8, <1>9
<1>11. (m * a2) * b1 = b2 * (n * a1 + r * a2)
  BY <1>10, Cancels
<1> QED
  BY <1>1, <1>2, <1>11

(* An average of two prices is no more than the greater and no less than    *)
(* the smaller.                                                             *)
LEMMA AverageBelow ==
    ASSUME NEW a1 \in Nat, NEW a2 \in Nat \ {0}, NEW b1 \in Nat, NEW b2 \in Nat \ {0},
           NEW n \in Nat, NEW q \in Nat \ {0}, NEW c \in Nat, NEW top \in Nat,
           ((n + q) * a2) * b1 = b2 * (n * a1 + c * q * a2),
           c <= top, n = 0 \/ a1 <= top * a2
    PROVE  b1 <= top * b2
<1>1. n * a1 <= n * (top * a2)
  BY TimesMonotone
<1>2. c * q * a2 <= top * q * a2
  <2>1. (q * a2) * c <= (q * a2) * top
    BY TimesMonotone
  <2> QED
    BY <2>1
<1>3. n * (top * a2) + top * q * a2 = ((n + q) * a2) * top
  OBVIOUS
<1>4. n * a1 + c * q * a2 <= ((n + q) * a2) * top
  BY <1>1, <1>2, <1>3
<1>5. b2 * (n * a1 + c * q * a2) <= b2 * (((n + q) * a2) * top)
  BY <1>4, TimesMonotone
<1>6. b2 * (((n + q) * a2) * top) = ((n + q) * a2) * (top * b2)
  OBVIOUS
<1>7. ((n + q) * a2) * b1 <= ((n + q) * a2) * (top * b2)
  BY <1>5, <1>6
<1>8. (n + q) * a2 \in Nat \ {0}
  OBVIOUS
<1> QED
  BY <1>7, <1>8, Cancels

LEMMA AverageAbove ==
    ASSUME NEW a1 \in Nat, NEW a2 \in Nat \ {0}, NEW b1 \in Nat, NEW b2 \in Nat \ {0},
           NEW n \in Nat, NEW q \in Nat \ {0}, NEW c \in Nat, NEW low \in Nat,
           ((n + q) * a2) * b1 = b2 * (n * a1 + c * q * a2),
           low <= c, n = 0 \/ low * a2 <= a1
    PROVE  low * b2 <= b1
<1>1. n * (low * a2) <= n * a1
  BY TimesMonotone
<1>2. low * q * a2 <= c * q * a2
  <2>1. (q * a2) * low <= (q * a2) * c
    BY TimesMonotone
  <2> QED
    BY <2>1
<1>3. n * (low * a2) + low * q * a2 = ((n + q) * a2) * low
  OBVIOUS
<1>4. ((n + q) * a2) * low <= n * a1 + c * q * a2
  BY <1>1, <1>2, <1>3
<1>5. b2 * (((n + q) * a2) * low) <= b2 * (n * a1 + c * q * a2)
  BY <1>4, TimesMonotone
<1>6. b2 * (((n + q) * a2) * low) = ((n + q) * a2) * (low * b2)
  OBVIOUS
<1>7. ((n + q) * a2) * (low * b2) <= ((n + q) * a2) * b1
  BY <1>5, <1>6
<1>8. (n + q) * a2 \in Nat \ {0}
  OBVIOUS
<1> QED
  BY <1>7, <1>8, Cancels

(* Rounding stays between prices.                                           *)
LEMMA StoredBelow ==
    ASSUME NEW a \in Money, NEW top \in Nat, a[1] <= top * a[2]
    PROVE  Stored(a) <= Grain * top
<1>1. PICK a1 \in Nat, a2 \in Nat \ {0}, x \in Nat, m \in Nat : a1 = a[1] /\ a2 = a[2] /\ x = Stored(a) /\ m = Grain
  BY MoneyIs, StoredIs, StockAssumption
<1>2. 2 * a2 * x <= 2 * a1 * m + a2
  BY <1>1, StoredIs
<1>3. m * a1 <= m * (top * a2)
  BY <1>1, TimesMonotone
<1>4. (2 * a2) * x <= (2 * a2) * (m * top) + a2
  BY <1>2, <1>3
<1>5. ASSUME x >= m * top + 1 PROVE FALSE
  <2>1. (2 * a2) * (m * top + 1) <= (2 * a2) * x
    BY <1>5, TimesMonotone
  <2>2. (2 * a2) * (m * top + 1) = (2 * a2) * (m * top) + 2 * a2
    OBVIOUS
  <2> QED
    BY <2>1, <2>2, <1>4
<1> QED
  BY <1>1, <1>5

LEMMA StoredAbove ==
    ASSUME NEW a \in Money, NEW low \in Nat, low * a[2] <= a[1]
    PROVE  Grain * low <= Stored(a)
<1>1. PICK a1 \in Nat, a2 \in Nat \ {0}, x \in Nat, m \in Nat : a1 = a[1] /\ a2 = a[2] /\ x = Stored(a) /\ m = Grain
  BY MoneyIs, StoredIs, StockAssumption
<1>2. 2 * a1 * m + a2 < 2 * a2 * x + 2 * a2
  BY <1>1, StoredIs
<1>3. m * (low * a2) <= m * a1
  BY <1>1, TimesMonotone
<1>4. (2 * a2) * (m * low) + a2 < (2 * a2) * x + 2 * a2
  BY <1>2, <1>3
<1>5. ASSUME x + 1 <= m * low PROVE FALSE
  <2>1. (2 * a2) * (x + 1) <= (2 * a2) * (m * low)
    BY <1>5, TimesMonotone
  <2>2. (2 * a2) * (x + 1) = (2 * a2) * x + 2 * a2
    OBVIOUS
  <2> QED
    BY <2>1, <2>2, <1>4
<1> QED
  BY <1>1, <1>5

(* The gap between what was paid, less what was sold at cost, and the value *)
(* in stock: x is the former in storable parts, u the units sold.           *)
Within(x, u, v) ==
    LET gap == 2 * (x * v[2] - Grain * v[1]) IN -u * v[2] <= gap /\ gap <= u * v[2]

(* A purchase keeps the gap; a sale opens it by at most half a storable     *)
(* part for each unit.                                                      *)
LEMMA BoughtWithin ==
    ASSUME NEW v \in Money, NEW w \in Money, NEW x \in Int, NEW u \in Nat, NEW n \in Nat,
           w[1] * v[2] = (v[1] + n * v[2]) * w[2], Within(x, u, v)
    PROVE  Within(x + Grain * n, u, w)
<1>1. PICK v1 \in Nat, v2 \in Nat \ {0}, w1 \in Nat, w2 \in Nat \ {0}, m \in Nat :
         v1 = v[1] /\ v2 = v[2] /\ w1 = w[1] /\ w2 = w[2] /\ m = Grain
  BY MoneyIs, StockAssumption
<1>2. w1 * v2 = (v1 + n * v2) * w2
  BY <1>1
<1>3. -u * v2 <= 2 * (x * v2 - m * v1) /\ 2 * (x * v2 - m * v1) <= u * v2
  BY <1>1 DEF Within
<1> DEFINE old == 2 * (x * v2 - m * v1)
           new == 2 * ((x + m * n) * w2 - m * w1)
<1>4. v2 * new = w2 * old
  <2>1. v2 * new = 2 * ((x + m * n) * w2 * v2 - m * (w1 * v2))
    OBVIOUS
  <2>2. m * (w1 * v2) = m * ((v1 + n * v2) * w2)
    BY <1>2
  <2>3. 2 * ((x + m * n) * w2 * v2 - m * ((v1 + n * v2) * w2)) = w2 * old
    OBVIOUS
  <2> QED
    BY <2>1, <2>2, <2>3
<1>5. w2 * old <= w2 * (u * v2) /\ w2 * (-u * v2) <= w2 * old
  BY <1>3, TimesMonotone
<1>6. w2 * (u * v2) = v2 * (u * w2) /\ w2 * (-u * v2) = v2 * (-u * w2)
  OBVIOUS
<1>7. old \in Int /\ new \in Int
  OBVIOUS
<1> HIDE DEF old, new
<1>8. v2 * new <= v2 * (u * w2) /\ v2 * (-u * w2) <= v2 * new
  BY <1>4, <1>5, <1>6
<1>9. u * w2 \in Int /\ -u * w2 \in Int
  OBVIOUS
<1>10. new <= u * w2 /\ -u * w2 <= new
  BY <1>7, <1>8, <1>9, Cancels
<1> QED
  BY <1>1, <1>10 DEF Within, new

LEMMA SoldWithin ==
    ASSUME NEW v \in Money, NEW a \in Money, NEW w \in Money, NEW x \in Int, NEW u \in Nat, NEW q \in Nat,
           w[1] * (v[2] * a[2]) = (v[1] * a[2] - q * a[1] * v[2]) * w[2], Within(x, u, v)
    PROVE  Within(x - q * Stored(a), u + q, w)
<1>1. PICK v1 \in Nat, v2 \in Nat \ {0}, w1 \in Nat, w2 \in Nat \ {0}, m \in Nat :
         v1 = v[1] /\ v2 = v[2] /\ w1 = w[1] /\ w2 = w[2] /\ m = Grain
  BY MoneyIs, StockAssumption
<1>15. PICK a1 \in Nat, a2 \in Nat \ {0}, y \in Nat : a1 = a[1] /\ a2 = a[2] /\ y = Stored(a)
  BY MoneyIs, StoredIs
<1>2. w1 * (v2 * a2) = (v1 * a2 - q * a1 * v2) * w2
  BY <1>1, <1>15
<1>3. -u * v2 <= 2 * (x * v2 - m * v1) /\ 2 * (x * v2 - m * v1) <= u * v2
  BY <1>1 DEF Within
<1> DEFINE old == 2 * (x * v2 - m * v1)
           off == 2 * (m * a1 - y * a2)
           new == 2 * ((x - q * y) * w2 - m * w1)
<1>4. -a2 <= off /\ off <= a2
  <2>1. 2 * a2 * y <= 2 * a1 * m + a2 /\ 2 * a1 * m + a2 < 2 * a2 * y + 2 * a2
    BY <1>1, <1>15, StoredIs
  <2> QED
    BY <2>1
<1>5. (v2 * a2) * new = w2 * (a2 * old + (q * v2) * off)
  <2>1. (v2 * a2) * new = 2 * ((x - q * y) * w2 * (v2 * a2) - m * (w1 * (v2 * a2)))
    OBVIOUS
  <2>2. m * (w1 * (v2 * a2)) = m * ((v1 * a2 - q * a1 * v2) * w2)
    BY <1>2
  <2>3. 2 * ((x - q * y) * w2 * (v2 * a2) - m * ((v1 * a2 - q * a1 * v2) * w2))
          = w2 * (a2 * old + (q * v2) * off)
    OBVIOUS
  <2> QED
    BY <2>1, <2>2, <2>3
<1>6. old \in Int /\ new \in Int /\ off \in Int
  OBVIOUS
<1>7. a2 * old <= a2 * (u * v2) /\ a2 * (-u * v2) <= a2 * old
  BY <1>3, TimesMonotone
<1> HIDE DEF old, new, off
<1>8. (q * v2) * off <= (q * v2) * a2 /\ (q * v2) * (-a2) <= (q * v2) * off
  <2>1. q * v2 \in Nat
    OBVIOUS
  <2> QED
    BY <2>1, <1>4, <1>6, TimesMonotone
<1>9. /\ a2 * old + (q * v2) * off <= (v2 * a2) * (u + q)
      /\ (v2 * a2) * (-(u + q)) <= a2 * old + (q * v2) * off
  <2>1. a2 * (u * v2) + (q * v2) * a2 = (v2 * a2) * (u + q)
    OBVIOUS
  <2>2. a2 * (-u * v2) + (q * v2) * (-a2) = (v2 * a2) * (-(u + q))
    OBVIOUS
  <2>3. a2 * old \in Int /\ (q * v2) * off \in Int
    BY <1>6
  <2> QED
    BY <1>7, <1>8, <2>1, <2>2, <2>3
<1>10. /\ w2 * (a2 * old + (q * v2) * off) <= w2 * ((v2 * a2) * (u + q))
       /\ w2 * ((v2 * a2) * (-(u + q))) <= w2 * (a2 * old + (q * v2) * off)
  <2>1. a2 * old + (q * v2) * off \in Int /\ (v2 * a2) * (u + q) \in Int /\ (v2 * a2) * (-(u + q)) \in Int
    BY <1>6
  <2> QED
    BY <2>1, <1>9, TimesMonotone
<1>11. /\ w2 * ((v2 * a2) * (u + q)) = (v2 * a2) * ((u + q) * w2)
       /\ w2 * ((v2 * a2) * (-(u + q))) = (v2 * a2) * (-(u + q) * w2)
  OBVIOUS
<1>12. (v2 * a2) * new <= (v2 * a2) * ((u + q) * w2) /\ (v2 * a2) * (-(u + q) * w2) <= (v2 * a2) * new
  BY <1>5, <1>10, <1>11
<1>13. v2 * a2 \in Nat \ {0} /\ (u + q) * w2 \in Int /\ -(u + q) * w2 \in Int
  OBVIOUS
<1>14. new <= (u + q) * w2 /\ -(u + q) * w2 <= new
  BY <1>6, <1>12, <1>13, Cancels
<1> QED
  BY <1>1, <1>15, <1>14 DEF Within, new

(* The average a lies between two prices paid in S, and so does the cost c   *)
(* of the sale e.                                                           *)
Ranged(d, S, a) ==
    \E f, h \in S : /\ d[f].kind = "purchase" /\ a[1] <= d[f].cost * a[2]
                    /\ d[h].kind = "purchase" /\ d[h].cost * a[2] <= a[1]

Priced(d, S, c, e) ==
    \E f, h \in S : /\ d[f].kind = "purchase" /\ Earlier(d, f, e) /\ c <= Grain * d[f].cost
                    /\ d[h].kind = "purchase" /\ Earlier(d, h, e) /\ c >= Grain * d[h].cost

(* A purchase moves the average towards its own price.                      *)
LEMMA BuysRanged ==
    ASSUME NEW d \in Ledgers, NEW p \in Products, NEW S \in SUBSET Entries(d, p), NEW e \in S,
           NEW s \in States, NEW t \in States, Worth(s), Worth(t), Buys(d, p, s, e, t),
           s.quantity > 0 => Ranged(d, S \ {e}, s.average)
    PROVE  Ranged(d, S, t.average)
<1>1. PICK v1 \in Nat, v2 \in Nat \ {0}, w1 \in Nat, w2 \in Nat \ {0} :
         v1 = s.value[1] /\ v2 = s.value[2] /\ w1 = t.value[1] /\ w2 = t.value[2]
  BY StateIs, MoneyIs
<1>2. PICK a1 \in Nat, a2 \in Nat \ {0}, b1 \in Nat, b2 \in Nat \ {0} :
         a1 = s.average[1] /\ a2 = s.average[2] /\ b1 = t.average[1] /\ b2 = t.average[2]
  BY StateIs, MoneyIs
<1>3. PICK n \in Nat, q \in Nat \ {0}, c \in Nat : n = s.quantity /\ q = d[e].items[p] /\ c = d[e].cost
  BY StateIs, EntriesHeld, EntryTypes DEF Entries
<1>4. \A f \in S : d[f].cost \in Nat
  BY EntriesHeld, EntryTypes
<1>5. d[e].kind = "purchase" /\ t.quantity = n + q /\ w1 * v2 = (v1 + c * q * v2) * w2
  BY <1>1, <1>3 DEF Buys
<1>6. v1 * a2 = n * a1 * v2 /\ w1 * b2 = (n + q) * b1 * w2
  BY <1>1, <1>2, <1>3, <1>5 DEF Worth
<1>7. ((n + q) * a2) * b1 = b2 * (n * a1 + c * q * a2)
  BY <1>5, <1>6, AverageMoves
<1>8. \E f \in S : d[f].kind = "purchase" /\ b1 <= d[f].cost * b2
  <2>1. CASE n = 0
    <3>1. b1 <= c * b2
      BY <1>7, <2>1, AverageBelow
    <3> QED
      BY <3>1, <1>3, <1>5
  <2>2. CASE n > 0
    <3>1. PICK f \in S : d[f].kind = "purchase" /\ a1 <= d[f].cost * a2
      BY <2>2, <1>2, <1>3 DEF Ranged
    <3>2. PICK k \in Nat : k = d[f].cost
      BY <1>4
    <3>3. CASE c <= k
      <4>1. b1 <= k * b2
        BY <3>1, <3>2, <3>3, <1>7, AverageBelow
      <4> QED
        BY <3>1, <3>2, <4>1
    <3>4. CASE k < c
      <4>1. k * a2 <= c * a2
        BY <3>4, TimesMonotone
      <4>2. a1 <= c * a2
        BY <3>1, <3>2, <4>1
      <4>3. b1 <= c * b2
        BY <4>2, <1>7, AverageBelow
      <4> QED
        BY <4>3, <1>3, <1>5
    <3> QED
      BY <3>3, <3>4
  <2> QED
    BY <2>1, <2>2
<1>9. \E h \in S : d[h].kind = "purchase" /\ d[h].cost * b2 <= b1
  <2>1. CASE n = 0
    <3>1. c * b2 <= b1
      BY <1>7, <2>1, AverageAbove
    <3> QED
      BY <3>1, <1>3, <1>5
  <2>2. CASE n > 0
    <3>1. PICK h \in S : d[h].kind = "purchase" /\ d[h].cost * a2 <= a1
      BY <2>2, <1>2, <1>3 DEF Ranged
    <3>2. PICK k \in Nat : k = d[h].cost
      BY <1>4
    <3>3. CASE k <= c
      <4>1. k * b2 <= b1
        BY <3>1, <3>2, <3>3, <1>7, AverageAbove
      <4> QED
        BY <3>1, <3>2, <4>1
    <3>4. CASE c < k
      <4>1. c * a2 <= k * a2
        BY <3>4, TimesMonotone
      <4>2. c * a2 <= a1
        BY <3>1, <3>2, <4>1
      <4>3. c * b2 <= b1
        BY <4>2, <1>7, AverageAbove
      <4> QED
        BY <4>3, <1>3, <1>5
    <3> QED
      BY <3>3, <3>4
  <2> QED
    BY <2>1, <2>2
<1> QED
  BY <1>2, <1>8, <1>9 DEF Ranged

LEMMA SellsPriced ==
    ASSUME NEW d \in Ledgers, NEW p \in Products, NEW S \in SUBSET Entries(d, p), NEW e \in S,
           NEW s \in States, Ranged(d, S \ {e}, s.average), \A f \in S \ {e} : Earlier(d, f, e)
    PROVE  Priced(d, S, Stored(s.average), e)
<1>1. PICK f \in S \ {e}, h \in S \ {e} :
         /\ d[f].kind = "purchase" /\ s.average[1] <= d[f].cost * s.average[2]
         /\ d[h].kind = "purchase" /\ d[h].cost * s.average[2] <= s.average[1]
  BY DEF Ranged
<1>2. d[f].cost \in Nat /\ d[h].cost \in Nat /\ s.average \in Money
  BY StateIs, EntriesHeld, EntryTypes
<1>3. Stored(s.average) <= Grain * d[f].cost
  BY <1>1, <1>2, StoredBelow
<1>4. Grain * d[h].cost <= Stored(s.average)
  BY <1>1, <1>2, StoredAbove
<1>5. Stored(s.average) \in Nat /\ Grain \in Nat
  BY <1>2, StoredIs, StockAssumption
<1>6. Stored(s.average) >= Grain * d[h].cost
  BY <1>2, <1>4, <1>5
<1> QED
  BY <1>1, <1>3, <1>6 DEF Priced

(* In a replay that is not short every sale is at a cost between two prices *)
(* paid before it.                                                          *)
LEMMA LedgerPriced ==
    ASSUME NEW d \in Ledgers, NEW p \in Products, IsFiniteSet(Entries(d, p)),
           NEW g, Replays(d, p, g), NEW S \in SUBSET Entries(d, p), ~g[S].short
    PROVE  \A e \in S : d[e].kind = "sale" => Priced(d, S, g[S].costs[e], e)
<1> DEFINE Good(s) == /\ g[s].quantity > 0 => Ranged(d, s, g[s].average)
                      /\ \A e \in s : d[e].kind = "sale" => Priced(d, s, g[s].costs[e], e)
           T == {s \in SUBSET Entries(d, p) : ~g[s].short /\ ~Good(s)}
<1>1. T = {}
  <2> SUFFICES ASSUME T # {} PROVE FALSE
    OBVIOUS
  <2>1. T \in SUBSET (SUBSET Entries(d, p))
    OBVIOUS
  <2>2. PICK s \in T : Continues(d, p, g, T, s)
    <3> HIDE DEF T
    <3> QED
      BY <2>1, LeastLedger
  <2>3. s \in SUBSET Entries(d, p) /\ ~g[s].short /\ ~Good(s)
    OBVIOUS
  <2>4. CASE s = {} /\ g[s] = Start
    <3>1. ~(g[s].quantity > 0)
      BY <2>4, StartSound
    <3> QED
      BY <3>1, <2>3, <2>4
  <2>5. CASE ~(s = {} /\ g[s] = Start)
    <3>1. PICK e \in s : /\ \A f \in s \ {e} : Earlier(d, f, e)
                         /\ s \ {e} \notin T
                         /\ ~g[s \ {e}].short
                         /\ \/ Buys(d, p, g[s \ {e}], e, g[s])
                            \/ Sells(d, p, g[s \ {e}], e, g[s])
      <4> HIDE DEF T
      <4> QED
        BY <2>2, <2>3, <2>5 DEF Continues
    <3> DEFINE u == s \ {e}
    <3>2. Good(u)
      BY <2>3, <3>1
    <3>3. g[u] \in States /\ g[s] \in States /\ Worth(g[u]) /\ Worth(g[s])
      BY <2>3, ReplayStates
    <3>4. /\ g[u].quantity \in Nat /\ g[s].quantity \in Nat
          /\ g[u].costs \in [Documents -> Nat] /\ g[s].costs \in [Documents -> Nat]
      BY <3>3, StateIs
    <3>5. e \in Documents /\ d[e].items[p] \in Nat \ {0} /\ \A f \in s : f \in Documents
      BY <2>3, EntriesHeld, EntryTypes DEF Entries
    <3>6. ASSUME NEW c, NEW f, Priced(d, u, c, f) PROVE Priced(d, s, c, f)
      BY <3>6 DEF Priced
    <3>7. CASE Buys(d, p, g[u], e, g[s])
      <4>1. Ranged(d, s, g[s].average)
        BY <2>3, <3>2, <3>3, <3>7, BuysRanged
      <4>2. d[e].kind = "purchase" /\ g[s].costs = g[u].costs
        BY <3>7 DEF Buys
      <4>3. ASSUME NEW f \in s, d[f].kind = "sale" PROVE Priced(d, s, g[s].costs[f], f)
        <5>1. f \in u
          BY <4>2, <4>3
        <5>2. Priced(d, u, g[u].costs[f], f)
          BY <5>1, <3>2, <4>3
        <5> QED
          BY <5>2, <4>2, <3>6
      <4> QED
        BY <2>3, <4>1, <4>3
    <3>8. CASE Sells(d, p, g[u], e, g[s])
      <4>1. /\ d[e].items[p] <= g[u].quantity /\ g[s].costs = [g[u].costs EXCEPT ![e] = Stored(g[u].average)]
            /\ g[s].quantity > 0 => g[s].average = g[u].average
        BY <3>8 DEF Sells
      <4>2. Ranged(d, u, g[u].average)
        BY <3>2, <3>4, <3>5, <4>1
      <4>3. g[s].quantity > 0 => Ranged(d, s, g[s].average)
        BY <4>1, <4>2 DEF Ranged
      <4>4. ASSUME NEW f \in s, d[f].kind = "sale" PROVE Priced(d, s, g[s].costs[f], f)
        <5>1. CASE f = e
          <6>1. Priced(d, s, Stored(g[u].average), e)
            BY <2>3, <3>1, <3>3, <4>2, SellsPriced
          <6>2. g[s].costs[e] = Stored(g[u].average)
            BY <3>4, <3>5, <4>1
          <6> QED
            BY <5>1, <6>1, <6>2
        <5>2. CASE f # e
          <6>1. f \in u /\ g[s].costs[f] = g[u].costs[f]
            BY <5>2, <3>4, <3>5, <4>1
          <6>2. Priced(d, u, g[u].costs[f], f)
            BY <6>1, <3>2, <4>4
          <6> QED
            BY <6>1, <6>2, <3>6
        <5> QED
          BY <5>1, <5>2
      <4> QED
        BY <2>3, <4>3, <4>4
    <3> QED
      BY <3>1, <3>7, <3>8
  <2> QED
    BY <2>4, <2>5
<1> QED
  BY <1>1

-----------------------------------------------------------------------------
(* A replay that is not short keeps the gap within the rounding of the      *)
(* sales.                                                                   *)
LEMMA LedgerConserves ==
    ASSUME NEW d \in Ledgers, NEW p \in Products, IsFiniteSet(Entries(d, p)),
           NEW g, Replays(d, p, g), NEW S \in SUBSET Entries(d, p), ~g[S].short
    PROVE  Within(Grain * SumOver(Paid(d, p), Of(d, "purchase", S))
                     - SumOver(AtCost(d, p, g[S].costs), Of(d, "sale", S)),
                  SumOver(UnitsIn(d, p), Of(d, "sale", S)), g[S].value)
<1> DEFINE Spent(s) == SumOver(Paid(d, p), Of(d, "purchase", s))
           Sold(c, s) == SumOver(AtCost(d, p, c), Of(d, "sale", s))
           Count(s) == SumOver(UnitsIn(d, p), Of(d, "sale", s))
           Good(s) == /\ Count(s) \in Nat /\ Spent(s) \in Int /\ Sold(g[s].costs, s) \in Int
                      /\ Within(Grain * Spent(s) - Sold(g[s].costs, s), Count(s), g[s].value)
           T == {s \in SUBSET Entries(d, p) : ~g[s].short /\ ~Good(s)}
<1>1. T = {}
  <2> SUFFICES ASSUME T # {} PROVE FALSE
    OBVIOUS
  <2>1. T \in SUBSET (SUBSET Entries(d, p))
    OBVIOUS
  <2>2. PICK s \in T : Continues(d, p, g, T, s)
    <3> HIDE DEF T
    <3> QED
      BY <2>1, LeastLedger
  <2>3. s \in SUBSET Entries(d, p) /\ ~g[s].short /\ ~Good(s)
    OBVIOUS
  <2>4. CASE s = {} /\ g[s] = Start
    <3>1. Of(d, "sale", {}) = {} /\ Of(d, "purchase", {}) = {}
      BY DEF Of
    <3>2. Count(s) = 0 /\ Spent(s) = 0 /\ Sold(g[s].costs, s) = 0
      BY <2>4, <3>1, FS_EmptySet, SumOverTakes
    <3>3. g[s].value[1] = 0 /\ g[s].value[2] = 1
      BY <2>4 DEF Start
    <3> HIDE DEF Count, Spent, Sold
    <3>4. Within(Grain * Spent(s) - Sold(g[s].costs, s), Count(s), g[s].value)
      BY <3>2, <3>3, StockAssumption DEF Within
    <3> QED
      BY <2>3, <3>2, <3>4
  <2>5. CASE ~(s = {} /\ g[s] = Start)
    <3>1. PICK e \in s : /\ \A f \in s \ {e} : Earlier(d, f, e)
                         /\ s \ {e} \notin T
                         /\ ~g[s \ {e}].short
                         /\ \/ Buys(d, p, g[s \ {e}], e, g[s])
                            \/ Sells(d, p, g[s \ {e}], e, g[s])
      <4> HIDE DEF T
      <4> QED
        BY <2>2, <2>3, <2>5 DEF Continues
    <3> DEFINE u == s \ {e}
               q == d[e].items[p]
               c == g[s].costs
    <3>2. Good(u)
      BY <2>3, <3>1
    <3>3. g[u] \in States /\ g[s] \in States
      BY <2>3, ReplayStates
    <3>4. /\ g[u].costs \in [Documents -> Nat] /\ c \in [Documents -> Nat]
          /\ g[u].value \in Money /\ g[s].value \in Money /\ g[u].average \in Money
      BY <3>3, StateIs
    <3>5. /\ e \in Documents /\ q \in Nat /\ d[e].cost \in Nat /\ s \subseteq Documents
          /\ \A f \in s : d[f].items[p] \in Nat /\ d[f].cost \in Nat
      BY <2>3, EntriesHeld, EntryTypes
    <3>6. IsFiniteSet(s) /\ IsFiniteSet(u)
      BY <2>3, FS_Subset, FS_RemoveElement
    <3>7. /\ \A f \in s : UnitsIn(d, p)[f] \in Int
          /\ \A f \in s : Paid(d, p)[f] \in Int
          /\ \A f \in s : AtCost(d, p, c)[f] \in Int
      BY <3>4, <3>5 DEF UnitsIn, Paid, AtCost
    <3>8. /\ UnitsIn(d, p)[e] = q /\ Paid(d, p)[e] = q * d[e].cost /\ AtCost(d, p, c)[e] = q * c[e]
      BY <3>5 DEF UnitsIn, Paid, AtCost
    <3> HIDE DEF c, q, T, Good
    <3>9. /\ Spent(s) \in Int /\ Spent(u) \in Int
          /\ d[e].kind = "purchase" => Spent(s) = q * d[e].cost + Spent(u)
          /\ d[e].kind # "purchase" => Spent(s) = Spent(u)
      BY <3>6, <3>7, <3>8, KindSum
    <3>10. /\ Count(s) \in Int /\ Count(u) \in Int
           /\ d[e].kind = "sale" => Count(s) = q + Count(u)
           /\ d[e].kind # "sale" => Count(s) = Count(u)
      BY <3>6, <3>7, <3>8, KindSum
    <3>11. /\ Sold(c, s) \in Int /\ Sold(c, u) \in Int
           /\ d[e].kind = "sale" => Sold(c, s) = q * c[e] + Sold(c, u)
           /\ d[e].kind # "sale" => Sold(c, s) = Sold(c, u)
      BY <3>6, <3>7, <3>8, KindSum
    <3>12. ASSUME \A f \in u : c[f] = g[u].costs[f] PROVE Sold(c, u) = Sold(g[u].costs, u)
      <4>1. Of(d, "sale", u) \subseteq u /\ IsFiniteSet(Of(d, "sale", u))
        <5>1. Of(d, "sale", u) \subseteq u
          BY DEF Of
        <5> QED
          BY <5>1, <3>6, FS_Subset
      <4>2. \A f \in Of(d, "sale", u) : AtCost(d, p, c)[f] = AtCost(d, p, g[u].costs)[f]
        BY <4>1, <3>5, <3>12 DEF AtCost
      <4> QED
        BY <4>1, <4>2, SumOverSame
    <3> HIDE DEF u, Spent, Sold, Count
    <3>13. /\ Count(u) \in Nat /\ Spent(u) \in Int /\ Sold(g[u].costs, u) \in Int
           /\ Within(Grain * Spent(u) - Sold(g[u].costs, u), Count(u), g[u].value)
      BY <3>2 DEF Good
    <3> DEFINE x == Grain * Spent(u) - Sold(g[u].costs, u)
    <3>14. x \in Int /\ Grain \in Nat
      BY <3>13, StockAssumption
    <3>15. CASE Buys(d, p, g[u], e, g[s])
      <4>1. d[e].kind = "purchase" /\ c = g[u].costs
        BY <3>15 DEF Buys, c
      <4> DEFINE n == d[e].cost * q
      <4>2. n \in Nat /\ g[s].value[1] * g[u].value[2] = (g[u].value[1] + n * g[u].value[2]) * g[s].value[2]
        BY <3>5, <3>15 DEF Buys, q
      <4> HIDE DEF x, n
      <4>3. Within(x, Count(u), g[u].value)
        BY <3>13 DEF x
      <4>4. Within(x + Grain * n, Count(u), g[s].value)
        BY <4>2, <4>3, <3>4, <3>13, <3>14, BoughtWithin
      <4>5. Count(s) = Count(u) /\ Sold(c, s) = Sold(g[u].costs, u) /\ Spent(s) = q * d[e].cost + Spent(u)
        BY <4>1, <3>9, <3>10, <3>11, <3>12
      <4>6. Grain * Spent(s) - Sold(c, s) = x + Grain * n
        <5>1. q * d[e].cost = n /\ n \in Int
          BY <3>5 DEF n
        <5>2. \A y, z \in Int : Grain * (y + z) = Grain * y + Grain * z
          BY <3>14
        <5>3. Grain * Spent(s) = Grain * n + Grain * Spent(u)
          BY <5>1, <5>2, <4>5, <3>13
        <5>4. Grain * n \in Int /\ Grain * Spent(u) \in Int
          BY <5>1, <3>13, <3>14
        <5> QED
          BY <5>3, <5>4, <4>5, <3>13 DEF x
      <4>7. Good(s)
        BY <4>4, <4>5, <4>6, <3>9, <3>10, <3>11, <3>13 DEF Good, c
      <4> QED
        BY <4>7, <2>3
    <3>16. CASE Sells(d, p, g[u], e, g[s])
      <4>1. d[e].kind = "sale" /\ c = [g[u].costs EXCEPT ![e] = Stored(g[u].average)]
        BY <3>16 DEF Sells, c
      <4>2. g[s].value[1] * (g[u].value[2] * g[u].average[2])
              = (g[u].value[1] * g[u].average[2] - q * g[u].average[1] * g[u].value[2]) * g[s].value[2]
        BY <3>16 DEF Sells, q
      <4>3. c[e] = Stored(g[u].average) /\ Stored(g[u].average) \in Nat
        BY <3>4, <3>5, <4>1, StoredIs
      <4>4. \A f \in u : c[f] = g[u].costs[f]
        BY <3>4, <3>5, <4>1 DEF u
      <4> HIDE DEF x
      <4>5. Within(x, Count(u), g[u].value)
        BY <3>13 DEF x
      <4>6. Within(x - q * Stored(g[u].average), Count(u) + q, g[s].value)
        BY <4>2, <4>5, <3>4, <3>5, <3>13, <3>14, SoldWithin
      <4>7. /\ Count(s) = Count(u) + q /\ Spent(s) = Spent(u)
            /\ Sold(c, s) = q * Stored(g[u].average) + Sold(g[u].costs, u)
        BY <4>1, <4>3, <4>4, <3>5, <3>9, <3>10, <3>11, <3>12
      <4>8. Grain * Spent(s) - Sold(c, s) = x - q * Stored(g[u].average)
        <5>1. q * Stored(g[u].average) \in Int /\ Grain * Spent(u) \in Int
          BY <4>3, <3>5, <3>13, <3>14
        <5> QED
          BY <5>1, <4>7, <3>13 DEF x
      <4>9. Count(s) \in Nat
        BY <4>7, <3>5, <3>13
      <4>10. Good(s)
        BY <4>6, <4>7, <4>8, <4>9, <3>9, <3>11 DEF Good, c
      <4> QED
        BY <4>10, <2>3
    <3> QED
      BY <3>1, <3>15, <3>16 DEF u
  <2> QED
    BY <2>4, <2>5
<1> QED
  BY <1>1

-----------------------------------------------------------------------------
(* The stock book: finitely many documents are held, no replay runs short,  *)
(* and what is stored of a sale is what the replay gives it.                *)
Records == [doc : Entry \cup {NoDoc}, snapshot : [Products -> Nat]]

BookSound(b) ==
    /\ b \in [Documents -> Records]
    /\ IsFiniteSet(Holding(Contents(b)))
    /\ \A p \in Products : ~Replay(Contents(b), p).short
    /\ \A p \in Products : \A e \in Documents :
          b[e].snapshot[p] = IF b[e].doc.kind # "sale" \/ b[e].doc.items[p] = 0 THEN 0
                             ELSE Replay(Contents(b), p).costs[e]

BookInv == BookSound(docs)

(* The documents of a sound book.                                           *)
LEMMA ContentsIs ==
    ASSUME NEW b \in [Documents -> Records]
    PROVE  Contents(b) \in Ledgers /\ \A e \in Documents : Contents(b)[e] = b[e].doc
<1>1. \A e \in Documents : b[e] \in Records
  OBVIOUS
<1>2. \A r \in Records : r.doc \in Entry \cup {NoDoc}
  BY DEF Records
<1> QED
  BY <1>1, <1>2 DEF Contents, Ledgers

LEMMA EntriesFinite ==
    ASSUME NEW d \in Ledgers, IsFiniteSet(Holding(d)), NEW p \in Products
    PROVE  IsFiniteSet(Entries(d, p))
BY EntriesHeld, FS_Subset

LEMMA ReplayType ==
    ASSUME NEW d \in Ledgers, IsFiniteSet(Holding(d)), NEW p \in Products
    PROVE  Replay(d, p) \in States
<1>1. IsFiniteSet(Entries(d, p))
  BY EntriesFinite
<1>2. PICK g : Replays(d, p, g) /\ Replay(d, p) = g[Entries(d, p)]
  BY <1>1, ReplayIs
<1>3. Replays(d, p, g)
  BY <1>2
<1> QED
  BY <1>1, <1>2, <1>3, ReplayStates

LEMMA BooksWith ==
    ASSUME NEW d \in Ledgers, IsFiniteSet(Holding(d)), NEW e \in Documents, NEW x \in Entry \cup {NoDoc},
           NEW n, n = [d EXCEPT ![e] = x]
    PROVE  n \in Ledgers /\ IsFiniteSet(Holding(n))
<1>1. n \in Ledgers
  BY DEF Ledgers
<1>2. Holding(n) \subseteq Holding(d) \cup {e}
  BY DEF Ledgers, Holding
<1>3. IsFiniteSet(Holding(d) \cup {e})
  BY FS_AddElement
<1> QED
  BY <1>1, <1>2, <1>3, FS_Subset

CostedAs(old, n, products, costs, c) ==
    /\ c = [e \in Documents |-> c[e]]
    /\ \A e \in Documents :
          /\ c[e] = [doc |-> n[e], snapshot |-> c[e].snapshot]
          /\ c[e].doc = n[e]
          /\ c[e].snapshot = [p \in Products |-> c[e].snapshot[p]]
          /\ \A p \in Products :
                c[e].snapshot[p] = IF n[e].kind # "sale" \/ n[e].items[p] = 0 THEN 0
                                   ELSE IF p \in products THEN costs[p][e] ELSE old[e].snapshot[p]

LEMMA CostedIs ==
    ASSUME NEW old, NEW n, NEW products, NEW costs
    PROVE  CostedAs(old, n, products, costs, Costed(old, n, products, costs))
<1> DEFINE c == Costed(old, n, products, costs)
<1>1. /\ c = [e \in Documents |-> c[e]]
      /\ \A e \in Documents :
            /\ c[e] = [doc |-> n[e], snapshot |-> c[e].snapshot]
            /\ c[e].doc = n[e]
            /\ c[e].snapshot = [p \in Products |-> c[e].snapshot[p]]
            /\ \A p \in Products :
                  c[e].snapshot[p] = IF n[e].kind # "sale" \/ n[e].items[p] = 0 THEN 0
                                     ELSE IF p \in products THEN costs[p][e] ELSE old[e].snapshot[p]
  BY DEF Costed
<1> HIDE DEF c
<1>2. CostedAs(old, n, products, costs, c)
  BY <1>1 DEF CostedAs
<1> QED
  BY <1>2 DEF c

(* Replaying everything over documents without a shortage gives a sound book. *)
LEMMA CostedSound ==
    ASSUME NEW b \in [Documents -> Records], NEW n \in Ledgers, IsFiniteSet(Holding(n)),
           \A p \in Products : ~Replay(n, p).short,
           NEW costs, \A p \in Products : costs[p] = Replay(n, p).costs,
           NEW c, c = Costed(b, n, Products, costs)
    PROVE  BookSound(c) /\ Contents(c) = n
<1>1. \A e \in Documents :
         /\ c[e].doc = n[e]
         /\ \A p \in Products : c[e].snapshot[p] = IF n[e].kind # "sale" \/ n[e].items[p] = 0 THEN 0
                                                   ELSE Replay(n, p).costs[e]
  <2> SUFFICES ASSUME NEW e \in Documents
               PROVE  /\ c[e].doc = n[e]
                      /\ \A p \in Products : c[e].snapshot[p] = IF n[e].kind # "sale" \/ n[e].items[p] = 0 THEN 0
                                                                ELSE Replay(n, p).costs[e]
    OBVIOUS
  <2>0. CostedAs(b, n, Products, costs, c)
    BY CostedIs
  <2>1. c[e].doc = n[e]
    BY <2>0 DEF CostedAs
  <2>2. \A p \in Products : c[e].snapshot[p] = IF n[e].kind # "sale" \/ n[e].items[p] = 0 THEN 0
                                               ELSE IF p \in Products THEN costs[p][e] ELSE b[e].snapshot[p]
    BY <2>0 DEF CostedAs
  <2> QED
    BY <2>1, <2>2
<1>2. Contents(c) = n
  <2>1. n = [e \in Documents |-> n[e]]
    BY DEF Ledgers
  <2>2. Contents(c) = [e \in Documents |-> c[e].doc]
    BY DEF Contents
  <2> QED
    BY <2>1, <2>2, <1>1
<1>3. c \in [Documents -> Records]
  <2>0. CostedAs(b, n, Products, costs, c)
    BY CostedIs
  <2>1. ASSUME NEW e \in Documents PROVE c[e] \in Records
    <3>1. c[e] = [doc |-> n[e], snapshot |-> c[e].snapshot] /\ c[e].snapshot = [p \in Products |-> c[e].snapshot[p]]
      BY <2>0 DEF CostedAs
    <3>2. ASSUME NEW p \in Products PROVE c[e].snapshot[p] \in Nat
      <4>1. Replay(n, p).costs \in [Documents -> Nat]
        BY ReplayType, StateIs
      <4> QED
        BY <4>1, <1>1
    <3>3. c[e].snapshot \in [Products -> Nat]
      BY <3>1, <3>2
    <3>4. n[e] \in Entry \cup {NoDoc}
      BY DEF Ledgers
    <3> QED
      BY <3>1, <3>3, <3>4 DEF Records
  <2>2. c = [e \in Documents |-> c[e]]
    BY <2>0 DEF CostedAs
  <2> QED
    BY <2>1, <2>2
<1> QED
  BY <1>1, <1>2, <1>3 DEF BookSound

(* The empty book is sound, and a write keeps it so.                        *)
LEMMA BookStarts == Init => BookInv
<1> SUFFICES ASSUME Init PROVE BookSound(docs)
  BY DEF BookInv
<1>1. docs = [e \in Documents |-> Blank]
  BY DEF Init
<1>2. \A e \in Documents : docs[e] = Blank /\ docs[e].doc = NoDoc /\ docs[e].snapshot = NoItems
  BY <1>1 DEF Blank
<1>3. docs \in [Documents -> Records]
  <2>1. NoItems \in [Products -> Nat]
    BY DEF NoItems
  <2>2. Blank \in Records
    BY <2>1 DEF Blank, Records
  <2> QED
    BY <1>1, <2>2
<1>4. Contents(docs) \in Ledgers /\ \A e \in Documents : Contents(docs)[e] = NoDoc
  BY <1>2, <1>3, ContentsIs
<1>5. Holding(Contents(docs)) = {}
  BY <1>4 DEF Holding
<1>6. IsFiniteSet(Holding(Contents(docs)))
  BY <1>5, FS_EmptySet
<1>7. ASSUME NEW p \in Products PROVE ~Replay(Contents(docs), p).short
  <2>1. Entries(Contents(docs), p) = {}
    BY <1>4, <1>5, EntriesHeld
  <2>2. PICK g : Replays(Contents(docs), p, g) /\ Replay(Contents(docs), p) = g[Entries(Contents(docs), p)]
    BY <1>4, <2>1, FS_EmptySet, ReplayIs
  <2>3. g[{}] = Start
    <3>1. {} \in SUBSET Entries(Contents(docs), p)
      OBVIOUS
    <3> QED
      BY <2>2, <3>1 DEF Replays
  <2> QED
    BY <2>1, <2>2, <2>3, StartSound
<1>8. \A p \in Products : \A e \in Documents : docs[e].snapshot[p] = 0 /\ docs[e].doc.kind = "none"
  BY <1>2 DEF NoDoc, NoItems
<1> QED
  BY <1>3, <1>6, <1>7, <1>8 DEF BookSound

LEMMA ProposedIs ==
    ASSUME NEW e \in Documents, NEW x \in Proposed(e)
    PROVE  x \in Entry \cup {NoDoc}
BY DEF Proposed, Entry

LEMMA WriteSound ==
    ASSUME BookInv, NEW e \in Documents, NEW x \in Entry \cup {NoDoc}, Write(e, x)
    PROVE  BookInv'
<1> DEFINE n == [Contents(docs) EXCEPT ![e] = x]
           replays == [p \in Products |-> Replay(n, p)]
           costs == [p \in Products |-> replays[p].costs]
<1>1. docs \in [Documents -> Records] /\ IsFiniteSet(Holding(Contents(docs)))
  BY DEF BookInv, BookSound
<1>2. n \in Ledgers /\ IsFiniteSet(Holding(n))
  BY <1>1, ContentsIs, BooksWith
<1>3. docs' = Costed(docs, n, Products, costs) /\ \A p \in Products : ~replays[p].short
  BY DEF Write
<1>4. \A p \in Products : costs[p] = Replay(n, p).costs /\ ~Replay(n, p).short
  BY <1>3
<1> HIDE DEF n, costs
<1>5. BookSound(docs')
  BY <1>1, <1>2, <1>3, <1>4, CostedSound
<1> QED
  BY <1>5 DEF BookInv

LEMMA BookSteps == BookInv /\ [Next]_docs => BookInv'
<1> SUFFICES ASSUME BookInv, [Next]_docs PROVE BookInv'
  OBVIOUS
<1>1. CASE Next
  <2>1. PICK e \in Documents : docs'[e].doc \in Proposed(e) /\ Write(e, docs'[e].doc)
    BY <1>1 DEF Next
  <2> QED
    BY <2>1, ProposedIs, WriteSound
<1>2. CASE UNCHANGED docs
  BY <1>2 DEF BookInv
<1> QED
  BY <1>1, <1>2

(* The invariant of the stock book, with any number of products and documents. *)
THEOREM BookInvariant == Spec => []BookInv
<1>1. Init => BookInv
  BY BookStarts
<1>2. BookInv /\ [Next]_docs => BookInv'
  BY BookSteps
<1> QED
  BY <1>1, <1>2, PTL DEF Spec

-----------------------------------------------------------------------------
(* What the runs check of the stock book follows.                           *)
LEMMA NotOversold == BookInv => NeverOversold
<1> SUFFICES ASSUME BookInv PROVE NeverOversold
  OBVIOUS
<1>1. docs \in [Documents -> Records] /\ IsFiniteSet(Holding(Contents(docs)))
  BY DEF BookInv, BookSound
<1>2. Contents(docs) \in Ledgers
  BY <1>1, ContentsIs
<1>3. \A d : d = Contents(docs) =>
        \A p \in Products : \A e \in Entries(d, p) :
           UnitTotal(d, p, {f \in {f \in Entries(d, p) : f = e \/ Earlier(d, f, e)} : d[f].kind = "sale"})
             <= UnitTotal(d, p, {f \in {f \in Entries(d, p) : f = e \/ Earlier(d, f, e)} : d[f].kind = "purchase"})
  <2> SUFFICES ASSUME NEW d, d = Contents(docs), NEW p \in Products, NEW e \in Entries(d, p)
               PROVE  UnitTotal(d, p, Of(d, "sale", Through(d, Entries(d, p), e)))
                        <= UnitTotal(d, p, Of(d, "purchase", Through(d, Entries(d, p), e)))
    BY DEF Of, Through
  <2>1. d \in Ledgers /\ IsFiniteSet(Entries(d, p)) /\ Entries(d, p) \subseteq Documents
    BY <1>1, <1>2, EntriesFinite, EntriesHeld
  <2>2. PICK g : Replays(d, p, g) /\ Replay(d, p) = g[Entries(d, p)]
    BY <2>1, ReplayIs
  <2>3. ~g[Entries(d, p)].short
    BY <2>2 DEF BookInv, BookSound
  <2>4. Replays(d, p, g)
    BY <2>2
  <2>5. SumOver(UnitsIn(d, p), Of(d, "sale", Through(d, Entries(d, p), e)))
          <= SumOver(UnitsIn(d, p), Of(d, "purchase", Through(d, Entries(d, p), e)))
    BY <2>1, <2>3, <2>4, LedgerCovers
  <2>6. \A kind : /\ Of(d, kind, Through(d, Entries(d, p), e)) \subseteq Entries(d, p)
                  /\ Of(d, kind, Through(d, Entries(d, p), e)) \in SUBSET Documents
    BY <2>1 DEF Of, Through
  <2>7. \A kind : IsFiniteSet(Of(d, kind, Through(d, Entries(d, p), e)))
    BY <2>1, <2>6, FS_Subset
  <2>8. ASSUME NEW kind
        PROVE  UnitTotal(d, p, Of(d, kind, Through(d, Entries(d, p), e)))
                 = SumOver(UnitsIn(d, p), Of(d, kind, Through(d, Entries(d, p), e)))
    BY <2>6, <2>7, UnitTotalIs DEF UnitsIn
  <2> QED
    BY <2>5, <2>8
<1> QED
  BY <1>3 DEF NeverOversold, UnitTotal

LEMMA CurrentSnapshots == BookInv => SnapshotsCurrent
<1> SUFFICES ASSUME BookInv PROVE SnapshotsCurrent
  OBVIOUS
<1>1. docs \in [Documents -> Records]
  BY DEF BookInv, BookSound
<1> DEFINE d == Contents(docs)
<1>2. d \in Ledgers /\ \A e \in Documents : d[e] = docs[e].doc
  BY <1>1, ContentsIs
<1>3. \A p \in Products : \A e \in Entries(d, p) : e \in Documents /\ d[e].items[p] # 0
  BY <1>2, EntriesHeld, EntryTypes DEF Entries
<1>4. \A p \in Products : \A e \in Documents :
         docs[e].snapshot[p] = IF docs[e].doc.kind # "sale" \/ docs[e].doc.items[p] = 0 THEN 0
                               ELSE Replay(d, p).costs[e]
  BY DEF BookInv, BookSound
<1>5. \A p \in Products : \A e \in Entries(d, p) :
         d[e].kind = "sale" => docs[e].snapshot[p] = Replay(d, p).costs[e]
  <2> HIDE DEF d
  <2> QED
    BY <1>2, <1>3, <1>4
<1> QED
  BY <1>5 DEF SnapshotsCurrent

LEMMA BookType == BookInv => TypeOK
BY DEF BookInv, BookSound, TypeOK, Records, Entry

(* The cost stored of a sale is that of the replay, so between prices paid. *)
LEMMA WithinPrices == BookInv => CostWithinPrices
<1> SUFFICES ASSUME BookInv PROVE CostWithinPrices
  OBVIOUS
<1>1. docs \in [Documents -> Records] /\ IsFiniteSet(Holding(Contents(docs)))
  BY DEF BookInv, BookSound
<1>2. Contents(docs) \in Ledgers
  BY <1>1, ContentsIs
<1>3. \A d : d = Contents(docs) =>
        \A p \in Products : \A e \in Entries(d, p) :
           d[e].kind = "sale" => Priced(d, Entries(d, p), docs[e].snapshot[p], e)
  <2> SUFFICES ASSUME NEW d, d = Contents(docs), NEW p \in Products, NEW e \in Entries(d, p), d[e].kind = "sale"
               PROVE  Priced(d, Entries(d, p), docs[e].snapshot[p], e)
    OBVIOUS
  <2>1. d \in Ledgers /\ IsFiniteSet(Entries(d, p))
    BY <1>1, <1>2, EntriesFinite
  <2>2. PICK g : Replays(d, p, g) /\ Replay(d, p) = g[Entries(d, p)]
    BY <2>1, ReplayIs
  <2>3. ~g[Entries(d, p)].short
    BY <2>2 DEF BookInv, BookSound
  <2>4. Replays(d, p, g)
    BY <2>2
  <2>5. Priced(d, Entries(d, p), g[Entries(d, p)].costs[e], e)
    BY <2>1, <2>3, <2>4, LedgerPriced
  <2>6. docs[e].snapshot[p] = Replay(d, p).costs[e]
    BY CurrentSnapshots DEF SnapshotsCurrent
  <2> QED
    BY <2>2, <2>5, <2>6
<1> QED
  BY <1>3, BookType DEF CostWithinPrices, Priced

(* The sums of stored costs are the sums of the replay.                     *)
LEMMA CostsConserve == BookInv => CostsConserved
<1> SUFFICES ASSUME BookInv PROVE CostsConserved
  OBVIOUS
<1>1. docs \in [Documents -> Records] /\ IsFiniteSet(Holding(Contents(docs)))
  BY DEF BookInv, BookSound
<1>2. Contents(docs) \in Ledgers
  BY <1>1, ContentsIs
<1>3. \A d : d = Contents(docs) =>
        \A p \in Products :
           Within(Grain * PaidTotal(d, p, Of(d, "purchase", Entries(d, p)))
                    - CostTotal(d, p, docs, Of(d, "sale", Entries(d, p))),
                  CountTotal(d, p, Of(d, "sale", Entries(d, p))), Replay(d, p).value)
  <2> SUFFICES ASSUME NEW d, d = Contents(docs), NEW p \in Products
               PROVE  Within(Grain * PaidTotal(d, p, Of(d, "purchase", Entries(d, p)))
                               - CostTotal(d, p, docs, Of(d, "sale", Entries(d, p))),
                             CountTotal(d, p, Of(d, "sale", Entries(d, p))), Replay(d, p).value)
    OBVIOUS
  <2> DEFINE E == Entries(d, p)
             bought == Of(d, "purchase", E)
             sold == Of(d, "sale", E)
  <2>1. d \in Ledgers /\ IsFiniteSet(E) /\ E \subseteq Documents
    BY <1>1, <1>2, EntriesFinite, EntriesHeld
  <2>2. PICK g : Replays(d, p, g) /\ Replay(d, p) = g[E]
    BY <2>1, ReplayIs
  <2>3. ~g[E].short
    BY <2>2 DEF BookInv, BookSound
  <2>4. Replays(d, p, g)
    BY <2>2
  <2>5. Within(Grain * SumOver(Paid(d, p), bought) - SumOver(AtCost(d, p, g[E].costs), sold),
               SumOver(UnitsIn(d, p), sold), g[E].value)
    BY <2>1, <2>3, <2>4, LedgerConserves
  <2>6. bought \subseteq E /\ sold \subseteq E
    BY DEF Of
  <2>7. IsFiniteSet(bought) /\ IsFiniteSet(sold) /\ bought \in SUBSET Documents /\ sold \in SUBSET Documents
    BY <2>1, <2>6, FS_Subset
  <2>8. \A f \in sold : d[f].kind = "sale"
    BY DEF Of
  <2>9. \A f \in E : d[f].items[p] \in Nat /\ d[f].cost \in Nat
    BY <2>1, EntriesHeld, EntryTypes
  <2>10. \A f \in E : d[f].kind = "sale" => docs[f].snapshot[p] = Replay(d, p).costs[f]
    BY CurrentSnapshots DEF SnapshotsCurrent
  <2> HIDE DEF E, bought, sold
  <2>11. PaidTotal(d, p, bought) = SumOver(Paid(d, p), bought)
    BY <2>7, PaidTotalIs DEF Paid
  <2>12. CostTotal(d, p, docs, sold) = SumOver(AtCost(d, p, g[E].costs), sold)
    <3>1. CostTotal(d, p, docs, sold) = SumOver([f \in Documents |-> d[f].items[p] * docs[f].snapshot[p]], sold)
      BY <2>7, CostTotalIs
    <3>2. \A f \in sold : [i \in Documents |-> d[i].items[p] * docs[i].snapshot[p]][f] = AtCost(d, p, g[E].costs)[f]
      BY <2>2, <2>6, <2>7, <2>8, <2>10 DEF AtCost
    <3>3. SumOver([f \in Documents |-> d[f].items[p] * docs[f].snapshot[p]], sold) = SumOver(AtCost(d, p, g[E].costs), sold)
      <4> DEFINE F == [f \in Documents |-> d[f].items[p] * docs[f].snapshot[p]]
                 G == AtCost(d, p, g[E].costs)
      <4>1. \A f \in sold : F[f] = G[f]
        BY <3>2
      <4> HIDE DEF F, G
      <4>2. SumOver(F, sold) = SumOver(G, sold)
        BY <4>1, <2>7, SumOverSame
      <4> QED
        BY <4>2 DEF F, G
    <3> QED
      BY <3>1, <3>3
  <2>13. CountTotal(d, p, sold) = SumOver(UnitsIn(d, p), sold)
    <3> DEFINE F == [f \in Documents |-> d[f].items[p] * 1]
               G == UnitsIn(d, p)
    <3>1. CountTotal(d, p, sold) = SumOver(F, sold)
      BY <2>7, CountTotalIs
    <3>2. \A f \in sold : F[f] = G[f]
      BY <2>6, <2>7, <2>9 DEF UnitsIn
    <3> HIDE DEF F, G
    <3>3. SumOver(F, sold) = SumOver(G, sold)
      BY <3>2, <2>7, SumOverSame
    <3> QED
      BY <3>1, <3>3 DEF G
  <2>14. Within(Grain * PaidTotal(d, p, bought) - CostTotal(d, p, docs, sold),
                CountTotal(d, p, sold), Replay(d, p).value)
    BY <2>2, <2>5, <2>11, <2>12, <2>13
  <2> QED
    BY <2>14 DEF E, bought, sold
<1> QED
  BY <1>3 DEF CostsConserved, PaidTotal, CostTotal, CountTotal, Within, Of

LEMMA CostsAreSound == BookInv => CostsSound
BY WithinPrices, CostsConserve, CurrentSnapshots DEF CostsSound

-----------------------------------------------------------------------------
(* The transactions.  One that is open and not stale holds the costs that a *)
(* replay of the present documents with its own would give, and two such    *)
(* are not creating one document.                                           *)
Live(w) == tx[w].open /\ ~tx[w].stale

With(w) == [Contents(docs) EXCEPT ![tx[w].id] = tx[w].doc]

Valid(w) ==
    /\ tx[w].id \in Documents
    /\ tx[w].doc \in Proposed(tx[w].id)
    /\ tx[w].products = Affected(tx[w].id, tx[w].doc)
    /\ \A p \in tx[w].products : /\ ~Replay(With(w), p).short
                                 /\ tx[w].costs[p] = Replay(With(w), p).costs

TxForm(r) ==
    /\ r = [open |-> r.open, id |-> r.id, doc |-> r.doc, products |-> r.products,
            costs |-> r.costs, stale |-> r.stale]
    /\ r.open \in BOOLEAN /\ r.stale \in BOOLEAN

LedgerInv ==
    /\ BookInv
    /\ tx = [w \in Writers |-> tx[w]] /\ \A w \in Writers : TxForm(tx[w])
    /\ \A w \in Writers : Live(w) => Valid(w)
    /\ \A v, w \in Writers : Live(v) /\ Live(w) /\ v # w /\ tx[v].id = tx[w].id => docs[tx[w].id].doc # NoDoc

(* A document touches the products it has units of, and every document has  *)
(* some.                                                                    *)
LEMMA TouchedIs ==
    /\ \A p \in Products, x \in Entry \cup {NoDoc} : p \notin Touched(x) => x.items[p] = 0
    /\ \A x \in Entry : Touched(x) # {}
<1>1. ASSUME NEW p \in Products, NEW x \in Entry \cup {NoDoc}, p \notin Touched(x) PROVE x.items[p] = 0
  <2>1. CASE x \in Entry
    <3>1. x.items[p] \in Nat
      BY <2>1, EntryTypes
    <3> QED
      BY <3>1, <1>1 DEF Touched
  <2> QED
    BY <2>1, EntryTypes
<1>2. \A x \in Entry : Touched(x) # {}
  BY EntryTypes DEF Touched
<1> QED
  BY <1>1, <1>2

(* Documents that differ in what has nothing of a product do not matter to   *)
(* the replay of that product.                                              *)
LEMMA ReplaySame ==
    ASSUME NEW d \in Ledgers, IsFiniteSet(Holding(d)), NEW n \in Ledgers, NEW p \in Products,
           \A f \in Documents : n[f] = d[f] \/ (d[f].items[p] = 0 /\ n[f].items[p] = 0)
    PROVE  Replay(n, p) = Replay(d, p)
<1>1. \A f \in Documents : d[f].items[p] > 0 <=> n[f].items[p] > 0
  <2> SUFFICES ASSUME NEW f \in Documents PROVE d[f].items[p] > 0 <=> n[f].items[p] > 0
    OBVIOUS
  <2>1. CASE n[f] = d[f]
    BY <2>1
  <2>2. CASE d[f].items[p] = 0 /\ n[f].items[p] = 0
    BY <2>2
  <2> QED
    BY <2>1, <2>2
<1>2. Entries(n, p) = Entries(d, p)
  BY <1>1 DEF Entries
<1>3. \A f \in Entries(d, p) : n[f] = d[f]
  <2> SUFFICES ASSUME NEW f \in Entries(d, p) PROVE n[f] = d[f]
    OBVIOUS
  <2>1. f \in Documents /\ d[f].items[p] > 0
    BY DEF Entries
  <2>2. d[f].items[p] # 0
    BY <2>1
  <2> QED
    BY <2>1, <2>2
<1> QED
  BY <1>2, <1>3, EntriesFinite, ReplayLocal

(* To replay the products that changed is to replay them all.                *)
LEMMA ReplayedEnough ==
    ASSUME BookInv, NEW n \in Ledgers, IsFiniteSet(Holding(n)), NEW products, NEW costs,
           \A p \in products : ~Replay(n, p).short /\ costs[p] = Replay(n, p).costs,
           \A p \in Products \ products : \A f \in Documents :
              n[f] = docs[f].doc \/ (docs[f].doc.items[p] = 0 /\ n[f].items[p] = 0),
           NEW c, c = Costed(docs, n, products, costs)
    PROVE  /\ BookSound(c) /\ Contents(c) = n
           /\ \A p \in Products : ~Replay(n, p).short
           /\ c = Costed(docs, n, Products, [p \in Products |-> Replay(n, p).costs])
<1> DEFINE all == [p \in Products |-> Replay(n, p).costs]
           a == Costed(docs, n, Products, all)
<1>1. docs \in [Documents -> Records] /\ IsFiniteSet(Holding(Contents(docs)))
  BY DEF BookInv, BookSound
<1>2. Contents(docs) \in Ledgers /\ \A f \in Documents : Contents(docs)[f] = docs[f].doc
  BY <1>1, ContentsIs
<1>3. ASSUME NEW p \in Products, p \notin products
      PROVE  Replay(n, p) = Replay(Contents(docs), p) /\ ~Replay(n, p).short
  <2>1. \A f \in Documents : \/ n[f] = Contents(docs)[f]
                             \/ Contents(docs)[f].items[p] = 0 /\ n[f].items[p] = 0
    BY <1>2, <1>3
  <2>2. Replay(n, p) = Replay(Contents(docs), p)
    BY <1>1, <1>2, <2>1, ReplaySame
  <2>3. ~Replay(Contents(docs), p).short
    BY DEF BookInv, BookSound
  <2> QED
    BY <2>2, <2>3
<1>4. \A p \in Products : ~Replay(n, p).short
  BY <1>3
<1>5. CostedAs(docs, n, products, costs, c) /\ CostedAs(docs, n, Products, all, a)
  BY CostedIs
<1>6. ASSUME NEW f \in Documents, NEW p \in Products PROVE c[f].snapshot[p] = a[f].snapshot[p]
  <2>1. c[f].snapshot[p] = IF n[f].kind # "sale" \/ n[f].items[p] = 0 THEN 0
                           ELSE IF p \in products THEN costs[p][f] ELSE docs[f].snapshot[p]
    BY <1>5 DEF CostedAs
  <2>2. a[f].snapshot[p] = IF n[f].kind # "sale" \/ n[f].items[p] = 0 THEN 0 ELSE all[p][f]
    <3> HIDE DEF a, all
    <3> QED
      BY <1>5 DEF CostedAs
  <2>3. all[p] = Replay(n, p).costs
    OBVIOUS
  <2> HIDE DEF a, all
  <2>4. CASE n[f].kind # "sale" \/ n[f].items[p] = 0
    BY <2>1, <2>2, <2>4
  <2>5. CASE n[f].kind = "sale" /\ n[f].items[p] # 0 /\ p \in products
    BY <2>1, <2>2, <2>3, <2>5
  <2>6. CASE n[f].kind = "sale" /\ n[f].items[p] # 0 /\ p \notin products
    <3>1. n[f] = docs[f].doc
      BY <2>6
    <3>2. docs[f].snapshot[p] = IF docs[f].doc.kind # "sale" \/ docs[f].doc.items[p] = 0 THEN 0
                                ELSE Replay(Contents(docs), p).costs[f]
      BY DEF BookInv, BookSound
    <3>3. docs[f].snapshot[p] = Replay(n, p).costs[f]
      BY <1>3, <2>6, <3>1, <3>2
    <3> QED
      BY <2>1, <2>2, <2>3, <2>6, <3>3
  <2> QED
    BY <2>4, <2>5, <2>6
<1> HIDE DEF a
<1>7. ASSUME NEW f \in Documents PROVE c[f] = a[f]
  <2>1. c[f] = [doc |-> n[f], snapshot |-> c[f].snapshot] /\ a[f] = [doc |-> n[f], snapshot |-> a[f].snapshot]
    BY <1>5 DEF CostedAs
  <2>2. /\ c[f].snapshot = [p \in Products |-> c[f].snapshot[p]]
        /\ a[f].snapshot = [p \in Products |-> a[f].snapshot[p]]
    BY <1>5 DEF CostedAs
  <2>3. c[f].snapshot = a[f].snapshot
    BY <2>2, <1>6
  <2> QED
    BY <2>1, <2>3
<1>8. c = [f \in Documents |-> c[f]] /\ a = [f \in Documents |-> a[f]]
  BY <1>5 DEF CostedAs
<1>9. c = a
  BY <1>7, <1>8
<1>10. BookSound(c) /\ Contents(c) = n
  <2>1. \A p \in Products : all[p] = Replay(n, p).costs
    OBVIOUS
  <2>2. c = Costed(docs, n, Products, all)
    BY <1>9 DEF a
  <2> HIDE DEF all
  <2> QED
    BY <1>1, <1>4, <2>1, <2>2, CostedSound
<1> QED
  BY <1>4, <1>9, <1>10 DEF a

(* A live transaction stays valid when what others write has nothing of the  *)
(* products it replayed.                                                    *)
LEMMA ValidStays ==
    ASSUME BookInv, NEW v \in Writers, Valid(v), BookInv',
           tx'[v].id = tx[v].id, tx'[v].doc = tx[v].doc, tx'[v].products = tx[v].products,
           tx'[v].costs = tx[v].costs, docs'[tx[v].id].doc = docs[tx[v].id].doc,
           \A p \in tx[v].products : \A f \in Documents :
              \/ docs'[f].doc = docs[f].doc
              \/ docs[f].doc.items[p] = 0 /\ docs'[f].doc.items[p] = 0
    PROVE  Valid(v)'
<1> DEFINE e == tx[v].id
           x == tx[v].doc
           n == With(v)
           m == With(v)'
<1>1. docs \in [Documents -> Records] /\ IsFiniteSet(Holding(Contents(docs)))
  BY DEF BookInv, BookSound
<1>2. docs' \in [Documents -> Records]
  BY DEF BookInv, BookSound
<1>3. Contents(docs) \in Ledgers /\ \A f \in Documents : Contents(docs)[f] = docs[f].doc
  BY <1>1, ContentsIs
<1>4. Contents(docs') \in Ledgers /\ \A f \in Documents : Contents(docs')[f] = docs'[f].doc
  BY <1>2, ContentsIs
<1>5. e \in Documents /\ x \in Entry \cup {NoDoc}
  BY ProposedIs DEF Valid
<1>6. n = [Contents(docs) EXCEPT ![e] = x]
  BY DEF With
<1>7. m = [Contents(docs') EXCEPT ![e] = x]
  <2>1. m = [Contents(docs') EXCEPT ![tx'[v].id] = tx'[v].doc]
    BY DEF With
  <2> QED
    BY <2>1
<1>8. tx[v].products \subseteq Products
  BY DEF Valid, Affected, Touched
<1> HIDE DEF n, m, e, x
<1>9. n \in Ledgers /\ IsFiniteSet(Holding(n))
  BY <1>1, <1>3, <1>5, <1>6, BooksWith
<1>10. m \in Ledgers
  BY <1>4, <1>5, <1>7 DEF Ledgers
<1>11. ASSUME NEW p \in tx[v].products PROVE Replay(m, p) = Replay(n, p)
  <2>1. ASSUME NEW f \in Documents PROVE m[f] = n[f] \/ (n[f].items[p] = 0 /\ m[f].items[p] = 0)
    <3>1. CASE f = e
      <4>1. m[f] = x /\ n[f] = x
        BY <3>1, <1>3, <1>4, <1>5, <1>6, <1>7 DEF Ledgers
      <4> QED
        BY <4>1
    <3>2. CASE f # e
      <4>1. m[f] = docs'[f].doc /\ n[f] = docs[f].doc
        BY <3>2, <1>3, <1>4, <1>5, <1>6, <1>7 DEF Ledgers
      <4> QED
        BY <4>1
    <3> QED
      BY <3>1, <3>2
  <2> QED
    BY <1>8, <1>9, <1>10, <2>1, ReplaySame
<1>12. \A p \in tx[v].products : ~Replay(With(v)', p).short /\ tx[v].costs[p] = Replay(With(v)', p).costs
  <2>1. \A p \in tx[v].products : ~Replay(n, p).short /\ tx[v].costs[p] = Replay(n, p).costs
    BY DEF Valid, n
  <2> QED
    BY <1>11, <2>1 DEF m
<1>13. Proposed(tx[v].id)' = Proposed(tx[v].id)
  BY DEF Proposed
<1>14. tx'[v].doc \in Proposed(tx[v].id)'
  BY <1>13 DEF Valid
<1>15. tx'[v].products = Affected(tx[v].id, tx[v].doc)'
  BY DEF Valid, Affected, Touched
<1> QED
  BY <1>5, <1>12, <1>14, <1>15 DEF Valid, e

(* A commit stores what one write of the stock book would.                  *)
LEMMA CommitWrites ==
    ASSUME LedgerInv, NEW w \in Writers, Commit(w)
    PROVE  /\ docs'[tx[w].id].doc = tx[w].doc
           /\ Write(tx[w].id, docs'[tx[w].id].doc)
           /\ BookInv' /\ Contents(docs') = With(w)
<1> DEFINE e == tx[w].id
           x == tx[w].doc
           n == With(w)
           costs == [p \in Products |-> Replay(n, p).costs]
<1>1. BookInv /\ Valid(w)
  BY DEF LedgerInv, Commit, Live
<1>2. docs \in [Documents -> Records] /\ IsFiniteSet(Holding(Contents(docs)))
  BY <1>1 DEF BookInv, BookSound
<1>3. e \in Documents /\ x \in Entry \cup {NoDoc}
  BY <1>1, ProposedIs DEF Valid
<1>4. Contents(docs) \in Ledgers /\ \A f \in Documents : Contents(docs)[f] = docs[f].doc
  BY <1>2, ContentsIs
<1>5. n = [Contents(docs) EXCEPT ![e] = x]
  BY DEF With
<1>6. n \in Ledgers /\ IsFiniteSet(Holding(n))
  BY <1>2, <1>3, <1>4, <1>5, BooksWith
<1>7. n[e] = x /\ \A f \in Documents : f # e => n[f] = docs[f].doc
  BY <1>3, <1>4, <1>5 DEF Ledgers
<1>8. ASSUME NEW p \in Products \ tx[w].products, NEW f \in Documents
      PROVE  n[f] = docs[f].doc \/ (docs[f].doc.items[p] = 0 /\ n[f].items[p] = 0)
  <2>1. docs[e].doc \in Entry \cup {NoDoc}
    BY <1>3, <1>4 DEF Ledgers
  <2>2. tx[w].products = Touched(docs[e].doc) \cup Touched(x)
    BY <1>1 DEF Valid, Affected
  <2>3. docs[e].doc.items[p] = 0 /\ x.items[p] = 0
    BY <1>3, <2>1, <2>2, TouchedIs
  <2> HIDE DEF n, e, x
  <2> QED
    BY <1>7, <2>3
<1>9. \A p \in tx[w].products : ~Replay(n, p).short /\ tx[w].costs[p] = Replay(n, p).costs
  BY <1>1 DEF Valid
<1>10. docs' = Costed(docs, n, tx[w].products, tx[w].costs)
  BY DEF Commit, Written, With
<1> HIDE DEF n, e, x
<1>11. /\ BookSound(docs') /\ Contents(docs') = n
       /\ \A p \in Products : ~Replay(n, p).short
       /\ docs' = Costed(docs, n, Products, costs)
  BY <1>1, <1>6, <1>8, <1>9, <1>10, ReplayedEnough
<1>12. docs'[e].doc = x
  BY <1>3, <1>7, <1>11 DEF Contents
<1>13. Write(e, x)
  <2> DEFINE replays == [p \in Products |-> Replay(n, p)]
  <2>1. costs = [p \in Products |-> replays[p].costs] /\ \A p \in Products : ~replays[p].short
    BY <1>11
  <2> QED
    BY <2>1, <1>5, <1>11 DEF Write
<1> QED
  BY <1>11, <1>12, <1>13 DEF BookInv, n, e, x

(* A commit leaves the other live transactions with what they have read.    *)
LEMMA OthersStay ==
    ASSUME LedgerInv, NEW w \in Writers, Commit(w), NEW v \in Writers, Live(v)'
    PROVE  /\ v # w /\ Live(v) /\ tx'[v] = tx[v] /\ tx[v].id # tx[w].id /\ Valid(v)'
<1>1. BookInv /\ Valid(w) /\ Live(w)
  BY DEF LedgerInv, Commit, Live
<1>2. tx' = [u \in Writers |-> IF u = w THEN Closed ELSE [tx[u] EXCEPT !.stale = @ \/ Conflicts(w, u)]]
  BY DEF Commit
<1>3. v # w
  BY <1>2 DEF Live, Closed
<1>4. TxForm(tx[v])
  BY DEF LedgerInv
<1>5. tx'[v] = [tx[v] EXCEPT !.stale = @ \/ Conflicts(w, v)]
  BY <1>2, <1>3
<1>6. tx'[v].open = tx[v].open /\ tx'[v].stale = (tx[v].stale \/ Conflicts(w, v))
  BY <1>4, <1>5 DEF TxForm
<1>7. Live(v) /\ ~Conflicts(w, v)
  BY <1>6 DEF Live
<1>8. tx'[v] = tx[v]
  <2>1. tx[v].stale = FALSE /\ Conflicts(w, v) = FALSE
    BY <1>4, <1>7 DEF Live, TxForm, Conflicts
  <2>2. tx'[v].stale = FALSE
    BY <1>6, <2>1
  <2>3. tx'[v] = [open |-> tx[v].open, id |-> tx[v].id, doc |-> tx[v].doc, products |-> tx[v].products,
                  costs |-> tx[v].costs, stale |-> FALSE]
    BY <1>4, <1>5, <2>1 DEF TxForm
  <2> QED
    BY <1>4, <2>1, <2>3 DEF TxForm
<1>9. Valid(v)
  BY <1>7 DEF LedgerInv
<1>10. tx[v].products \cap tx[w].products = {}
  BY <1>7 DEF Conflicts, Live
<1>11. /\ tx[v].products = Touched(docs[tx[v].id].doc) \cup Touched(tx[v].doc)
       /\ tx[w].products = Touched(docs[tx[w].id].doc) \cup Touched(tx[w].doc)
  BY <1>1, <1>9 DEF Valid, Affected
<1>12. docs \in [Documents -> Records] /\ IsFiniteSet(Holding(Contents(docs)))
  BY <1>1 DEF BookInv, BookSound
<1>13. Contents(docs) \in Ledgers /\ \A f \in Documents : Contents(docs)[f] = docs[f].doc
  BY <1>12, ContentsIs
<1>14. /\ tx[v].id \in Documents /\ tx[v].doc \in Entry \cup {NoDoc}
       /\ tx[w].id \in Documents /\ tx[w].doc \in Entry \cup {NoDoc}
       /\ docs[tx[v].id].doc \in Entry \cup {NoDoc} /\ docs[tx[w].id].doc \in Entry \cup {NoDoc}
  BY <1>1, <1>9, <1>13, ProposedIs DEF Valid, Ledgers
<1>15. tx[v].id # tx[w].id
  <2> SUFFICES ASSUME tx[v].id = tx[w].id PROVE FALSE
    OBVIOUS
  <2>1. docs[tx[w].id].doc # NoDoc
    BY <1>1, <1>3, <1>7 DEF LedgerInv
  <2>2. Touched(docs[tx[w].id].doc) # {}
    BY <2>1, <1>14, TouchedIs
  <2>3. Touched(docs[tx[w].id].doc) \subseteq tx[v].products \cap tx[w].products
    BY <1>11
  <2> QED
    BY <1>10, <2>2, <2>3
<1>16. docs'[tx[v].id].doc = docs[tx[v].id].doc
  <2>1. docs'[tx[v].id].doc = Contents(docs')[tx[v].id]
    BY <1>14 DEF Contents
  <2>2. Contents(docs') = [Contents(docs) EXCEPT ![tx[w].id] = tx[w].doc]
    BY CommitWrites DEF With
  <2> QED
    BY <2>1, <2>2, <1>13, <1>14, <1>15 DEF Ledgers
<1>17. ASSUME NEW p \in tx[v].products, NEW f \in Documents
       PROVE  docs'[f].doc = docs[f].doc \/ (docs[f].doc.items[p] = 0 /\ docs'[f].doc.items[p] = 0)
  <2>1. BookInv' /\ Contents(docs') = With(w)
    BY CommitWrites
  <2>2. docs' \in [Documents -> Records]
    BY <2>1 DEF BookInv, BookSound
  <2>3. \A g \in Documents : docs'[g].doc = With(w)[g]
    BY <2>1, <2>2, ContentsIs
  <2>4. With(w) = [Contents(docs) EXCEPT ![tx[w].id] = tx[w].doc]
    BY DEF With
  <2>5. p \in Products /\ p \notin Touched(docs[tx[w].id].doc) /\ p \notin Touched(tx[w].doc)
    BY <1>10, <1>11 DEF Touched
  <2>6. docs[tx[w].id].doc.items[p] = 0 /\ tx[w].doc.items[p] = 0
    BY <2>5, <1>14, TouchedIs
  <2>7. CASE f = tx[w].id
    BY <2>3, <2>4, <2>6, <2>7, <1>13 DEF Ledgers
  <2>8. CASE f # tx[w].id
    BY <2>3, <2>4, <2>8, <1>13 DEF Ledgers
  <2> QED
    BY <2>7, <2>8
<1>18. Valid(v)'
  BY <1>1, <1>8, <1>9, <1>16, <1>17, CommitWrites, ValidStays
<1> QED
  BY <1>3, <1>7, <1>8, <1>15, <1>18

(* The steps of the writers, one by one.                                    *)
LEMMA CommitKeeps ==
    ASSUME LedgerInv, NEW w \in Writers, Commit(w)
    PROVE  LedgerInv'
<1>1. BookInv'
  BY CommitWrites
<1>2. tx' = [v \in Writers |-> IF v = w THEN Closed ELSE [tx[v] EXCEPT !.stale = @ \/ Conflicts(w, v)]]
  BY DEF Commit
<1>3. ASSUME NEW v \in Writers PROVE TxForm(tx'[v])
  <2>1. CASE v = w
    BY <1>2, <2>1 DEF Closed, TxForm
  <2>2. CASE v # w
    <3>1. TxForm(tx[v])
      BY DEF LedgerInv
    <3>2. tx'[v] = [tx[v] EXCEPT !.stale = @ \/ Conflicts(w, v)]
      BY <1>2, <2>2
    <3>3. Conflicts(w, v) \in BOOLEAN
      BY <3>1 DEF Conflicts, TxForm
    <3> QED
      BY <3>1, <3>2, <3>3 DEF TxForm
  <2> QED
    BY <2>1, <2>2
<1>4. tx' = [v \in Writers |-> tx'[v]]
  BY <1>2
<1>5. \A v \in Writers : Live(v)' => Valid(v)'
  BY OthersStay
<1>6. ASSUME NEW v \in Writers, NEW u \in Writers, Live(v)', Live(u)', v # u, tx'[v].id = tx'[u].id
      PROVE  docs'[tx'[u].id].doc # NoDoc
  <2>1. /\ Live(v) /\ tx'[v] = tx[v] /\ Live(u) /\ tx'[u] = tx[u] /\ tx[u].id # tx[w].id
    BY <1>6, OthersStay
  <2>2. docs[tx[u].id].doc # NoDoc
    BY <1>6, <2>1 DEF LedgerInv
  <2>3. docs'[tx[u].id].doc = docs[tx[u].id].doc
    <3>1. docs \in [Documents -> Records]
      BY DEF LedgerInv, BookInv, BookSound
    <3>2. tx[u].id \in Documents
      BY <2>1 DEF LedgerInv, Valid
    <3>3. Contents(docs') = [Contents(docs) EXCEPT ![tx[w].id] = tx[w].doc]
      BY CommitWrites DEF With
    <3> QED
      BY <3>1, <3>2, <3>3, <2>1, ContentsIs DEF Contents
  <2> QED
    BY <2>1, <2>2, <2>3
<1> QED
  BY <1>1, <1>3, <1>4, <1>5, <1>6 DEF LedgerInv

LEMMA PrepareKeeps ==
    ASSUME LedgerInv, NEW w \in Writers, NEW e \in Documents, NEW x \in Proposed(e), Prepare(w, e, x)
    PROVE  LedgerInv'
<1> DEFINE n == [Contents(docs) EXCEPT ![e] = x]
           replays == [p \in Affected(e, x) |-> Replay(n, p)]
           new == [open |-> TRUE, id |-> e, doc |-> x, products |-> Affected(e, x),
                   costs |-> [p \in Affected(e, x) |-> replays[p].costs], stale |-> FALSE]
<1>1. /\ ~tx[w].open /\ UNCHANGED docs
      /\ docs[e].doc = NoDoc => \A v \in Writers : ~(tx[v].open /\ tx[v].id = e)
      /\ \A p \in Affected(e, x) : ~replays[p].short
      /\ tx' = [tx EXCEPT ![w] = new]
  BY DEF Prepare
<1>2. tx = [v \in Writers |-> tx[v]] /\ \A v \in Writers : TxForm(tx[v])
  BY DEF LedgerInv
<1>3. tx'[w] = new /\ \A v \in Writers : v # w => tx'[v] = tx[v]
  <2> HIDE DEF new
  <2> QED
    BY <1>1, <1>2
<1>4. tx' = [v \in Writers |-> tx'[v]]
  <2> HIDE DEF new
  <2> QED
    BY <1>1, <1>2
<1>5. TxForm(tx'[w])
  BY <1>3 DEF TxForm
<1>6. tx'[w].id = e /\ tx'[w].doc = x /\ tx'[w].products = Affected(e, x) /\ tx'[w].open /\ ~tx'[w].stale
  BY <1>3
<1>7. \A p \in Affected(e, x) : tx'[w].costs[p] = Replay(n, p).costs /\ ~Replay(n, p).short
  <2>1. tx'[w].costs = [p \in Affected(e, x) |-> replays[p].costs]
    BY <1>3
  <2>2. \A p \in Affected(e, x) : replays[p] = Replay(n, p)
    OBVIOUS
  <2>3. \A p \in Affected(e, x) : ~replays[p].short
    BY <1>1
  <2> HIDE DEF replays, new, n
  <2> QED
    BY <2>1, <2>2, <2>3
<1> HIDE DEF new, replays
<1>8. Valid(w)'
  <2>1. With(w)' = n
    BY <1>1, <1>6 DEF With, Contents
  <2>2. tx'[w].doc \in Proposed(e)'
    BY <1>1, <1>6 DEF Proposed
  <2>3. tx'[w].products = Affected(e, x)'
    BY <1>1, <1>6 DEF Affected, Touched
  <2> HIDE DEF n
  <2> QED
    BY <1>6, <1>7, <2>1, <2>2, <2>3 DEF Valid
<1>9. ASSUME NEW v \in Writers, v # w, Live(v)' PROVE Live(v) /\ Valid(v)'
  <2>1. Live(v) /\ Valid(v)
    BY <1>3, <1>9 DEF Live, LedgerInv
  <2>2. Valid(v)'
    BY <1>1, <1>3, <1>9, <2>1 DEF Valid, With, Contents, Proposed, Affected, Touched
  <2> QED
    BY <2>1, <2>2
<1>10. ASSUME NEW v \in Writers, NEW u \in Writers, Live(v)', Live(u)', v # u, tx'[v].id = tx'[u].id
       PROVE  docs'[tx'[u].id].doc # NoDoc
  <2>1. CASE v # w /\ u # w
    BY <1>1, <1>3, <1>9, <1>10, <2>1 DEF LedgerInv
  <2>2. CASE v = w
    <3>1. tx[u].open /\ tx[u].id = e
      BY <1>3, <1>6, <1>9, <1>10, <2>2 DEF Live
    <3> QED
      BY <3>1, <1>1, <1>6, <1>10, <2>2
  <2>3. CASE u = w
    <3>1. tx[v].open /\ tx[v].id = e
      BY <1>3, <1>6, <1>9, <1>10, <2>3 DEF Live
    <3> QED
      BY <3>1, <1>1, <1>6, <2>3
  <2> QED
    BY <2>1, <2>2, <2>3
<1>11. BookInv'
  BY <1>1 DEF LedgerInv, BookInv
<1>12. \A v \in Writers : TxForm(tx'[v])
  BY <1>2, <1>3, <1>5
<1> QED
  BY <1>4, <1>8, <1>9, <1>10, <1>11, <1>12 DEF LedgerInv

LEMMA AbortKeeps ==
    ASSUME LedgerInv, NEW w \in Writers, Abort(w)
    PROVE  LedgerInv'
<1>1. tx' = [tx EXCEPT ![w] = Closed] /\ UNCHANGED docs
  BY DEF Abort
<1>2. tx = [v \in Writers |-> tx[v]] /\ \A v \in Writers : TxForm(tx[v])
  BY DEF LedgerInv
<1>3. tx'[w] = Closed /\ \A v \in Writers : v # w => tx'[v] = tx[v]
  BY <1>1, <1>2
<1>4. tx' = [v \in Writers |-> tx'[v]]
  BY <1>1, <1>2
<1>5. TxForm(Closed)
  BY DEF Closed, TxForm
<1>6. ASSUME NEW v \in Writers, Live(v)' PROVE v # w /\ Live(v) /\ tx'[v] = tx[v] /\ Valid(v)'
  <2>1. v # w
    BY <1>3, <1>6 DEF Live, Closed
  <2>2. Live(v) /\ Valid(v)
    BY <1>3, <1>6, <2>1 DEF Live, LedgerInv
  <2>3. Valid(v)'
    BY <1>1, <1>3, <2>1, <2>2 DEF Valid, With, Contents, Proposed, Affected, Touched
  <2> QED
    BY <1>3, <2>1, <2>2, <2>3
<1>7. BookInv'
  BY <1>1 DEF LedgerInv, BookInv
<1>8. \A v \in Writers : TxForm(tx'[v])
  BY <1>2, <1>3, <1>5
<1>9. \A v, u \in Writers : Live(v)' /\ Live(u)' /\ v # u /\ tx'[v].id = tx'[u].id => docs'[tx'[u].id].doc # NoDoc
  BY <1>1, <1>6 DEF LedgerInv
<1> QED
  BY <1>4, <1>6, <1>7, <1>8, <1>9 DEF LedgerInv

LEMMA LedgerStarts == LedgerInit => LedgerInv
<1> SUFFICES ASSUME LedgerInit PROVE LedgerInv
  OBVIOUS
<1>1. Init /\ tx = [w \in Writers |-> Closed]
  BY DEF LedgerInit
<1>2. \A w \in Writers : tx[w] = Closed /\ ~Live(w)
  BY <1>1 DEF Live, Closed
<1>3. TxForm(Closed)
  BY DEF Closed, TxForm
<1>4. tx = [w \in Writers |-> tx[w]]
  BY <1>1
<1> QED
  BY <1>1, <1>2, <1>3, <1>4, BookStarts DEF LedgerInv

LEMMA LedgerSteps == LedgerInv /\ [LedgerNext]_vars => LedgerInv'
<1> SUFFICES ASSUME LedgerInv, [LedgerNext]_vars PROVE LedgerInv'
  OBVIOUS
<1>1. ASSUME NEW w \in Writers, NEW e \in Documents, NEW x \in Proposed(e), Prepare(w, e, x) PROVE LedgerInv'
  BY <1>1, PrepareKeeps
<1>2. ASSUME NEW w \in Writers, Commit(w) PROVE LedgerInv'
  BY <1>2, CommitKeeps
<1>3. ASSUME NEW w \in Writers, Abort(w) PROVE LedgerInv'
  BY <1>3, AbortKeeps
<1>4. CASE UNCHANGED vars
  <2>1. docs' = docs /\ tx' = tx
    BY <1>4 DEF vars
  <2>2. BookInv'
    BY <2>1 DEF LedgerInv, BookInv
  <2>3. ASSUME NEW w \in Writers, Live(w)' PROVE Valid(w)'
    <3>1. Valid(w)
      BY <2>1, <2>3 DEF LedgerInv, Live
    <3> QED
      BY <2>1, <3>1 DEF Valid, With, Contents, Proposed, Affected, Touched
  <2> QED
    BY <2>1, <2>2, <2>3 DEF LedgerInv, Live
<1> QED
  BY <1>1, <1>2, <1>3, <1>4 DEF LedgerNext

LEMMA LedgerMaps == LedgerInv /\ [LedgerNext]_vars => [Next]_docs
<1> SUFFICES ASSUME LedgerInv, [LedgerNext]_vars PROVE [Next]_docs
  OBVIOUS
<1>1. ASSUME NEW w \in Writers, NEW e \in Documents, NEW x \in Proposed(e), Prepare(w, e, x) PROVE UNCHANGED docs
  BY <1>1 DEF Prepare
<1>2. ASSUME NEW w \in Writers, Commit(w) PROVE Next
  <2>1. Valid(w)
    BY <1>2 DEF LedgerInv, Commit, Live
  <2>2. tx[w].id \in Documents /\ tx[w].doc \in Proposed(tx[w].id)
    BY <2>1 DEF Valid
  <2>3. docs'[tx[w].id].doc = tx[w].doc /\ Write(tx[w].id, docs'[tx[w].id].doc)
    BY <1>2, CommitWrites
  <2> QED
    BY <2>2, <2>3 DEF Next
<1>3. ASSUME NEW w \in Writers, Abort(w) PROVE UNCHANGED docs
  BY <1>3 DEF Abort
<1>4. CASE UNCHANGED vars
  BY <1>4 DEF vars
<1> QED
  BY <1>1, <1>2, <1>3, <1>4 DEF LedgerNext

(* Every live transaction would store what a replay of the present          *)
(* documents gives.                                                         *)
THEOREM LedgerInvariant == LedgerSpec => []LedgerInv
<1>1. LedgerInit => LedgerInv
  BY LedgerStarts
<1>2. LedgerInv /\ [LedgerNext]_vars => LedgerInv'
  BY LedgerSteps
<1> QED
  BY <1>1, <1>2, PTL DEF LedgerSpec

(* Writers whose transactions overlap leave the stock book as if they had   *)
(* come one after the other.                                                *)
THEOREM LedgerImplements == LedgerSpec => Spec
<1>1. LedgerInit => Init
  BY DEF LedgerInit
<1>2. LedgerInv /\ [LedgerNext]_vars => [Next]_docs
  BY LedgerMaps
<1> QED
  BY <1>1, <1>2, LedgerInvariant, PTL DEF LedgerSpec, Spec

(* On no day was more sold than had been bought.                            *)
THEOREM StockHolds == LedgerSpec => []NeverOversold
<1>1. LedgerInv => NeverOversold
  BY NotOversold DEF LedgerInv
<1> QED
  BY <1>1, LedgerInvariant, PTL

(* Stored unit costs are prices paid, they add up, and they are current.    *)
THEOREM CostsHold == LedgerSpec => []CostsSound
<1>1. LedgerInv => CostsSound
  BY CostsAreSound DEF LedgerInv
<1> QED
  BY <1>1, LedgerInvariant, PTL

-----------------------------------------------------------------------------
(* The opening ledger.  A key names a document that is there, and after an   *)
(* import every key does.                                                   *)
OpeningInv ==
    /\ LedgerInv
    /\ keyed = [k \in Keys |-> keyed[k]]
    /\ \A k \in Keys : keyed[k] # 0 => keyed[k] \in Documents /\ docs[keyed[k]].doc # NoDoc
    /\ imported => \A k \in Keys : keyed[k] # 0

LEMMA OpeningStarts == OpeningInit => OpeningInv
BY LedgerStarts DEF OpeningInit, OpeningInv

LEMMA BookkeepingKeeps == OpeningInv /\ Bookkeeping => OpeningInv'
<1> SUFFICES ASSUME OpeningInv, Bookkeeping PROVE OpeningInv'
  OBVIOUS
<1>1. LedgerInv'
  BY LedgerSteps DEF OpeningInv, Bookkeeping
<1>2. docs' \in [Documents -> Records]
  BY <1>1 DEF LedgerInv, BookInv, BookSound
<1>3. keyed' = [k \in Keys |-> IF keyed[k] # 0 /\ docs'[keyed[k]].doc = NoDoc THEN 0 ELSE keyed[k]]
  BY DEF Bookkeeping
<1>4. \A k \in Keys : keyed'[k] # 0 => keyed'[k] \in Documents /\ docs'[keyed'[k]].doc # NoDoc
  BY <1>3 DEF OpeningInv
<1>5. keyed' = [k \in Keys |-> keyed'[k]]
  BY <1>3
<1>6. imported' = FALSE
  BY DEF Bookkeeping
<1> QED
  BY <1>1, <1>4, <1>5, <1>6 DEF OpeningInv

(* What an import enters, and where. *)
Entering(ids, new) ==
    /\ ids \in [Missing -> Free]
    /\ \A j, k \in Missing : ids[j] = ids[k] => j = k
    /\ new = [e \in Documents |-> new[e]]
    /\ \A k \in Missing : new[ids[k]] = OpeningDoc(k)
    /\ \A e \in Documents : (\A k \in Missing : ids[k] # e) => new[e] = docs[e].doc

Replayed == UNION {Touched(OpeningDoc(k)) : k \in Missing}

Imported(ids, new) ==
    /\ Entering(ids, new)
    /\ \A p \in Replayed : ~Replay(new, p).short
    /\ docs' = Costed(docs, new, Replayed, [p \in Replayed |-> Replay(new, p).costs])
    /\ keyed' = [k \in Keys |-> IF k \in Missing THEN ids[k] ELSE keyed[k]]
    /\ imported' = TRUE
    /\ tx' = [w \in Writers |->
                 [tx[w] EXCEPT !.stale = tx[w].open /\ (@ \/ tx[w].products \cap Replayed # {})]]

LEMMA ImportsIs ==
    ASSUME Imports PROVE \E ids, new : Imported(ids, new)
<1> DEFINE KeysAt(ids, e) == {k \in Missing : ids[k] = e}
           New(ids) == [e \in Documents |-> IF KeysAt(ids, e) = {} THEN docs[e].doc
                                            ELSE OpeningDoc(CHOOSE k \in KeysAt(ids, e) : TRUE)]
           Replays2(new) == [p \in Replayed |-> Replay(new, p)]
<1>1. PICK ids \in [Missing -> Free] :
         /\ \A j, k \in Missing : ids[j] = ids[k] => j = k
         /\ \A p \in Replayed : ~Replays2(New(ids))[p].short
         /\ docs' = Costed(docs, New(ids), Replayed, [p \in Replayed |-> Replays2(New(ids))[p].costs])
         /\ keyed' = [k \in Keys |-> IF k \in Missing THEN ids[k] ELSE keyed[k]]
         /\ imported' = TRUE
         /\ tx' = [w \in Writers |->
                      [tx[w] EXCEPT !.stale = tx[w].open /\ (@ \/ tx[w].products \cap Replayed # {})]]
  BY DEF Imports, Replayed
<1> DEFINE new == New(ids)
<1>2. \A k \in Missing : ids[k] \in Documents
  BY DEF Free
<1>3. new = [e \in Documents |-> new[e]]
  OBVIOUS
<1>4. ASSUME NEW k \in Missing PROVE new[ids[k]] = OpeningDoc(k)
  <2>1. KeysAt(ids, ids[k]) = {k}
    BY <1>1
  <2>2. (CHOOSE j \in {k} : TRUE) = k
    OBVIOUS
  <2>3. new[ids[k]] = IF KeysAt(ids, ids[k]) = {} THEN docs[ids[k]].doc
                      ELSE OpeningDoc(CHOOSE j \in KeysAt(ids, ids[k]) : TRUE)
    BY <1>2
  <2> HIDE DEF KeysAt, new
  <2> QED
    BY <2>1, <2>2, <2>3
<1>5. ASSUME NEW e \in Documents, \A k \in Missing : ids[k] # e PROVE new[e] = docs[e].doc
  <2>1. KeysAt(ids, e) = {}
    BY <1>5
  <2>2. new[e] = IF KeysAt(ids, e) = {} THEN docs[e].doc ELSE OpeningDoc(CHOOSE k \in KeysAt(ids, e) : TRUE)
    OBVIOUS
  <2> QED
    BY <2>1, <2>2
<1>6. Entering(ids, new)
  <2> HIDE DEF new
  <2> QED
    BY <1>1, <1>3, <1>4, <1>5 DEF Entering
<1>7. \A p \in Replayed : Replays2(new)[p] = Replay(new, p)
  OBVIOUS
<1>8. /\ \A p \in Replayed : ~Replay(new, p).short
      /\ docs' = Costed(docs, new, Replayed, [p \in Replayed |-> Replay(new, p).costs])
  <2>1. \A p \in Replayed : ~Replays2(new)[p].short
    BY <1>1
  <2>2. docs' = Costed(docs, new, Replayed, [p \in Replayed |-> Replays2(new)[p].costs])
    BY <1>1
  <2> HIDE DEF Replays2, new
  <2>3. [p \in Replayed |-> Replays2(new)[p].costs] = [p \in Replayed |-> Replay(new, p).costs]
    BY <1>7
  <2> QED
    BY <2>1, <2>2, <2>3, <1>7
<1>9. Imported(ids, new)
  <2> HIDE DEF new
  <2> QED
    BY <1>1, <1>6, <1>8 DEF Imported
<1> QED
  BY <1>9

(* The book after an import. *)
LEMMA EnteringIs ==
    ASSUME OpeningInv, NEW ids, NEW new, Entering(ids, new)
    PROVE  /\ new \in Ledgers /\ IsFiniteSet(Holding(new))
           /\ \A k \in Missing : /\ ids[k] \in Documents /\ ids[k] # 0 /\ docs[ids[k]].doc = NoDoc
                                 /\ OpeningDoc(k) \in Entry
           /\ \A p \in Products, f \in Documents :
                 \/ new[f] = docs[f].doc
                 \/ docs[f].doc = NoDoc /\ (p \notin Replayed => docs[f].doc.items[p] = 0 /\ new[f].items[p] = 0)
<1>1. docs \in [Documents -> Records] /\ IsFiniteSet(Holding(Contents(docs)))
  BY DEF OpeningInv, LedgerInv, BookInv, BookSound
<1>2. Contents(docs) \in Ledgers /\ \A f \in Documents : Contents(docs)[f] = docs[f].doc
  BY <1>1, ContentsIs
<1>3. ASSUME NEW k \in Missing
      PROVE  /\ ids[k] \in Documents /\ ids[k] # 0 /\ docs[ids[k]].doc = NoDoc
             /\ OpeningDoc(k) \in Entry /\ new[ids[k]] = OpeningDoc(k)
  <2>1. ids[k] \in Free /\ k \in Keys
    BY DEF Entering, Missing
  <2> QED
    BY <2>1, OpeningAssumption DEF Free, Entry, Entering
<1>4. ASSUME NEW f \in Documents PROVE new[f] = docs[f].doc \/ \E k \in Missing : f = ids[k]
  BY DEF Entering
<1>5. new \in Ledgers
  <2>1. ASSUME NEW f \in Documents PROVE new[f] \in Entry \cup {NoDoc}
    <3>1. docs[f].doc \in Entry \cup {NoDoc}
      BY <1>2 DEF Ledgers
    <3> QED
      BY <3>1, <1>3, <1>4
  <2>2. new = [f \in Documents |-> new[f]]
    BY DEF Entering
  <2> QED
    BY <2>1, <2>2 DEF Ledgers
<1>6. IsFiniteSet(Holding(new))
  <2>1. IsFiniteSet(Missing)
    <3>1. Missing \subseteq Keys
      BY DEF Missing
    <3> QED
      BY <3>1, FS_Subset, OpeningAssumption
  <2>2. IsFiniteSet({ids[k] : k \in Missing})
    <3> DEFINE T == {ids[k] : k \in Missing}
    <3>1. ids \in Surjection(Missing, T)
      <4>1. ids \in [Missing -> Free]
        BY DEF Entering
      <4> QED
        BY <4>1 DEF Surjection
    <3> HIDE DEF T
    <3>2. IsFiniteSet(T)
      BY <2>1, <3>1, FS_Surjection
    <3> QED
      BY <3>2 DEF T
  <2>3. IsFiniteSet(Holding(Contents(docs)) \cup {ids[k] : k \in Missing})
    BY <1>1, <2>2, FS_Union
  <2>4. Holding(new) \subseteq Holding(Contents(docs)) \cup {ids[k] : k \in Missing}
    BY <1>2, <1>4 DEF Holding
  <2> QED
    BY <2>3, <2>4, FS_Subset
<1>7. ASSUME NEW p \in Products, NEW f \in Documents, new[f] # docs[f].doc
      PROVE  docs[f].doc = NoDoc /\ (p \notin Replayed => docs[f].doc.items[p] = 0 /\ new[f].items[p] = 0)
  <2>1. PICK k \in Missing : f = ids[k]
    BY <1>4, <1>7
  <2>2. docs[f].doc = NoDoc /\ new[f] = OpeningDoc(k) /\ OpeningDoc(k) \in Entry
    BY <1>3, <2>1
  <2>3. p \notin Replayed => p \notin Touched(OpeningDoc(k))
    BY DEF Replayed
  <2> QED
    BY <2>2, <2>3, EntryTypes, TouchedIs
<1> QED
  BY <1>3, <1>5, <1>6, <1>7

LEMMA ImportedBook ==
    ASSUME OpeningInv, NEW ids, NEW new, Imported(ids, new)
    PROVE  BookInv' /\ Contents(docs') = new
<1>1. BookInv
  BY DEF OpeningInv, LedgerInv
<1>2. Entering(ids, new)
  BY DEF Imported
<1>3. new \in Ledgers /\ IsFiniteSet(Holding(new))
  BY <1>2, EnteringIs
<1>4. \A p \in Products \ Replayed : \A f \in Documents :
         new[f] = docs[f].doc \/ (docs[f].doc.items[p] = 0 /\ new[f].items[p] = 0)
  BY <1>2, EnteringIs
<1> DEFINE costs == [p \in Replayed |-> Replay(new, p).costs]
<1>5. \A p \in Replayed : ~Replay(new, p).short /\ costs[p] = Replay(new, p).costs
  BY DEF Imported
<1>6. docs' = Costed(docs, new, Replayed, costs)
  BY DEF Imported
<1> HIDE DEF costs
<1>7. BookSound(docs') /\ Contents(docs') = new
  BY <1>1, <1>3, <1>4, <1>5, <1>6, ReplayedEnough
<1> QED
  BY <1>7 DEF BookInv

(* The transactions under way that replayed what an import touched will not *)
(* commit; the others are of other documents.                               *)
LEMMA ImportedOthers ==
    ASSUME OpeningInv, NEW ids, NEW new, Imported(ids, new), NEW v \in Writers, Live(v)'
    PROVE  Live(v) /\ tx'[v] = tx[v] /\ docs'[tx[v].id].doc = docs[tx[v].id].doc /\ Valid(v)'
<1>1. LedgerInv /\ BookInv /\ Entering(ids, new) /\ BookInv' /\ Contents(docs') = new
  BY ImportedBook DEF OpeningInv, LedgerInv, Imported
<1>2. tx'[v] = [tx[v] EXCEPT !.stale = tx[v].open /\ (@ \/ tx[v].products \cap Replayed # {})]
  BY DEF Imported
<1>3. TxForm(tx[v])
  BY <1>1 DEF LedgerInv
<1>4. tx'[v].open = tx[v].open /\ tx'[v].stale = (tx[v].open /\ (tx[v].stale \/ tx[v].products \cap Replayed # {}))
  BY <1>2, <1>3 DEF TxForm
<1>5. Live(v) /\ tx[v].products \cap Replayed = {}
  BY <1>4 DEF Live
<1>6. tx'[v] = tx[v]
  <2>1. tx[v].stale = FALSE
    BY <1>3, <1>5 DEF Live, TxForm
  <2>2. tx'[v] = [open |-> tx[v].open, id |-> tx[v].id, doc |-> tx[v].doc, products |-> tx[v].products,
                  costs |-> tx[v].costs, stale |-> FALSE]
    BY <1>2, <1>3, <1>5, <2>1 DEF TxForm
  <2> QED
    BY <1>3, <2>1, <2>2 DEF TxForm
<1>7. Valid(v)
  BY <1>1, <1>5 DEF LedgerInv
<1>8. docs' \in [Documents -> Records]
  BY <1>1 DEF BookInv, BookSound
<1>9. \A f \in Documents : docs'[f].doc = new[f]
  BY <1>1, <1>8, ContentsIs
<1>10. docs'[tx[v].id].doc = docs[tx[v].id].doc
  <2>1. tx[v].id \in Documents
    BY <1>7 DEF Valid
  <2>2. \A k \in Missing : ids[k] # tx[v].id
    BY <1>1, <1>5 DEF Entering, Free, Live
  <2> QED
    BY <2>1, <2>2, <1>1, <1>9 DEF Entering
<1>11. ASSUME NEW p \in tx[v].products, NEW f \in Documents
       PROVE  docs'[f].doc = docs[f].doc \/ (docs[f].doc.items[p] = 0 /\ docs'[f].doc.items[p] = 0)
  <2>1. p \in Products /\ p \notin Replayed
    BY <1>5, <1>7 DEF Valid, Affected, Touched
  <2> QED
    BY <2>1, <1>1, <1>9, EnteringIs
<1>12. Valid(v)'
  BY <1>1, <1>6, <1>7, <1>10, <1>11, ValidStays
<1> QED
  BY <1>5, <1>6, <1>10, <1>12

LEMMA ImportsKeep == OpeningInv /\ Imports => OpeningInv'
<1> SUFFICES ASSUME OpeningInv, Imports PROVE OpeningInv'
  OBVIOUS
<1>1. PICK ids, new : Imported(ids, new)
  BY ImportsIs
<1>2. LedgerInv /\ Entering(ids, new) /\ BookInv' /\ Contents(docs') = new
  BY <1>1, ImportedBook DEF OpeningInv, Imported
<1>3. docs' \in [Documents -> Records]
  BY <1>2 DEF BookInv, BookSound
<1>4. \A f \in Documents : docs'[f].doc = new[f]
  BY <1>2, <1>3, ContentsIs
<1>5. tx' = [w \in Writers |->
                [tx[w] EXCEPT !.stale = tx[w].open /\ (@ \/ tx[w].products \cap Replayed # {})]]
  BY <1>1 DEF Imported
<1>6. tx' = [w \in Writers |-> tx'[w]] /\ \A w \in Writers : TxForm(tx'[w])
  <2>1. ASSUME NEW w \in Writers PROVE TxForm(tx'[w])
    <3>1. TxForm(tx[w])
      BY <1>2 DEF LedgerInv
    <3>2. tx'[w] = [tx[w] EXCEPT !.stale = tx[w].open /\ (@ \/ tx[w].products \cap Replayed # {})]
      BY <1>5
    <3> DEFINE stale == tx[w].open /\ (tx[w].stale \/ tx[w].products \cap Replayed # {})
    <3>3. stale \in BOOLEAN
      OBVIOUS
    <3>4. tx'[w] = [tx[w] EXCEPT !.stale = stale]
      BY <3>2
    <3> HIDE DEF stale
    <3> QED
      BY <3>1, <3>3, <3>4 DEF TxForm
  <2> QED
    BY <1>5, <2>1
<1>7. \A v \in Writers : Live(v)' => Live(v) /\ tx'[v] = tx[v] /\ docs'[tx[v].id].doc = docs[tx[v].id].doc /\ Valid(v)'
  BY <1>1, ImportedOthers
<1>8. ASSUME NEW v \in Writers, NEW u \in Writers, Live(v)', Live(u)', v # u, tx'[v].id = tx'[u].id
      PROVE  docs'[tx'[u].id].doc # NoDoc
  <2>1. Live(v) /\ Live(u) /\ tx'[v] = tx[v] /\ tx'[u] = tx[u] /\ docs'[tx[u].id].doc = docs[tx[u].id].doc
    BY <1>7, <1>8
  <2> QED
    BY <2>1, <1>2, <1>8 DEF LedgerInv
<1>9. LedgerInv'
  BY <1>2, <1>6, <1>7, <1>8 DEF LedgerInv
<1>10. keyed' = [k \in Keys |-> IF k \in Missing THEN ids[k] ELSE keyed[k]] /\ imported' = TRUE
  BY <1>1 DEF Imported
<1>11. ASSUME NEW k \in Keys
       PROVE  keyed'[k] # 0 /\ keyed'[k] \in Documents /\ docs'[keyed'[k]].doc # NoDoc
  <2>1. CASE k \in Missing
    <3>1. keyed'[k] = ids[k] /\ ids[k] \in Documents /\ ids[k] # 0 /\ OpeningDoc(k) \in Entry
      BY <2>1, <1>2, <1>10, EnteringIs
    <3>2. new[ids[k]] = OpeningDoc(k)
      BY <2>1, <1>2 DEF Entering
    <3> QED
      BY <3>1, <3>2, <1>4, EntryTypes
  <2>2. CASE k \notin Missing
    <3>1. keyed'[k] = keyed[k] /\ keyed[k] # 0
      BY <2>2, <1>10 DEF Missing
    <3>2. keyed[k] \in Documents /\ docs[keyed[k]].doc # NoDoc
      BY <3>1 DEF OpeningInv
    <3>3. \A j \in Missing : ids[j] # keyed[k]
      BY <3>2, <1>2 DEF Entering, Free
    <3>4. new[keyed[k]] = docs[keyed[k]].doc
      BY <3>2, <3>3, <1>2 DEF Entering
    <3> QED
      BY <3>1, <3>2, <3>4, <1>4
  <2> QED
    BY <2>1, <2>2
<1>12. keyed' = [k \in Keys |-> keyed'[k]]
  BY <1>10
<1> QED
  BY <1>9, <1>10, <1>11, <1>12 DEF OpeningInv

LEMMA OpeningSteps == OpeningInv /\ [OpeningNext]_openingVars => OpeningInv'
<1> SUFFICES ASSUME OpeningInv, [OpeningNext]_openingVars PROVE OpeningInv'
  OBVIOUS
<1>1. CASE Bookkeeping
  BY <1>1, BookkeepingKeeps
<1>2. CASE Imports
  BY <1>2, ImportsKeep
<1>3. CASE UNCHANGED openingVars
  <2>1. [LedgerNext]_vars
    BY <1>3 DEF openingVars
  <2>2. LedgerInv'
    BY <2>1, LedgerSteps DEF OpeningInv
  <2> QED
    BY <1>3, <2>2 DEF openingVars, vars, OpeningInv
<1> QED
  BY <1>1, <1>2, <1>3 DEF OpeningNext

(* An import into an empty ledger enters the approved figures: every price  *)
(* paid is that of the opening purchase, and so is every cost.               *)
LEMMA EmptyAgrees ==
    ASSUME OpeningInv, NEW ids, NEW new, Imported(ids, new),
           \A e \in Documents : docs[e].doc = NoDoc
    PROVE  Agrees'
<1>1. Entering(ids, new) /\ BookInv' /\ Contents(docs') = new
  BY ImportedBook DEF Imported
<1>2. docs' \in [Documents -> Records]
  BY <1>1 DEF BookInv, BookSound
<1>3. \A f \in Documents : docs'[f].doc = new[f]
  BY <1>1, <1>2, ContentsIs
<1>4. Missing = Keys
  BY DEF Missing, OpeningInv
<1>5. \A k \in Keys : keyed'[k] = ids[k] /\ ids[k] \in Documents /\ docs'[ids[k]].doc = OpeningDoc(k)
  <2> SUFFICES ASSUME NEW k \in Keys PROVE keyed'[k] = ids[k] /\ ids[k] \in Documents /\ docs'[ids[k]].doc = OpeningDoc(k)
    OBVIOUS
  <2>1. keyed'[k] = ids[k]
    BY <1>4 DEF Imported
  <2>2. k \in Missing
    BY <1>4
  <2>3. new[ids[k]] = OpeningDoc(k)
    BY <1>1, <2>2 DEF Entering
  <2>4. ids[k] \in Documents
    BY <1>1, <2>2, EnteringIs
  <2> QED
    BY <2>1, <2>3, <2>4, <1>3
<1>6. \A f \in Documents : docs'[f].doc.kind = "purchase" => docs'[f].doc = OpeningDoc(Purchase)
  <2> SUFFICES ASSUME NEW f \in Documents, docs'[f].doc.kind = "purchase" PROVE docs'[f].doc = OpeningDoc(Purchase)
    OBVIOUS
  <2>1. CASE \E k \in Keys : ids[k] = f
    <3>1. PICK k \in Keys : docs'[f].doc = OpeningDoc(k)
      BY <2>1, <1>5
    <3> QED
      BY <3>1 DEF OpeningDoc
  <2>2. CASE \A k \in Keys : ids[k] # f
    <3>1. docs'[f].doc = NoDoc
      BY <2>2, <1>1, <1>3, <1>4 DEF Entering
    <3> QED
      BY <3>1 DEF NoDoc
  <2> QED
    BY <2>1, <2>2
<1>7. Purchase \in Keys
  BY DEF Keys
<1>8. /\ OpeningDoc(Purchase).date = OpeningDate /\ OpeningDoc(Purchase).cost = OpeningCost
      /\ \A p \in Products : OpeningDoc(Purchase).items[p] = Opening[p].bought
  BY DEF OpeningDoc
<1>9. ASSUME NEW k \in Keys \ {Purchase}
      PROVE  /\ k \in Products /\ OpeningDoc(k).kind = "sale" /\ OpeningDoc(k).date = OpeningDate
             /\ OpeningDoc(k).items = [NoItems EXCEPT ![k] = Opening[k].sold]
             /\ OpeningDoc(k).items[k] > 0
  BY <1>9 DEF OpeningDoc, Keys, NoItems
<1>10. CostWithinPrices'
  <2>1. (BookInv => CostWithinPrices)'
    BY WithinPrices, PTL
  <2> QED
    BY <1>1, <2>1
<1>11. ASSUME NEW k \in Keys \ {Purchase} PROVE docs'[ids[k]].snapshot[k] = Grain * OpeningCost
  <2> DEFINE e == ids[k]
  <2>1. e \in Documents /\ docs'[e].doc = OpeningDoc(k) /\ k \in Products
    BY <1>5, <1>9
  <2>2. Contents(docs')[e] = OpeningDoc(k)
    BY <2>1, <1>1, <1>3
  <2>3. e \in Entries(Contents(docs'), k) /\ Contents(docs')[e].kind = "sale"
    BY <2>1, <2>2, <1>9 DEF Entries
  <2>4. PICK f, g \in Entries(Contents(docs'), k) :
           /\ Contents(docs')[f].kind = "purchase" /\ docs'[e].snapshot[k] <= Grain * Contents(docs')[f].cost
           /\ Contents(docs')[g].kind = "purchase" /\ docs'[e].snapshot[k] >= Grain * Contents(docs')[g].cost
    BY <1>10, <2>1, <2>3 DEF CostWithinPrices
  <2>5. f \in Documents /\ g \in Documents
    BY DEF Entries
  <2>6. Contents(docs')[f] = docs'[f].doc /\ Contents(docs')[g] = docs'[g].doc
    BY <1>1, <1>3, <2>5
  <2>7. Contents(docs')[f].cost = OpeningCost /\ Contents(docs')[g].cost = OpeningCost
    BY <2>4, <2>5, <2>6, <1>6, <1>8
  <2>8. docs'[e].snapshot[k] \in Nat
    BY <1>2, <2>1 DEF Records
  <2>9. OpeningCost \in Nat /\ Grain \in Nat
    <3>1. OpeningDoc(Purchase) \in Entry
      BY <1>7, OpeningAssumption DEF Entry
    <3> QED
      BY <3>1, <1>8, EntryTypes, StockAssumption
  <2>10. Grain * OpeningCost \in Nat
    BY <2>9
  <2> HIDE DEF e
  <2>11. docs'[e].snapshot[k] <= Grain * OpeningCost /\ docs'[e].snapshot[k] >= Grain * OpeningCost
    BY <2>4, <2>7
  <2> QED
    BY <2>8, <2>10, <2>11 DEF e
<1> QED
  BY <1>5, <1>7, <1>8, <1>9, <1>11 DEF Agrees

(* Nothing to enter, nothing written. *)
LEMMA RepeatWritesNothing ==
    ASSUME OpeningInv, NEW ids, NEW new, Imported(ids, new), Missing = {}
    PROVE  docs' = docs
<1>1. BookInv /\ Entering(ids, new) /\ BookInv' /\ Contents(docs') = new
  BY ImportedBook DEF OpeningInv, LedgerInv, Imported
<1>2. /\ docs \in [Documents -> Records] /\ Contents(docs) \in Ledgers
      /\ \A f \in Documents : Contents(docs)[f] = docs[f].doc
  BY <1>1, ContentsIs DEF BookInv, BookSound
<1>3. /\ docs' \in [Documents -> Records] /\ Contents(docs') \in Ledgers
      /\ \A f \in Documents : Contents(docs')[f] = docs'[f].doc
  BY <1>1, ContentsIs DEF BookInv, BookSound
<1>4. \A f \in Documents : docs'[f].doc = docs[f].doc
  BY <1>1, <1>3 DEF Entering
<1>5. Contents(docs') = Contents(docs)
  BY <1>4 DEF Contents
<1>6. ASSUME NEW f \in Documents PROVE docs'[f] = docs[f]
  <2>1. docs[f] \in Records /\ docs'[f] \in Records
    BY <1>2, <1>3
  <2>2. ASSUME NEW p \in Products PROVE docs'[f].snapshot[p] = docs[f].snapshot[p]
    BY <1>1, <1>4, <1>5 DEF BookInv, BookSound
  <2>3. docs'[f].snapshot = docs[f].snapshot
    BY <2>1, <2>2 DEF Records
  <2> QED
    BY <2>1, <2>3, <1>4 DEF Records
<1> QED
  BY <1>2, <1>3, <1>6

(* What one step may do to the ledger. *)
OpeningStep ==
    /\ imported' =>
         /\ \A e \in Documents : docs[e].doc # NoDoc => docs'[e].doc = docs[e].doc
         /\ \A k \in Keys : keyed[k] # 0 => keyed'[k] = keyed[k]
         /\ imported /\ Agrees => docs' = docs
         /\ (\A e \in Documents : docs[e].doc = NoDoc) => Agrees'
    /\ imported => SnapshotsCurrent /\ NeverOversold

LEMMA OpeningStepIs ==
    OpeningInv /\ [OpeningNext]_openingVars => [OpeningStep]_openingVars
<1> SUFFICES ASSUME OpeningInv, OpeningNext PROVE OpeningStep
  OBVIOUS
<1>1. SnapshotsCurrent /\ NeverOversold
  BY CurrentSnapshots, NotOversold DEF OpeningInv, LedgerInv
<1>2. CASE Bookkeeping
  BY <1>1, <1>2 DEF Bookkeeping, OpeningStep
<1>3. CASE Imports
  <2>1. PICK ids, new : Imported(ids, new)
    BY <1>3, ImportsIs
  <2>2. Entering(ids, new) /\ BookInv' /\ Contents(docs') = new
    BY <2>1, ImportedBook DEF Imported
  <2>3. docs' \in [Documents -> Records]
    BY <2>2 DEF BookInv, BookSound
  <2>4. ASSUME NEW e \in Documents, docs[e].doc # NoDoc PROVE docs'[e].doc = docs[e].doc
    <3>1. \A k \in Missing : ids[k] # e
      BY <2>2, <2>4 DEF Entering, Free
    <3> QED
      BY <3>1, <2>2, <2>3, ContentsIs DEF Entering
  <2>5. \A k \in Keys : keyed[k] # 0 => keyed'[k] = keyed[k]
    BY <2>1 DEF Imported, Missing
  <2>6. imported => docs' = docs
    <3>1. imported => Missing = {}
      BY DEF OpeningInv, Missing
    <3> QED
      BY <3>1, <2>1, RepeatWritesNothing
  <2>7. (\A e \in Documents : docs[e].doc = NoDoc) => Agrees'
    BY <2>1, EmptyAgrees
  <2> QED
    BY <1>1, <2>4, <2>5, <2>6, <2>7 DEF OpeningStep
<1> QED
  BY <1>2, <1>3 DEF OpeningNext

(* Whatever administrators book beside it, and however often it is          *)
(* repeated, the import leaves the book sound and every key with its entry. *)
THEOREM OpeningInvariant == OpeningSpec => []OpeningInv
<1>1. OpeningInit => OpeningInv
  BY OpeningStarts
<1>2. OpeningInv /\ [OpeningNext]_openingVars => OpeningInv'
  BY OpeningSteps
<1> QED
  BY <1>1, <1>2, PTL DEF OpeningSpec

(* The opening ledger is entered as approved, once, for any approved rows.  *)
THEOREM OpeningEntered == OpeningSpec => OpeningAsApproved
<1>1. OpeningInv /\ [OpeningNext]_openingVars => [OpeningStep]_openingVars
  BY OpeningStepIs
<1>2. OpeningSpec => [][OpeningStep]_openingVars
  BY <1>1, OpeningInvariant, PTL DEF OpeningSpec
<1> QED
  BY <1>2 DEF OpeningAsApproved, OpeningStep

-----------------------------------------------------------------------------
(* The calendar of the recurring expenses: the months follow each other,    *)
(* every day is of one month, and a charge falls into its month.            *)
LEMMA LeastNat ==
    ASSUME NEW T \in SUBSET Nat, T # {}
    PROVE  \E n \in T : \A m \in T : ~(m < n)
<1>1. PICK n \in T : \A m \in T : ~(<<m, n>> \in OpToRel(<, Nat))
  BY NatLessThanWellFounded, WFMin
<1>2. n \in Nat /\ \A m \in T : m \in Nat
  OBVIOUS
<1>3. \A m \in T : ~(m < n)
  BY <1>1, <1>2 DEF OpToRel
<1> QED
  BY <1>3

LEMMA CalendarIs ==
    /\ Len(Lengths) \in Nat \ {0} /\ Months = 1..Len(Lengths)
    /\ \A m \in Months : Lengths[m] \in Nat \ {0}
<1>1. Lengths \in Seq(Nat \ {0}) /\ Lengths # <<>>
  BY CalendarAssumption
<1> QED
  BY <1>1 DEF Months

(* The recursion of First has a solution. *)
LEMMA FirstIs ==
    \A m \in 1..Len(Lengths) + 1 : First[m] = IF m = 1 THEN 1 ELSE First[m - 1] + Lengths[m - 1]
<1> DEFINE M == 1..Len(Lengths) + 1
           Value(g, m) == IF m = 1 THEN 1 ELSE g[m - 1] + Lengths[m - 1]
           On(n, g) == \A m \in 1..n : g[m] = Value(g, m)
           T == {n \in Nat : ~ \E g : On(n, g)}
<1>1. T = {}
  <2> SUFFICES ASSUME T # {} PROVE FALSE
    OBVIOUS
  <2>1. PICK n \in T : \A m \in T : ~(m < n)
    <3>1. T \in SUBSET Nat
      OBVIOUS
    <3> HIDE DEF T
    <3> QED
      BY <3>1, LeastNat
  <2>2. n \in Nat /\ ~ \E g : On(n, g)
    OBVIOUS
  <2>3. CASE n = 0
    <3> DEFINE g == [m \in M |-> 1]
    <3>1. On(n, g)
      BY <2>3
    <3> QED
      BY <3>1, <2>2
  <2>4. CASE n # 0
    <3>1. n - 1 \in Nat /\ n - 1 < n
      BY <2>2, <2>4
    <3>2. n - 1 \notin T
      <4> HIDE DEF T
      <4> QED
        BY <2>1, <3>1
    <3>3. PICK h : On(n - 1, h)
      BY <3>1, <3>2
    <3> DEFINE g == [m \in 1..n |-> IF m = n THEN Value(h, n) ELSE h[m]]
    <3>4. ASSUME NEW m \in 1..n PROVE g[m] = Value(g, m)
      <4>1. CASE m = n
        BY <4>1, <2>2, <2>4
      <4>2. CASE m # n
        <5>1. m \in 1..(n - 1)
          BY <4>2, <2>2
        <5>2. h[m] = Value(h, m)
          BY <5>1, <3>3
        <5>3. g[m] = h[m] /\ (m # 1 => g[m - 1] = h[m - 1])
          BY <4>2, <5>1, <2>2
        <5> HIDE DEF g
        <5> QED
          BY <5>2, <5>3
      <4> QED
        BY <4>1, <4>2
    <3>5. On(n, g)
      BY <3>4
    <3> QED
      BY <3>5, <2>2
  <2> QED
    BY <2>3, <2>4
<1>2. PICK g : On(Len(Lengths) + 1, g)
  <2>1. Len(Lengths) + 1 \in Nat
    BY CalendarIs
  <2> QED
    BY <2>1, <1>1
<1> DEFINE Solves(f) == f = [m \in M |-> IF m = 1 THEN 1 ELSE f[m - 1] + Lengths[m - 1]]
           h == [m \in M |-> g[m]]
<1>3. Solves(h)
  <2>1. ASSUME NEW m \in M PROVE h[m] = IF m = 1 THEN 1 ELSE h[m - 1] + Lengths[m - 1]
    <3>1. g[m] = Value(g, m)
      BY <1>2
    <3>2. h[m] = g[m] /\ (m # 1 => h[m - 1] = g[m - 1])
      BY CalendarIs
    <3> HIDE DEF h
    <3> QED
      BY <3>1, <3>2
  <2>2. h = [m \in M |-> h[m]]
    OBVIOUS
  <2> HIDE DEF h
  <2> QED
    BY <2>1, <2>2
<1>4. First = CHOOSE f : Solves(f)
  BY DEF First
<1>5. Solves(First)
  <2> HIDE DEF h, Solves
  <2> QED
    BY <1>3, <1>4
<1> QED
  BY <1>5

LEMMA FirstNext ==
    /\ First[1] = 1
    /\ \A m \in Months : First[m + 1] = First[m] + Lengths[m]
BY FirstIs, CalendarIs

(* Months begin one after the other. *)
LEMMA FirstRises ==
    \A n \in 1..Len(Lengths) + 1 : First[n] \in Nat /\ First[n] >= 1 /\ \A m \in 1..(n - 1) : First[m + 1] <= First[n]
<1> DEFINE Good(n) == First[n] \in Nat /\ First[n] >= 1 /\ \A m \in 1..(n - 1) : First[m + 1] <= First[n]
           T == {n \in 1..Len(Lengths) + 1 : ~Good(n)}
<1>1. T = {}
  <2> SUFFICES ASSUME T # {} PROVE FALSE
    OBVIOUS
  <2>1. PICK n \in T : \A m \in T : ~(m < n)
    <3>1. T \in SUBSET Nat
      BY CalendarIs
    <3> HIDE DEF T
    <3> QED
      BY <3>1, LeastNat
  <2>2. n \in 1..Len(Lengths) + 1 /\ ~Good(n)
    OBVIOUS
  <2>3. CASE n = 1
    BY <2>2, <2>3, FirstNext
  <2>4. CASE n # 1
    <3>1. n - 1 \in Months /\ n - 1 \in 1..Len(Lengths) + 1 /\ n - 1 < n
      BY <2>2, <2>4, CalendarIs
    <3>2. Good(n - 1)
      <4>1. n - 1 \notin T
        <5> HIDE DEF T
        <5> QED
          BY <2>1, <3>1
      <4> QED
        BY <3>1, <4>1
    <3>3. First[n] = First[n - 1] + Lengths[n - 1] /\ Lengths[n - 1] \in Nat \ {0}
      BY <3>1, FirstNext, CalendarIs
    <3>4. ASSUME NEW m \in 1..(n - 1) PROVE First[m + 1] <= First[n]
      <4>1. CASE m = n - 1
        BY <4>1, <3>1, <3>2, <3>3
      <4>2. CASE m # n - 1
        <5>1. m \in 1..((n - 1) - 1)
          BY <4>2, <3>1, CalendarIs
        <5>2. First[m + 1] <= First[n - 1]
          BY <5>1, <3>2
        <5>3. First[n - 1] \in Nat /\ First[m + 1] \in Int
          <6>1. m + 1 \in 1..Len(Lengths) + 1 /\ m + 1 < n
            BY <5>1, <3>1, CalendarIs
          <6>2. m + 1 \notin T
            <7> HIDE DEF T
            <7> QED
              BY <2>1, <6>1
          <6>3. Good(m + 1)
            BY <6>1, <6>2
          <6> QED
            BY <3>2, <6>3
        <5> QED
          BY <5>2, <5>3, <3>3
      <4> QED
        BY <4>1, <4>2
    <3>5. Good(n)
      BY <3>2, <3>3, <3>4
    <3> QED
      BY <3>5, <2>2
  <2> QED
    BY <2>3, <2>4
<1>2. ASSUME NEW n \in 1..Len(Lengths) + 1 PROVE Good(n)
  <2> HIDE DEF Good
  <2> QED
    BY <1>1
<1> QED
  BY <1>2

LEMMA DaysAre == Days = 1..First[Len(Lengths) + 1] - 1 /\ First[Len(Lengths) + 1] \in Nat
BY FirstRises, CalendarIs DEF Days

(* Every day is of a month. *)
LEMMA MonthIs ==
    ASSUME NEW d \in Days
    PROVE  /\ Month(d) \in Months /\ First[Month(d)] <= d /\ d < First[Month(d) + 1]
           /\ Month(d) \in Nat
<1> DEFINE T == {n \in 1..Len(Lengths) + 1 : d < First[n]}
<1>0. d \in Nat /\ d >= 1 /\ d < First[Len(Lengths) + 1]
  BY DaysAre
<1>1. PICK n \in T : \A m \in T : ~(m < n)
  <2>1. T \in SUBSET Nat /\ Len(Lengths) + 1 \in T
    BY <1>0, CalendarIs
  <2> HIDE DEF T
  <2> QED
    BY <2>1, LeastNat
<1>2. n \in 1..Len(Lengths) + 1 /\ d < First[n]
  OBVIOUS
<1>3. n # 1
  BY <1>0, <1>2, FirstNext
<1>4. n - 1 \in Months /\ n - 1 \in 1..Len(Lengths) + 1 /\ n - 1 < n
  BY <1>2, <1>3, CalendarIs
<1>5. n - 1 \notin T
  <2> HIDE DEF T
  <2> QED
    BY <1>1, <1>4
<1>6. First[n - 1] <= d
  BY <1>0, <1>4, <1>5, FirstRises
<1>7. \E m \in Months : First[m] <= d /\ d < First[m + 1]
  <2>1. (n - 1) + 1 = n
    BY <1>4, CalendarIs
  <2> HIDE DEF T
  <2> QED
    BY <2>1, <1>2, <1>4, <1>6
<1>8. Month(d) \in Months /\ First[Month(d)] <= d /\ d < First[Month(d) + 1]
  BY <1>7 DEF Month
<1> QED
  BY <1>8, CalendarIs

(* A month before that of a day is over by then. *)
LEMMA MonthBefore ==
    ASSUME NEW d \in Days, NEW m \in Months, m < Month(d)
    PROVE  First[m + 1] <= First[Month(d)] /\ First[m + 1] <= d
<1>1. Month(d) \in Months /\ First[Month(d)] <= d /\ Month(d) \in Nat
  BY MonthIs
<1>2. Month(d) \in 1..Len(Lengths) + 1 /\ m \in 1..(Month(d) - 1) /\ m + 1 \in 1..Len(Lengths) + 1
  BY <1>1, CalendarIs
<1>3. First[m + 1] <= First[Month(d)] /\ First[m + 1] \in Nat /\ First[Month(d)] \in Nat
  BY <1>2, FirstRises
<1>4. d \in Nat
  BY DaysAre
<1> QED
  BY <1>1, <1>3, <1>4

LEMMA MonthOrder ==
    ASSUME NEW d \in Days, NEW e \in Days, d <= e
    PROVE  Month(d) <= Month(e)
<1> SUFFICES ASSUME Month(e) < Month(d) PROVE FALSE
  BY MonthIs
<1>1. Month(e) \in Months /\ e < First[Month(e) + 1]
  BY MonthIs
<1>2. First[Month(e) + 1] <= d
  BY <1>1, MonthBefore
<1>3. First[Month(e) + 1] \in Nat /\ d \in Nat /\ e \in Nat
  BY <1>1, FirstRises, CalendarIs, DaysAre
<1> QED
  BY <1>1, <1>2, <1>3

LEMMA LesserOf ==
    ASSUME NEW a \in Int, NEW b \in Int
    PROVE  Min({a, b}) \in {a, b} /\ Min({a, b}) <= a /\ Min({a, b}) <= b
<1>1. \E x \in {a, b} : \A y \in {a, b} : x <= y
  <2>1. CASE a <= b
    BY <2>1
  <2>2. CASE ~(a <= b)
    BY <2>2
  <2> QED
    BY <2>1, <2>2
<1>2. Min({a, b}) \in {a, b} /\ \A y \in {a, b} : Min({a, b}) <= y
  BY <1>1 DEF Min
<1> QED
  BY <1>2

(* A charge falls into its month, whatever the template's day. *)
LEMMA OccurrenceIs ==
    ASSUME NEW s \in Days, NEW m \in Months
    PROVE  /\ First[m] <= OccurrenceDate(s, m) /\ OccurrenceDate(s, m) < First[m + 1]
           /\ OccurrenceDate(s, m) \in Days
<1>1. Month(s) \in Months /\ First[Month(s)] <= s /\ s \in Nat
  BY MonthIs, DaysAre
<1>2. First[Month(s)] \in Nat /\ First[m] \in Nat /\ First[m] >= 1 /\ First[m + 1] = First[m] + Lengths[m]
      /\ Lengths[m] \in Nat \ {0} /\ First[m + 1] <= First[Len(Lengths) + 1]
  <2>1. Month(s) \in 1..Len(Lengths) + 1 /\ m \in 1..Len(Lengths) + 1
        /\ Len(Lengths) + 1 \in 1..Len(Lengths) + 1 /\ m \in 1..(Len(Lengths) + 1 - 1)
    BY <1>1, CalendarIs
  <2>2. First[Month(s)] \in Nat /\ First[m] \in Nat /\ First[m] >= 1
    BY <2>1, FirstRises
  <2>3. First[m + 1] <= First[Len(Lengths) + 1]
    BY <2>1, FirstRises
  <2>4. Lengths[m] \in Nat \ {0}
    BY CalendarIs
  <2>5. First[m + 1] = First[m] + Lengths[m]
    BY FirstNext
  <2> QED
    BY <2>2, <2>3, <2>4, <2>5
<1> DEFINE k == Min({s - First[Month(s)], Lengths[m] - 1})
<1>3. k \in Nat /\ k <= Lengths[m] - 1
  <2> DEFINE a == s - First[Month(s)]
             b == Lengths[m] - 1
  <2>1. a \in Nat /\ b \in Nat
    BY <1>1, <1>2
  <2> HIDE DEF a, b
  <2>2. Min({a, b}) \in {a, b} /\ Min({a, b}) <= b
    BY <2>1, LesserOf
  <2>3. Min({a, b}) \in Nat
    BY <2>1, <2>2
  <2> QED
    BY <2>2, <2>3 DEF a, b
<1>4. OccurrenceDate(s, m) = First[m] + k
  BY DEF OccurrenceDate
<1> HIDE DEF k
<1>5. First[m] <= OccurrenceDate(s, m) /\ OccurrenceDate(s, m) < First[m + 1]
  BY <1>2, <1>3, <1>4
<1> QED
  BY <1>2, <1>3, <1>4, <1>5, DaysAre

(* A template that starts in a later month does not charge this one. *)
LEMMA NoneBefore ==
    ASSUME NEW s \in Days, NEW m \in Months, First[m + 1] <= s
    PROVE  ~(OccurrenceDate(s, m) >= s)
<1>1. OccurrenceDate(s, m) < First[m + 1] /\ OccurrenceDate(s, m) \in Nat /\ s \in Nat
  BY OccurrenceIs, DaysAre
<1>2. First[m + 1] \in Nat
  BY FirstRises, CalendarIs
<1> QED
  BY <1>1, <1>2

-----------------------------------------------------------------------------
(* The template and its charges.  What an open request has read: charges it *)
(* found are there, and where it saw a month that was over, to be charged   *)
(* and still is not, the template charges that month as it did.  Who writes *)
(* the template has its present row, and charges every month that was over  *)
(* for anyone.                                                              *)
ReadSound(o, t, book, day) ==
    /\ o.row \in Rows /\ o.now \in Days /\ o.now <= day
    /\ o.closed \subseteq {m \in Months : m < Month(day)}
    /\ \A m \in Months : o.book[m] # {} => book[m] = o.book[m]
    /\ \A m \in o.closed : book[m] = {} /\ o.row.active /\ Applies(o.row, m)
          => t.active /\ Applies(t, m) /\ Charge(t, m) = Charge(o.row, m)

Asked(o) ==
    \/ o.request.kind = "report" /\ o.request.through \in Days /\ o.request.from \in 1..Month(o.request.through)
    \/ o.request.kind = "update" /\ o.request.change \in Changes
    \/ o.request.kind = "delete"

Opened(r) == op[r] # <<>>
Writes(r) == op[r] # <<>> /\ op[r][1].request.kind # "report"

RecurringInv ==
    /\ RecurringTypeOK
    /\ charges = [m \in Months |-> charges[m]] /\ op = [r \in Requests |-> op[r]]
    /\ \A r \in Requests : Opened(r) => Asked(op[r][1]) /\ ReadSound(op[r][1], template, charges, today)
    /\ \A r \in Requests : Writes(r) =>
          /\ phase = "live" /\ op[r][1].row = template
          /\ \A s \in Requests : Opened(s) => \A m \in op[s][1].closed : m < Month(op[r][1].now)

LEMMA RowIs ==
    ASSUME NEW t \in Rows
    PROVE  t.active \in BOOLEAN /\ t.start \in Days /\ t.end \in Days \cup {Never} /\ t.terms \in Terms
BY DEF Rows

LEMMA InputsAreRows == Inputs \subseteq Rows
BY CalendarAssumption DEF Inputs, Rows

LEMMA ChargeIs ==
    ASSUME NEW t \in Rows, NEW m \in Months
    PROVE  Charge(t, m) \in [date : Days, terms : Terms]
BY RowIs, OccurrenceIs DEF Charge

(* A PATCH replaces the fields it carries. *)
LEMMA Patches ==
    ASSUME NEW t \in Rows, NEW c \in Changes, NEW n, n = Patched(t, c)
    PROVE  /\ n \in Rows
           /\ n.active = (IF Carries(c, "active") THEN c.active ELSE t.active)
           /\ n.start = IF Carries(c, "start") THEN c.start ELSE t.start
           /\ n.end = IF Carries(c, "end") THEN c.end ELSE t.end
           /\ Carries(c, "active") => c.active \in BOOLEAN
<1> DEFINE Names == {"active", "start", "end", "terms"}
<1>1. PICK F \in SUBSET Names, x \in Inputs : c = [f \in F |-> x[f]]
  BY DEF Changes
<1>2. DOMAIN t = Names /\ x \in Rows
  BY InputsAreRows DEF Rows
<1>3. DOMAIN c = F
  BY <1>1
<1>4. n = [f \in Names |-> IF f \in F THEN c[f] ELSE t[f]]
  BY <1>2, <1>3 DEF Patched, Carries
<1>5. n = [f \in Names |-> IF f \in F THEN x[f] ELSE t[f]]
  BY <1>1, <1>4
<1>6. /\ n.active = (IF "active" \in F THEN x.active ELSE t.active)
      /\ n.start = (IF "start" \in F THEN x.start ELSE t.start)
      /\ n.end = (IF "end" \in F THEN x.end ELSE t.end)
      /\ n.terms = (IF "terms" \in F THEN x.terms ELSE t.terms)
  BY <1>5
<1>7. n = [active |-> n.active, start |-> n.start, end |-> n.end, terms |-> n.terms]
  BY <1>5
<1>8. /\ n.active \in BOOLEAN /\ n.start \in Days /\ n.end \in Days \cup {Never} /\ n.terms \in Terms
  BY <1>2, <1>6, RowIs
<1>9. n \in Rows
  BY <1>7, <1>8 DEF Rows
<1>10. /\ "active" \in F => c.active = x.active
       /\ "start" \in F => c.start = x.start
       /\ "end" \in F => c.end = x.end
  BY <1>1
<1> QED
  BY <1>2, <1>3, <1>6, <1>9, <1>10, RowIs DEF Carries

LEMMA ResumedIs ==
    ASSUME NEW t \in Rows, NEW c \in Changes, NEW d \in Days, NEW n, n = Resumed(t, c, d)
    PROVE  /\ n \in Rows /\ n.active = t.active /\ n.end = t.end
           /\ n.start = IF ~t.active /\ Carries(c, "active") /\ c.active
                        THEN OccurrenceDate(t.start, Month(d)) ELSE t.start
<1>1. OccurrenceDate(t.start, Month(d)) \in Days
  BY RowIs, MonthIs, OccurrenceIs
<1> DEFINE s == OccurrenceDate(t.start, Month(d))
<1> HIDE DEF s
<1>2. s \in Days
  BY <1>1 DEF s
<1>3. [t EXCEPT !.start = s] \in Rows
  BY <1>2 DEF Rows
<1>4. /\ [t EXCEPT !.start = s].start = s /\ [t EXCEPT !.start = s].active = t.active
      /\ [t EXCEPT !.start = s].end = t.end
  BY DEF Rows
<1>5. n = IF ~t.active /\ Carries(c, "active") /\ c.active THEN [t EXCEPT !.start = s] ELSE t
  BY DEF Resumed, s
<1>6. CASE ~t.active /\ Carries(c, "active") /\ c.active
  <2>1. n = [t EXCEPT !.start = s]
    BY <1>5, <1>6
  <2> QED
    BY <2>1, <1>3, <1>4, <1>6 DEF s
<1>7. CASE ~(~t.active /\ Carries(c, "active") /\ c.active)
  BY <1>5, <1>7
<1> QED
  BY <1>6, <1>7

(* A transaction stores charges only where there are none. *)
LEMMA StoreIs ==
    ASSUME RecurringInv, NEW t \in Rows, NEW ms \in SUBSET Months, Store(t, ms)
    PROVE  /\ charges' = [m \in Months |-> charges'[m]]
           /\ \A m \in Months : charges'[m] \subseteq [date : Days, terms : Terms]
           /\ \A m \in Months : charges[m] # {} => charges'[m] = charges[m]
           /\ \A m \in ms : charges'[m] = {Charge(t, m)} /\ charges[m] = {}
           /\ \A m \in Months \ ms : charges'[m] = charges[m]
<1>1. /\ charges' = [m \in Months |-> IF m \in ms THEN {Charge(t, m)} ELSE charges[m]]
      /\ \A m \in ms : charges[m] = {}
  BY DEF Store
<1>2. \A m \in Months : charges[m] \subseteq [date : Days, terms : Terms]
  BY DEF RecurringInv, RecurringTypeOK
<1>3. \A m \in Months : Charge(t, m) \in [date : Days, terms : Terms]
  BY ChargeIs
<1>4. ASSUME NEW m \in Months PROVE charges'[m] \subseteq [date : Days, terms : Terms]
  BY <1>1, <1>2, <1>3
<1> QED
  BY <1>1, <1>4

(* What a request stores is of months it names. *)
LEMMA UnchargedIs ==
    ASSUME NEW t \in Rows, NEW book, NEW d \in Days
    PROVE  /\ Completed(t, book, d) = {m \in Months : m < Month(d) /\ book[m] = {} /\ Applies(t, m)}
           /\ \A from \in 1..Month(d) :
                 /\ Due(t, book, from, d) \subseteq {m \in Months : t.active /\ book[m] = {} /\ Applies(t, m)}
<1>1. Completed(t, book, d) = {m \in Months : m < Month(d) /\ book[m] = {} /\ Applies(t, m)}
  BY DEF Completed, Uncharged
<1>2. ASSUME NEW from \in 1..Month(d)
      PROVE  Due(t, book, from, d) \subseteq {m \in Months : t.active /\ book[m] = {} /\ Applies(t, m)}
  <2>1. from..Month(d) \subseteq Months
    BY MonthIs, CalendarIs
  <2> QED
    BY <2>1 DEF Due, Uncharged
<1> QED
  BY <1>1, <1>2

(* Requests may end, charges be added and days pass: what the others have   *)
(* read stays sound while the template stays.                               *)
LEMMA OthersRead ==
    ASSUME RecurringInv, template' = template, today' \in Days, today <= today',
           charges' = [m \in Months |-> charges'[m]],
           \A m \in Months : charges'[m] \subseteq [date : Days, terms : Terms],
           \A m \in Months : charges[m] # {} => charges'[m] = charges[m],
           op' = [s \in Requests |-> op'[s]], \A s \in Requests : op'[s] = <<>> \/ op'[s] = op[s],
           phase' \in {"unborn", "live", "deleted"},
           phase' = phase \/ \A s \in Requests : op'[s] = <<>> \/ op'[s][1].request.kind = "report"
    PROVE  RecurringInv'
<1>1. RecurringTypeOK'
  BY DEF RecurringInv, RecurringTypeOK
<1>2. today \in Days /\ Month(today) <= Month(today') /\ Month(today) \in Nat /\ Month(today') \in Nat
  BY MonthOrder, MonthIs DEF RecurringInv, RecurringTypeOK
<1>3. ASSUME NEW r \in Requests, Opened(r)'
      PROVE  Opened(r) /\ op'[r] = op[r] /\ Asked(op'[r][1]) /\ ReadSound(op'[r][1], template', charges', today')
  <2>1. op'[r] = op[r] /\ Opened(r)
    BY <1>3 DEF Opened
  <2> DEFINE o == op[r][1]
  <2>2. Asked(o) /\ ReadSound(o, template, charges, today)
    BY <2>1 DEF RecurringInv
  <2> HIDE DEF o
  <2>3. o.row \in Rows /\ o.now \in Days /\ o.now <= today'
    BY <2>2, DaysAre DEF ReadSound, RecurringInv, RecurringTypeOK
  <2>4. o.closed \subseteq {m \in Months : m < Month(today')}
    BY <2>2, <1>2, CalendarIs DEF ReadSound
  <2>5. \A m \in Months : o.book[m] # {} => charges'[m] = o.book[m]
    BY <2>2 DEF ReadSound
  <2>6. \A m \in o.closed : m \in Months /\ (charges'[m] = {} => charges[m] = {})
    BY <2>4
  <2>7. ReadSound(o, template', charges', today')
    BY <2>2, <2>3, <2>4, <2>5, <2>6 DEF ReadSound
  <2> QED
    BY <2>1, <2>2, <2>7 DEF o
<1>4. ASSUME NEW r \in Requests, Writes(r)'
      PROVE  /\ phase' = "live" /\ op'[r][1].row = template'
             /\ \A s \in Requests : Opened(s)' => \A m \in op'[s][1].closed : m < Month(op'[r][1].now)
  <2>1. op'[r] = op[r] /\ Writes(r)
    BY <1>4 DEF Writes
  <2>2. phase' = phase
    BY <1>4 DEF Writes
  <2> QED
    BY <2>1, <2>2, <1>3 DEF RecurringInv
<1>5. \A r \in Requests : Opened(r)' => Asked(op[r][1])' /\ ReadSound(op[r][1], template, charges, today)'
  BY <1>3 DEF Asked, ReadSound, Applies, Charge
<1> QED
  BY <1>1, <1>4, <1>5 DEF RecurringInv

LEMMA RecurringStarts == RecurringInit => RecurringInv
<1> SUFFICES ASSUME RecurringInit PROVE RecurringInv
  OBVIOUS
<1>1. 1 \in Days
  <2>1. Len(Lengths) \in 1..Len(Lengths) + 1 - 1 /\ Len(Lengths) + 1 \in 1..Len(Lengths) + 1 /\ 1 \in Months
        /\ 1 \in 1..(Len(Lengths) + 1 - 1)
    BY CalendarIs
  <2>2. First[1 + 1] <= First[Len(Lengths) + 1] /\ First[1] = 1 /\ First[1 + 1] = First[1] + Lengths[1]
    BY <2>1, FirstRises, FirstNext
  <2>3. Lengths[1] \in Nat \ {0} /\ First[Len(Lengths) + 1] \in Nat
    BY <2>1, CalendarIs, DaysAre
  <2>4. 1 < First[Len(Lengths) + 1]
    BY <2>2, <2>3
  <2> QED
    BY <2>3, <2>4, DaysAre
<1>2. RecurringTypeOK
  BY <1>1, InputsAreRows DEF RecurringInit, RecurringTypeOK
<1>3. \A r \in Requests : ~Opened(r) /\ ~Writes(r)
  BY DEF RecurringInit, Opened, Writes
<1>4. charges = [m \in Months |-> charges[m]] /\ op = [r \in Requests |-> op[r]]
  BY DEF RecurringInit
<1> QED
  BY <1>2, <1>3, <1>4 DEF RecurringInv

(* A request reads: what is over now is over for all who are under way.     *)
LEMMA SnapshotKeeps ==
    ASSUME RecurringInv, NEW r \in Requests, NEW request, NEW d \in Days, d <= today,
           Snapshot(r, request, d),
           \/ request.kind = "report" /\ request.through \in Days /\ request.from \in 1..Month(request.through)
           \/ request.kind = "update" /\ request.change \in Changes /\ d = today
           \/ request.kind = "delete" /\ d = today
    PROVE  RecurringInv'
<1> DEFINE o == [request |-> request, now |-> d, row |-> template, book |-> charges, closed |-> ClosedMonths]
<1>1. phase = "live" /\ op' = [op EXCEPT ![r] = <<o>>] /\ UNCHANGED <<today, phase, template, charges>>
  BY DEF Snapshot
<1>2. op = [s \in Requests |-> op[s]] /\ template \in Rows /\ today \in Days
  BY DEF RecurringInv, RecurringTypeOK
<1>3. o.request = request /\ o.now = d /\ o.row = template /\ o.book = charges /\ o.closed = ClosedMonths
  OBVIOUS
<1> HIDE DEF o
<1>4. op'[r] = <<o>> /\ op'[r][1] = o /\ op'[r] # <<>> /\ \A s \in Requests : s # r => op'[s] = op[s]
  BY <1>1, <1>2
<1>5. op' = [s \in Requests |-> op'[s]]
  BY <1>1, <1>2
<1>6. /\ ClosedMonths \subseteq {m \in Months : m < Month(today)}
      /\ \A s \in Requests : Opened(s) => ClosedMonths \subseteq op[s][1].closed
  BY DEF ClosedMonths, Opened
<1>7. ReadSound(o, template, charges, today)
  BY <1>2, <1>3, <1>6 DEF ReadSound
<1>8. Asked(o)
  BY <1>3 DEF Asked
<1>9. ASSUME NEW s \in Requests, Opened(s)'
      PROVE  Asked(op'[s][1]) /\ ReadSound(op'[s][1], template, charges, today)
  <2>1. CASE s = r
    BY <2>1, <1>4, <1>7, <1>8
  <2>2. CASE s # r
    <3>1. Opened(s) /\ op'[s] = op[s]
      BY <1>4, <1>9, <2>2 DEF Opened
    <3> QED
      BY <3>1 DEF RecurringInv
  <2> QED
    BY <2>1, <2>2
<1>10. ASSUME NEW s \in Requests, Writes(s)'
       PROVE  /\ phase = "live" /\ op'[s][1].row = template
              /\ \A u \in Requests : Opened(u)' => \A m \in op'[u][1].closed : m < Month(op'[s][1].now)
  <2>1. CASE s = r
    <3>1. d = today
      BY <1>3, <1>4, <1>10, <2>1 DEF Writes
    <3>2. \A u \in Requests : Opened(u)' => \A m \in op'[u][1].closed : m < Month(today)
      BY <1>9 DEF ReadSound
    <3> QED
      BY <1>1, <1>3, <1>4, <2>1, <3>1, <3>2
  <2>2. CASE s # r
    <3>1. Writes(s) /\ Opened(s) /\ op'[s] = op[s]
      BY <1>4, <1>10, <2>2 DEF Writes, Opened
    <3>2. op[s][1].row = template /\ \A u \in Requests : Opened(u) => \A m \in op[u][1].closed : m < Month(op[s][1].now)
      BY <3>1 DEF RecurringInv
    <3>3. \A m \in ClosedMonths : m < Month(op[s][1].now)
      BY <3>1, <3>2, <1>6
    <3>4. ASSUME NEW u \in Requests, Opened(u)', NEW m \in op'[u][1].closed PROVE m < Month(op[s][1].now)
      <4>1. CASE u = r
        BY <4>1, <1>3, <1>4, <3>3, <3>4
      <4>2. CASE u # r
        BY <4>2, <1>4, <3>2, <3>4 DEF Opened
      <4> QED
        BY <4>1, <4>2
    <3> QED
      BY <1>1, <3>1, <3>2, <3>4
  <2> QED
    BY <2>1, <2>2
<1>11. RecurringTypeOK' /\ charges' = [m \in Months |-> charges'[m]]
  BY <1>1 DEF RecurringInv, RecurringTypeOK
<1>12. \A s \in Requests : Opened(s)' => Asked(op[s][1])' /\ ReadSound(op[s][1], template, charges, today)'
  BY <1>1, <1>9 DEF Asked, ReadSound, Applies, Charge
<1> QED
  BY <1>1, <1>5, <1>10, <1>11, <1>12 DEF RecurringInv

LEMMA BeginKeeps ==
    ASSUME RecurringInv, NEW r \in Requests, Begin(r)
    PROVE  RecurringInv'
<1>1. today \in Days /\ today <= today
  BY DaysAre DEF RecurringInv, RecurringTypeOK
<1>2. ASSUME NEW c \in Changes, Snapshot(r, [kind |-> "update", change |-> c], today) PROVE RecurringInv'
  <2> DEFINE request == [kind |-> "update", change |-> c]
  <2>1. request.kind = "update" /\ request.change \in Changes
    OBVIOUS
  <2> HIDE DEF request
  <2>2. Snapshot(r, request, today)
    BY <1>2 DEF request
  <2> QED
    BY <2>1, <2>2, <1>1, SnapshotKeeps
<1>3. ASSUME Snapshot(r, [kind |-> "delete"], today) PROVE RecurringInv'
  <2> DEFINE request == [kind |-> "delete"]
  <2>1. request.kind = "delete"
    OBVIOUS
  <2> HIDE DEF request
  <2>2. Snapshot(r, request, today)
    BY <1>3 DEF request
  <2> QED
    BY <2>1, <2>2, <1>1, SnapshotKeeps
<1>4. ASSUME NEW through \in 1..today, NEW from \in 1..Month(through),
             Snapshot(r, [kind |-> "report", from |-> from, through |-> through], today)
      PROVE  RecurringInv'
  <2> DEFINE request == [kind |-> "report", from |-> from, through |-> through]
  <2>1. request.kind = "report" /\ request.through = through /\ request.from = from
    OBVIOUS
  <2>2. through \in Days
    BY <1>1, DaysAre
  <2> HIDE DEF request
  <2>3. Snapshot(r, request, today)
    BY <1>4 DEF request
  <2> QED
    BY <2>1, <2>2, <2>3, <1>1, SnapshotKeeps
<1> QED
  BY <1>2, <1>3, <1>4 DEF Begin

LEMMA RetryKeeps ==
    ASSUME RecurringInv, NEW r \in Requests, Retry(r)
    PROVE  RecurringInv'
<1> DEFINE request == op[r][1].request
           d == op[r][1].now
<1>1. Opened(r) /\ request.kind = "report" /\ Snapshot(r, request, d)
  BY DEF Retry, Opened
<1>2. request.through \in Days /\ request.from \in 1..Month(request.through) /\ d \in Days /\ d <= today
  BY <1>1 DEF RecurringInv, Asked, ReadSound
<1> HIDE DEF request, d
<1> QED
  BY <1>1, <1>2, SnapshotKeeps

(* What ends with a request. *)
LEMMA EndIs ==
    ASSUME RecurringInv, NEW r \in Requests, NEW wrote \in BOOLEAN, End(r, wrote)
    PROVE  /\ op' = [s \in Requests |-> op'[s]] /\ op'[r] = <<>>
           /\ \A s \in Requests : op'[s] = <<>> \/ (op'[s] = op[s] /\ s # r)
           /\ wrote => \A s \in Requests : op'[s] = <<>> \/ op'[s][1].request.kind = "report"
<1>1. op' = [s \in Requests |->
               IF s = r \/ (wrote /\ op[s] # <<>> /\ op[s][1].request.kind # "report") THEN <<>> ELSE op[s]]
  BY DEF End
<1> QED
  BY <1>1

LEMMA DeleteKeeps ==
    ASSUME RecurringInv, NEW r \in Requests, Delete(r)
    PROVE  RecurringInv'
<1> DEFINE o == op[r][1]
           ms == IF o.row.active THEN Completed(o.row, o.book, o.now) ELSE {}
           history == ms # {} \/ \E m \in Months : o.book[m] # {}
<1>1. /\ Opened(r) /\ o.request.kind = "delete" /\ Store(o.row, ms)
      /\ phase' = (IF history THEN "live" ELSE "deleted") /\ End(r, ~history) /\ UNCHANGED <<today, template>>
  BY DEF Delete, Opened
<1>2. o.row \in Rows /\ o.now \in Days /\ phase = "live"
  BY <1>1 DEF RecurringInv, ReadSound, Writes, Opened
<1>3. ms \in SUBSET Months
  BY <1>2, UnchargedIs
<1> HIDE DEF o, ms
<1>4. /\ charges' = [m \in Months |-> charges'[m]]
      /\ \A m \in Months : charges'[m] \subseteq [date : Days, terms : Terms]
      /\ \A m \in Months : charges[m] # {} => charges'[m] = charges[m]
  BY <1>1, <1>2, <1>3, StoreIs
<1> DEFINE wrote == ~history
<1>5. wrote \in BOOLEAN
  OBVIOUS
<1>6. ~wrote => phase' = phase
  BY <1>1, <1>2
<1>7. phase' \in {"live", "deleted"} /\ End(r, wrote)
  BY <1>1
<1> HIDE DEF history, wrote
<1>8. /\ op' = [s \in Requests |-> op'[s]] /\ \A s \in Requests : op'[s] = <<>> \/ op'[s] = op[s]
      /\ wrote => \A s \in Requests : op'[s] = <<>> \/ op'[s][1].request.kind = "report"
  BY <1>5, <1>7, EndIs
<1>9. today' \in Days /\ today <= today'
  BY <1>1, DaysAre DEF RecurringInv, RecurringTypeOK
<1> QED
  BY <1>1, <1>4, <1>6, <1>7, <1>8, <1>9, OthersRead

LEMMA ReportKeeps ==
    ASSUME RecurringInv, NEW r \in Requests, Report(r)
    PROVE  RecurringInv'
<1> DEFINE o == op[r][1]
           ms == Due(o.row, o.book, o.request.from, o.request.through)
<1>1. /\ Opened(r) /\ o.request.kind = "report" /\ Store(o.row, ms)
      /\ End(r, FALSE) /\ UNCHANGED <<today, phase, template>>
  BY DEF Report, Opened
<1>2. o.row \in Rows /\ o.request.through \in Days /\ o.request.from \in 1..Month(o.request.through)
  BY <1>1 DEF RecurringInv, ReadSound, Asked
<1>3. ms \in SUBSET Months
  BY <1>2, UnchargedIs
<1> HIDE DEF o, ms
<1>4. /\ charges' = [m \in Months |-> charges'[m]]
      /\ \A m \in Months : charges'[m] \subseteq [date : Days, terms : Terms]
      /\ \A m \in Months : charges[m] # {} => charges'[m] = charges[m]
  BY <1>1, <1>2, <1>3, StoreIs
<1>5. op' = [s \in Requests |-> op'[s]] /\ \A s \in Requests : op'[s] = <<>> \/ op'[s] = op[s]
  BY <1>1, EndIs
<1>6. today' \in Days /\ today <= today' /\ phase' \in {"unborn", "live", "deleted"}
  BY <1>1, DaysAre DEF RecurringInv, RecurringTypeOK
<1> QED
  BY <1>1, <1>4, <1>5, <1>6, OthersRead

(* A step that stores nothing and changes no row. *)
LEMMA QuietKeeps ==
    ASSUME RecurringInv, template' = template, charges' = charges, today' \in Days, today <= today',
           phase' \in {"unborn", "live", "deleted"},
           op' = [s \in Requests |-> op'[s]], \A s \in Requests : op'[s] = <<>> \/ op'[s] = op[s],
           phase' = phase \/ \A s \in Requests : op'[s] = <<>> \/ op'[s][1].request.kind = "report"
    PROVE  RecurringInv'
<1>1. /\ charges' = [m \in Months |-> charges'[m]]
      /\ \A m \in Months : charges'[m] \subseteq [date : Days, terms : Terms]
      /\ \A m \in Months : charges[m] # {} => charges'[m] = charges[m]
  BY DEF RecurringInv, RecurringTypeOK
<1> QED
  BY <1>1, OthersRead

(* An update charges what is over on the old terms, so that whoever has     *)
(* read the old row finds nothing left to charge.                           *)
LEMMA UpdateIs ==
    ASSUME RecurringInv, NEW r \in Requests, Update(r),
           NEW o, o = op[r][1], NEW c, c = o.request.change, NEW t, t = o.row
    PROVE  /\ Opened(r) /\ Writes(r) /\ t = template /\ t \in Rows /\ c \in Changes /\ o.now \in Days
           /\ template' \in Rows
           /\ template'.active = (IF Carries(c, "active") THEN c.active ELSE t.active)
           /\ template'.start = (IF Carries(c, "start") THEN c.start ELSE Resumed(t, c, o.now).start)
           /\ template'.end = (IF Carries(c, "end") THEN c.end ELSE t.end)
           /\ charges' = [m \in Months |-> charges'[m]]
           /\ \A m \in Months : charges'[m] \subseteq [date : Days, terms : Terms]
           /\ \A m \in Months : charges[m] # {} => charges'[m] = charges[m]
           /\ \A m \in Months : m < Month(o.now) /\ t.active /\ Applies(t, m) /\ charges[m] = {}
                                  => charges'[m] = {Charge(t, m)}
           /\ \A m \in Months : t.active => Applies(t, m) \/ charges'[m] = charges[m]
           /\ ~t.active => charges' = charges
           /\ op' = [s \in Requests |-> op'[s]] /\ op'[r] = <<>>
           /\ \A s \in Requests : op'[s] = <<>> \/ (op'[s] = op[s] /\ op'[s][1].request.kind = "report")
           /\ phase = "live" /\ phase' = phase /\ today' = today
<1> DEFINE ms == IF t.active THEN Completed(t, o.book, o.now) ELSE {}
<1>1. /\ Opened(r) /\ o.request.kind = "update" /\ Store(t, ms)
      /\ template' = Patched(Resumed(t, c, o.now), c)
      /\ End(r, TRUE) /\ today' = today /\ phase' = phase
  BY DEF Update, Opened
<1>2. Writes(r) /\ Asked(o) /\ ReadSound(o, template, charges, today) /\ t = template /\ phase = "live"
  BY <1>1 DEF RecurringInv, Writes, Opened
<1>3. t \in Rows /\ o.now \in Days /\ c \in Changes
  BY <1>1, <1>2 DEF ReadSound, Asked
<1>4. ms \in SUBSET Months
  BY <1>3, UnchargedIs
<1>5. \A m \in Months : m \in ms <=> t.active /\ m < Month(o.now) /\ o.book[m] = {} /\ Applies(t, m)
  BY <1>3, UnchargedIs
<1>6. \A m \in Months : charges[m] = {} => o.book[m] = {}
  BY <1>2 DEF ReadSound
<1> HIDE DEF ms
<1>7. /\ charges' = [m \in Months |-> charges'[m]]
      /\ \A m \in Months : charges'[m] \subseteq [date : Days, terms : Terms]
      /\ \A m \in Months : charges[m] # {} => charges'[m] = charges[m]
      /\ \A m \in ms : charges'[m] = {Charge(t, m)} /\ charges[m] = {}
      /\ \A m \in Months \ ms : charges'[m] = charges[m]
  BY <1>1, <1>3, <1>4, StoreIs
<1>8. /\ op' = [s \in Requests |-> op'[s]] /\ op'[r] = <<>>
      /\ \A s \in Requests : op'[s] = <<>> \/ (op'[s] = op[s] /\ op'[s][1].request.kind = "report")
  BY <1>1, EndIs
<1> DEFINE n == Resumed(t, c, o.now)
<1>9. n \in Rows /\ n.active = t.active /\ n.end = t.end
  BY <1>3, ResumedIs
<1> HIDE DEF n
<1>10. /\ template' \in Rows
       /\ template'.active = (IF Carries(c, "active") THEN c.active ELSE n.active)
       /\ template'.start = (IF Carries(c, "start") THEN c.start ELSE n.start)
       /\ template'.end = (IF Carries(c, "end") THEN c.end ELSE n.end)
  <2>1. template' = Patched(n, c)
    BY <1>1 DEF n
  <2> QED
    BY <2>1, <1>3, <1>9, Patches
<1>11. ~t.active => charges' = charges
  <2>1. charges = [m \in Months |-> charges[m]]
    BY DEF RecurringInv
  <2>2. ~t.active => \A m \in Months : charges'[m] = charges[m]
    BY <1>5, <1>7
  <2> QED
    BY <2>1, <2>2, <1>7
<1>12. \A m \in Months : m < Month(o.now) /\ t.active /\ Applies(t, m) /\ charges[m] = {} => charges'[m] = {Charge(t, m)}
  BY <1>5, <1>6, <1>7
<1>13. \A m \in Months : t.active => Applies(t, m) \/ charges'[m] = charges[m]
  BY <1>5, <1>7
<1> QED
  BY <1>1, <1>2, <1>3, <1>7, <1>8, <1>9, <1>10, <1>11, <1>12, <1>13 DEF n

LEMMA UpdateKeeps ==
    ASSUME RecurringInv, NEW r \in Requests, Update(r)
    PROVE  RecurringInv'
<1> DEFINE o == op[r][1]
           c == o.request.change
           t == o.row
<1>1. /\ Opened(r) /\ Writes(r) /\ t = template /\ t \in Rows
      /\ template' \in Rows
      /\ charges' = [m \in Months |-> charges'[m]]
      /\ \A m \in Months : charges'[m] \subseteq [date : Days, terms : Terms]
      /\ \A m \in Months : charges[m] # {} => charges'[m] = charges[m]
      /\ \A m \in Months : m < Month(o.now) /\ t.active /\ Applies(t, m) /\ charges[m] = {}
                             => charges'[m] = {Charge(t, m)}
      /\ op' = [s \in Requests |-> op'[s]]
      /\ \A s \in Requests : op'[s] = <<>> \/ (op'[s] = op[s] /\ op'[s][1].request.kind = "report")
      /\ phase = "live" /\ phase' = phase /\ today' = today
  BY UpdateIs
<1> HIDE DEF o, c, t
<1>2. \A s \in Requests : ~Writes(s)'
  BY <1>1 DEF Writes
<1>3. ASSUME NEW s \in Requests, Opened(s)'
      PROVE  Asked(op'[s][1]) /\ ReadSound(op'[s][1], template', charges', today')
  <2>1. op'[s] = op[s] /\ Opened(s)
    BY <1>1, <1>3 DEF Opened
  <2> DEFINE x == op[s][1]
  <2>2. Asked(x) /\ ReadSound(x, template, charges, today)
    BY <2>1 DEF RecurringInv
  <2>3. \A m \in x.closed : m \in Months /\ m < Month(o.now)
    BY <1>1, <2>1, <2>2 DEF RecurringInv, ReadSound, o
  <2> HIDE DEF x
  <2>4. ASSUME NEW m \in x.closed, charges'[m] = {}, x.row.active, Applies(x.row, m) PROVE FALSE
    <3>1. charges[m] = {}
      BY <1>1, <2>3, <2>4
    <3>2. t.active /\ Applies(t, m)
      BY <1>1, <2>2, <2>4, <3>1 DEF ReadSound
    <3> QED
      BY <1>1, <2>3, <2>4, <3>1, <3>2
  <2>5. \A m \in Months : x.book[m] # {} => charges'[m] = x.book[m]
    BY <1>1, <2>2 DEF ReadSound
  <2>6. ReadSound(x, template', charges', today')
    BY <1>1, <2>2, <2>4, <2>5 DEF ReadSound
  <2> QED
    BY <2>1, <2>2, <2>6 DEF x
<1>4. RecurringTypeOK'
  BY <1>1 DEF RecurringInv, RecurringTypeOK
<1>5. \A s \in Requests : Opened(s)' => Asked(op[s][1])' /\ ReadSound(op[s][1], template, charges, today)'
  BY <1>3 DEF Asked, ReadSound, Applies, Charge
<1> QED
  BY <1>1, <1>2, <1>4, <1>5 DEF RecurringInv

LEMMA RecurringSteps == RecurringInv /\ [RecurringNext]_recurringVars => RecurringInv'
<1> SUFFICES ASSUME RecurringInv, [RecurringNext]_recurringVars PROVE RecurringInv'
  OBVIOUS
<1>0. /\ today \in Days /\ today <= today /\ phase \in {"unborn", "live", "deleted"}
      /\ op = [s \in Requests |-> op[s]]
  BY DaysAre DEF RecurringInv, RecurringTypeOK
<1>1. CASE Create
  <2>1. phase = "unborn" /\ phase' = "live" /\ UNCHANGED <<today, template, charges, op>>
    BY <1>1 DEF Create
  <2>2. \A s \in Requests : ~Writes(s)
    BY <2>1 DEF RecurringInv
  <2>3. \A s \in Requests : op'[s] = <<>> \/ op'[s][1].request.kind = "report"
    BY <2>1, <2>2 DEF Writes
  <2> QED
    BY <1>0, <2>1, <2>3, QuietKeeps
<1>2. CASE Tick
  <2>1. today' \in Days /\ today' = today + 1 /\ UNCHANGED <<phase, template, charges, op>>
    BY <1>2 DEF Tick
  <2>2. today <= today'
    BY <1>0, <2>1, DaysAre
  <2> QED
    BY <1>0, <2>1, <2>2, QuietKeeps
<1>3. ASSUME NEW r \in Requests, Begin(r) PROVE RecurringInv'
  BY <1>3, BeginKeeps
<1>4. ASSUME NEW r \in Requests, Update(r) PROVE RecurringInv'
  BY <1>4, UpdateKeeps
<1>5. ASSUME NEW r \in Requests, Delete(r) PROVE RecurringInv'
  BY <1>5, DeleteKeeps
<1>6. ASSUME NEW r \in Requests, Report(r) PROVE RecurringInv'
  BY <1>6, ReportKeeps
<1>7. ASSUME NEW r \in Requests, Retry(r) PROVE RecurringInv'
  BY <1>7, RetryKeeps
<1>8. ASSUME NEW r \in Requests, GiveUp(r) PROVE RecurringInv'
  <2>1. op' = [op EXCEPT ![r] = <<>>] /\ UNCHANGED <<today, phase, template, charges>>
    BY <1>8 DEF GiveUp
  <2>2. op' = [s \in Requests |-> op'[s]] /\ \A s \in Requests : op'[s] = <<>> \/ op'[s] = op[s]
    BY <1>0, <2>1
  <2> QED
    BY <1>0, <2>1, <2>2, QuietKeeps
<1>9. CASE UNCHANGED recurringVars
  BY <1>0, <1>9, QuietKeeps DEF recurringVars
<1> QED
  BY <1>1, <1>2, <1>3, <1>4, <1>5, <1>6, <1>7, <1>8, <1>9 DEF RecurringNext

(* What a step may do to month m. *)
KeepsMonth(m) ==
    /\ charges[m] # {} => charges'[m] = charges[m]
    /\ m \in ClosedMonths /\ phase = "live" /\ ~MovesWindow /\ ~ResumesWithDate => Books(m)' = Books(m)

LEMMA QuietHistory ==
    ASSUME NEW m \in Months, charges' = charges, template' = template, phase' = phase \/ phase # "live"
    PROVE  KeepsMonth(m)
<1>1. CASE phase' = phase
  <2>1. Books(m)' = Books(m)
    BY <1>1 DEF Books, Applies, Charge
  <2> QED
    BY <2>1 DEF KeepsMonth
<1>2. CASE phase # "live"
  BY <1>2 DEF KeepsMonth
<1> QED
  BY <1>1, <1>2

(* A report may be late: what it charges of a month that is over is what    *)
(* the template charges now.                                                *)
LEMMA ReportHistory ==
    ASSUME RecurringInv, NEW r \in Requests, Report(r), NEW m \in Months
    PROVE  KeepsMonth(m)
<1> DEFINE o == op[r][1]
           ms == Due(o.row, o.book, o.request.from, o.request.through)
<1>1. Opened(r) /\ o.request.kind = "report" /\ Store(o.row, ms) /\ UNCHANGED <<today, phase, template>>
  BY DEF Report, Opened
<1>2. /\ o.row \in Rows /\ o.request.through \in Days /\ o.request.from \in 1..Month(o.request.through)
      /\ ReadSound(o, template, charges, today)
  BY <1>1 DEF RecurringInv, ReadSound, Asked
<1>3. ms \subseteq {i \in Months : o.row.active /\ o.book[i] = {} /\ Applies(o.row, i)}
  BY <1>2, UnchargedIs
<1> HIDE DEF ms
<1>4. /\ \A i \in Months : charges[i] # {} => charges'[i] = charges[i]
      /\ \A i \in ms : charges'[i] = {Charge(o.row, i)} /\ charges[i] = {}
      /\ \A i \in Months \ ms : charges'[i] = charges[i]
  BY <1>1, <1>2, <1>3, StoreIs
<1>5. ASSUME m \in ClosedMonths, phase = "live" PROVE Books(m)' = Books(m)
  <2>1. CASE m \in ms
    <3>1. m \in o.closed
      BY <1>1, <1>5 DEF ClosedMonths, Opened
    <3>2. charges[m] = {} /\ o.row.active /\ Applies(o.row, m) /\ charges'[m] = {Charge(o.row, m)}
      BY <2>1, <1>3, <1>4
    <3>3. template.active /\ Applies(template, m) /\ Charge(template, m) = Charge(o.row, m)
      BY <3>1, <3>2, <1>2 DEF ReadSound
    <3>4. Books(m) = {Charge(template, m)}
      BY <3>2, <3>3, <1>5 DEF Books
    <3>5. Books(m)' = charges'[m]
      BY <3>2 DEF Books
    <3> QED
      BY <3>2, <3>3, <3>4, <3>5
  <2>2. CASE m \notin ms
    <3>1. charges'[m] = charges[m]
      BY <1>4, <2>2
    <3> QED
      BY <1>1, <3>1 DEF Books, Applies, Charge
  <2> QED
    BY <2>1, <2>2
<1> QED
  BY <1>4, <1>5 DEF KeepsMonth

(* A deletion charges what is over first, and then leaves the template. *)
LEMMA DeleteHistory ==
    ASSUME RecurringInv, NEW r \in Requests, Delete(r), NEW m \in Months
    PROVE  KeepsMonth(m)
<1> DEFINE o == op[r][1]
           ms == IF o.row.active THEN Completed(o.row, o.book, o.now) ELSE {}
           history == ms # {} \/ \E i \in Months : o.book[i] # {}
<1>1. /\ Opened(r) /\ o.request.kind = "delete" /\ Store(o.row, ms)
      /\ (history \/ \A i \in Months : charges[i] = {})
      /\ phase' = (IF history THEN "live" ELSE "deleted") /\ template' = template
  BY DEF Delete, Opened
<1>2. o.row \in Rows /\ o.now \in Days /\ phase = "live" /\ o.row = template /\ ReadSound(o, template, charges, today)
  BY <1>1 DEF RecurringInv, ReadSound, Writes, Opened
<1>3. /\ ms \in SUBSET Months
      /\ \A i \in Months : i \in ms <=> o.row.active /\ i < Month(o.now) /\ o.book[i] = {} /\ Applies(o.row, i)
  BY <1>2, UnchargedIs
<1>4. \A i \in ClosedMonths : i < Month(o.now)
  <2>1. \A i \in ClosedMonths : i \in o.closed
    BY <1>1 DEF ClosedMonths, Opened
  <2> QED
    BY <2>1, <1>1 DEF RecurringInv, Writes, Opened
<1>5. \A i \in Months : charges[i] = {} => o.book[i] = {}
  BY <1>2 DEF ReadSound
<1>6. /\ \A i \in Months : charges[i] # {} => charges'[i] = charges[i]
      /\ \A i \in ms : charges'[i] = {Charge(o.row, i)} /\ charges[i] = {}
      /\ \A i \in Months \ ms : charges'[i] = charges[i]
  <2> HIDE DEF ms, history, o
  <2> QED
    BY <1>1, <1>2, <1>3, StoreIs
<1>7. ASSUME m \in ClosedMonths PROVE Books(m)' = Books(m)
  <2> HIDE DEF ms, o
  <2>1. CASE m \in ms
    <3>1. charges[m] = {} /\ charges'[m] = {Charge(template, m)} /\ template.active /\ Applies(template, m)
      BY <1>2, <1>3, <1>6, <2>1
    <3> QED
      BY <3>1, <1>2 DEF Books
  <2>2. CASE m \notin ms
    <3>1. charges'[m] = charges[m]
      BY <1>6, <2>2
    <3>2. ~(charges[m] = {} /\ template.active /\ Applies(template, m))
      BY <1>2, <1>3, <1>4, <1>5, <1>7, <2>2
    <3>3. Books(m) = charges[m]
      BY <3>2 DEF Books
    <3>4. Books(m)' = charges'[m]
      BY <1>1, <3>1, <3>2 DEF Books, Applies
    <3> QED
      BY <3>1, <3>3, <3>4
  <2> QED
    BY <2>1, <2>2
<1> QED
  BY <1>6, <1>7 DEF KeepsMonth

(* An update charges what is over on the old row; what it then leaves       *)
(* uncharged the new row does not charge either, unless it has a new window *)
(* or is resumed with a date.                                               *)
LEMMA UpdateHistory ==
    ASSUME RecurringInv, NEW r \in Requests, Update(r), NEW m \in Months
    PROVE  KeepsMonth(m)
<1> DEFINE o == op[r][1]
           c == o.request.change
           t == o.row
<1>1. /\ Opened(r) /\ Writes(r) /\ t = template /\ t \in Rows /\ c \in Changes /\ o.now \in Days
      /\ template' \in Rows
      /\ template'.active = (IF Carries(c, "active") THEN c.active ELSE t.active)
      /\ template'.start = (IF Carries(c, "start") THEN c.start ELSE Resumed(t, c, o.now).start)
      /\ template'.end = (IF Carries(c, "end") THEN c.end ELSE t.end)
      /\ \A i \in Months : charges[i] # {} => charges'[i] = charges[i]
      /\ \A i \in Months : i < Month(o.now) /\ t.active /\ Applies(t, i) /\ charges[i] = {}
                             => charges'[i] = {Charge(t, i)}
      /\ \A i \in Months : t.active => Applies(t, i) \/ charges'[i] = charges[i]
      /\ ~t.active => charges' = charges
      /\ op'[r] = <<>> /\ phase = "live" /\ phase' = phase
  BY UpdateIs
<1>2. r \in Updates /\ op[r]' = <<>>
  BY <1>1 DEF Updates, Update
<1>3. ASSUME ~MovesWindow
      PROVE  (Carries(c, "start") => c.start = t.start) /\ (Carries(c, "end") => c.end = t.end)
  BY <1>2, <1>3 DEF MovesWindow
<1>4. ASSUME ~ResumesWithDate
      PROVE  t.active \/ ~Carries(c, "active") \/ ~Carries(c, "start")
  BY <1>2, <1>4 DEF ResumesWithDate, Carries
<1>5. \A i \in ClosedMonths : i < Month(o.now)
  <2>1. \A i \in ClosedMonths : i \in o.closed
    BY <1>1 DEF ClosedMonths, Opened
  <2> QED
    BY <2>1, <1>1 DEF RecurringInv
<1>6. t.active \in BOOLEAN /\ t.start \in Days /\ (Carries(c, "active") => c.active \in BOOLEAN)
  <2>1. Carries(c, "active") => c.active \in BOOLEAN
    BY <1>1, Patches
  <2> QED
    BY <2>1, <1>1, RowIs
<1>7. Resumed(t, c, o.now).start = IF ~t.active /\ Carries(c, "active") /\ c.active
                                    THEN OccurrenceDate(t.start, Month(o.now)) ELSE t.start
  BY <1>1, ResumedIs
<1> HIDE DEF o, c, t
<1>8. ASSUME m \in ClosedMonths, ~MovesWindow, ~ResumesWithDate PROVE Books(m)' = Books(m)
  <2>1. m < Month(o.now)
    BY <1>5, <1>8
  <2>2. CASE charges[m] # {}
    <3>1. charges'[m] = charges[m]
      BY <1>1, <2>2
    <3> QED
      BY <2>2, <3>1 DEF Books
  <2>3. CASE charges[m] = {} /\ t.active /\ Applies(t, m)
    <3>1. charges'[m] = {Charge(t, m)}
      BY <1>1, <2>1, <2>3
    <3>2. Books(m)' = charges'[m]
      BY <3>1 DEF Books
    <3>3. Books(m) = {Charge(t, m)}
      BY <1>1, <2>3 DEF Books
    <3> QED
      BY <3>1, <3>2, <3>3
  <2>4. CASE charges[m] = {} /\ t.active /\ ~Applies(t, m)
    <3>1. charges'[m] = {}
      BY <1>1, <2>4
    <3>2. template'.start = t.start /\ template'.end = t.end
      BY <1>1, <1>3, <1>7, <1>8, <2>4
    <3>3. ~Applies(template', m)
      BY <2>4, <3>2 DEF Applies
    <3>4. Books(m)' = {}
      BY <3>1, <3>3 DEF Books, Applies
    <3>5. Books(m) = {}
      BY <1>1, <2>4 DEF Books
    <3> QED
      BY <3>4, <3>5
  <2>5. CASE charges[m] = {} /\ ~t.active
    <3>1. charges'[m] = {}
      BY <1>1, <2>5
    <3>2. ~(template'.active /\ Applies(template', m))
      <4> SUFFICES ASSUME template'.active PROVE ~Applies(template', m)
        OBVIOUS
      <4>1. Carries(c, "active") /\ c.active
        BY <1>1, <1>6, <2>5
      <4>2. ~Carries(c, "start")
        BY <1>4, <1>8, <2>5, <4>1
      <4>3. template'.start = OccurrenceDate(t.start, Month(o.now))
        BY <1>1, <1>7, <2>5, <4>1, <4>2
      <4>4. Month(o.now) \in Months /\ First[Month(o.now)] <= template'.start /\ template'.start \in Days
        BY <1>1, <1>6, <4>3, MonthIs, OccurrenceIs
      <4>5. First[m + 1] <= First[Month(o.now)]
        BY <1>1, <2>1, MonthBefore
      <4>6. First[m + 1] \in Nat /\ First[Month(o.now)] \in Nat /\ template'.start \in Nat
        BY <4>4, FirstRises, CalendarIs, DaysAre
      <4>7. First[m + 1] <= template'.start
        BY <4>4, <4>5, <4>6
      <4>8. ~(OccurrenceDate(template'.start, m) >= template'.start)
        BY <4>4, <4>7, NoneBefore
      <4> QED
        BY <4>8 DEF Applies
    <3>3. Books(m)' = {}
      BY <3>1, <3>2 DEF Books, Applies
    <3>4. Books(m) = {}
      BY <1>1, <2>5 DEF Books
    <3> QED
      BY <3>3, <3>4
  <2> QED
    BY <2>2, <2>3, <2>4, <2>5, <1>6
<1> QED
  BY <1>1, <1>8 DEF KeepsMonth

LEMMA HistorySteps ==
    ASSUME RecurringInv, [RecurringNext]_recurringVars, NEW m \in Months
    PROVE  KeepsMonth(m)
<1>1. CASE Create
  BY <1>1, QuietHistory DEF Create
<1>2. CASE Tick
  BY <1>2, QuietHistory DEF Tick
<1>3. ASSUME NEW r \in Requests, Begin(r) PROVE KeepsMonth(m)
  BY <1>3, QuietHistory DEF Begin, Snapshot
<1>4. ASSUME NEW r \in Requests, Update(r) PROVE KeepsMonth(m)
  BY <1>4, UpdateHistory
<1>5. ASSUME NEW r \in Requests, Delete(r) PROVE KeepsMonth(m)
  BY <1>5, DeleteHistory
<1>6. ASSUME NEW r \in Requests, Report(r) PROVE KeepsMonth(m)
  BY <1>6, ReportHistory
<1>7. ASSUME NEW r \in Requests, Retry(r) PROVE KeepsMonth(m)
  BY <1>7, QuietHistory DEF Retry, Snapshot
<1>8. ASSUME NEW r \in Requests, GiveUp(r) PROVE KeepsMonth(m)
  BY <1>8, QuietHistory DEF GiveUp
<1>9. CASE UNCHANGED recurringVars
  BY <1>9, QuietHistory DEF recurringVars
<1> QED
  BY <1>1, <1>2, <1>3, <1>4, <1>5, <1>6, <1>7, <1>8, <1>9 DEF RecurringNext

(* What requests on old snapshots may rely on, for any number of requests   *)
(* and any calendar.                                                        *)
THEOREM RecurringInvariant == RecurringSpec => []RecurringInv
<1>1. RecurringInit => RecurringInv
  BY RecurringStarts
<1>2. RecurringInv /\ [RecurringNext]_recurringVars => RecurringInv'
  BY RecurringSteps
<1> QED
  BY <1>1, <1>2, PTL DEF RecurringSpec

(* The books of a month that is over stay as they are.                      *)
THEOREM HistoryStays == RecurringSpec => HistoryKept
<1>1. RecurringInv /\ [RecurringNext]_recurringVars
        => [\A m \in Months :
              /\ charges[m] # {} => charges'[m] = charges[m]
              /\ m \in ClosedMonths /\ phase = "live" /\ ~MovesWindow /\ ~ResumesWithDate
                 => Books(m)' = Books(m)]_recurringVars
  BY HistorySteps DEF KeepsMonth
<1> QED
  BY <1>1, RecurringInvariant, PTL DEF RecurringSpec, HistoryKept

-----------------------------------------------------------------------------
(* More about sums: SumFunction is one, it is added up term by term, and it  *)
(* may be taken group by group.                                             *)
LEMMA SumFunctionIs ==
    ASSUME NEW f, IsFiniteSet(DOMAIN f)
    PROVE  SumFunction(f) = SumOver(f, DOMAIN f)
<1> DEFINE S == DOMAIN f
           Sums(g) == g = [s \in SUBSET S |-> IF s = {} THEN 0
                           ELSE f[CHOOSE x \in s : TRUE] + g[s \ {CHOOSE x \in s : TRUE}]]
           g == CHOOSE g : Sums(g)
<1>1. SumFunction(f) = g[S]
  BY DEF SumFunction, SumFunctionOnSet, FoldFunctionOnSet, MapThenFoldSet
<1>2. Adds(f, S, g)
  <2>1. \E k : Adds(f, S, k)
    BY SumExists
  <2>2. \A k : Sums(k) <=> Adds(f, S, k)
    BY DEF Adds
  <2> HIDE DEF Sums, S
  <2> QED
    BY <2>1, <2>2
<1> HIDE DEF g
<1> QED
  BY <1>1, <1>2, SumIs

LEMMA SumZero ==
    ASSUME NEW S, IsFiniteSet(S), NEW F, \A x \in S : F[x] = 0
    PROVE  SumOver(F, S) = 0
<1> DEFINE T == {u \in SUBSET S : SumOver(F, u) # 0}
<1>1. T = {}
  <2> SUFFICES ASSUME T # {} PROVE FALSE
    OBVIOUS
  <2>1. PICK u \in T : \A v \in SUBSET u : v # u => v \notin T
    <3>1. T \in SUBSET (SUBSET S)
      OBVIOUS
    <3> HIDE DEF T
    <3> QED
      BY <3>1, LeastSubset
  <2>2. u \in SUBSET S /\ IsFiniteSet(u) /\ SumOver(F, u) # 0 /\ \A x \in u : F[x] = 0
    BY FS_Subset
  <2>3. PICK x \in u : TRUE
    BY <2>2, SumOverTakes
  <2>4. SumOver(F, u) = F[x] + SumOver(F, u \ {x}) /\ SumOver(F, u \ {x}) = 0
    <3>1. SumOver(F, u \ {x}) = 0
      BY <2>1, <2>2
    <3> QED
      BY <3>1, <2>2, SumOverTakes
  <2> QED
    BY <2>2, <2>4
<1> QED
  BY <1>1

LEMMA SumPlus ==
    ASSUME NEW S, IsFiniteSet(S), NEW F, NEW G, NEW H,
           \A x \in S : F[x] \in Int /\ G[x] \in Int /\ H[x] = F[x] + G[x]
    PROVE  SumOver(H, S) = SumOver(F, S) + SumOver(G, S)
<1> DEFINE T == {u \in SUBSET S : SumOver(H, u) # SumOver(F, u) + SumOver(G, u)}
<1>1. T = {}
  <2> SUFFICES ASSUME T # {} PROVE FALSE
    OBVIOUS
  <2>1. PICK u \in T : \A v \in SUBSET u : v # u => v \notin T
    <3>1. T \in SUBSET (SUBSET S)
      OBVIOUS
    <3> HIDE DEF T
    <3> QED
      BY <3>1, LeastSubset
  <2>2. /\ u \in SUBSET S /\ IsFiniteSet(u) /\ SumOver(H, u) # SumOver(F, u) + SumOver(G, u)
        /\ \A x \in u : F[x] \in Int /\ G[x] \in Int /\ H[x] \in Int /\ H[x] = F[x] + G[x]
    BY FS_Subset
  <2>3. PICK x \in u : TRUE
    BY <2>2, SumOverTakes
  <2>4. /\ SumOver(F, u) = F[x] + SumOver(F, u \ {x})
        /\ SumOver(G, u) = G[x] + SumOver(G, u \ {x})
        /\ SumOver(H, u) = H[x] + SumOver(H, u \ {x})
    BY <2>2, SumOverTakes
  <2>5. SumOver(H, u \ {x}) = SumOver(F, u \ {x}) + SumOver(G, u \ {x})
    BY <2>1, <2>2
  <2>6. IsFiniteSet(u \ {x}) /\ SumOver(F, u \ {x}) \in Int /\ SumOver(G, u \ {x}) \in Int
    BY <2>2, FS_RemoveElement, SumOverTakes
  <2>7. F[x] \in Int /\ G[x] \in Int /\ H[x] = F[x] + G[x]
    BY <2>2
  <2> HIDE DEF T
  <2> QED
    BY <2>2, <2>4, <2>5, <2>6, <2>7
<1> QED
  BY <1>1

LEMMA SumMinus ==
    ASSUME NEW S, IsFiniteSet(S), NEW F, NEW G, NEW H,
           \A x \in S : F[x] \in Int /\ G[x] \in Int /\ H[x] = F[x] - G[x]
    PROVE  SumOver(H, S) = SumOver(F, S) - SumOver(G, S)
<1>1. \A x \in S : H[x] \in Int /\ G[x] \in Int /\ F[x] = H[x] + G[x]
  OBVIOUS
<1>2. SumOver(F, S) = SumOver(H, S) + SumOver(G, S)
  BY <1>1, SumPlus
<1>3. SumOver(H, S) \in Int /\ SumOver(G, S) \in Int
  BY <1>1, SumOverTakes
<1> QED
  BY <1>2, <1>3

LEMMA SumScaled ==
    ASSUME NEW S, IsFiniteSet(S), NEW c \in Int, NEW F, NEW H,
           \A x \in S : F[x] \in Int /\ H[x] = c * F[x]
    PROVE  SumOver(H, S) = c * SumOver(F, S)
<1> DEFINE T == {u \in SUBSET S : SumOver(H, u) # c * SumOver(F, u)}
<1>1. T = {}
  <2> SUFFICES ASSUME T # {} PROVE FALSE
    OBVIOUS
  <2>1. PICK u \in T : \A v \in SUBSET u : v # u => v \notin T
    <3>1. T \in SUBSET (SUBSET S)
      OBVIOUS
    <3> HIDE DEF T
    <3> QED
      BY <3>1, LeastSubset
  <2>2. /\ u \in SUBSET S /\ IsFiniteSet(u) /\ SumOver(H, u) # c * SumOver(F, u)
        /\ \A x \in u : F[x] \in Int /\ H[x] \in Int /\ H[x] = c * F[x]
    BY FS_Subset
  <2>3. PICK x \in u : TRUE
    <3>1. u # {}
      BY <2>2, SumOverTakes
    <3> QED
      BY <3>1
  <2>4. /\ SumOver(F, u) = F[x] + SumOver(F, u \ {x})
        /\ SumOver(H, u) = H[x] + SumOver(H, u \ {x})
    BY <2>2, SumOverTakes
  <2>5. SumOver(H, u \ {x}) = c * SumOver(F, u \ {x})
    BY <2>1, <2>2
  <2>6. SumOver(F, u \ {x}) \in Int
    BY <2>2, FS_RemoveElement, SumOverTakes
  <2>7. F[x] \in Int /\ H[x] = c * F[x]
    BY <2>2
  <2>8. ASSUME NEW a \in Int, NEW b \in Int PROVE c * (a + b) = c * a + c * b
    OBVIOUS
  <2> HIDE DEF T
  <2> QED
    BY <2>2, <2>4, <2>5, <2>6, <2>7, <2>8
<1> QED
  BY <1>1

(* A sum is that of its groups: h[x] is the group of x.                     *)
LEMMA SumGroups ==
    ASSUME NEW S, IsFiniteSet(S), NEW F, \A x \in S : F[x] \in Int,
           NEW K, IsFiniteSet(K), NEW h, \A x \in S : h[x] \in K
    PROVE  SumOver(F, S) = SumOver([k \in K |-> SumOver(F, {x \in S : h[x] = k})], K)
<1> DEFINE G(u) == [k \in K |-> SumOver(F, {x \in u : h[x] = k})]
           T == {u \in SUBSET S : SumOver(F, u) # SumOver(G(u), K)}
<1>1. T = {}
  <2> SUFFICES ASSUME T # {} PROVE FALSE
    OBVIOUS
  <2>1. PICK u \in T : \A v \in SUBSET u : v # u => v \notin T
    <3>1. T \in SUBSET (SUBSET S)
      OBVIOUS
    <3> HIDE DEF T
    <3> QED
      BY <3>1, LeastSubset
  <2>2. u \in SUBSET S /\ IsFiniteSet(u) /\ SumOver(F, u) # SumOver(G(u), K)
    BY FS_Subset
  <2>3. ASSUME NEW v \in SUBSET u, NEW k \in K
        PROVE  /\ IsFiniteSet({x \in v : h[x] = k})
               /\ G(v)[k] = SumOver(F, {x \in v : h[x] = k}) /\ G(v)[k] \in Int
    <3>1. {x \in v : h[x] = k} \subseteq u
      OBVIOUS
    <3>2. IsFiniteSet({x \in v : h[x] = k})
      BY <3>1, <2>2, FS_Subset
    <3>3. SumOver(F, {x \in v : h[x] = k}) \in Int
      BY <3>1, <3>2, <2>2, SumOverTakes
    <3> QED
      BY <3>2, <3>3
  <2>4. CASE u = {}
    <3>1. \A k \in K : G(u)[k] = 0
      <4> SUFFICES ASSUME NEW k \in K PROVE SumOver(F, {x \in u : h[x] = k}) = 0
        OBVIOUS
      <4>1. {x \in u : h[x] = k} = {}
        BY <2>4
      <4> HIDE DEF T
      <4> QED
        BY <4>1, FS_EmptySet, SumOverTakes
    <3>2. SumOver(G(u), K) = 0
      <4> HIDE DEF T, G
      <4> QED
        BY <3>1, SumZero
    <3>3. SumOver(F, u) = 0
      <4> HIDE DEF T, G
      <4> QED
        BY <2>2, <2>4, SumOverTakes
    <3> QED
      BY <2>2, <3>2, <3>3
  <2>5. CASE u # {}
    <3>1. PICK x \in u : TRUE
      BY <2>5
    <3> DEFINE v == u \ {x}
               c == h[x]
    <3>2. v \in SUBSET u /\ v # u /\ c \in K /\ F[x] \in Int /\ IsFiniteSet(v)
      BY <2>2, FS_RemoveElement
    <3>3. SumOver(F, v) = SumOver(G(v), K)
      <4> HIDE DEF G
      <4> QED
        BY <2>1, <3>2, <2>2
    <3>4. SumOver(F, u) = F[x] + SumOver(F, v) /\ SumOver(F, v) \in Int
      <4>1. \A y \in u : F[y] \in Int
        BY <2>2
      <4> HIDE DEF T, G
      <4> QED
        BY <2>2, <3>2, <4>1, SumOverTakes
    <3>5. \A k \in K \ {c} : G(u)[k] = G(v)[k]
      <4> SUFFICES ASSUME NEW k \in K \ {c} PROVE {y \in u : h[y] = k} = {y \in v : h[y] = k}
        BY DEF G
      <4> QED
        OBVIOUS
    <3>6. G(u)[c] = F[x] + G(v)[c]
      <4>1. {y \in u : h[y] = c} \ {x} = {y \in v : h[y] = c} /\ x \in {y \in u : h[y] = c}
        OBVIOUS
      <4>2. /\ IsFiniteSet({y \in u : h[y] = c}) /\ G(u)[c] = SumOver(F, {y \in u : h[y] = c})
            /\ G(v)[c] = SumOver(F, {y \in v : h[y] = c})
        BY <3>2, <2>3
      <4>3. \A y \in {z \in u : h[z] = c} : F[y] \in Int
        BY <2>2
      <4> HIDE DEF T, G, v, c
      <4> QED
        BY <4>1, <4>2, <4>3, SumOverTakes
    <3>7. \A k \in K : G(u)[k] \in Int /\ G(v)[k] \in Int
      BY <2>3, <3>2
    <3>8. IsFiniteSet(K \ {c}) /\ SumOver(G(u), K \ {c}) = SumOver(G(v), K \ {c})
      <4>1. IsFiniteSet(K \ {c})
        BY FS_RemoveElement
      <4> HIDE DEF T, G, v, c
      <4> QED
        BY <4>1, <3>5, SumOverSame
    <3>9. /\ SumOver(G(u), K) = G(u)[c] + SumOver(G(u), K \ {c})
          /\ SumOver(G(v), K) = G(v)[c] + SumOver(G(v), K \ {c})
          /\ SumOver(G(v), K \ {c}) \in Int
      <4> HIDE DEF T, G, v, c
      <4> QED
        BY <3>2, <3>7, <3>8, SumOverTakes
    <3>10. G(v)[c] \in Int
      BY <3>7, <3>2
    <3> HIDE DEF T, G, v, c
    <3> QED
      BY <2>2, <3>2, <3>3, <3>4, <3>6, <3>8, <3>9, <3>10
  <2> QED
    BY <2>4, <2>5
<1>2. SumOver(F, S) = SumOver(G(S), K)
  <2> HIDE DEF G
  <2> QED
    BY <1>1
<1> QED
  BY <1>2

LEMMA SumOfOne ==
    ASSUME NEW F, NEW a, F[a] \in Int
    PROVE  SumOver(F, {a}) = F[a]
<1>1. IsFiniteSet({a}) /\ {a} \ {a} = {} /\ a \in {a} /\ \A x \in {a} : F[x] \in Int
  BY FS_Singleton
<1>2. SumOver(F, {a}) = F[a] + SumOver(F, {a} \ {a})
  BY <1>1, SumOverTakes
<1>3. SumOver(F, {}) = 0
  BY FS_EmptySet, SumOverTakes
<1> QED
  BY <1>1, <1>2, <1>3

(* A sum over other names: h names the members of S.                        *)
LEMMA SumRenamed ==
    ASSUME NEW S, IsFiniteSet(S), NEW F, \A x \in S : F[x] \in Int,
           NEW K, IsFiniteSet(K), NEW G, NEW h, \A x \in S : h[x] \in K /\ F[x] = G[h[x]],
           \A k \in K : \E x \in S : h[x] = k, \A x, y \in S : h[x] = h[y] => x = y
    PROVE  SumOver(F, S) = SumOver(G, K)
<1> DEFINE H == [k \in K |-> SumOver(F, {x \in S : h[x] = k})]
<1>1. SumOver(F, S) = SumOver(H, K)
  BY SumGroups
<1>2. ASSUME NEW k \in K PROVE H[k] = G[k]
  <2>1. PICK x \in S : h[x] = k
    OBVIOUS
  <2>2. {y \in S : h[y] = k} = {x}
    BY <2>1
  <2>3. SumOver(F, {x}) = F[x]
    BY SumOfOne
  <2> QED
    BY <2>1, <2>2, <2>3
<1> HIDE DEF H
<1>3. SumOver(H, K) = SumOver(G, K)
  BY <1>2, SumOverSame
<1> QED
  BY <1>1, <1>3

LEMMA SumOfOnes ==
    ASSUME NEW S, IsFiniteSet(S), NEW F, \A x \in S : F[x] = 1
    PROVE  SumOver(F, S) = Cardinality(S)
<1> DEFINE T == {u \in SUBSET S : SumOver(F, u) # Cardinality(u)}
<1>1. T = {}
  <2> SUFFICES ASSUME T # {} PROVE FALSE
    OBVIOUS
  <2>1. PICK u \in T : \A v \in SUBSET u : v # u => v \notin T
    <3>1. T \in SUBSET (SUBSET S)
      OBVIOUS
    <3> HIDE DEF T
    <3> QED
      BY <3>1, LeastSubset
  <2>2. u \in SUBSET S /\ IsFiniteSet(u) /\ SumOver(F, u) # Cardinality(u) /\ \A x \in u : F[x] = 1 /\ F[x] \in Int
    BY FS_Subset
  <2>3. PICK x \in u : TRUE
    <3>1. u # {}
      BY <2>2, SumOverTakes, FS_EmptySet
    <3> QED
      BY <3>1
  <2>4. SumOver(F, u) = F[x] + SumOver(F, u \ {x})
    BY <2>2, SumOverTakes
  <2>5. SumOver(F, u \ {x}) = Cardinality(u \ {x})
    BY <2>1, <2>2
  <2>6. Cardinality(u \ {x}) = Cardinality(u) - 1 /\ Cardinality(u) \in Nat
    BY <2>2, FS_RemoveElement, FS_CardinalityType
  <2>7. F[x] = 1
    BY <2>2
  <2> HIDE DEF T
  <2> QED
    BY <2>2, <2>4, <2>5, <2>6, <2>7
<1> QED
  BY <1>1

LEMMA SumBounded ==
    ASSUME NEW S, IsFiniteSet(S), NEW g \in Nat, NEW F, \A x \in S : F[x] \in Int /\ -g <= F[x] /\ F[x] <= g
    PROVE  -(g * Cardinality(S)) <= SumOver(F, S) /\ SumOver(F, S) <= g * Cardinality(S)
<1> DEFINE Bounded(u) == -(g * Cardinality(u)) <= SumOver(F, u) /\ SumOver(F, u) <= g * Cardinality(u)
           T == {u \in SUBSET S : ~Bounded(u)}
<1>1. T = {}
  <2> SUFFICES ASSUME T # {} PROVE FALSE
    OBVIOUS
  <2>1. PICK u \in T : \A v \in SUBSET u : v # u => v \notin T
    <3>1. T \in SUBSET (SUBSET S)
      OBVIOUS
    <3> HIDE DEF T
    <3> QED
      BY <3>1, LeastSubset
  <2>2. u \in SUBSET S /\ IsFiniteSet(u) /\ ~Bounded(u) /\ \A x \in u : F[x] \in Int
    BY FS_Subset
  <2>3. PICK x \in u : TRUE
    <3>1. Cardinality({}) = 0 /\ (u = {} => SumOver(F, u) = 0)
      BY <2>2, SumOverTakes, FS_EmptySet
    <3>2. u # {}
      BY <2>2, <3>1
    <3> QED
      BY <3>2
  <2>4. SumOver(F, u) = F[x] + SumOver(F, u \ {x})
    BY <2>2, SumOverTakes
  <2>5. Bounded(u \ {x})
    BY <2>1, <2>2
  <2>6. Cardinality(u \ {x}) = Cardinality(u) - 1 /\ Cardinality(u) \in Nat
    BY <2>2, FS_RemoveElement, FS_CardinalityType
  <2>7. F[x] \in Int /\ -g <= F[x] /\ F[x] <= g
    BY <2>2
  <2>8. SumOver(F, u \ {x}) \in Int
    BY <2>2, FS_RemoveElement, SumOverTakes
  <2>9. g * (Cardinality(u) - 1) = g * Cardinality(u) - g
    BY <2>6
  <2>10. g * Cardinality(u) \in Int
    BY <2>6
  <2>11. -(g * Cardinality(u) - g) <= SumOver(F, u \ {x}) /\ SumOver(F, u \ {x}) <= g * Cardinality(u) - g
    BY <2>5, <2>6, <2>9
  <2>12. Bounded(u)
    <3> DEFINE c == g * Cardinality(u)
               b == SumOver(F, u \ {x})
    <3>1. c \in Int /\ b \in Int /\ -(c - g) <= b /\ b <= c - g /\ SumOver(F, u) = F[x] + b
      BY <2>4, <2>8, <2>10, <2>11
    <3> HIDE DEF c, b
    <3>2. -c <= SumOver(F, u) /\ SumOver(F, u) <= c
      BY <3>1, <2>7
    <3> QED
      BY <3>2 DEF c
  <2> QED
    BY <2>2, <2>12
<1> QED
  BY <1>1

(* A rounded number is within half of what it was.                          *)
LEMMA RoundIs ==
    ASSUME NEW a \in Int, NEW g \in Nat \ {0}
    PROVE  /\ Round(a, g) \in Int
           /\ -g <= 2 * g * Round(a, g) - 2 * a /\ 2 * g * Round(a, g) - 2 * a <= g
<1>1. ASSUME NEW n \in Nat
      PROVE  LET d == (2 * n + g) \div (2 * g) IN
             d \in Nat /\ -g <= 2 * g * d - 2 * n /\ 2 * g * d - 2 * n <= g
  <2> DEFINE m == 2 * n + g
             k == 2 * g
             d == m \div k
  <2>1. m \in Nat /\ k \in Nat \ {0}
    OBVIOUS
  <2>2. d \in Nat /\ k * d <= m /\ m < k * d + k
    <3> HIDE DEF m, k
    <3> QED
      BY <2>1, DivIs
  <2>3. 2 * g * d = k * d
    BY <2>2
  <2> QED
    BY <2>2, <2>3
<1>2. CASE a >= 0
  <2>1. a \in Nat
    BY <1>2
  <2> QED
    BY <1>1, <1>2, <2>1 DEF Round
<1>3. CASE ~(a >= 0)
  <2> DEFINE n == -a
             d == (2 * n + g) \div (2 * g)
  <2>1. n \in Nat
    BY <1>3
  <2>2. d \in Nat /\ -g <= 2 * g * d - 2 * n /\ 2 * g * d - 2 * n <= g
    BY <1>1, <2>1
  <2>3. Round(a, g) = -d
    BY <1>3 DEF Round
  <2> HIDE DEF d
  <2>4. 2 * g * (-d) = -(2 * g * d)
    BY <2>2
  <2>5. 2 * g * d \in Int
    BY <2>2
  <2>6. 2 * g * (-d) - 2 * a = -(2 * g * d - 2 * n)
    BY <2>4, <2>5
  <2> QED
    BY <2>2, <2>3, <2>5, <2>6
<1> QED
  BY <1>2, <1>3

(* Numbers that are rounded one by one add up, to half a unit for each, to   *)
(* what their sum is rounded to.                                            *)
LEMMA NearSum ==
    ASSUME NEW K, IsFiniteSet(K), NEW F, NEW R, \A k \in K : F[k] \in Int /\ R[k] = RoundMoney(F[k])
    PROVE  Near(RoundMoney(SumOver(F, K)), SumOver(R, K), Cardinality(K) + 1)
<1> DEFINE P == [k \in K |-> (2 * Grain) * R[k]]
           Q == [k \in K |-> 2 * F[k]]
           D == [k \in K |-> P[k] - Q[k]]
           n == Cardinality(K)
           s == SumOver(F, K)
           r == SumOver(R, K)
           t == RoundMoney(s)
<1>0. Grain \in Nat \ {0} /\ 2 * Grain \in Int /\ n \in Nat
  BY StockAssumption, FS_CardinalityType
<1>1. ASSUME NEW k \in K
      PROVE  /\ R[k] \in Int /\ P[k] \in Int /\ Q[k] \in Int /\ F[k] \in Int
             /\ D[k] \in Int /\ -Grain <= D[k] /\ D[k] <= Grain
  <2>1. F[k] \in Int /\ R[k] = Round(F[k], Grain)
    BY DEF RoundMoney
  <2>2. /\ R[k] \in Int /\ -Grain <= 2 * Grain * R[k] - 2 * F[k]
        /\ 2 * Grain * R[k] - 2 * F[k] <= Grain
    BY <1>0, <2>1, RoundIs
  <2>3. D[k] = 2 * Grain * R[k] - 2 * F[k] /\ P[k] = 2 * Grain * R[k] /\ Q[k] = 2 * F[k]
    OBVIOUS
  <2>4. 2 * Grain * R[k] \in Int /\ 2 * F[k] \in Int
    BY <1>0, <2>1, <2>2
  <2> HIDE DEF P, Q, D
  <2> QED
    BY <1>0, <2>1, <2>2, <2>3, <2>4
<1>2. s \in Int /\ r \in Int
  BY <1>1, SumOverTakes
<1>3. SumOver(P, K) = (2 * Grain) * r
  <2>1. \A k \in K : R[k] \in Int /\ P[k] = (2 * Grain) * R[k]
    BY <1>1
  <2> HIDE DEF P
  <2> QED
    BY <1>0, <2>1, SumScaled
<1>4. SumOver(Q, K) = 2 * s
  <2>1. \A k \in K : F[k] \in Int /\ Q[k] = 2 * F[k]
    OBVIOUS
  <2> HIDE DEF Q
  <2> QED
    BY <2>1, SumScaled
<1>5. SumOver(D, K) = SumOver(P, K) - SumOver(Q, K)
  <2>1. \A k \in K : P[k] \in Int /\ Q[k] \in Int /\ D[k] = P[k] - Q[k]
    BY <1>1
  <2> HIDE DEF P, Q, D
  <2> QED
    BY <2>1, SumMinus
<1>6. -(Grain * n) <= SumOver(D, K) /\ SumOver(D, K) <= Grain * n
  <2> HIDE DEF P, Q, D
  <2> QED
    BY <1>0, <1>1, SumBounded
<1>7. t \in Int /\ -Grain <= 2 * Grain * t - 2 * s /\ 2 * Grain * t - 2 * s <= Grain
  <2> HIDE DEF s
  <2> QED
    BY <1>0, <1>2, RoundIs DEF RoundMoney
<1> HIDE DEF P, Q, D, n, s, r, t
<1>8. /\ Grain * n \in Int /\ Grain * (n + 1) = Grain * n + Grain
      /\ Grain * (2 * (t - r)) = (2 * Grain) * t - (2 * Grain) * r
      /\ Grain * (2 * (r - t)) = (2 * Grain) * r - (2 * Grain) * t
      /\ 2 * Grain * t = (2 * Grain) * t
      /\ (2 * Grain) * t \in Int /\ (2 * Grain) * r \in Int
  BY <1>0, <1>2, <1>7
<1>9. /\ -(Grain * n) <= (2 * Grain) * r - 2 * s /\ (2 * Grain) * r - 2 * s <= Grain * n
  BY <1>3, <1>4, <1>5, <1>6
<1>10. Grain * (2 * (t - r)) <= Grain * (n + 1) /\ Grain * (2 * (r - t)) <= Grain * (n + 1)
  <2> DEFINE x == (2 * Grain) * r
             y == (2 * Grain) * t
             z == Grain * n
             u == 2 * s
  <2>1. /\ x \in Int /\ y \in Int /\ z \in Int /\ u \in Int
        /\ -z <= x - u /\ x - u <= z /\ -Grain <= y - u /\ y - u <= Grain
    BY <1>2, <1>7, <1>8, <1>9
  <2> HIDE DEF x, y, z, u
  <2>2. y - x <= z + Grain /\ x - y <= z + Grain
    BY <1>0, <2>1
  <2> QED
    BY <1>8, <2>2 DEF x, y, z
<1>11. 2 * (t - r) <= n + 1 /\ 2 * (r - t) <= n + 1
  <2>1. 2 * (t - r) \in Int /\ 2 * (r - t) \in Int /\ n + 1 \in Int
    BY <1>0, <1>2, <1>7
  <2> QED
    BY <1>0, <1>10, <2>1, Cancels
<1> QED
  BY <1>11 DEF Near, n, r, s, t

-----------------------------------------------------------------------------
(* The calendar of the reports: a day lies in one month, and what a period   *)
(* is compared with ends the day before it begins.                          *)
LEMMA PeriodsAre ==
    ASSUME NEW s, Rising(s)
    PROVE  /\ Len(s) \in Nat /\ \A i \in 1..Len(s) : s[i] \in Int
           /\ DOMAIN Periods(s) = 1..(Len(s) - 1)
           /\ \A i \in 1..(Len(s) - 1) : /\ Periods(s)[i] = [from |-> s[i], to |-> s[i + 1] - 1]
                                         /\ s[i + 1] \in Int /\ s[i] < s[i + 1]
           /\ \A i, j \in 1..Len(s) : s[i] <= s[j] <=> i <= j
<1>1. s \in Seq(Int) /\ Len(s) \in Nat /\ \A i, j \in 1..Len(s) : i < j => s[i] < s[j]
  BY DEF Rising
<1>2. \A i \in 1..Len(s) : s[i] \in Int
  BY <1>1
<1>3. ASSUME NEW i \in 1..(Len(s) - 1)
      PROVE  /\ Periods(s)[i] = [from |-> s[i], to |-> s[i + 1] - 1]
             /\ s[i + 1] \in Int /\ s[i] < s[i + 1]
  <2>1. i \in 1..Len(s) /\ i + 1 \in 1..Len(s) /\ i < i + 1
    BY <1>1
  <2> QED
    BY <1>1, <1>2, <2>1 DEF Periods, CalendarRange
<1>4. ASSUME NEW i \in 1..Len(s), NEW j \in 1..Len(s) PROVE s[i] <= s[j] <=> i <= j
  <2>1. s[i] \in Int /\ s[j] \in Int /\ i \in Int /\ j \in Int
    BY <1>1, <1>2
  <2>2. i < j \/ i = j \/ j < i
    BY <2>1
  <2> QED
    BY <1>1, <2>1, <2>2
<1> QED
  BY <1>1, <1>2, <1>3, <1>4 DEF Periods

LEMMA DayIn ==
    ASSUME NEW s, Rising(s), Len(s) > 0, NEW day \in Int, s[1] <= day, day < s[Len(s)]
    PROVE  \E i \in 1..(Len(s) - 1) : /\ s[i] <= day /\ day < s[i + 1]
                                      /\ \A j \in 1..(Len(s) - 1) : s[j] <= day /\ day < s[j + 1] => j = i
<1> DEFINE T == {n \in Nat : n + 1 \in 1..Len(s) /\ day < s[n + 1]}
<1>1. /\ Len(s) \in Nat /\ \A i \in 1..Len(s) : s[i] \in Int
      /\ \A i, j \in 1..Len(s) : s[i] <= s[j] <=> i <= j
  BY PeriodsAre
<1>2. Len(s) - 1 \in T
  <2>1. Len(s) - 1 \in Nat /\ (Len(s) - 1) + 1 = Len(s) /\ Len(s) \in 1..Len(s)
    BY <1>1
  <2> QED
    BY <2>1
<1>3. PICK i \in T : \A m \in T : ~(m < i)
  <2>1. T \in SUBSET Nat /\ T # {}
    BY <1>2
  <2> HIDE DEF T
  <2> QED
    BY <2>1, LeastNat
<1>4. i \in Nat /\ i + 1 \in 1..Len(s) /\ day < s[i + 1]
  OBVIOUS
<1>5. i # 0
  <2>1. 1 \in 1..Len(s) /\ s[1] \in Int
    BY <1>1
  <2> QED
    BY <1>4, <2>1
<1>6. i \in 1..(Len(s) - 1) /\ i \in 1..Len(s)
  BY <1>1, <1>4, <1>5
<1>7. s[i] <= day
  <2>1. i - 1 \in Nat /\ (i - 1) + 1 = i /\ i - 1 < i
    BY <1>6
  <2>2. i - 1 \notin T
    <3> HIDE DEF T
    <3> QED
      BY <1>3, <2>1
  <2>3. ~(day < s[i])
    BY <1>6, <2>1, <2>2
  <2> QED
    BY <1>1, <1>6, <2>3
<1>8. ASSUME NEW j \in 1..(Len(s) - 1), s[j] <= day, day < s[j + 1] PROVE j = i
  <2>1. j \in 1..Len(s) /\ j + 1 \in 1..Len(s) /\ i + 1 \in 1..Len(s) /\ j \in Int /\ i \in Int
    BY <1>1, <1>6
  <2>2. /\ s[j] \in Int /\ s[j + 1] \in Int /\ s[i] \in Int /\ s[i + 1] \in Int
        /\ (s[j + 1] <= s[i] <=> j + 1 <= i) /\ (s[i + 1] <= s[j] <=> i + 1 <= j)
    BY <1>1, <1>6, <2>1
  <2>3. ~(s[j + 1] <= s[i]) /\ ~(s[i + 1] <= s[j])
    BY <1>4, <1>7, <1>8, <2>2
  <2> QED
    BY <2>1, <2>2, <2>3
<1> QED
  BY <1>4, <1>6, <1>7, <1>8

LEMMA MaxOne == ASSUME NEW i \in Int PROVE Max({i}) = i
BY DEF Max

LEMMA MaxTwo ==
    ASSUME NEW a \in Int, NEW b \in Int
    PROVE  /\ Max({a, b}) = (IF a >= b THEN a ELSE b)
           /\ Min({a, b}) = (IF a <= b THEN a ELSE b)
<1>1. CASE a >= b
  BY <1>1 DEF Max, Min
<1>2. CASE ~(a >= b)
  BY <1>2 DEF Max, Min
<1> QED
  BY <1>1, <1>2

(* The calendar begins with a month, and has two before the third year.     *)
LEMMA ReportCalendar ==
    /\ Rising(MonthStarts) /\ Rising(YearStarts)
    /\ Len(MonthStarts) > 1 /\ Len(YearStarts) > 2
    /\ YearStarts[2] \in Int /\ YearStarts[3] \in Int /\ YearStarts[2] < YearStarts[3]
    /\ MonthStarts[1] \in Int /\ MonthStarts[2] \in Int
    /\ MonthStarts[1] < MonthStarts[2] /\ MonthStarts[2] <= YearStarts[2]
<1>1. /\ Rising(MonthStarts) /\ Rising(YearStarts) /\ Len(YearStarts) > 2
      /\ Range(YearStarts) \subseteq Range(MonthStarts)
  BY PeriodAssumption
<1>2. 1 \in 1..Len(YearStarts) /\ 2 \in 1..Len(YearStarts) /\ 3 \in 1..Len(YearStarts)
  BY <1>1, PeriodsAre
<1>3. /\ YearStarts[1] \in Int /\ YearStarts[2] \in Int /\ YearStarts[3] \in Int
      /\ YearStarts[1] < YearStarts[2] /\ YearStarts[2] < YearStarts[3]
  BY <1>1, <1>2 DEF Rising
<1>4. DOMAIN YearStarts = 1..Len(YearStarts) /\ DOMAIN MonthStarts = 1..Len(MonthStarts)
  BY <1>1 DEF Rising
<1>5. PICK i \in 1..Len(MonthStarts), j \in 1..Len(MonthStarts) :
        MonthStarts[i] = YearStarts[1] /\ MonthStarts[j] = YearStarts[2]
  <2>1. YearStarts[1] \in Range(YearStarts) /\ YearStarts[2] \in Range(YearStarts)
    BY <1>2, <1>4 DEF Range
  <2>2. YearStarts[1] \in Range(MonthStarts) /\ YearStarts[2] \in Range(MonthStarts)
    BY <1>1, <2>1
  <2> QED
    BY <2>2, <1>4 DEF Range
<1>6. /\ Len(MonthStarts) \in Nat /\ \A k \in 1..Len(MonthStarts) : MonthStarts[k] \in Int
      /\ \A k, l \in 1..Len(MonthStarts) : MonthStarts[k] <= MonthStarts[l] <=> k <= l
  BY <1>1, PeriodsAre
<1>7. i < j
  <2>1. ~(j <= i)
    BY <1>3, <1>5, <1>6
  <2> QED
    BY <2>1, <1>6
<1>8. Len(MonthStarts) > 1 /\ 1 \in 1..Len(MonthStarts) /\ 2 \in 1..Len(MonthStarts) /\ 2 <= j
  BY <1>6, <1>7
<1>9. MonthStarts[2] <= MonthStarts[j] /\ ~(MonthStarts[2] <= MonthStarts[1])
  BY <1>6, <1>8
<1> QED
  BY <1>1, <1>3, <1>5, <1>6, <1>8, <1>9

Whole(s, r) == {i \in DOMAIN Periods(s) : Periods(s)[i] = [from |-> r.from, to |-> r.to]}

(* A period that is a whole month or a whole year is so at one place, after  *)
(* the first.                                                               *)
LEMMA WholeIs ==
    ASSUME NEW s, Rising(s), Len(s) > 1, NEW r, r.from \in Int, r.to \in Int, s[2] <= r.to, NEW i \in Whole(s, r)
    PROVE  /\ i \in 2..(Len(s) - 1) /\ i - 1 \in 1..(Len(s) - 1) /\ Whole(s, r) = {i} /\ Max(Whole(s, r)) = i
           /\ Periods(s)[i - 1] = [from |-> s[i - 1], to |-> r.from - 1]
           /\ s[i - 1] \in Int /\ s[i - 1] < r.from
<1>1. /\ Len(s) \in Nat /\ \A k \in 1..Len(s) : s[k] \in Int
      /\ DOMAIN Periods(s) = 1..(Len(s) - 1)
      /\ \A k \in 1..(Len(s) - 1) : /\ Periods(s)[k] = [from |-> s[k], to |-> s[k + 1] - 1]
                                    /\ s[k + 1] \in Int /\ s[k] < s[k + 1]
      /\ \A k, l \in 1..Len(s) : s[k] <= s[l] <=> k <= l
  BY PeriodsAre
<1>2. ASSUME NEW k \in Whole(s, r)
      PROVE  k \in 1..(Len(s) - 1) /\ s[k] = r.from /\ s[k + 1] - 1 = r.to
  <2>1. k \in 1..(Len(s) - 1) /\ Periods(s)[k] = [from |-> r.from, to |-> r.to]
    BY <1>1 DEF Whole
  <2>2. [from |-> s[k], to |-> s[k + 1] - 1] = [from |-> r.from, to |-> r.to]
    BY <1>1, <2>1
  <2> QED
    BY <2>1, <2>2
<1>3. i \in 1..(Len(s) - 1) /\ s[i] = r.from /\ s[i + 1] - 1 = r.to
  BY <1>2
<1>4. i # 1
  <2>1. i + 1 \in 1..Len(s) /\ 2 \in 1..Len(s) /\ s[i + 1] \in Int /\ s[2] \in Int
    BY <1>1, <1>3
  <2>2. ~(s[i + 1] <= s[2])
    BY <1>3, <2>1
  <2>3. ~(i + 1 <= 2)
    BY <1>1, <2>1, <2>2
  <2> QED
    BY <2>3
<1>5. i \in 2..(Len(s) - 1) /\ i - 1 \in 1..(Len(s) - 1) /\ (i - 1) + 1 = i
  BY <1>1, <1>3, <1>4
<1>6. Whole(s, r) = {i}
  <2>1. ASSUME NEW k \in Whole(s, r) PROVE k = i
    <3>0. k \in 1..(Len(s) - 1) /\ s[k] = r.from
      BY <1>2
    <3>1. k \in 1..Len(s) /\ i \in 1..Len(s) /\ s[k] = s[i] /\ s[k] \in Int
      BY <1>1, <1>3, <3>0
    <3>2. k <= i /\ i <= k
      BY <1>1, <3>1
    <3> QED
      BY <3>1, <3>2
  <2> QED
    BY <2>1
<1>7. Max(Whole(s, r)) = i
  BY <1>5, <1>6, MaxOne
<1>8. Periods(s)[i - 1] = [from |-> s[i - 1], to |-> r.from - 1] /\ s[i - 1] < r.from /\ s[i - 1] \in Int
  <2>1. i - 1 \in 1..Len(s)
    BY <1>1, <1>5
  <2> QED
    BY <1>1, <1>3, <1>5, <2>1
<1> QED
  BY <1>5, <1>6, <1>7, <1>8

LEMMA PreviousIs ==
    ASSUME NEW r, r.from \in Int, r.to \in Int, r.from <= r.to, YearStarts[2] <= r.to
    PROVE  LET p == PreviousReportRange(r) IN
           p.from \in Int /\ p.to = r.from - 1 /\ p.from <= p.to
<1>1. PreviousReportRange(r) =
        IF Whole(YearStarts, r) # {} THEN Periods(YearStarts)[Max(Whole(YearStarts, r)) - 1]
        ELSE IF Whole(MonthStarts, r) # {} THEN Periods(MonthStarts)[Max(Whole(MonthStarts, r)) - 1]
        ELSE [from |-> r.from - (r.to - r.from + 1), to |-> r.from - 1]
  BY DEF PreviousReportRange, Whole
<1>2. CASE Whole(YearStarts, r) # {}
  <2>1. PICK i \in Whole(YearStarts, r) : TRUE
    BY <1>2
  <2>2. Len(YearStarts) > 1
    BY ReportCalendar, PeriodsAre
  <2>3. /\ Max(Whole(YearStarts, r)) = i
        /\ Periods(YearStarts)[i - 1] = [from |-> YearStarts[i - 1], to |-> r.from - 1]
        /\ YearStarts[i - 1] \in Int /\ YearStarts[i - 1] < r.from
    BY <2>1, <2>2, ReportCalendar, WholeIs
  <2>4. PreviousReportRange(r) = [from |-> YearStarts[i - 1], to |-> r.from - 1]
    BY <1>1, <1>2, <2>3
  <2> QED
    BY <2>3, <2>4
<1>3. CASE Whole(YearStarts, r) = {} /\ Whole(MonthStarts, r) # {}
  <2>1. PICK i \in Whole(MonthStarts, r) : TRUE
    BY <1>3
  <2>2. MonthStarts[2] <= r.to
    BY ReportCalendar
  <2>3. /\ Max(Whole(MonthStarts, r)) = i
        /\ Periods(MonthStarts)[i - 1] = [from |-> MonthStarts[i - 1], to |-> r.from - 1]
        /\ MonthStarts[i - 1] \in Int /\ MonthStarts[i - 1] < r.from
    BY <2>1, <2>2, ReportCalendar, WholeIs
  <2>4. PreviousReportRange(r) = [from |-> MonthStarts[i - 1], to |-> r.from - 1]
    BY <1>1, <1>3, <2>3
  <2> QED
    BY <2>3, <2>4
<1>4. CASE Whole(YearStarts, r) = {} /\ Whole(MonthStarts, r) = {}
  <2>1. PreviousReportRange(r) = [from |-> r.from - (r.to - r.from + 1), to |-> r.from - 1]
    BY <1>1, <1>4
  <2> QED
    BY <2>1
<1> QED
  BY <1>2, <1>3, <1>4

LEMMA QueryIs ==
    ASSUME NEW q \in ReportQueries
    PROVE  /\ q.from \in Int /\ q.to \in Int /\ q.from <= q.to
           /\ YearStarts[3] <= q.from /\ YearStarts[2] < q.from /\ MonthStarts[2] < q.from
           /\ MonthStarts[1] < q.from /\ q.to < MonthStarts[Len(MonthStarts)]
           /\ DOMAIN q = Fields
<1>1. /\ DOMAIN q = Fields /\ q.from \in Int /\ q.to \in Int /\ q.from <= q.to
      /\ YearStarts[3] <= q.from /\ q.to < MonthStarts[Len(MonthStarts)]
  BY PeriodAssumption
<1> QED
  BY <1>1, ReportCalendar

(* This month is compared with the previous one.                            *)
LEMMA MonthCompared ==
    ASSUME NEW q \in ReportQueries
    PROVE  PreviousReportRange(PresetRange("thisMonth", q.to)) = PresetRange("previousMonth", q.to)
<1> DEFINE s == MonthStarts
           day == q.to
<1>1. /\ Rising(s) /\ Len(s) > 1 /\ Len(s) \in Nat /\ day \in Int /\ s[1] <= day /\ day < s[Len(s)]
      /\ s[2] <= day /\ s[2] \in Int /\ s[1] \in Int
  BY QueryIs, ReportCalendar, PeriodsAre
<1>2. PICK i \in 1..(Len(s) - 1) : /\ s[i] <= day /\ day < s[i + 1]
                                   /\ \A j \in 1..(Len(s) - 1) : s[j] <= day /\ day < s[j + 1] => j = i
  <2>1. Len(s) > 0
    BY <1>1
  <2> HIDE DEF s, day
  <2> QED
    BY <1>1, <2>1, DayIn
<1>3. /\ DOMAIN Periods(s) = 1..(Len(s) - 1)
      /\ \A j \in 1..(Len(s) - 1) : /\ Periods(s)[j] = [from |-> s[j], to |-> s[j + 1] - 1]
                                    /\ s[j + 1] \in Int /\ s[j] < s[j + 1]
      /\ \A j \in 1..Len(s) : s[j] \in Int
  BY <1>1, PeriodsAre
<1>4. \A j \in 1..(Len(s) - 1) : InRange(day, Periods(s)[j]) <=> s[j] <= day /\ day < s[j + 1]
  BY <1>1, <1>3 DEF InRange
<1>5. (CHOOSE j \in DOMAIN Periods(s) : InRange(day, Periods(s)[j])) = i
  BY <1>2, <1>3, <1>4
<1>6. PresetRange("thisMonth", day) = Periods(s)[i] /\ PresetRange("previousMonth", day) = Periods(s)[i - 1]
  BY <1>5 DEF PresetRange
<1> DEFINE r == Periods(s)[i]
<1>7. r = [from |-> s[i], to |-> s[i + 1] - 1] /\ r.from \in Int /\ r.to \in Int
  <2>1. i \in 1..Len(s)
    BY <1>1, <1>2
  <2> QED
    BY <1>2, <1>3, <2>1
<1>8. s[2] <= r.to
  BY <1>1, <1>2, <1>3, <1>7
<1>9. i \in Whole(s, r)
  BY <1>2, <1>3, <1>7 DEF Whole
<1>10. Max(Whole(s, r)) = i
  <2> HIDE DEF r, s
  <2> QED
    BY <1>1, <1>7, <1>8, <1>9, WholeIs
<1>11. Whole(YearStarts, r) = {}
  <2> SUFFICES ASSUME NEW k \in Whole(YearStarts, r) PROVE FALSE
    OBVIOUS
  <2>1. k \in DOMAIN Periods(YearStarts) /\ Periods(YearStarts)[k] = r
    BY <1>7 DEF Whole
  <2>2. r \in Range(Periods(YearStarts)) /\ r \in Range(Periods(s))
    BY <1>2, <1>3, <2>1 DEF Range
  <2> QED
    BY <2>2, PeriodAssumption
<1>12. PreviousReportRange(r) = Periods(s)[i - 1]
  <2>1. PreviousReportRange(r) =
          IF Whole(YearStarts, r) # {} THEN Periods(YearStarts)[Max(Whole(YearStarts, r)) - 1]
          ELSE IF Whole(MonthStarts, r) # {} THEN Periods(MonthStarts)[Max(Whole(MonthStarts, r)) - 1]
          ELSE [from |-> r.from - (r.to - r.from + 1), to |-> r.from - 1]
    BY DEF PreviousReportRange, Whole
  <2> HIDE DEF r
  <2> QED
    BY <2>1, <1>9, <1>10, <1>11
<1> QED
  BY <1>6, <1>12

-----------------------------------------------------------------------------
(* What a report reads: the lines of a sound book, and the expenses.        *)
Sees(snap) == BookInv /\ snap.documents = docs

Lines == Documents \X Products
Revenues(snap) == [l \in Lines |-> Revenue(snap, l)]
CostsOfGoods(snap) == [l \in Lines |-> CostOfGoods(snap, l)]
LineUnits(snap) == [l \in Lines |-> Units(snap, l)]
Prices == [x \in Spendings |-> x.amount]

LEMMA LinesAre ==
    ASSUME NEW snap, Sees(snap), NEW kind \in {"purchase", "sale"}
    PROVE  /\ IsFiniteSet(LinesOf(snap, kind))
           /\ \A l \in LinesOf(snap, kind) :
                 /\ l \in Lines /\ l[1] \in Documents /\ l[2] \in Products /\ l = <<l[1], l[2]>>
                 /\ docs[l[1]].doc \in Entry /\ docs[l[1]].doc.kind = kind /\ docs[l[1]].doc.date \in Nat
                 /\ docs[l[1]].doc.items[l[2]] \in Nat /\ docs[l[1]].doc.items[l[2]] > 0
                 /\ LineUnits(snap)[l] = docs[l[1]].doc.items[l[2]]
                 /\ LineUnits(snap)[l] \in Nat /\ Revenues(snap)[l] \in Int /\ CostsOfGoods(snap)[l] \in Int
<1>1. /\ docs \in [Documents -> Records] /\ IsFiniteSet(Holding(Contents(docs)))
      /\ Contents(docs) \in Ledgers /\ \A e \in Documents : Contents(docs)[e] = docs[e].doc
      /\ snap.documents = docs
  BY ContentsIs DEF Sees, BookInv, BookSound
<1>2. \A e \in Documents : docs[e].doc \in Entry \cup {NoDoc} /\ docs[e].snapshot \in [Products -> Nat]
  <2>1. \A r \in Records : r.doc \in Entry \cup {NoDoc} /\ r.snapshot \in [Products -> Nat]
    BY DEF Records
  <2> QED
    BY <1>1, <2>1
<1>3. ASSUME NEW l \in LinesOf(snap, kind)
      PROVE  /\ l \in Lines /\ l[1] \in Documents /\ l[2] \in Products /\ l = <<l[1], l[2]>>
             /\ docs[l[1]].doc \in Entry /\ docs[l[1]].doc.kind = kind /\ docs[l[1]].doc.date \in Nat
             /\ docs[l[1]].doc.items[l[2]] \in Nat /\ docs[l[1]].doc.items[l[2]] > 0
             /\ LineUnits(snap)[l] = docs[l[1]].doc.items[l[2]]
             /\ LineUnits(snap)[l] \in Nat /\ Revenues(snap)[l] \in Int /\ CostsOfGoods(snap)[l] \in Int
             /\ l \in Holding(Contents(docs)) \X Products
  <2>1. /\ l \in Lines /\ docs[l[1]].doc.kind = kind /\ docs[l[1]].doc.items[l[2]] > 0
    BY <1>1 DEF LinesOf, Lines
  <2>2. l[1] \in Documents /\ l[2] \in Products /\ l = <<l[1], l[2]>>
    BY <2>1 DEF Lines
  <2>3. docs[l[1]].doc # NoDoc
    BY <2>1 DEF NoDoc
  <2>4. docs[l[1]].doc \in Entry
    BY <1>2, <2>2, <2>3
  <2>5. docs[l[1]].doc.date \in Nat /\ docs[l[1]].doc.items[l[2]] \in Nat
    BY <2>2, <2>4, EntryTypes
  <2>6. l[1] \in Holding(Contents(docs))
    BY <1>1, <2>2, <2>3 DEF Holding
  <2>7. l \in Holding(Contents(docs)) \X Products
    BY <2>2, <2>6
  <2>8. LineUnits(snap)[l] = docs[l[1]].doc.items[l[2]] /\ Units(snap, l) = docs[l[1]].doc.items[l[2]]
    BY <1>1, <2>1 DEF LineUnits, Units
  <2>9. Revenues(snap)[l] \in Int
    <3>1. Grain \in Int /\ Deals[l[1]].price \in Int /\ Deals[l[1]].discount \in Int
      BY <2>2, ReportAssumption, StockAssumption
    <3>2. Revenues(snap)[l] = Grain * (docs[l[1]].doc.items[l[2]] * Deals[l[1]].price - Deals[l[1]].discount)
      BY <2>1, <2>8 DEF Revenues, Revenue
    <3>3. docs[l[1]].doc.items[l[2]] * Deals[l[1]].price \in Int
      BY <3>1, <2>5
    <3> QED
      BY <3>1, <3>2, <3>3
  <2>10. CostsOfGoods(snap)[l] \in Int
    <3>1. CostsOfGoods(snap)[l] = docs[l[1]].doc.items[l[2]] * docs[l[1]].snapshot[l[2]]
      BY <1>1, <2>1, <2>8 DEF CostsOfGoods, CostOfGoods
    <3>2. docs[l[1]].snapshot[l[2]] \in Nat
      BY <1>2, <2>2
    <3> QED
      BY <3>1, <3>2, <2>5
  <2> QED
    BY <2>1, <2>2, <2>4, <2>5, <2>7, <2>8, <2>9, <2>10
<1>4. LinesOf(snap, kind) \subseteq Holding(Contents(docs)) \X Products
  BY <1>3
<1>5. IsFiniteSet(Holding(Contents(docs)) \X Products)
  BY <1>1, ReportAssumption, FS_Product
<1>6. IsFiniteSet(LinesOf(snap, kind))
  BY <1>4, <1>5, FS_Subset
<1> QED
  BY <1>3, <1>6

LEMMA FiguresAre ==
    ASSUME NEW snap, Sees(snap), NEW kind \in {"purchase", "sale"}, NEW S, S \subseteq LinesOf(snap, kind)
    PROVE  /\ IsFiniteSet(S)
           /\ \A l \in S : LineUnits(snap)[l] \in Int /\ Revenues(snap)[l] \in Int /\ CostsOfGoods(snap)[l] \in Int
           /\ RevenueOf(snap, S) = SumOver(Revenues(snap), S) /\ RevenueOf(snap, S) \in Int
           /\ CostOf(snap, S) = SumOver(CostsOfGoods(snap), S) /\ CostOf(snap, S) \in Int
           /\ UnitsOf(snap, S) = SumOver(LineUnits(snap), S) /\ UnitsOf(snap, S) \in Int
<1>1. /\ IsFiniteSet(S) /\ S \subseteq Lines
      /\ \A l \in S : LineUnits(snap)[l] \in Int /\ Revenues(snap)[l] \in Int /\ CostsOfGoods(snap)[l] \in Int
  BY LinesAre, FS_Subset
<1>2. ASSUME NEW F, NEW f, DOMAIN f = S, \A l \in S : F[l] = f[l] /\ F[l] \in Int
      PROVE  SumFunction(f) = SumOver(F, S) /\ SumOver(F, S) \in Int
  <2>1. SumFunction(f) = SumOver(f, S)
    BY <1>1, <1>2, SumFunctionIs
  <2>2. SumOver(f, S) = SumOver(F, S)
    BY <1>1, <1>2, SumOverSame
  <2>3. SumOver(F, S) \in Int
    BY <1>1, <1>2, SumOverTakes
  <2> QED
    BY <2>1, <2>2, <2>3
<1>3. RevenueOf(snap, S) = SumOver(Revenues(snap), S) /\ RevenueOf(snap, S) \in Int
  <2> DEFINE f == [s \in S |-> Revenue(snap, s)]
  <2>1. DOMAIN f = S /\ \A l \in S : Revenues(snap)[l] = f[l]
    BY <1>1 DEF Revenues
  <2>2. RevenueOf(snap, S) = SumFunction(f)
    BY DEF RevenueOf
  <2> HIDE DEF f
  <2> QED
    BY <1>1, <1>2, <2>1, <2>2
<1>4. CostOf(snap, S) = SumOver(CostsOfGoods(snap), S) /\ CostOf(snap, S) \in Int
  <2> DEFINE f == [s \in S |-> CostOfGoods(snap, s)]
  <2>1. DOMAIN f = S /\ \A l \in S : CostsOfGoods(snap)[l] = f[l]
    BY <1>1 DEF CostsOfGoods
  <2>2. CostOf(snap, S) = SumFunction(f)
    BY DEF CostOf
  <2> HIDE DEF f
  <2> QED
    BY <1>1, <1>2, <2>1, <2>2
<1>5. UnitsOf(snap, S) = SumOver(LineUnits(snap), S) /\ UnitsOf(snap, S) \in Int
  <2> DEFINE f == [s \in S |-> Units(snap, s)]
  <2>1. DOMAIN f = S /\ \A l \in S : LineUnits(snap)[l] = f[l]
    BY <1>1 DEF LineUnits
  <2>2. UnitsOf(snap, S) = SumFunction(f)
    BY DEF UnitsOf
  <2> HIDE DEF f
  <2> QED
    BY <1>1, <1>2, <2>1, <2>2
<1> QED
  BY <1>1, <1>3, <1>4, <1>5

LEMMA SpentIs ==
    ASSUME NEW E \in SUBSET Spendings
    PROVE  /\ IsFiniteSet(E) /\ \A x \in E : Prices[x] = x.amount /\ Prices[x] \in Int
           /\ SpentOn(E) = SumOver(Prices, E) /\ SpentOn(E) \in Int
<1>1. IsFiniteSet(E) /\ \A x \in E : Prices[x] = x.amount /\ Prices[x] \in Int
  <2>1. \A x \in Spendings : x.amount \in Int
    BY ReportAssumption
  <2> QED
    BY <2>1, ReportAssumption, FS_Subset DEF Prices
<1> DEFINE f == [x \in E |-> x.amount]
<1>2. DOMAIN f = E /\ \A x \in E : f[x] = Prices[x]
  BY <1>1
<1>3. SpentOn(E) = SumFunction(f)
  BY DEF SpentOn
<1> HIDE DEF f
<1>4. SumFunction(f) = SumOver(f, E)
  BY <1>1, <1>2, SumFunctionIs
<1>5. SumOver(f, E) = SumOver(Prices, E)
  BY <1>1, <1>2, SumOverSame
<1>6. SumOver(Prices, E) \in Int
  BY <1>1, SumOverTakes
<1> QED
  BY <1>1, <1>3, <1>4, <1>5, <1>6

(* The sum of f's values, where f gives each of K what F gives it.           *)
LEMMA SumFunctionOf ==
    ASSUME NEW K, IsFiniteSet(K), NEW f, DOMAIN f = K, NEW F, \A k \in K : f[k] = F[k]
    PROVE  SumFunction(f) = SumOver(F, K)
BY SumFunctionIs, SumOverSame

-----------------------------------------------------------------------------
(* The months of a report share its days out.                               *)
MonthAt(q, day) == CHOOSE i \in DOMAIN MonthsOf(q) : InRange(day, MonthsOf(q)[i])

LEMMA MonthsAre ==
    ASSUME NEW q \in ReportQueries
    PROVE  /\ IsFiniteSet(DOMAIN MonthsOf(q))
           /\ \A i \in DOMAIN MonthsOf(q) :
                 /\ MonthsOf(q)[i].from \in Int /\ MonthsOf(q)[i].to \in Int
                 /\ \A day \in Int : InRange(day, MonthsOf(q)[i]) <=> InRange(day, q) /\ MonthAt(q, day) = i
           /\ \A day \in Int : InRange(day, q) => MonthAt(q, day) \in DOMAIN MonthsOf(q)
<1> DEFINE s == MonthStarts
           M == MonthsOf(q)
<1>1. /\ Rising(s) /\ Len(s) > 0 /\ Len(s) \in Nat /\ q.from \in Int /\ q.to \in Int /\ q.from <= q.to
      /\ s[1] < q.from /\ q.to < s[Len(s)] /\ s[1] \in Int /\ s[Len(s)] \in Int
  <2>1. Len(s) > 1 /\ Len(s) \in Nat /\ \A i \in 1..Len(s) : s[i] \in Int
    BY ReportCalendar, PeriodsAre
  <2> HIDE DEF s
  <2>2. Len(s) > 0 /\ s[1] \in Int /\ s[Len(s)] \in Int
    BY <2>1
  <2> QED
    BY <2>1, <2>2, QueryIs, ReportCalendar DEF s
<1>2. /\ DOMAIN Periods(s) = 1..(Len(s) - 1)
      /\ \A j \in 1..(Len(s) - 1) : /\ Periods(s)[j] = [from |-> s[j], to |-> s[j + 1] - 1]
                                    /\ s[j] \in Int /\ s[j + 1] \in Int /\ s[j] < s[j + 1]
  <2>1. \A j \in 1..(Len(s) - 1) : j \in 1..Len(s)
    BY <1>1
  <2> QED
    BY <1>1, <2>1, PeriodsAre
<1>3. DOMAIN M = {i \in 1..(Len(s) - 1) : s[i] <= q.to /\ q.from < s[i + 1]}
  BY <1>2 DEF MonthsOf, Touches
<1>4. ASSUME NEW i \in DOMAIN M
      PROVE  /\ M[i] = [from |-> IF q.from >= s[i] THEN q.from ELSE s[i],
                        to |-> IF q.to <= s[i + 1] - 1 THEN q.to ELSE s[i + 1] - 1]
             /\ i \in 1..(Len(s) - 1)
  <2>1. i \in 1..(Len(s) - 1) /\ i \in Touches(q)
    BY <1>3 DEF MonthsOf
  <2>2. Periods(s)[i].from = s[i] /\ Periods(s)[i].to = s[i + 1] - 1 /\ s[i] \in Int /\ s[i + 1] - 1 \in Int
    BY <1>2, <2>1
  <2>3. M[i] = [from |-> Max({q.from, s[i]}), to |-> Min({q.to, s[i + 1] - 1})]
    BY <2>1, <2>2 DEF MonthsOf
  <2> HIDE DEF M, s
  <2> QED
    BY <1>1, <2>1, <2>2, <2>3, MaxTwo
<1>5. ASSUME NEW i \in DOMAIN M, NEW day \in Int
      PROVE  /\ M[i].from \in Int /\ M[i].to \in Int
             /\ InRange(day, M[i]) <=> InRange(day, q) /\ s[i] <= day /\ day < s[i + 1]
  <2>1. s[i] \in Int /\ s[i + 1] \in Int /\ s[i] <= q.to /\ q.from < s[i + 1]
    BY <1>2, <1>3
  <2> HIDE DEF M, s
  <2> QED
    BY <1>1, <1>4, <2>1 DEF InRange
<1>6. ASSUME NEW day \in Int, InRange(day, q)
      PROVE  \E i \in DOMAIN M : /\ InRange(day, M[i])
                                 /\ \A j \in DOMAIN M : InRange(day, M[j]) => j = i
  <2>1. q.from <= day /\ day <= q.to
    BY <1>6 DEF InRange
  <2>2. PICK i \in 1..(Len(s) - 1) : /\ s[i] <= day /\ day < s[i + 1]
                                     /\ \A j \in 1..(Len(s) - 1) : s[j] <= day /\ day < s[j + 1] => j = i
    <3>1. s[1] <= day /\ day < s[Len(s)]
      BY <1>1, <2>1
    <3> HIDE DEF s
    <3> QED
      BY <1>1, <3>1, DayIn
  <2>3. s[i] <= q.to /\ q.from < s[i + 1]
    BY <1>1, <1>2, <2>1, <2>2
  <2>4. i \in DOMAIN M
    BY <1>3, <2>3
  <2>5. InRange(day, M[i])
    BY <1>5, <1>6, <2>2, <2>4
  <2>6. ASSUME NEW j \in DOMAIN M, InRange(day, M[j]) PROVE j = i
    <3>1. s[j] <= day /\ day < s[j + 1] /\ j \in 1..(Len(s) - 1)
      BY <1>3, <1>5, <2>6
    <3> QED
      BY <2>2, <3>1
  <2> QED
    BY <2>4, <2>5, <2>6
<1>7. ASSUME NEW day \in Int, InRange(day, q)
      PROVE  MonthAt(q, day) \in DOMAIN M /\ \A i \in DOMAIN M : InRange(day, M[i]) <=> MonthAt(q, day) = i
  <2>1. PICK i \in DOMAIN M : /\ InRange(day, M[i]) /\ \A j \in DOMAIN M : InRange(day, M[j]) => j = i
    BY <1>6, <1>7
  <2>2. MonthAt(q, day) = i
    BY <2>1 DEF MonthAt
  <2> QED
    BY <2>1, <2>2
<1>8. IsFiniteSet(DOMAIN M)
  <2>1. IsFiniteSet(1..(Len(s) - 1))
    BY <1>1, FS_Interval
  <2> QED
    BY <1>3, <2>1, FS_Subset
<1> QED
  BY <1>5, <1>7, <1>8

LEMMA AtIs ==
    ASSUME NEW q \in ReportQueries, NEW r
    PROVE  /\ At(q, r).from = r.from /\ At(q, r).to = r.to
           /\ \A f \in Fields \ {"from", "to"} : At(q, r)[f] = q[f]
BY QueryIs DEF At, Fields

LEMMA MonthLines ==
    ASSUME NEW snap, Sees(snap), NEW products, NEW q \in ReportQueries, NEW i \in DOMAIN MonthsOf(q)
    PROVE  /\ SaleRows(snap, products, At(q, MonthsOf(q)[i])) =
                {l \in SaleRows(snap, products, q) : MonthAt(q, docs[l[1]].doc.date) = i}
           /\ snap.expenses \subseteq Spendings =>
                SelectedExpenses(snap, At(q, MonthsOf(q)[i])) =
                   {x \in SelectedExpenses(snap, q) : MonthAt(q, x.date) = i}
<1> DEFINE m == MonthsOf(q)[i]
<1>1. At(q, m).from = m.from /\ At(q, m).to = m.to
  BY AtIs
<1>2. At(q, m).channel = q.channel /\ At(q, m).expenseCategory = q.expenseCategory
  BY AtIs DEF Fields
<1>3. \A day \in Int : InRange(day, At(q, m)) <=> InRange(day, q) /\ MonthAt(q, day) = i
  <2>1. \A day \in Int : InRange(day, m) <=> InRange(day, q) /\ MonthAt(q, day) = i
    BY MonthsAre
  <2> QED
    BY <1>1, <2>1 DEF InRange
<1> HIDE DEF m
<1>4. \A l \in LinesOf(snap, "sale") : docs[l[1]].doc.date \in Int
  BY LinesAre
<1>5. snap.documents = docs
  BY DEF Sees
<1>6. \A l \in LinesOf(snap, "sale") :
         SaleMatches(snap, l, At(q, m)) <=> SaleMatches(snap, l, q) /\ MonthAt(q, docs[l[1]].doc.date) = i
  BY <1>2, <1>3, <1>4, <1>5 DEF SaleMatches
<1>7. SaleRows(snap, products, At(q, m)) =
        {l \in SaleRows(snap, products, q) : MonthAt(q, docs[l[1]].doc.date) = i}
  BY <1>6 DEF SaleRows
<1>8. ASSUME snap.expenses \subseteq Spendings
      PROVE  SelectedExpenses(snap, At(q, m)) = {x \in SelectedExpenses(snap, q) : MonthAt(q, x.date) = i}
  <2>1. \A x \in snap.expenses : x.date \in Int
    BY <1>8, ReportAssumption
  <2> QED
    BY <1>2, <1>3, <2>1 DEF SelectedExpenses
<1> QED
  BY <1>7, <1>8 DEF m

-----------------------------------------------------------------------------
(* What the totals of some sales and some expenses are before rounding.      *)
Recurring(E) == {x \in E : x.recurring}
OneTime(E) == {x \in E : ~x.recurring}

Exact(snap, S, E) ==
    [revenue |-> RevenueOf(snap, S), costOfGoods |-> CostOf(snap, S),
     grossProfit |-> RevenueOf(snap, S) - CostOf(snap, S),
     operatingExpenses |-> SpentOn(OneTime(E)), recurringExpenses |-> SpentOn(Recurring(E)),
     totalExpenses |-> SpentOn(OneTime(E)) + SpentOn(Recurring(E)),
     netProfit |-> RevenueOf(snap, S) - CostOf(snap, S) - SpentOn(OneTime(E)) - SpentOn(Recurring(E))]

Sold(snap, S) == Sees(snap) /\ S \subseteq LinesOf(snap, "sale")

LEMMA TotalsAre ==
    ASSUME NEW snap, NEW S, Sold(snap, S), NEW E \in SUBSET Spendings
    PROVE  /\ \A a \in Amounts : /\ Exact(snap, S, E)[a] \in Int
                                 /\ Totals(snap, S, E)[a] = RoundMoney(Exact(snap, S, E)[a])
           /\ Totals(snap, S, E).unitsSold = UnitsOf(snap, S)
           /\ Totals(snap, S, E).orderCount = Cardinality({s[1] : s \in S})
           /\ DOMAIN Totals(snap, S, E) = Amounts \cup {"unitsSold", "orderCount"}
<1>1. RevenueOf(snap, S) \in Int /\ CostOf(snap, S) \in Int
  BY FiguresAre DEF Sold
<1>2. SpentOn(OneTime(E)) \in Int /\ SpentOn(Recurring(E)) \in Int
  <2>1. OneTime(E) \in SUBSET Spendings /\ Recurring(E) \in SUBSET Spendings
    BY DEF OneTime, Recurring
  <2> QED
    BY <2>1, SpentIs
<1>3. ASSUME NEW a \in Amounts PROVE Exact(snap, S, E)[a] \in Int
  BY <1>1, <1>2 DEF Exact, Amounts
<1>4. ASSUME NEW a \in Amounts PROVE Totals(snap, S, E)[a] = RoundMoney(Exact(snap, S, E)[a])
  BY DEF Totals, Exact, Amounts, OneTime, Recurring
<1>5. /\ Totals(snap, S, E).unitsSold = UnitsOf(snap, S)
      /\ Totals(snap, S, E).orderCount = Cardinality({s[1] : s \in S})
      /\ DOMAIN Totals(snap, S, E) = Amounts \cup {"unitsSold", "orderCount"}
  BY DEF Totals, Amounts
<1> QED
  BY <1>3, <1>4, <1>5

(* Taken group by group they add up.                                        *)
Group(S, h, k) == {x \in S : h[x] = k}
Shares(S, K, h) == \A x \in S : h[x] \in K
Figures(snap, S, K, h, R, C, U) ==
    \A k \in K : /\ R[k] = RevenueOf(snap, Group(S, h, k)) /\ C[k] = CostOf(snap, Group(S, h, k))
                 /\ U[k] = UnitsOf(snap, Group(S, h, k))
Exactly(snap, S, E, K, h, g, b, Y) == \A k \in K : Y[k] = Exact(snap, Group(S, h, k), Group(E, g, k))[b]

LEMMA SpentGroups ==
    ASSUME NEW E \in SUBSET Spendings, NEW K, IsFiniteSet(K), NEW g, \A x \in E : g[x] \in K
    PROVE  SpentOn(E) = SumOver([k \in K |-> SpentOn(Group(E, g, k))], K)
<1>1. IsFiniteSet(E) /\ \A x \in E : Prices[x] \in Int
  BY SpentIs
<1>2. SumOver(Prices, E) = SumOver([k \in K |-> SumOver(Prices, {x \in E : g[x] = k})], K)
  BY <1>1, SumGroups
<1>3. \A k \in K : SpentOn(Group(E, g, k)) = SumOver(Prices, {x \in E : g[x] = k})
  <2>1. \A k : Group(E, g, k) \in SUBSET Spendings
    BY DEF Group
  <2> QED
    BY <2>1, SpentIs DEF Group
<1>4. SumOver([k \in K |-> SumOver(Prices, {x \in E : g[x] = k})], K) = SumOver([k \in K |-> SpentOn(Group(E, g, k))], K)
  <2> DEFINE F == [k \in K |-> SumOver(Prices, {x \in E : g[x] = k})]
             G == [k \in K |-> SpentOn(Group(E, g, k))]
  <2>1. \A k \in K : F[k] = G[k]
    BY <1>3
  <2> HIDE DEF F, G
  <2>2. SumOver(F, K) = SumOver(G, K)
    BY <2>1, SumOverSame
  <2> QED
    BY <2>2 DEF F, G
<1>5. SpentOn(E) = SumOver(Prices, E)
  BY SpentIs
<1> QED
  BY <1>2, <1>4, <1>5

LEMMA SoldGroups ==
    ASSUME NEW snap, NEW S, Sold(snap, S), NEW K, IsFiniteSet(K), NEW h, Shares(S, K, h),
           NEW R, NEW C, NEW U, Figures(snap, S, K, h, R, C, U)
    PROVE  /\ RevenueOf(snap, S) = SumOver(R, K) /\ CostOf(snap, S) = SumOver(C, K)
           /\ UnitsOf(snap, S) = SumOver(U, K)
<1>1. /\ IsFiniteSet(S)
      /\ \A l \in S : LineUnits(snap)[l] \in Int /\ Revenues(snap)[l] \in Int /\ CostsOfGoods(snap)[l] \in Int
      /\ RevenueOf(snap, S) = SumOver(Revenues(snap), S)
      /\ CostOf(snap, S) = SumOver(CostsOfGoods(snap), S)
      /\ UnitsOf(snap, S) = SumOver(LineUnits(snap), S)
  BY FiguresAre DEF Sold
<1>2. \A k \in K : /\ R[k] = SumOver(Revenues(snap), {x \in S : h[x] = k})
                   /\ C[k] = SumOver(CostsOfGoods(snap), {x \in S : h[x] = k})
                   /\ U[k] = SumOver(LineUnits(snap), {x \in S : h[x] = k})
  <2>1. \A k : Group(S, h, k) \subseteq LinesOf(snap, "sale") /\ Group(S, h, k) = {x \in S : h[x] = k}
    BY DEF Group, Sold
  <2>2. \A k : /\ RevenueOf(snap, Group(S, h, k)) = SumOver(Revenues(snap), Group(S, h, k))
               /\ CostOf(snap, Group(S, h, k)) = SumOver(CostsOfGoods(snap), Group(S, h, k))
               /\ UnitsOf(snap, Group(S, h, k)) = SumOver(LineUnits(snap), Group(S, h, k))
    BY <2>1, FiguresAre DEF Sold
  <2> QED
    BY <2>1, <2>2 DEF Figures
<1>3. ASSUME NEW F, \A l \in S : F[l] \in Int, NEW G, \A k \in K : G[k] = SumOver(F, {x \in S : h[x] = k})
      PROVE  SumOver(F, S) = SumOver(G, K)
  <2> DEFINE H == [k \in K |-> SumOver(F, {x \in S : h[x] = k})]
  <2>1. SumOver(F, S) = SumOver(H, K)
    BY <1>1, <1>3, SumGroups DEF Shares
  <2>2. \A k \in K : H[k] = G[k]
    BY <1>3
  <2> HIDE DEF H
  <2>3. SumOver(H, K) = SumOver(G, K)
    BY <2>2, SumOverSame
  <2> QED
    BY <2>1, <2>3
<1>4. /\ SumOver(Revenues(snap), S) = SumOver(R, K)
      /\ SumOver(CostsOfGoods(snap), S) = SumOver(C, K)
      /\ SumOver(LineUnits(snap), S) = SumOver(U, K)
  BY <1>1, <1>2, <1>3
<1> QED
  BY <1>1, <1>4

LEMMA ExactGroups ==
    ASSUME NEW snap, NEW S, Sold(snap, S), NEW E \in SUBSET Spendings,
           NEW K, IsFiniteSet(K), NEW h, Shares(S, K, h), NEW g, Shares(E, K, g),
           NEW b \in Amounts, NEW Y, Exactly(snap, S, E, K, h, g, b, Y)
    PROVE  Exact(snap, S, E)[b] = SumOver(Y, K)
<1> DEFINE R == [k \in K |-> RevenueOf(snap, Group(S, h, k))]
           C == [k \in K |-> CostOf(snap, Group(S, h, k))]
           O == [k \in K |-> SpentOn(OneTime(Group(E, g, k)))]
           P == [k \in K |-> SpentOn(Recurring(Group(E, g, k)))]
           X(a) == [k \in K |-> Exact(snap, Group(S, h, k), Group(E, g, k))[a]]
<1>1. \A k \in K : R[k] \in Int /\ C[k] \in Int /\ O[k] \in Int /\ P[k] \in Int
  <2>1. \A k : /\ Group(S, h, k) \subseteq LinesOf(snap, "sale")
               /\ OneTime(Group(E, g, k)) \in SUBSET Spendings /\ Recurring(Group(E, g, k)) \in SUBSET Spendings
    BY DEF Group, OneTime, Recurring, Sold
  <2>2. \A k : RevenueOf(snap, Group(S, h, k)) \in Int /\ CostOf(snap, Group(S, h, k)) \in Int
    BY <2>1, FiguresAre DEF Sold
  <2>3. \A k : SpentOn(OneTime(Group(E, g, k))) \in Int /\ SpentOn(Recurring(Group(E, g, k))) \in Int
    BY <2>1, SpentIs
  <2> QED
    BY <2>2, <2>3
<1>2. RevenueOf(snap, S) = SumOver(R, K) /\ CostOf(snap, S) = SumOver(C, K)
  <2> DEFINE U == [k \in K |-> UnitsOf(snap, Group(S, h, k))]
  <2>1. Figures(snap, S, K, h, R, C, U)
    BY DEF Figures
  <2> HIDE DEF R, C, U
  <2> QED
    BY <2>1, SoldGroups
<1>3. SpentOn(OneTime(E)) = SumOver(O, K)
  <2>1. OneTime(E) \in SUBSET Spendings /\ \A x \in OneTime(E) : g[x] \in K
    BY DEF OneTime, Shares
  <2>2. SpentOn(OneTime(E)) = SumOver([k \in K |-> SpentOn(Group(OneTime(E), g, k))], K)
    BY <2>1, SpentGroups
  <2>3. \A k : Group(OneTime(E), g, k) = OneTime(Group(E, g, k))
    BY DEF OneTime, Group
  <2> QED
    BY <2>2, <2>3
<1>4. SpentOn(Recurring(E)) = SumOver(P, K)
  <2>1. Recurring(E) \in SUBSET Spendings /\ \A x \in Recurring(E) : g[x] \in K
    BY DEF Recurring, Shares
  <2>2. SpentOn(Recurring(E)) = SumOver([k \in K |-> SpentOn(Group(Recurring(E), g, k))], K)
    BY <2>1, SpentGroups
  <2>3. \A k : Group(Recurring(E), g, k) = Recurring(Group(E, g, k))
    BY DEF Recurring, Group
  <2> QED
    BY <2>2, <2>3
<1>5. \A k \in K : /\ X("revenue")[k] = R[k] /\ X("costOfGoods")[k] = C[k]
                   /\ X("grossProfit")[k] = R[k] - C[k]
                   /\ X("operatingExpenses")[k] = O[k] /\ X("recurringExpenses")[k] = P[k]
                   /\ X("totalExpenses")[k] = O[k] + P[k]
                   /\ X("netProfit")[k] = R[k] - C[k] - O[k] - P[k]
  BY DEF Exact
<1> HIDE DEF R, C, O, P, X
<1>6. /\ SumOver(X("revenue"), K) = SumOver(R, K) /\ SumOver(X("costOfGoods"), K) = SumOver(C, K)
      /\ SumOver(X("operatingExpenses"), K) = SumOver(O, K) /\ SumOver(X("recurringExpenses"), K) = SumOver(P, K)
  BY <1>5, SumOverSame
<1>7. SumOver(X("grossProfit"), K) = SumOver(R, K) - SumOver(C, K)
  BY <1>1, <1>5, SumMinus
<1>8. SumOver(X("totalExpenses"), K) = SumOver(O, K) + SumOver(P, K)
  BY <1>1, <1>5, SumPlus
<1>9. /\ SumOver(R, K) \in Int /\ SumOver(C, K) \in Int /\ SumOver(O, K) \in Int /\ SumOver(P, K) \in Int
      /\ SumOver(X("grossProfit"), K) \in Int /\ SumOver(X("totalExpenses"), K) \in Int
  <2>1. \A k \in K : X("grossProfit")[k] \in Int /\ X("totalExpenses")[k] \in Int
    BY <1>1, <1>5
  <2> QED
    BY <1>1, <2>1, SumOverTakes
<1>10. SumOver(X("netProfit"), K) = SumOver(X("grossProfit"), K) - SumOver(X("totalExpenses"), K)
  <2>1. \A k \in K : /\ X("grossProfit")[k] \in Int /\ X("totalExpenses")[k] \in Int
                     /\ X("netProfit")[k] = X("grossProfit")[k] - X("totalExpenses")[k]
    BY <1>1, <1>5
  <2> QED
    BY <2>1, SumMinus
<1>11. /\ Exact(snap, S, E).revenue = SumOver(R, K) /\ Exact(snap, S, E).costOfGoods = SumOver(C, K)
       /\ Exact(snap, S, E).grossProfit = SumOver(R, K) - SumOver(C, K)
       /\ Exact(snap, S, E).operatingExpenses = SumOver(O, K) /\ Exact(snap, S, E).recurringExpenses = SumOver(P, K)
       /\ Exact(snap, S, E).totalExpenses = SumOver(O, K) + SumOver(P, K)
       /\ Exact(snap, S, E).netProfit = SumOver(R, K) - SumOver(C, K) - SumOver(O, K) - SumOver(P, K)
  BY <1>2, <1>3, <1>4 DEF Exact
<1>12. ASSUME NEW a \in Amounts PROVE Exact(snap, S, E)[a] = SumOver(X(a), K)
  BY <1>6, <1>7, <1>8, <1>9, <1>10, <1>11 DEF Amounts
<1>13. SumOver(Y, K) = SumOver(X(b), K)
  <2>1. \A k \in K : X(b)[k] = Y[k]
    BY DEF X, Exactly
  <2> QED
    BY <2>1, SumOverSame
<1> QED
  BY <1>12, <1>13

LEMMA CountGroups ==
    ASSUME NEW S, IsFiniteSet(S), NEW K, IsFiniteSet(K), NEW h, \A x \in S : h[x] \in K,
           NEW C, \A k \in K : C[k] = Cardinality(Group(S, h, k))
    PROVE  Cardinality(S) = SumOver(C, K)
<1> DEFINE F == [x \in S |-> 1]
           H == [k \in K |-> SumOver(F, {x \in S : h[x] = k})]
<1>1. \A x \in S : F[x] = 1 /\ F[x] \in Int
  OBVIOUS
<1> HIDE DEF F
<1>2. SumOver(F, S) = Cardinality(S)
  BY <1>1, SumOfOnes
<1>3. SumOver(F, S) = SumOver(H, K)
  BY <1>1, SumGroups
<1>4. \A k \in K : H[k] = C[k]
  <2>1. ASSUME NEW k \in K PROVE SumOver(F, Group(S, h, k)) = Cardinality(Group(S, h, k))
    <3>1. IsFiniteSet(Group(S, h, k)) /\ \A x \in Group(S, h, k) : F[x] = 1
      BY <1>1, FS_Subset DEF Group
    <3> QED
      BY <3>1, SumOfOnes
  <2> QED
    BY <2>1 DEF Group
<1> HIDE DEF H
<1>5. SumOver(H, K) = SumOver(C, K)
  BY <1>4, SumOverSame
<1> QED
  BY <1>2, <1>3, <1>5

(* The months of a report add up to it.                                     *)
LEMMA MonthsAddUp ==
    ASSUME NEW snap, Sees(snap), snap.expenses \subseteq Spendings, NEW products, NEW q \in ReportQueries,
           NEW m, m = MonthlyRows(snap, products, q)
    PROVE  LET total == PeriodTotals(snap, products, q)
               over(a) == SumFunction([i \in DOMAIN m |-> m[i][a]])
           IN  /\ \A a \in Amounts : Near(total[a], over(a), Cardinality(DOMAIN m) + 1)
               /\ \A a \in {"unitsSold", "orderCount"} : total[a] = over(a)
<1> DEFINE K == DOMAIN MonthsOf(q)
           S == SaleRows(snap, products, q)
           E == SelectedExpenses(snap, q)
           h == [l \in Lines |-> MonthAt(q, docs[l[1]].doc.date)]
           g == [x \in Spendings |-> MonthAt(q, x.date)]
           c == [e \in Documents |-> MonthAt(q, docs[e].doc.date)]
           over(a) == SumFunction([i \in DOMAIN m |-> m[i][a]])
<1>1. IsFiniteSet(K) /\ DOMAIN m = K
  BY MonthsAre DEF MonthlyRows
<1>2. /\ S \subseteq LinesOf(snap, "sale") /\ E \in SUBSET Spendings
      /\ \A l \in S : InRange(docs[l[1]].doc.date, q) /\ docs[l[1]].doc.date \in Int /\ l \in Lines /\ l[1] \in Documents
      /\ \A x \in E : InRange(x.date, q) /\ x.date \in Int /\ x \in Spendings
  <2>1. S \subseteq LinesOf(snap, "sale") /\ \A l \in S : InRange(docs[l[1]].doc.date, q)
    BY DEF SaleRows, SaleMatches, Sees
  <2>2. \A l \in LinesOf(snap, "sale") : docs[l[1]].doc.date \in Int /\ l \in Lines /\ l[1] \in Documents
    BY LinesAre
  <2>3. E \in SUBSET Spendings /\ \A x \in E : InRange(x.date, q)
    BY DEF SelectedExpenses
  <2>4. \A x \in Spendings : x.date \in Int
    BY ReportAssumption
  <2> QED
    BY <2>1, <2>2, <2>3, <2>4
<1>3. /\ \A l \in S : h[l] = MonthAt(q, docs[l[1]].doc.date) /\ h[l] \in K
      /\ \A x \in E : g[x] = MonthAt(q, x.date) /\ g[x] \in K
      /\ \A l \in S : c[l[1]] = h[l]
  BY <1>2, MonthsAre
<1>4. \A k \in K : SaleRows(snap, products, At(q, MonthsOf(q)[k])) = Group(S, h, k)
  BY <1>3, MonthLines DEF Group
<1>5. \A k \in K : SelectedExpenses(snap, At(q, MonthsOf(q)[k])) = Group(E, g, k)
  BY <1>3, MonthLines DEF Group
<1>6. \A k \in K : m[k] = Totals(snap, Group(S, h, k), Group(E, g, k))
  BY <1>4, <1>5 DEF MonthlyRows, PeriodTotals
<1>7. PeriodTotals(snap, products, q) = Totals(snap, S, E)
  BY DEF PeriodTotals
<1> HIDE DEF K, S, E, h, g, c
<1>0. Sold(snap, S) /\ Shares(S, K, h) /\ Shares(E, K, g)
  BY <1>2, <1>3 DEF Sold, Shares
<1>8. /\ \A a \in Amounts : /\ Exact(snap, S, E)[a] \in Int
                            /\ Totals(snap, S, E)[a] = RoundMoney(Exact(snap, S, E)[a])
      /\ Totals(snap, S, E).unitsSold = UnitsOf(snap, S)
      /\ Totals(snap, S, E).orderCount = Cardinality({s[1] : s \in S})
  BY <1>0, <1>2, TotalsAre
<1>9. ASSUME NEW k \in K
      PROVE  /\ \A a \in Amounts : /\ Exact(snap, Group(S, h, k), Group(E, g, k))[a] \in Int
                                   /\ m[k][a] = RoundMoney(Exact(snap, Group(S, h, k), Group(E, g, k))[a])
             /\ m[k].unitsSold = UnitsOf(snap, Group(S, h, k))
             /\ m[k].orderCount = Cardinality({s[1] : s \in Group(S, h, k)})
  <2>1. Sold(snap, Group(S, h, k)) /\ Group(E, g, k) \in SUBSET Spendings
    BY <1>2 DEF Group, Sold
  <2> DEFINE T == Totals(snap, Group(S, h, k), Group(E, g, k))
  <2>2. /\ \A a \in Amounts : /\ Exact(snap, Group(S, h, k), Group(E, g, k))[a] \in Int
                              /\ T[a] = RoundMoney(Exact(snap, Group(S, h, k), Group(E, g, k))[a])
        /\ T.unitsSold = UnitsOf(snap, Group(S, h, k))
        /\ T.orderCount = Cardinality({s[1] : s \in Group(S, h, k)})
    BY <2>1, TotalsAre
  <2> QED
    BY <1>6, <2>2
<1>10. ASSUME NEW a, NEW F, \A k \in K : F[k] = m[k][a] PROVE over(a) = SumOver(F, K)
  <2> DEFINE f == [i \in DOMAIN m |-> m[i][a]]
  <2>1. DOMAIN f = K /\ \A k \in K : f[k] = F[k]
    BY <1>1, <1>10
  <2> HIDE DEF f
  <2>2. SumFunction(f) = SumOver(F, K)
    BY <1>1, <2>1, SumFunctionOf
  <2> QED
    BY <2>2 DEF f
<1>11. ASSUME NEW a \in Amounts
       PROVE  Near(Totals(snap, S, E)[a], over(a), Cardinality(K) + 1)
  <2> DEFINE X == [k \in K |-> Exact(snap, Group(S, h, k), Group(E, g, k))[a]]
             R == [k \in K |-> m[k][a]]
  <2>1. \A k \in K : X[k] \in Int /\ R[k] = RoundMoney(X[k])
    BY <1>9
  <2>2. Exact(snap, S, E)[a] = SumOver(X, K)
    <3>1. Exactly(snap, S, E, K, h, g, a, X)
      BY DEF Exactly
    <3> HIDE DEF X, R, over
    <3> QED
      BY <1>0, <1>1, <1>2, <3>1, ExactGroups
  <2>3. over(a) = SumOver(R, K)
    <3>1. \A k \in K : R[k] = m[k][a]
      OBVIOUS
    <3> HIDE DEF R, over
    <3> QED
      BY <3>1, <1>10
  <2> HIDE DEF X, R, over
  <2>4. Near(RoundMoney(SumOver(X, K)), SumOver(R, K), Cardinality(K) + 1)
    BY <1>1, <2>1, NearSum
  <2> QED
    BY <1>8, <2>2, <2>3, <2>4
<1>12. Totals(snap, S, E).unitsSold = over("unitsSold")
  <2> DEFINE R == [k \in K |-> RevenueOf(snap, Group(S, h, k))]
             C == [k \in K |-> CostOf(snap, Group(S, h, k))]
             U == [k \in K |-> UnitsOf(snap, Group(S, h, k))]
  <2>1. Figures(snap, S, K, h, R, C, U)
    BY DEF Figures
  <2> HIDE DEF R, C, U, over
  <2>2. UnitsOf(snap, S) = SumOver(U, K)
    BY <1>0, <1>1, <2>1, SoldGroups
  <2>3. \A k \in K : U[k] = m[k]["unitsSold"]
    BY <1>9, <2>1 DEF Figures
  <2>4. over("unitsSold") = SumOver(U, K)
    BY <1>10, <2>3
  <2> QED
    BY <1>8, <2>2, <2>4
<1>13. Totals(snap, S, E).orderCount = over("orderCount")
  <2> DEFINE D == {s[1] : s \in S}
             C == [k \in K |-> Cardinality(Group(D, c, k))]
  <2>1. IsFiniteSet(D)
    <3>1. IsFiniteSet(S)
      BY <1>2, FiguresAre
    <3> DEFINE f == [s \in S |-> s[1]]
    <3>2. f \in Surjection(S, D)
      BY DEF Surjection
    <3> QED
      BY <3>1, <3>2, FS_Surjection
  <2>2. \A e \in D : c[e] \in K
    BY <1>3
  <2>3. \A k \in K : {s[1] : s \in Group(S, h, k)} = Group(D, c, k)
    BY <1>3 DEF Group
  <2>4. \A k \in K : C[k] = Cardinality(Group(D, c, k)) /\ C[k] = m[k]["orderCount"]
    BY <2>3, <1>9
  <2>5. Totals(snap, S, E).orderCount = Cardinality(D)
    BY <1>8
  <2> HIDE DEF C, D, over
  <2>6. Cardinality(D) = SumOver(C, K)
    BY <1>1, <2>1, <2>2, <2>4, CountGroups
  <2>7. over("orderCount") = SumOver(C, K)
    BY <1>10, <2>4
  <2> QED
    BY <2>5, <2>6, <2>7
<1>14. \A a \in {"unitsSold", "orderCount"} : Totals(snap, S, E)[a] = over(a)
  BY <1>12, <1>13
<1>15. \A a \in Amounts : Near(PeriodTotals(snap, products, q)[a], over(a), Cardinality(DOMAIN m) + 1)
  BY <1>1, <1>7, <1>11
<1>16. \A a \in {"unitsSold", "orderCount"} : PeriodTotals(snap, products, q)[a] = over(a)
  BY <1>7, <1>14
<1> QED
  BY <1>15, <1>16

(* What a report reads is the sound book.                                   *)
LEMMA ReadIs ==
    ASSUME BookInv, NEW q, NEW c
    PROVE  /\ Sees(Read(q, c)) /\ Read(q, c).expenses \subseteq Spendings
           /\ \A p \in Products : Read(q, c).position[p] = Replay(Contents(docs), p)
BY DEF Read, Sees

(* The products of a report add up to it.                                   *)
LEMMA ProductsAddUp ==
    ASSUME NEW snap, Sees(snap), snap.expenses \subseteq Spendings, NEW products \in SUBSET Products, NEW q
    PROVE  LET total == PeriodTotals(snap, products, q)
               over(a) == SumFunction([p \in products |-> ProductRow(snap, p, q)[a]])
           IN  \A a \in {"revenue", "costOfGoods", "grossProfit"} :
                  Near(total[a], over(a), Cardinality(products) + 1)
<1> DEFINE K == products
           S == SaleRows(snap, products, q)
           E == SelectedExpenses(snap, q)
           h == [l \in Lines |-> l[2]]
           g == [x \in {} |-> 0]
<1>1. IsFiniteSet(K)
  BY ReportAssumption, FS_Subset
<1>2. /\ S \subseteq LinesOf(snap, "sale") /\ E \in SUBSET Spendings
      /\ \A l \in S : h[l] = l[2] /\ h[l] \in K
  <2>1. S \subseteq LinesOf(snap, "sale") /\ \A l \in S : l[2] \in K
    BY DEF SaleRows
  <2>2. \A l \in LinesOf(snap, "sale") : l \in Lines
    BY LinesAre
  <2>3. E \in SUBSET Spendings
    BY DEF SelectedExpenses
  <2> QED
    BY <2>1, <2>2, <2>3
<1>3. \A p \in K : SaleRows(snap, {p}, q) = Group(S, h, p)
  BY <1>2 DEF SaleRows, Group
<1>4. PeriodTotals(snap, products, q) = Totals(snap, S, E)
  BY DEF PeriodTotals
<1>5. \A a \in Amounts : Totals(snap, S, E)[a] = RoundMoney(Exact(snap, S, E)[a])
  <2>1. Sold(snap, S) /\ E \in SUBSET Spendings
    BY <1>2 DEF Sold
  <2> HIDE DEF K, S, E, h, g
  <2> QED
    BY <2>1, TotalsAre
<1>6. ASSUME NEW a \in {"revenue", "costOfGoods", "grossProfit"}
      PROVE  /\ a \in Amounts /\ Exact(snap, S, E)[a] = Exact(snap, S, {})[a]
             /\ \A p \in K : /\ Exact(snap, Group(S, h, p), {})[a] \in Int
                             /\ ProductRow(snap, p, q)[a] = RoundMoney(Exact(snap, Group(S, h, p), {})[a])
  <2>1. a \in Amounts /\ Exact(snap, S, E)[a] = Exact(snap, S, {})[a]
    BY DEF Exact, Amounts
  <2>2. ASSUME NEW p \in K
        PROVE  /\ Exact(snap, Group(S, h, p), {})[a] \in Int
               /\ ProductRow(snap, p, q)[a] = RoundMoney(Exact(snap, Group(S, h, p), {})[a])
    <3>1. Sold(snap, Group(S, h, p)) /\ {} \in SUBSET Spendings
      BY <1>2 DEF Group, Sold
    <3>2. Exact(snap, Group(S, h, p), {})[a] \in Int
      BY <2>1, <3>1, TotalsAre
    <3>3. ProductRow(snap, p, q)[a] = RoundMoney(Exact(snap, Group(S, h, p), {})[a])
      BY <1>3 DEF ProductRow, Exact
    <3> QED
      BY <3>2, <3>3
  <2> QED
    BY <2>1, <2>2
<1> HIDE DEF K, S, E, h, g
<1>7. \A p : Group({}, g, p) = {}
  BY DEF Group
<1>8. ASSUME NEW a \in {"revenue", "costOfGoods", "grossProfit"}
      PROVE  Near(Totals(snap, S, E)[a], SumFunction([p \in K |-> ProductRow(snap, p, q)[a]]), Cardinality(K) + 1)
  <2> DEFINE X == [p \in K |-> Exact(snap, Group(S, h, p), {})[a]]
             R == [p \in K |-> ProductRow(snap, p, q)[a]]
  <2>1. \A p \in K : X[p] \in Int /\ R[p] = RoundMoney(X[p])
    BY <1>6
  <2>2. Exactly(snap, S, {}, K, h, g, a, X)
    BY <1>7 DEF Exactly
  <2>3. Exact(snap, S, {})[a] = SumOver(X, K)
    <3>1. {} \in SUBSET Spendings /\ Shares({}, K, g) /\ Shares(S, K, h) /\ Sold(snap, S)
      BY <1>2 DEF Shares, Sold
    <3>2. a \in Amounts
      BY DEF Amounts
    <3> HIDE DEF X, R
    <3> QED
      BY <1>1, <2>2, <3>1, <3>2, ExactGroups
  <2>4. DOMAIN R = K
    OBVIOUS
  <2> HIDE DEF X, R
  <2>5. SumFunction(R) = SumOver(R, K)
    BY <1>1, <2>4, SumFunctionIs
  <2>6. Near(RoundMoney(SumOver(X, K)), SumOver(R, K), Cardinality(K) + 1)
    BY <1>1, <2>1, NearSum
  <2>7. Near(Totals(snap, S, E)[a], SumFunction(R), Cardinality(K) + 1)
    BY <1>5, <1>6, <2>3, <2>5, <2>6
  <2> QED
    BY <2>7 DEF R
<1> QED
  BY <1>4, <1>8 DEF K

LEMMA FiniteNames ==
    ASSUME NEW S, IsFiniteSet(S), NEW K, NEW h, \A x \in S : h[x] \in K, \A k \in K : \E x \in S : h[x] = k
    PROVE  IsFiniteSet(K)
<1> DEFINE f == [x \in S |-> h[x]]
<1>1. f \in Surjection(S, K)
  BY DEF Surjection
<1> QED
  BY <1>1, FS_Surjection

LEMMA TwoAreFinite == IsFiniteSet({0, 1})
<1>1. {0, 1} = {0} \cup {1}
  OBVIOUS
<1>2. IsFiniteSet({0})
  BY FS_Singleton
<1>3. IsFiniteSet({0} \cup {1})
  BY <1>2, FS_AddElement
<1> QED
  BY <1>1, <1>3

(* What is spent is what is spent once and what is spent again and again.   *)
LEMMA SpentSplits ==
    ASSUME NEW E \in SUBSET Spendings
    PROVE  SpentOn(E) = SpentOn(OneTime(E)) + SpentOn(Recurring(E))
<1> DEFINE g == [x \in E |-> IF x.recurring THEN 1 ELSE 0]
           F == [k \in {0, 1} |-> SpentOn(Group(E, g, k))]
<1>1. IsFiniteSet({0, 1}) /\ \A x \in E : g[x] \in {0, 1}
  BY TwoAreFinite
<1>2. Group(E, g, 0) = OneTime(E) /\ Group(E, g, 1) = Recurring(E)
  BY DEF Group, OneTime, Recurring
<1>3. SpentOn(OneTime(E)) \in Int /\ SpentOn(Recurring(E)) \in Int
  <2>1. OneTime(E) \in SUBSET Spendings /\ Recurring(E) \in SUBSET Spendings
    BY DEF OneTime, Recurring
  <2> QED
    BY <2>1, SpentIs
<1> HIDE DEF g
<1>4. SpentOn(E) = SumOver(F, {0, 1})
  BY <1>1, SpentGroups
<1>5. F[0] = SpentOn(OneTime(E)) /\ F[1] = SpentOn(Recurring(E)) /\ \A k \in {0, 1} : F[k] \in Int
  BY <1>2, <1>3
<1> HIDE DEF F
<1>6. SumOver(F, {0, 1}) = F[1] + SumOver(F, {0, 1} \ {1})
  BY <1>1, <1>5, SumOverTakes
<1>7. {0, 1} \ {1} = {0}
  OBVIOUS
<1>8. SumOver(F, {0}) = F[0]
  BY <1>5, SumOfOne
<1>9. SumOver(F, {0, 1}) = F[1] + F[0]
  BY <1>6, <1>7, <1>8
<1>10. SpentOn(E) = SpentOn(Recurring(E)) + SpentOn(OneTime(E))
  BY <1>4, <1>5, <1>9
<1> QED
  BY <1>3, <1>10

(* The expenses by category add up to all.                                  *)
LEMMA BreakdownAddsUp ==
    ASSUME NEW E \in SUBSET Spendings
    PROVE  SumFunction([b \in Breakdown(E) |-> b.amount]) = SpentOn(E)
<1> DEFINE K == {<<x.category, x.label>> : x \in E}
           g == [x \in E |-> <<x.category, x.label>>]
           F == [k \in K |-> SpentOn(Group(E, g, k))]
           h == [k \in K |-> [category |-> k[1], label |-> k[2], amount |-> SpentOn(Group(E, g, k))]]
           B == Breakdown(E)
           G == [b \in B |-> b.amount]
<1>1. IsFiniteSet(E) /\ \A x \in E : g[x] \in K
  BY SpentIs
<1>2. IsFiniteSet(K)
  <2>1. \A k \in K : \E x \in E : g[x] = k
    OBVIOUS
  <2> HIDE DEF K, g
  <2> QED
    BY <1>1, <2>1, FiniteNames
<1>3. \A k \in K : {x \in E : <<x.category, x.label>> = k} = Group(E, g, k)
  BY DEF Group
<1>4. \A k \in K : h[k] \in B /\ F[k] = G[h[k]] /\ F[k] \in Int
  <2>1. \A k \in K : h[k] \in B
    BY <1>3 DEF Breakdown
  <2>2. \A k \in K : h[k].amount = F[k]
    OBVIOUS
  <2>3. \A k : Group(E, g, k) \in SUBSET Spendings
    BY DEF Group
  <2>4. \A k : SpentOn(Group(E, g, k)) \in Int
    BY <2>3, SpentIs
  <2> QED
    BY <2>1, <2>2, <2>4
<1>5. \A b \in B : \E k \in K : h[k] = b
  BY <1>3 DEF Breakdown
<1>6. \A j, k \in K : h[j] = h[k] => j = k
  <2>1. \A k \in K : k = <<k[1], k[2]>> /\ h[k].category = k[1] /\ h[k].label = k[2]
    OBVIOUS
  <2> HIDE DEF h, K
  <2> QED
    BY <2>1
<1>7. IsFiniteSet(B)
  <2>1. \A k \in K : h[k] \in B
    BY <1>4
  <2> HIDE DEF h, K, B
  <2> QED
    BY <1>2, <1>5, <2>1, FiniteNames
<1>8. DOMAIN G = B
  OBVIOUS
<1>9. SpentOn(E) = SumOver(F, K)
  <2> HIDE DEF K, g
  <2> QED
    BY <1>1, <1>2, SpentGroups
<1> HIDE DEF K, g, F, h, B, G
<1>10. SumOver(F, K) = SumOver(G, B)
  BY <1>2, <1>4, <1>5, <1>6, <1>7, SumRenamed
<1>11. SumFunction(G) = SumOver(G, B)
  BY <1>7, <1>8, SumFunctionIs
<1> QED
  BY <1>9, <1>10, <1>11 DEF G, B

(* What a period is compared with is what its own dashboard says of it.     *)
LEMMA TotalsOfSame ==
    ASSUME NEW s, NEW t, s.documents = t.documents, NEW S, NEW E
    PROVE  Totals(s, S, E) = Totals(t, S, E)
<1>1. RevenueOf(s, S) = RevenueOf(t, S)
  BY DEF RevenueOf, Revenue, Units
<1>2. CostOf(s, S) = CostOf(t, S)
  BY DEF CostOf, CostOfGoods, Units
<1>3. UnitsOf(s, S) = UnitsOf(t, S)
  BY DEF UnitsOf, Units
<1> QED
  BY <1>1, <1>2, <1>3 DEF Totals

ReadAll(q) == Read(q, TRUE)

LEMMA ComparedAsSaid ==
    ASSUME BookInv, NEW q \in ReportQueries, NEW snap, snap = ReadAll(q)
    PROVE  Dashboard(snap, SelectProducts(snap, q), q).previous
             = DashboardOf(At(q, PreviousReportRange(q))).current
<1> DEFINE p == PreviousReportRange(q)
           b == At(q, p)
           t == ReadAll(b)
           P == SelectProducts(snap, q)
<1>1. p.from \in Int /\ p.to = q.from - 1 /\ p.from <= p.to /\ q.from \in Int /\ q.to \in Int /\ q.from <= q.to
  <2>1. /\ q.from \in Int /\ q.to \in Int /\ q.from <= q.to /\ YearStarts[2] < q.from
    BY QueryIs
  <2>2. YearStarts[2] \in Int
    BY ReportCalendar
  <2>3. YearStarts[2] <= q.to
    BY <2>1, <2>2
  <2> QED
    BY <2>1, <2>3, PreviousIs
<1>2. /\ b.from = p.from /\ b.to = p.to /\ b.product = q.product /\ b.category = q.category
      /\ b.supplier = q.supplier /\ b.channel = q.channel /\ b.stock = q.stock /\ b.search = q.search
      /\ b.expenseCategory = q.expenseCategory
  BY AtIs DEF Fields
<1> HIDE DEF p, b
<1>3. PreviousReportRange(b).from \in Int /\ PreviousReportRange(b).from <= b.from
  <2>1. /\ b.from \in Int /\ b.to \in Int /\ b.from <= b.to
    BY <1>1, <1>2
  <2>2. YearStarts[2] <= b.to
    <3>1. YearStarts[3] <= q.from /\ YearStarts[2] < q.from
      BY QueryIs
    <3>2. YearStarts[2] \in Int
      BY ReportCalendar
    <3> QED
      BY <1>1, <1>2, <3>1, <3>2
  <2>3. LET r == PreviousReportRange(b) IN r.from \in Int /\ r.to = b.from - 1 /\ r.from <= r.to
    BY <2>1, <2>2, PreviousIs
  <2> QED
    BY <2>1, <2>3
<1>4. /\ snap.documents = docs /\ t.documents = docs /\ snap.position = t.position
      /\ snap.expenses = {x \in Spendings : p.from <= x.date /\ x.date <= q.to /\ Passes(q.expenseCategory, x.category)}
      /\ t.expenses = {x \in Spendings : PreviousReportRange(b).from <= x.date /\ x.date <= b.to
                                         /\ Passes(b.expenseCategory, x.category)}
  BY DEF ReadAll, Read, p
<1>5. SelectedExpenses(snap, b) = SelectedExpenses(t, b)
  <2>1. \A x \in Spendings : x.date \in Int
    BY ReportAssumption
  <2>2. \A x \in Spendings : InRange(x.date, b) => /\ p.from <= x.date /\ x.date <= q.to
                                                   /\ PreviousReportRange(b).from <= x.date /\ x.date <= b.to
    BY <1>1, <1>2, <1>3, <2>1 DEF InRange
  <2> QED
    BY <1>2, <1>4, <2>2 DEF SelectedExpenses
<1> HIDE DEF t
<1>6. SelectProducts(t, b) = P
  <2>1. \A k : LinesOf(t, k) = LinesOf(snap, k)
    BY <1>4 DEF LinesOf
  <2>2. \A x : StockStatus(t, x) = StockStatus(snap, x)
    BY <1>4 DEF StockStatus
  <2> QED
    BY <1>2, <2>1, <2>2 DEF SelectProducts
<1>7. SaleRows(t, P, b) = SaleRows(snap, P, b)
  BY <1>4 DEF SaleRows, SaleMatches, LinesOf
<1>8. DashboardOf(b).current = Totals(t, SaleRows(t, P, b), SelectedExpenses(t, b))
  BY <1>6 DEF DashboardOf, Dashboard, PeriodTotals, ReadAll, t
<1>9. Dashboard(snap, P, q).previous = Totals(snap, SaleRows(snap, P, b), SelectedExpenses(snap, b))
  BY DEF Dashboard, PeriodTotals, b, p
<1>10. ASSUME NEW S, NEW E PROVE Totals(t, S, E) = Totals(snap, S, E)
  <2>1. t.documents = snap.documents
    BY <1>4
  <2> QED
    BY <2>1, TotalsOfSame
<1> QED
  BY <1>5, <1>7, <1>8, <1>9, <1>10 DEF b, p

(* What is in stock was bought and not sold.                                *)
LEMMA StockIsLeft ==
    ASSUME NEW snap, Sees(snap), NEW p \in Products, snap.position[p] = Replay(Contents(docs), p)
    PROVE  snap.position[p].quantity = UnitsOf(snap, {l \in LinesOf(snap, "purchase") : l[2] = p})
                                         - UnitsOf(snap, {l \in LinesOf(snap, "sale") : l[2] = p})
<1> DEFINE d == Contents(docs)
           L(kind) == {l \in LinesOf(snap, kind) : l[2] = p}
           D(kind) == Of(d, kind, Entries(d, p))
<1>1. docs \in [Documents -> Records] /\ IsFiniteSet(Holding(d)) /\ ~Replay(d, p).short /\ snap.documents = docs
  BY DEF Sees, BookInv, BookSound
<1>2. d \in Ledgers /\ \A e \in Documents : d[e] = docs[e].doc
  BY <1>1, ContentsIs
<1>3. IsFiniteSet(Entries(d, p)) /\ Replay(d, p) \in States
  BY <1>1, <1>2, EntriesFinite, ReplayType
<1>4. Entries(d, p) = {e \in Documents : docs[e].doc.items[p] > 0}
  BY <1>2 DEF Entries
<1>5. ASSUME NEW kind \in {"purchase", "sale"}
      PROVE  UnitsOf(snap, L(kind)) = SumOver(UnitsIn(d, p), D(kind)) /\ UnitsOf(snap, L(kind)) \in Int
  <2> DEFINE S == L(kind)
             K == D(kind)
             F == LineUnits(snap)
             G == UnitsIn(d, p)
             h == [l \in S |-> l[1]]
  <2>1. /\ S \subseteq LinesOf(snap, kind)
        /\ \A l \in S : /\ l[1] \in Documents /\ l = <<l[1], p>> /\ docs[l[1]].doc.kind = kind
                        /\ docs[l[1]].doc.items[p] > 0 /\ F[l] = docs[l[1]].doc.items[p] /\ F[l] \in Int
    <3>1. \A l \in LinesOf(snap, kind) :
             /\ l[1] \in Documents /\ l = <<l[1], l[2]>> /\ docs[l[1]].doc.kind = kind
             /\ docs[l[1]].doc.items[l[2]] > 0 /\ F[l] = docs[l[1]].doc.items[l[2]] /\ F[l] \in Int
      BY LinesAre
    <3> QED
      BY <3>1
  <2>2. K = {e \in Documents : docs[e].doc.items[p] > 0 /\ docs[e].doc.kind = kind}
    BY <1>2, <1>4 DEF Of
  <2>3. \A e \in Documents : G[e] = docs[e].doc.items[p]
    BY <1>2 DEF UnitsIn
  <2>4. \A l \in S : h[l] = l[1] /\ h[l] \in K /\ F[l] = G[h[l]] /\ F[l] \in Int
    BY <2>1, <2>2, <2>3
  <2>5. ASSUME NEW k \in K PROVE \E l \in S : h[l] = k
    <3>1. k \in Documents /\ docs[k].doc.items[p] > 0 /\ docs[k].doc.kind = kind
      BY <2>2, <2>5
    <3>2. <<k, p>> \in S
      BY <1>1, <3>1 DEF LinesOf
    <3> QED
      BY <3>2
  <2>6. \A l, m \in S : h[l] = h[m] => l = m
    BY <2>1, <2>4
  <2>7. IsFiniteSet(K) /\ IsFiniteSet(S)
    <3>1. IsFiniteSet(K)
      BY <1>3, FS_Subset DEF Of
    <3>2. IsFiniteSet(S)
      BY <2>1, FiguresAre
    <3> QED
      BY <3>1, <3>2
  <2>8. UnitsOf(snap, S) = SumOver(F, S) /\ UnitsOf(snap, S) \in Int
    BY <2>1, FiguresAre
  <2> HIDE DEF S, K, F, G, h
  <2>9. SumOver(F, S) = SumOver(G, K)
    BY <2>4, <2>5, <2>6, <2>7, SumRenamed
  <2> QED
    BY <2>8, <2>9 DEF S, K, G
<1>6. PICK g : Replays(d, p, g) /\ Replay(d, p) = g[Entries(d, p)]
  BY <1>2, <1>3, ReplayIs
<1>7. SumOver(UnitsIn(d, p), D("sale")) + Replay(d, p).quantity = SumOver(UnitsIn(d, p), D("purchase"))
  <2>1. ~g[Entries(d, p)].short /\ Replays(d, p, g)
    BY <1>1, <1>6
  <2>2. SumOver(UnitsIn(d, p), D("sale")) + g[Entries(d, p)].quantity = SumOver(UnitsIn(d, p), D("purchase"))
    BY <1>2, <1>3, <2>1, LedgerCovers
  <2> QED
    BY <1>6, <2>2
<1>8. Replay(d, p).quantity \in Int
  BY <1>3 DEF States
<1> HIDE DEF d, L, D
<1>9. snap.position[p].quantity = UnitsOf(snap, L("purchase")) - UnitsOf(snap, L("sale"))
  BY <1>5, <1>7, <1>8 DEF d
<1> QED
  BY <1>9 DEF L

-----------------------------------------------------------------------------
(* The parts of an export agree.                                            *)
OverMonths(r, a) == SumFunction([i \in DOMAIN r.months |-> r.months[i][a]])
OverProducts(r, a) == SumFunction([p \in DOMAIN r.products |-> r.products[p][a]])

LEMMA PartsDoAgree == ASSUME BookInv, NEW q \in ReportQueries PROVE PartsAgree(q)
<1> DEFINE r == ExportDataset(q)
           snap == ReadAll(q)
           P == SelectProducts(snap, q)
           E == SelectedExpenses(snap, q)
           total == PeriodTotals(snap, P, q)
<1>1. /\ r.snap = snap /\ r.summary = Dashboard(snap, P, q) /\ r.summary.current = total
      /\ r.products = [p \in P |-> ProductRow(snap, p, q)] /\ DOMAIN r.products = P
      /\ r.sales = SaleRows(snap, P, q) /\ r.months = MonthlyRows(snap, P, q) /\ r.breakdown = Breakdown(E)
  BY DEF ExportDataset, Dashboard, ReadAll
<1>2. /\ Sees(snap) /\ snap.expenses \subseteq Spendings
      /\ \A p \in Products : snap.position[p] = Replay(Contents(docs), p)
  <2>1. ASSUME NEW c PROVE /\ Sees(Read(q, c)) /\ Read(q, c).expenses \subseteq Spendings
                           /\ \A p \in Products : Read(q, c).position[p] = Replay(Contents(docs), p)
    BY ReadIs
  <2> QED
    BY <2>1 DEF ReadAll
<1>3. P \in SUBSET Products /\ E \in SUBSET Spendings
  BY <1>2 DEF SelectProducts, SelectedExpenses
<1>4. r.summary.previous = DashboardOf(At(q, PreviousReportRange(q))).current
  <2>1. Dashboard(snap, P, q).previous = DashboardOf(At(q, PreviousReportRange(q))).current
    <3> HIDE DEF snap
    <3> QED
      BY ComparedAsSaid DEF snap
  <2> QED
    BY <1>1, <2>1
<1> HIDE DEF r, snap
<1>5. /\ \A a \in Amounts : Near(total[a], OverMonths(r, a), Cardinality(DOMAIN r.months) + 1)
      /\ \A a \in {"unitsSold", "orderCount"} : total[a] = OverMonths(r, a)
  <2> DEFINE m == r.months
  <2>1. m = MonthlyRows(snap, P, q)
    BY <1>1
  <2> HIDE DEF m, P
  <2>2. LET all == PeriodTotals(snap, P, q)
            over(a) == SumFunction([i \in DOMAIN m |-> m[i][a]])
        IN  /\ \A a \in Amounts : Near(all[a], over(a), Cardinality(DOMAIN m) + 1)
            /\ \A a \in {"unitsSold", "orderCount"} : all[a] = over(a)
    BY <1>2, <2>1, MonthsAddUp
  <2> QED
    BY <2>2 DEF OverMonths, m
<1>6. \A a \in {"revenue", "costOfGoods", "grossProfit"} :
         Near(total[a], OverProducts(r, a), Cardinality(DOMAIN r.products) + 1)
  <2>1. \A a : OverProducts(r, a) = SumFunction([p \in P |-> ProductRow(snap, p, q)[a]])
    BY <1>1 DEF OverProducts
  <2> HIDE DEF P
  <2>2. LET all == PeriodTotals(snap, P, q)
            over(a) == SumFunction([p \in P |-> ProductRow(snap, p, q)[a]])
        IN  \A a \in {"revenue", "costOfGoods", "grossProfit"} : Near(all[a], over(a), Cardinality(P) + 1)
    BY <1>2, <1>3, ProductsAddUp
  <2> QED
    BY <1>1, <2>1, <2>2
<1>7. total.totalExpenses = RoundMoney(SumFunction([b \in r.breakdown |-> b.amount]))
  <2>1. total.totalExpenses = RoundMoney(SpentOn(OneTime(E)) + SpentOn(Recurring(E)))
    BY DEF PeriodTotals, Totals, OneTime, Recurring
  <2> HIDE DEF E
  <2>2. SpentOn(E) = SpentOn(OneTime(E)) + SpentOn(Recurring(E))
    BY <1>3, SpentSplits
  <2>3. SumFunction([b \in Breakdown(E) |-> b.amount]) = SpentOn(E)
    BY <1>3, BreakdownAddsUp
  <2> QED
    BY <1>1, <2>1, <2>2, <2>3
<1>8. total.revenue = RoundMoney(RevenueOf(r.snap, r.sales))
  BY <1>1 DEF PeriodTotals, Totals
<1>9. ASSUME NEW p \in DOMAIN r.products
      PROVE  r.products[p].currentStock =
                UnitsOf(r.snap, {l \in LinesOf(r.snap, "purchase") : l[2] = p})
                  - UnitsOf(r.snap, {l \in LinesOf(r.snap, "sale") : l[2] = p})
  <2>1. p \in Products /\ r.products[p].currentStock = snap.position[p].quantity
    BY <1>1, <1>3 DEF ProductRow
  <2>2. snap.position[p].quantity = UnitsOf(snap, {l \in LinesOf(snap, "purchase") : l[2] = p})
                                     - UnitsOf(snap, {l \in LinesOf(snap, "sale") : l[2] = p})
    BY <1>2, <2>1, StockIsLeft
  <2> QED
    BY <1>1, <2>1, <2>2
<1> HIDE DEF P, E, total
<1> QED
  BY <1>1, <1>4, <1>5, <1>6, <1>7, <1>8, <1>9 DEF PartsAgree, OverMonths, OverProducts, r

LEMMA ReportsDoAgree == BookInv => ReportsAgree
BY PartsDoAgree, MonthCompared DEF ReportsAgree

-----------------------------------------------------------------------------
(* A finite set in a total order: each member at one place, in that order.  *)
Orders(R, S) ==
    /\ \A x \in S : <<x, x>> \notin R
    /\ \A x, y, z \in S : <<x, y>> \in R /\ <<y, z>> \in R => <<x, z>> \in R
    /\ \A x, y \in S : x # y => <<x, y>> \in R \/ <<y, x>> \in R

Below(R, S, x) == {y \in S : <<y, x>> \in R}

LEMMA RanksAre ==
    ASSUME NEW S, IsFiniteSet(S), NEW R, Orders(R, S)
    PROVE  /\ \A x \in S : /\ Cardinality(Below(R, S, x)) \in Nat
                           /\ Cardinality(Below(R, S, x)) < Cardinality(S)
           /\ \A x, y \in S : <<x, y>> \in R <=> Cardinality(Below(R, S, x)) < Cardinality(Below(R, S, y))
           /\ \A x, y \in S : Cardinality(Below(R, S, x)) = Cardinality(Below(R, S, y)) => x = y
<1>1. \A x \in S : IsFiniteSet(Below(R, S, x)) /\ Cardinality(Below(R, S, x)) \in Nat
  <2>1. \A x : Below(R, S, x) \in SUBSET S
    BY DEF Below
  <2>2. \A x : IsFiniteSet(Below(R, S, x))
    BY <2>1, FS_Subset
  <2> QED
    BY <2>2, FS_CardinalityType
<1>2. ASSUME NEW x \in S PROVE Cardinality(Below(R, S, x)) < Cardinality(S)
  <2>1. Below(R, S, x) \in SUBSET (S \ {x})
    BY DEF Below, Orders
  <2>2. IsFiniteSet(S \ {x}) /\ Cardinality(S \ {x}) = Cardinality(S) - 1
    BY FS_RemoveElement
  <2>3. Cardinality(Below(R, S, x)) <= Cardinality(S \ {x})
    BY <2>1, <2>2, FS_Subset
  <2>4. Cardinality(S) \in Nat
    BY FS_CardinalityType
  <2> QED
    BY <1>1, <2>2, <2>3, <2>4
<1>3. ASSUME NEW x \in S, NEW y \in S, <<x, y>> \in R
      PROVE  Cardinality(Below(R, S, x)) < Cardinality(Below(R, S, y))
  <2>1. x \in Below(R, S, y) /\ Below(R, S, x) \in SUBSET (Below(R, S, y) \ {x})
    BY <1>3 DEF Below, Orders
  <2>2. /\ IsFiniteSet(Below(R, S, y) \ {x})
        /\ Cardinality(Below(R, S, y) \ {x}) = Cardinality(Below(R, S, y)) - 1
    BY <1>1, <2>1, FS_RemoveElement
  <2>3. Cardinality(Below(R, S, x)) <= Cardinality(Below(R, S, y) \ {x})
    BY <2>1, <2>2, FS_Subset
  <2> QED
    BY <1>1, <2>2, <2>3
<1>4. \A x, y \in S : x = y \/ <<x, y>> \in R \/ <<y, x>> \in R
  BY DEF Orders
<1>5. ASSUME NEW x \in S, NEW y \in S
      PROVE  /\ <<x, y>> \in R <=> Cardinality(Below(R, S, x)) < Cardinality(Below(R, S, y))
             /\ Cardinality(Below(R, S, x)) = Cardinality(Below(R, S, y)) => x = y
  <2> DEFINE m == Cardinality(Below(R, S, x))
             n == Cardinality(Below(R, S, y))
  <2>1. m \in Nat /\ n \in Nat
    BY <1>1
  <2>2. /\ <<x, y>> \in R => m < n
        /\ <<y, x>> \in R => n < m
    BY <1>3
  <2>3. x = y \/ <<x, y>> \in R \/ <<y, x>> \in R
    BY <1>4
  <2>4. x = y => m = n
    OBVIOUS
  <2> HIDE DEF m, n
  <2>5. (<<x, y>> \in R <=> m < n) /\ (m = n => x = y)
    BY <2>1, <2>2, <2>3, <2>4
  <2> QED
    BY <2>5 DEF m, n
<1> QED
  BY <1>1, <1>2, <1>5

LEMMA SortedIs ==
    ASSUME NEW S, IsFiniteSet(S), NEW R, Orders(R, S), NEW s, s = Sorted(S, R)
    PROVE  /\ DOMAIN s = 1..Cardinality(S) /\ Cardinality(S) \in Nat
           /\ \A i \in DOMAIN s : s[i] \in S
           /\ \A x \in S : \E i \in DOMAIN s : s[i] = x
           /\ \A i, j \in DOMAIN s : i < j <=> <<s[i], s[j]>> \in R
           /\ \A i, j \in DOMAIN s : s[i] = s[j] => i = j
<1> DEFINE n == Cardinality(S)
           rank == [x \in S |-> Cardinality(Below(R, S, x))]
<1>1. n \in Nat
  BY FS_CardinalityType
<1>2. /\ \A x \in S : rank[x] \in Nat /\ rank[x] < n
      /\ \A x, y \in S : <<x, y>> \in R <=> rank[x] < rank[y]
      /\ \A x, y \in S : rank[x] = rank[y] => x = y
  <2>1. /\ \A x \in S : Cardinality(Below(R, S, x)) \in Nat /\ Cardinality(Below(R, S, x)) < n
        /\ \A x, y \in S : <<x, y>> \in R <=> Cardinality(Below(R, S, x)) < Cardinality(Below(R, S, y))
        /\ \A x, y \in S : Cardinality(Below(R, S, x)) = Cardinality(Below(R, S, y)) => x = y
    BY RanksAre
  <2> QED
    BY <2>1
<1>3. DOMAIN s = 1..n /\ \A i \in 1..n : s[i] = CHOOSE x \in S : rank[x] = i - 1
  BY DEF Sorted, Below
<1>4. rank \in Injection(S, 0..(n - 1))
  <2>1. rank \in [S -> 0..(n - 1)]
    <3>1. \A x \in S : rank[x] \in 0..(n - 1)
      BY <1>1, <1>2
    <3> QED
      BY <3>1
  <2> HIDE DEF rank
  <2> QED
    BY <1>2, <2>1 DEF Injection, IsInjective
<1> HIDE DEF rank
<1>5. IsFiniteSet(0..(n - 1)) /\ Cardinality(0..(n - 1)) = n
  <2> DEFINE a == 0
             b == n - 1
  <2>1. a \in Int /\ b \in Int
    BY <1>1
  <2>2. Cardinality(a..b) = (IF a > b THEN 0 ELSE b - a + 1) /\ IsFiniteSet(a..b)
    <3> HIDE DEF a, b
    <3> QED
      BY <2>1, FS_Interval
  <2>3. (IF a > b THEN 0 ELSE b - a + 1) = n
    BY <1>1
  <2> QED
    BY <2>2, <2>3
<1>6. rank \in Surjection(S, 0..(n - 1))
  <2> DEFINE T == 0..(n - 1)
  <2>1. rank \in Injection(S, T) /\ IsFiniteSet(T) /\ Cardinality(T) = Cardinality(S)
    BY <1>4, <1>5
  <2> HIDE DEF T, n
  <2>2. rank \in Surjection(S, T)
    BY <2>1, FS_Injection
  <2> QED
    BY <2>2 DEF T
<1>7. \A k \in 0..(n - 1) : \E x \in S : rank[x] = k
  BY <1>6 DEF Surjection
<1>8. \A i \in 1..n : s[i] \in S /\ rank[s[i]] = i - 1
  <2>1. ASSUME NEW i \in 1..n PROVE \E x \in S : rank[x] = i - 1
    <3>1. i - 1 \in 0..(n - 1)
      BY <1>1
    <3> QED
      BY <1>7, <3>1
  <2> QED
    BY <1>3, <2>1
<1>9. ASSUME NEW x \in S PROVE \E i \in 1..n : s[i] = x
  <2>1. rank[x] + 1 \in 1..n
    BY <1>1, <1>2
  <2>2. rank[s[rank[x] + 1]] = rank[x] /\ s[rank[x] + 1] \in S
    BY <1>2, <1>8, <2>1
  <2>3. s[rank[x] + 1] = x
    BY <1>2, <2>2
  <2> QED
    BY <2>1, <2>3
<1>10. \A i, j \in 1..n : i < j <=> <<s[i], s[j]>> \in R
  <2>1. \A i, j \in 1..n : i < j <=> i - 1 < j - 1
    BY <1>1
  <2> QED
    BY <1>2, <1>8, <2>1
<1>11. \A i, j \in 1..n : s[i] = s[j] => i = j
  <2>1. \A i, j \in 1..n : i - 1 = j - 1 => i = j
    BY <1>1
  <2> QED
    BY <1>8, <2>1
<1> HIDE DEF n
<1>12. DOMAIN s = 1..n
  BY <1>3
<1> QED
  BY <1>1, <1>8, <1>9, <1>10, <1>11, <1>12 DEF n

(* A part of a list, in the same order, stands in it.                       *)
LEMMA PartStands ==
    ASSUME NEW T, IsFiniteSet(T), NEW R, Orders(R, T), NEW S \in SUBSET T, NEW Q,
           \A x, y \in S : <<x, y>> \in Q <=> <<x, y>> \in R
    PROVE  StandsIn(Sorted(S, Q), Sorted(T, R))
<1> DEFINE part == Sorted(S, Q)
           list == Sorted(T, R)
<1>1. Orders(Q, S)
  BY DEF Orders
<1>2. IsFiniteSet(S)
  BY FS_Subset
<1>3. /\ \A i \in DOMAIN part : part[i] \in S
      /\ \A i, j \in DOMAIN part : i < j <=> <<part[i], part[j]>> \in Q
  BY <1>1, <1>2, SortedIs
<1>4. /\ \A x \in T : \E i \in DOMAIN list : list[i] = x
      /\ \A i, j \in DOMAIN list : i < j <=> <<list[i], list[j]>> \in R
  BY SortedIs
<1> HIDE DEF part, list
<1>5. Range(part) \subseteq Range(list)
  BY <1>3, <1>4 DEF Range
<1>6. \A i, j \in DOMAIN part : \A k, l \in DOMAIN list :
         list[k] = part[i] /\ list[l] = part[j] => (i < j <=> k < l)
  BY <1>3, <1>4
<1> QED
  BY <1>5, <1>6 DEF StandsIn, part, list

-----------------------------------------------------------------------------
(* The orders of the lists are total: no two documents have one id.         *)
LEMMA DatesOrder ==
    ASSUME NEW asc \in BOOLEAN, NEW x, NEW y, NEW z,
           x.date \in Int, x.created \in Int, x.id \in Int,
           y.date \in Int, y.created \in Int, y.id \in Int,
           z.date \in Int, z.created \in Int, z.id \in Int
    PROVE  /\ ~ByDate(asc, x, x)
           /\ ByDate(asc, x, y) /\ ByDate(asc, y, z) => ByDate(asc, x, z)
           /\ x.id # y.id => ByDate(asc, x, y) \/ ByDate(asc, y, x)
<1>1. CASE asc
  BY <1>1 DEF ByDate
<1>2. CASE ~asc
  BY <1>2 DEF ByDate
<1> QED
  BY <1>1, <1>2

LEMMA AmountsOrder ==
    ASSUME NEW asc \in BOOLEAN, NEW x, NEW y, NEW z,
           x.amount \in Int, x.id \in Int, y.amount \in Int, y.id \in Int, z.amount \in Int, z.id \in Int
    PROVE  /\ ~ByAmount(asc, x, x)
           /\ ByAmount(asc, x, y) /\ ByAmount(asc, y, z) => ByAmount(asc, x, z)
           /\ x.id # y.id => ByAmount(asc, x, y) \/ ByAmount(asc, y, x)
<1>1. CASE asc
  BY <1>1 DEF ByAmount
<1>2. CASE ~asc
  BY <1>2 DEF ByAmount
<1> QED
  BY <1>1, <1>2

LEMMA SpendingsOrder ==
    ASSUME NEW q, q.asc \in BOOLEAN, NEW x \in Spendings, NEW y \in Spendings, NEW z \in Spendings
    PROVE  /\ ~SpendingBefore(q, x, x)
           /\ SpendingBefore(q, x, y) /\ SpendingBefore(q, y, z) => SpendingBefore(q, x, z)
           /\ x # y => SpendingBefore(q, x, y) \/ SpendingBefore(q, y, x)
<1>1. \A s \in Spendings : s.id \in Int /\ s.date \in Int /\ s.created \in Int /\ s.amount \in Int
  BY ReportAssumption
<1>2. x.id = y.id => x = y
  BY ReportAssumption
<1>3. CASE q.sort = "date"
  <2>1. \A a, b : SpendingBefore(q, a, b) <=> ByDate(q.asc, a, b)
    BY <1>3 DEF SpendingBefore
  <2>2. /\ ~ByDate(q.asc, x, x)
        /\ ByDate(q.asc, x, y) /\ ByDate(q.asc, y, z) => ByDate(q.asc, x, z)
        /\ x.id # y.id => ByDate(q.asc, x, y) \/ ByDate(q.asc, y, x)
    BY <1>1, DatesOrder
  <2> QED
    BY <1>2, <2>1, <2>2
<1>4. CASE q.sort # "date" /\ q.asc
  <2>1. \A a, b : SpendingBefore(q, a, b) <=>
           a.amount < b.amount \/ (a.amount = b.amount /\ (a.date > b.date \/ (a.date = b.date /\ a.id < b.id)))
    BY <1>4 DEF SpendingBefore
  <2> QED
    BY <1>1, <1>2, <2>1
<1>5. CASE q.sort # "date" /\ ~q.asc
  <2>1. \A a, b : SpendingBefore(q, a, b) <=>
           a.amount > b.amount \/ (a.amount = b.amount /\ (a.date > b.date \/ (a.date = b.date /\ a.id < b.id)))
    BY <1>5 DEF SpendingBefore
  <2> QED
    BY <1>1, <1>2, <2>1
<1> QED
  BY <1>3, <1>4, <1>5

-----------------------------------------------------------------------------
(* A list and what is exported of it.                                       *)
Fitting(q) == q \in ListQueries /\ q.from \in Int /\ q.to \in Int /\ q.asc \in BOOLEAN

LEMMA TotalIs ==
    ASSUME NEW snap, Sees(snap), NEW e \in Documents, docs[e].doc.kind \in {"purchase", "sale"}, NEW sort
    PROVE  DocumentTotal(snap, e, sort) \in Int
<1> DEFINE kind == docs[e].doc.kind
           L == {line \in LinesOf(snap, kind) : line[1] = e}
<1>1. snap.documents = docs
  BY DEF Sees
<1>2. RevenueOf(snap, L) \in Int /\ CostOf(snap, L) \in Int /\ UnitsOf(snap, L) \in Int
  <2>1. L \subseteq LinesOf(snap, kind) /\ kind \in {"purchase", "sale"}
    OBVIOUS
  <2> HIDE DEF L, kind
  <2> QED
    BY <2>1, FiguresAre
<1>3. Grain \in Int /\ docs[e].doc.cost \in Int
  <2>1. docs \in [Documents -> Records]
    BY DEF Sees, BookInv, BookSound
  <2>2. docs[e].doc \in Entry
    <3>1. \A r \in Records : r.doc \in Entry \cup {NoDoc}
      BY DEF Records
    <3>2. docs[e].doc \in Entry \cup {NoDoc}
      BY <2>1, <3>1
    <3>3. docs[e].doc # NoDoc
      BY DEF NoDoc
    <3> QED
      BY <3>2, <3>3
  <2>3. docs[e].doc.cost \in Nat
    BY <2>2, EntryTypes
  <2> QED
    BY <2>3, StockAssumption
<1>4. DocumentTotal(snap, e, sort) =
        IF kind = "purchase" THEN Grain * UnitsOf(snap, L) * docs[e].doc.cost
        ELSE RevenueOf(snap, L) - (IF sort = "profit" THEN CostOf(snap, L) ELSE 0)
  BY <1>1 DEF DocumentTotal
<1> HIDE DEF L, kind
<1>5. Grain * UnitsOf(snap, L) * docs[e].doc.cost \in Int
  <2>1. Grain * UnitsOf(snap, L) \in Int
    BY <1>2, <1>3
  <2> QED
    BY <1>3, <2>1
<1> QED
  BY <1>2, <1>4, <1>5

Key(snap, e, q) ==
    [id |-> e, date |-> snap.documents[e].doc.date, created |-> snap.documents[e].doc.created,
     amount |-> DocumentTotal(snap, e, q.sort)]

DocumentBefore(snap, q, e, f) ==
    IF q.sort = "date" THEN ByDate(q.asc, Key(snap, e, q), Key(snap, f, q))
    ELSE ByAmount(q.asc, Key(snap, e, q), Key(snap, f, q))

Before(snap, S, q) == {r \in S \X S : DocumentBefore(snap, q, r[1], r[2])}

LEMMA OrderedIs == ASSUME NEW snap, NEW S, NEW q PROVE Ordered(snap, S, q) = Sorted(S, Before(snap, S, q))
BY DEF Ordered, Before, DocumentBefore, Key

LEMMA DocumentsOrder ==
    ASSUME NEW snap, Sees(snap), NEW q, Fitting(q), NEW S \in SUBSET Documents,
           \A e \in S : docs[e].doc.kind \in {"purchase", "sale"}
    PROVE  /\ IsFiniteSet(S) /\ Orders(Before(snap, S, q), S)
           /\ \A T \in SUBSET S : \A e, f \in T : <<e, f>> \in Before(snap, T, q) <=> <<e, f>> \in Before(snap, S, q)
<1>1. docs \in [Documents -> Records] /\ IsFiniteSet(Holding(Contents(docs))) /\ snap.documents = docs
  BY DEF Sees, BookInv, BookSound
<1>2. ASSUME NEW e \in S
      PROVE  /\ Key(snap, e, q).id = e /\ Key(snap, e, q).id \in Int /\ Key(snap, e, q).date \in Int
             /\ Key(snap, e, q).created \in Int /\ Key(snap, e, q).amount \in Int
             /\ e \in Holding(Contents(docs))
  <2>1. \A r \in Records : r.doc \in Entry \cup {NoDoc}
    BY DEF Records
  <2>2. docs[e].doc \in Entry \cup {NoDoc} /\ docs[e].doc # NoDoc
    BY <1>1, <2>1 DEF NoDoc
  <2>3. docs[e].doc.date \in Nat /\ docs[e].doc.created \in Nat
    BY <2>2, EntryTypes
  <2>4. DocumentTotal(snap, e, q.sort) \in Int
    BY TotalIs
  <2>5. e \in Holding(Contents(docs))
    BY <1>1, <2>2, ContentsIs DEF Holding
  <2>6. e \in Int
    <3>1. Documents \subseteq Nat
      BY StockAssumption
    <3>2. e \in Documents
      OBVIOUS
    <3>3. e \in Nat
      BY <3>1, <3>2
    <3> QED
      BY <3>3
  <2> QED
    BY <1>1, <2>3, <2>4, <2>5, <2>6 DEF Key
<1>3. IsFiniteSet(S)
  <2>1. S \subseteq Holding(Contents(docs))
    BY <1>2
  <2> QED
    BY <1>1, <2>1, FS_Subset
<1>4. q.asc \in BOOLEAN
  BY DEF Fitting
<1>5. ASSUME NEW x \in S, NEW y \in S, NEW z \in S
      PROVE  /\ ~DocumentBefore(snap, q, x, x)
             /\ DocumentBefore(snap, q, x, y) /\ DocumentBefore(snap, q, y, z) => DocumentBefore(snap, q, x, z)
             /\ x # y => DocumentBefore(snap, q, x, y) \/ DocumentBefore(snap, q, y, x)
  <2> DEFINE a == Key(snap, x, q)
             b == Key(snap, y, q)
             c == Key(snap, z, q)
  <2>1. /\ a.id = x /\ a.id \in Int /\ a.date \in Int /\ a.created \in Int /\ a.amount \in Int
        /\ b.id = y /\ b.id \in Int /\ b.date \in Int /\ b.created \in Int /\ b.amount \in Int
        /\ c.id = z /\ c.id \in Int /\ c.date \in Int /\ c.created \in Int /\ c.amount \in Int
    BY <1>2
  <2> HIDE DEF a, b, c
  <2>2. /\ ~ByDate(q.asc, a, a)
        /\ ByDate(q.asc, a, b) /\ ByDate(q.asc, b, c) => ByDate(q.asc, a, c)
        /\ a.id # b.id => ByDate(q.asc, a, b) \/ ByDate(q.asc, b, a)
    BY <1>4, <2>1, DatesOrder
  <2>3. /\ ~ByAmount(q.asc, a, a)
        /\ ByAmount(q.asc, a, b) /\ ByAmount(q.asc, b, c) => ByAmount(q.asc, a, c)
        /\ a.id # b.id => ByAmount(q.asc, a, b) \/ ByAmount(q.asc, b, a)
    BY <1>4, <2>1, AmountsOrder
  <2>4. /\ DocumentBefore(snap, q, x, x) <=> IF q.sort = "date" THEN ByDate(q.asc, a, a) ELSE ByAmount(q.asc, a, a)
        /\ DocumentBefore(snap, q, x, y) <=> IF q.sort = "date" THEN ByDate(q.asc, a, b) ELSE ByAmount(q.asc, a, b)
        /\ DocumentBefore(snap, q, y, z) <=> IF q.sort = "date" THEN ByDate(q.asc, b, c) ELSE ByAmount(q.asc, b, c)
        /\ DocumentBefore(snap, q, x, z) <=> IF q.sort = "date" THEN ByDate(q.asc, a, c) ELSE ByAmount(q.asc, a, c)
        /\ DocumentBefore(snap, q, y, x) <=> IF q.sort = "date" THEN ByDate(q.asc, b, a) ELSE ByAmount(q.asc, b, a)
    BY DEF DocumentBefore, a, b, c
  <2> QED
    BY <2>1, <2>2, <2>3, <2>4
<1>6. \A T \in SUBSET S : \A e, f \in T : <<e, f>> \in Before(snap, T, q) <=> DocumentBefore(snap, q, e, f)
  BY DEF Before
<1>7. \A e, f \in S : <<e, f>> \in Before(snap, S, q) <=> DocumentBefore(snap, q, e, f)
  BY <1>6
<1>8. Orders(Before(snap, S, q), S)
  BY <1>5, <1>7 DEF Orders
<1>9. \A T \in SUBSET S : \A e, f \in T : <<e, f>> \in Before(snap, T, q) <=> <<e, f>> \in Before(snap, S, q)
  BY <1>6, <1>7
<1> QED
  BY <1>3, <1>8, <1>9

LEMMA ExportedIs ==
    ASSUME NEW snap, Sees(snap), NEW kind \in {"purchase", "sale"}, NEW q
    PROVE  /\ Listed(snap, kind, q) \in SUBSET Documents
           /\ \A e \in Listed(snap, kind, q) : docs[e].doc.kind = kind
           /\ Exported(snap, kind, q) \in SUBSET Listed(snap, kind, q)
           /\ q.search = Unset \/ (q.product = Unset /\ q.category = Unset) =>
                 Exported(snap, kind, q) = Listed(snap, kind, q)
<1> DEFINE lines(e) == {line[2] : line \in {l \in LinesOf(snap, kind) : l[1] = e}}
<1>1. snap.documents = docs /\ \A l \in LinesOf(snap, kind) : l[1] \in Documents /\ l[2] \in Products
  BY LinesAre DEF Sees
<1>2. \A e : e \in Listed(snap, kind, q) <=>
         /\ e \in Documents /\ FitsList(snap, e, kind, q)
         /\ \E l \in LinesOf(snap, kind) : l[1] = e /\ OfFilter(l[2], q)
         /\ \/ Says(Deals[e].words, q.search)
            \/ \E l \in LinesOf(snap, kind) : l[1] = e /\ Says(Shelf[l[2]].words, q.search)
  BY DEF Listed
<1>3. \A e : e \in Exported(snap, kind, q) <=>
         \E l \in LinesOf(snap, kind) :
            /\ l[1] = e /\ FitsList(snap, e, kind, q) /\ OfFilter(l[2], q)
            /\ Says(Deals[e].words, q.search) \/ Says(Shelf[l[2]].words, q.search)
  BY DEF Exported
<1>4. Listed(snap, kind, q) \in SUBSET Documents /\ \A e \in Listed(snap, kind, q) : docs[e].doc.kind = kind
  BY <1>1, <1>2 DEF FitsList
<1>5. \A e \in Exported(snap, kind, q) : e \in Listed(snap, kind, q)
  BY <1>1, <1>2, <1>3
<1>6. ASSUME q.search = Unset, NEW e \in Listed(snap, kind, q) PROVE e \in Exported(snap, kind, q)
  <2>1. \A w : Says(w, q.search)
    BY <1>6 DEF Says
  <2> QED
    BY <1>2, <1>3, <2>1
<1>7. ASSUME q.product = Unset, q.category = Unset, NEW e \in Listed(snap, kind, q)
      PROVE  e \in Exported(snap, kind, q)
  <2>1. \A p : OfFilter(p, q)
    BY <1>7 DEF OfFilter, Passes
  <2> QED
    BY <1>2, <1>3, <2>1
<1> QED
  BY <1>4, <1>5, <1>6, <1>7

LEMMA ListsAgree ==
    ASSUME BookInv, NEW q, Fitting(q), NEW kind \in {"purchase", "sale"}
    PROVE  SameAsListed(kind, q)
<1> DEFINE snap == [documents |-> docs]
           L == Listed(snap, kind, q)
           X == Exported(snap, kind, q)
<1>1. Sees(snap)
  BY DEF Sees
<1> HIDE DEF snap
<1>2. /\ L \in SUBSET Documents /\ \A e \in L : docs[e].doc.kind \in {"purchase", "sale"}
      /\ X \in SUBSET L /\ (q.search = Unset \/ (q.product = Unset /\ q.category = Unset) => X = L)
  <2>1. /\ L \in SUBSET Documents /\ \A e \in L : docs[e].doc.kind = kind
        /\ X \in SUBSET L /\ (q.search = Unset \/ (q.product = Unset /\ q.category = Unset) => X = L)
    BY <1>1, ExportedIs
  <2> QED
    BY <2>1
<1> HIDE DEF L, X
<1>3. /\ IsFiniteSet(L) /\ Orders(Before(snap, L, q), L)
      /\ \A e, f \in X : <<e, f>> \in Before(snap, X, q) <=> <<e, f>> \in Before(snap, L, q)
  BY <1>1, <1>2, DocumentsOrder
<1>4. StandsIn(Sorted(X, Before(snap, X, q)), Sorted(L, Before(snap, L, q)))
  BY <1>2, <1>3, PartStands
<1>5. /\ Ordered(snap, X, q) = Sorted(X, Before(snap, X, q))
      /\ Ordered(snap, L, q) = Sorted(L, Before(snap, L, q))
  BY OrderedIs
<1>6. StandsIn(Ordered(snap, X, q), Ordered(snap, L, q))
  BY <1>4, <1>5
<1> QED
  BY <1>2, <1>6 DEF SameAsListed, snap, L, X

(* What is exported of a period adds up to its report.                      *)
LEMMA SalesAddUp ==
    ASSUME NEW snap, Sees(snap), NEW S, S \subseteq LinesOf(snap, "sale"),
           NEW D, D = {l[1] : l \in S}, \A e \in D : \A l \in LinesOf(snap, "sale") : l[1] = e => l \in S
    PROVE  /\ SumFunction([e \in D |-> DocumentTotal(snap, e, "revenue")]) = RevenueOf(snap, S)
           /\ SumFunction([e \in D |-> DocumentTotal(snap, e, "profit")]) = RevenueOf(snap, S) - CostOf(snap, S)
<1> DEFINE h == [l \in S |-> l[1]]
           R == [e \in D |-> RevenueOf(snap, Group(S, h, e))]
           C == [e \in D |-> CostOf(snap, Group(S, h, e))]
           U == [e \in D |-> UnitsOf(snap, Group(S, h, e))]
           A == [e \in D |-> DocumentTotal(snap, e, "revenue")]
           B == [e \in D |-> DocumentTotal(snap, e, "profit")]
<1>1. Sold(snap, S) /\ Shares(S, D, h) /\ Figures(snap, S, D, h, R, C, U)
  BY DEF Sold, Shares, Figures
<1>2. IsFiniteSet(S) /\ IsFiniteSet(D)
  <2>1. IsFiniteSet(S)
    BY FiguresAre
  <2>2. (\A x \in S : h[x] \in D) /\ \A e \in D : \E x \in S : h[x] = e
    OBVIOUS
  <2> HIDE DEF h
  <2>3. IsFiniteSet(D)
    BY <2>1, <2>2, FiniteNames
  <2> QED
    BY <2>1, <2>3
<1>3. ASSUME NEW e \in D
      PROVE  /\ {l \in LinesOf(snap, "sale") : l[1] = e} = Group(S, h, e)
             /\ snap.documents[e].doc.kind = "sale"
             /\ R[e] \in Int /\ C[e] \in Int
  <2>1. {l \in LinesOf(snap, "sale") : l[1] = e} = Group(S, h, e)
    BY DEF Group
  <2>2. snap.documents[e].doc.kind = "sale"
    <3>1. PICK l \in S : l[1] = e
      OBVIOUS
    <3> QED
      BY <3>1 DEF LinesOf
  <2>3. Group(S, h, e) \subseteq LinesOf(snap, "sale")
    BY DEF Group
  <2> HIDE DEF h
  <2>4. RevenueOf(snap, Group(S, h, e)) \in Int /\ CostOf(snap, Group(S, h, e)) \in Int
    BY <2>3, FiguresAre
  <2> QED
    BY <2>1, <2>2, <2>4
<1>4. \A e \in D : DocumentTotal(snap, e, "revenue") = R[e] /\ DocumentTotal(snap, e, "profit") = R[e] - C[e]
  <2>1. ASSUME NEW e \in D
        PROVE  DocumentTotal(snap, e, "revenue") = R[e] /\ DocumentTotal(snap, e, "profit") = R[e] - C[e]
    <3>1. /\ {l \in LinesOf(snap, snap.documents[e].doc.kind) : l[1] = e} = Group(S, h, e)
          /\ snap.documents[e].doc.kind # "purchase"
          /\ R[e] = RevenueOf(snap, Group(S, h, e)) /\ C[e] = CostOf(snap, Group(S, h, e)) /\ R[e] \in Int
      BY <1>3
    <3> HIDE DEF R, C, h
    <3>2. DocumentTotal(snap, e, "revenue") = R[e] - 0
      BY <3>1 DEF DocumentTotal
    <3>3. DocumentTotal(snap, e, "profit") = R[e] - C[e]
      BY <3>1 DEF DocumentTotal
    <3> QED
      BY <3>1, <3>2, <3>3
  <2> QED
    BY <2>1
<1>5. \A e \in D : A[e] = R[e] /\ B[e] = R[e] - C[e] /\ R[e] \in Int /\ C[e] \in Int
  BY <1>3, <1>4
<1>6. DOMAIN A = D /\ DOMAIN B = D
  OBVIOUS
<1> HIDE DEF h, R, C, U, A, B
<1>7. RevenueOf(snap, S) = SumOver(R, D) /\ CostOf(snap, S) = SumOver(C, D)
  BY <1>1, <1>2, SoldGroups
<1>8. SumFunction(A) = SumOver(R, D)
  BY <1>2, <1>5, <1>6, SumFunctionOf
<1>9. SumFunction(B) = SumOver(B, D)
  BY <1>2, <1>6, SumFunctionIs
<1>10. SumOver(B, D) = SumOver(R, D) - SumOver(C, D)
  BY <1>2, <1>5, SumMinus
<1> QED
  BY <1>7, <1>8, <1>9, <1>10 DEF A, B

LEMMA SpendingAddsUp ==
    ASSUME NEW q, q.asc \in BOOLEAN, NEW rows, rows = SpendingRows(q)
    PROVE  SumFunction([i \in DOMAIN rows |-> rows[i].amount]) = SpentOn({x \in Spendings : SpendingFits(x, q)})
<1> DEFINE E == {x \in Spendings : SpendingFits(x, q)}
           R == {r \in E \X E : SpendingBefore(q, r[1], r[2])}
           f == [i \in DOMAIN rows |-> rows[i].amount]
           h == [i \in DOMAIN rows |-> rows[i]]
<1>1. E \in SUBSET Spendings
  OBVIOUS
<1>2. IsFiniteSet(E) /\ (\A x \in E : Prices[x] = x.amount /\ Prices[x] \in Int) /\ SpentOn(E) = SumOver(Prices, E)
  <2> HIDE DEF E
  <2> QED
    BY <1>1, SpentIs
<1>3. rows = Sorted(E, R)
  BY DEF SpendingRows
<1>4. Orders(R, E)
  <2>1. \A x, y \in E : <<x, y>> \in R <=> SpendingBefore(q, x, y)
    OBVIOUS
  <2> HIDE DEF R, E
  <2>2. \A x, y, z \in E :
           /\ ~SpendingBefore(q, x, x)
           /\ SpendingBefore(q, x, y) /\ SpendingBefore(q, y, z) => SpendingBefore(q, x, z)
           /\ x # y => SpendingBefore(q, x, y) \/ SpendingBefore(q, y, x)
    BY <1>1, SpendingsOrder
  <2> QED
    BY <2>1, <2>2 DEF Orders
<1> HIDE DEF E, R
<1>5. /\ DOMAIN rows = 1..Cardinality(E) /\ Cardinality(E) \in Nat
      /\ \A i \in DOMAIN rows : rows[i] \in E
      /\ \A x \in E : \E i \in DOMAIN rows : rows[i] = x
      /\ \A i, j \in DOMAIN rows : rows[i] = rows[j] => i = j
  BY <1>2, <1>3, <1>4, SortedIs
<1>6. IsFiniteSet(DOMAIN rows)
  BY <1>5, FS_Interval
<1>7. /\ DOMAIN f = DOMAIN rows
      /\ \A i \in DOMAIN rows : f[i] \in Int /\ h[i] \in E /\ f[i] = Prices[h[i]]
      /\ \A x \in E : \E i \in DOMAIN rows : h[i] = x
      /\ \A i, j \in DOMAIN rows : h[i] = h[j] => i = j
  BY <1>2, <1>5
<1> HIDE DEF f, h
<1>8. SumOver(f, DOMAIN rows) = SumOver(Prices, E)
  <2> DEFINE N == DOMAIN rows
  <2>1. IsFiniteSet(N) /\ \A i \in N : f[i] \in Int /\ h[i] \in E /\ f[i] = Prices[h[i]]
    BY <1>6, <1>7
  <2>2. (\A x \in E : \E i \in N : h[i] = x) /\ \A i, j \in N : h[i] = h[j] => i = j
    BY <1>7
  <2> HIDE DEF N
  <2>3. SumOver(f, N) = SumOver(Prices, E)
    BY <1>2, <2>1, <2>2, SumRenamed
  <2> QED
    BY <2>3 DEF N
<1>9. SumFunction(f) = SumOver(f, DOMAIN rows)
  BY <1>6, <1>7, SumFunctionIs
<1> QED
  BY <1>2, <1>8, <1>9 DEF f, E

LEMMA ExportsAddUp ==
    ASSUME BookInv, NEW q, Fitting(q), q.product = Unset, q.category = Unset, q.search = Unset
    PROVE  AddsUp(q)
<1> DEFINE snap == [documents |-> docs, expenses |-> Spendings]
           asked == [from |-> q.from, to |-> q.to, channel |-> q.party, expenseCategory |-> Unset]
           S == SaleRows(snap, Products, asked)
           E == SelectedExpenses(snap, asked)
           D == Exported(snap, "sale", q)
           rows == SpendingRows(q)
<1>1. Sees(snap) /\ snap.documents = docs /\ snap.expenses = Spendings
  BY DEF Sees
<1>2. /\ asked.from = q.from /\ asked.to = q.to /\ asked.channel = q.party /\ asked.expenseCategory = Unset
  OBVIOUS
<1> HIDE DEF snap, asked
<1>3. \A x : Passes(Unset, x) /\ Says(x, Unset)
  BY DEF Passes, Says
<1>4. \A day : InRange(day, asked) <=> InRange(day, q)
  BY <1>2 DEF InRange
<1>5. E = {x \in Spendings : SpendingFits(x, q)} /\ E \in SUBSET Spendings
  BY <1>1, <1>2, <1>3, <1>4 DEF SelectedExpenses, SpendingFits
<1>6. \A l \in LinesOf(snap, "sale") :
         l[2] \in Products /\ (l \in S <=> FitsList(snap, l[1], "sale", q))
  <2>1. \A l \in LinesOf(snap, "sale") : l[2] \in Products /\ snap.documents[l[1]].doc.kind = "sale"
    BY <1>1, LinesAre DEF LinesOf
  <2> QED
    BY <1>2, <1>4, <2>1 DEF SaleRows, SaleMatches, FitsList
<1>7. S \subseteq LinesOf(snap, "sale")
  BY DEF SaleRows
<1>8. D = {l[1] : l \in S}
  <2>1. D = {l[1] : l \in {l \in LinesOf(snap, "sale") : FitsList(snap, l[1], "sale", q)}}
    BY <1>3 DEF Exported, OfFilter
  <2>2. S = {l \in LinesOf(snap, "sale") : FitsList(snap, l[1], "sale", q)}
    BY <1>6, <1>7
  <2> QED
    BY <2>1, <2>2
<1>9. \A e \in D : \A l \in LinesOf(snap, "sale") : l[1] = e => l \in S
  BY <1>6, <1>7, <1>8
<1>10. PeriodTotals(snap, Products, asked) = Totals(snap, S, E)
  BY DEF PeriodTotals
<1> HIDE DEF S, E, D
<1>11. /\ SumFunction([e \in D |-> DocumentTotal(snap, e, "revenue")]) = RevenueOf(snap, S)
       /\ SumFunction([e \in D |-> DocumentTotal(snap, e, "profit")]) = RevenueOf(snap, S) - CostOf(snap, S)
  BY <1>1, <1>7, <1>8, <1>9, SalesAddUp
<1>12. SumFunction([i \in DOMAIN rows |-> rows[i].amount]) = SpentOn(E)
  <2>1. q.asc \in BOOLEAN
    BY DEF Fitting
  <2> HIDE DEF rows
  <2>2. SumFunction([i \in DOMAIN rows |-> rows[i].amount]) = SpentOn({x \in Spendings : SpendingFits(x, q)})
    BY <2>1, SpendingAddsUp DEF rows
  <2> QED
    BY <1>5, <2>2
<1>13. SpentOn(E) = SpentOn(OneTime(E)) + SpentOn(Recurring(E))
  BY <1>5, SpentSplits
<1>14. /\ Totals(snap, S, E).revenue = RoundMoney(RevenueOf(snap, S))
       /\ Totals(snap, S, E).grossProfit = RoundMoney(RevenueOf(snap, S) - CostOf(snap, S))
       /\ Totals(snap, S, E).totalExpenses = RoundMoney(SpentOn(OneTime(E)) + SpentOn(Recurring(E)))
  BY DEF Totals, OneTime, Recurring
<1> QED
  BY <1>10, <1>11, <1>12, <1>13, <1>14 DEF AddsUp, snap, asked, D

LEMMA ExportsDoAgree == BookInv => ExportsAsListed
<1> SUFFICES ASSUME BookInv, NEW q \in ListQueries
             PROVE  /\ SameAsListed("purchase", q) /\ SameAsListed("sale", q)
                    /\ q.product = Unset /\ q.category = Unset /\ q.search = Unset => AddsUp(q)
  BY DEF ExportsAsListed
<1>1. Fitting(q)
  BY PeriodAssumption DEF Fitting
<1> QED
  BY <1>1, ListsAgree, ExportsAddUp

(* Whatever view of a period is asked for, the figures of a report, of its   *)
(* months, of its products, of the expenses by category, of the dashboard    *)
(* it is compared with and of the lists exported beside it agree with each   *)
(* other, and the stock is what was bought and not sold.                     *)
THEOREM FiguresStayTrue == LedgerSpec => []FiguresAgree
<1>1. LedgerInv => FiguresAgree
  BY ReportsDoAgree, ExportsDoAgree DEF LedgerInv, FiguresAgree
<1> QED
  BY <1>1, LedgerInvariant, PTL
=============================================================================
