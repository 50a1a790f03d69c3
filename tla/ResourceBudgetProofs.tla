------------------------ MODULE ResourceBudgetProofs ------------------------
(***************************************************************************)
(* The resource budget tree, for every set of dimensions, policies and     *)
(* demands and every number of scopes and reservations: each live node     *)
(* counts exactly what its subtree owns, the tree and its index stay whole *)
(* while scopes are dropped in any order, and limits hold at every level.  *)
(***************************************************************************)
EXTENDS ResourceBudget, FiniteSetTheorems, TLAPS

-----------------------------------------------------------------------------
(* The inductive invariant. The exactness of a ledger, the life of a       *)
(* lineage and the index depend on each other: a charge walks the lineage, *)
(* and a node may only go when no lineage runs through it. The clauses     *)
(* below add the two levels of the tree and the clean slate on which a new *)
(* token starts.                                                           *)

TreeShape ==
    /\ 0 \in nodes => scope[0].kind = "Process" /\ Parent(0) = 0
    /\ \A t \in nodes : t < next
    /\ \A t \in nodes \ {0} :
          \/ scope[t].kind = "Workspace" /\ Parent(t) = 0
          \/ /\ scope[t].kind = "Operation"
             /\ Parent(t) \in nodes \ {0} /\ scope[Parent(t)].kind = "Workspace"

CleanSlate ==
    \A t \in Tokens : t >= next => used[t] = Zero /\ data[t] = Zero /\ counts[t] = 0

BudgetInv ==
    /\ TypeOK /\ AccountingIsExact
    /\ LineageIsLive /\ IndexIsTheTree
    /\ TreeShape /\ CleanSlate

-----------------------------------------------------------------------------
(* Sums over the slots.                                                    *)

\* The units one slot counts out.
LEMMA UnitsOfOne ==
    ASSUME NEW r, NEW n \in Nat
    PROVE  /\ IsFiniteSet({r} \X (1..n))
           /\ Cardinality({r} \X (1..n)) = n
<1>1. IsFiniteSet({r}) /\ Cardinality({r}) = 1
  BY FS_Singleton
<1>2. IsFiniteSet(1..n) /\ Cardinality(1..n) = n
  BY FS_Interval
<1>3. Cardinality({r} \X (1..n)) = 1 * Cardinality(1..n)
  BY Zenon, <1>1, <1>2, FS_Product
<1> QED
  BY <1>1, <1>2, <1>3, FS_Product

\* Finitely many slots count out finitely many units.
LEMMA UnitsFinite ==
    ASSUME NEW S, IsFiniteSet(S), NEW f, \A r \in S : f[r] \in Nat
    PROVE  IsFiniteSet(UNION {{r} \X (1..f[r]) : r \in S})
<1> DEFINE parts == {{r} \X (1..f[r]) : r \in S}
           g == [r \in S |-> {r} \X (1..f[r])]
<1>1. g \in Surjection(S, parts)
  BY Zenon DEF Surjection
<1>2. IsFiniteSet(parts)
  <2> HIDE DEF parts, g
  <2> QED
    BY <1>1, FS_Surjection
<1>3. ASSUME NEW p \in parts
      PROVE  IsFiniteSet(p)
  <2>1. PICK r \in S : p = {r} \X (1..f[r])
    OBVIOUS
  <2> QED
    BY Zenon, <2>1, UnitsOfOne
<1> QED
  <2> HIDE DEF parts
  <2>1. IsFiniteSet(UNION parts)
    BY <1>2, <1>3, FS_UNION
  <2> QED
    BY <2>1 DEF parts

\* A sum is a natural number, and changing one slot changes it by the difference.
LEMMA TotalUpdate ==
    ASSUME NEW f \in [Slots -> Nat], NEW r \in Slots, NEW v \in Nat
    PROVE  /\ Total(f) \in Nat
           /\ f[r] <= Total(f)
           /\ Total([f EXCEPT ![r] = v]) = Total(f) - f[r] + v
<1> DEFINE g == [f EXCEPT ![r] = v]
           rest == UNION {{s} \X (1..f[s]) : s \in Slots \ {r}}
           old == {r} \X (1..f[r])
           new == {r} \X (1..v)
<1>1. IsFiniteSet(rest)
  <2>1. IsFiniteSet(Slots \ {r})
    BY BudgetAssumption, FS_RemoveElement
  <2> QED
    BY <2>1, UnitsFinite
<1>2. /\ IsFiniteSet(old) /\ Cardinality(old) = f[r]
      /\ IsFiniteSet(new) /\ Cardinality(new) = v
  BY Zenon, UnitsOfOne
<1>3. UNION {{s} \X (1..f[s]) : s \in Slots} = rest \cup old
  OBVIOUS
<1>4. UNION {{s} \X (1..g[s]) : s \in Slots} = rest \cup new
  OBVIOUS
<1>5. rest \cap old = {} /\ rest \cap new = {}
  OBVIOUS
<1>6. Cardinality(rest) \in Nat
  BY <1>1, FS_CardinalityType
<1> HIDE DEF rest, old, new
<1>7. Cardinality(rest \cap old) = 0 /\ Cardinality(rest \cap new) = 0
  BY <1>5, FS_EmptySet
<1>8. /\ Cardinality(rest \cup old) = Cardinality(rest) + f[r] - 0
      /\ Cardinality(rest \cup new) = Cardinality(rest) + v - 0
  <2>1. Cardinality(rest \cup old) = Cardinality(rest) + Cardinality(old) - Cardinality(rest \cap old)
    BY <1>1, <1>2, FS_Union
  <2>2. Cardinality(rest \cup new) = Cardinality(rest) + Cardinality(new) - Cardinality(rest \cap new)
    BY <1>1, <1>2, FS_Union
  <2> QED
    BY <1>2, <1>7, <2>1, <2>2
<1>9. Total(f) = Cardinality(rest) + f[r] /\ Total(g) = Cardinality(rest) + v
  BY <1>3, <1>4, <1>6, <1>8 DEF Total
<1> QED
  BY <1>6, <1>9

\* Nothing counted sums to nothing.
LEMMA TotalNothing ==
    ASSUME NEW f, \A r \in Slots : f[r] = 0
    PROVE  Total(f) = 0
<1>1. UNION {{r} \X (1..f[r]) : r \in Slots} = {}
  OBVIOUS
<1> QED
  BY <1>1, FS_EmptySet DEF Total

-----------------------------------------------------------------------------
(* What a step of the ledger has to keep.                                  *)

Both == {"Data", "Control"}

\* Amounts are added, and released when owned, dimension by dimension.
LEMMA AmountFacts ==
    /\ Zero \in Amounts /\ Memory(BookBytes) \in Amounts
    /\ \A a, b \in Amounts : Plus(a, b) \in Amounts
    /\ \A a, b \in Amounts : Within(b, a) => Minus(a, b) \in Amounts
  BY BudgetAssumption DEF Zero, Memory, Amounts, Plus, Minus, Within

\* What is counted of a reservation is a natural number.
LEMMA CountIsNat ==
    ASSUME NEW rec \in Reservations, NEW n, NEW d \in Dims, NEW classes
    PROVE  CountOf(rec, n, d, classes) \in Nat
  BY DEF CountOf, Reservations, Amounts

\* The counts of a node are those of the slots, and no slot counts for more than
\* the sum; a replaced reservation moves the sum by the difference.
LEMMA ChargedFacts ==
    ASSUME TypeOK, NEW r \in Slots, NEW n, NEW d \in Dims, NEW classes, NEW v \in Nat
    PROVE  /\ Counted(n, d, classes) \in [Slots -> Nat]
           /\ Charged(n, d, classes) \in Nat
           /\ CountOf(res[r], n, d, classes) \in Nat
           /\ CountOf(res[r], n, d, classes) <= Charged(n, d, classes)
           /\ Total([Counted(n, d, classes) EXCEPT ![r] = v]) =
                Charged(n, d, classes) - CountOf(res[r], n, d, classes) + v
<1>1. Counted(n, d, classes) \in [Slots -> Nat]
  BY CountIsNat DEF TypeOK, Counted
<1>2. Counted(n, d, classes)[r] = CountOf(res[r], n, d, classes)
  BY DEF Counted
<1>3. CountOf(res[r], n, d, classes) \in Nat
  BY CountIsNat DEF TypeOK
<1> QED
  BY ZenonT(40), <1>1, <1>2, <1>3, TotalUpdate DEF Charged

\* A step that keeps the nodes and gives reservations live owners keeps the tree.
LEMMA TreeStands ==
    ASSUME LineageIsLive, IndexIsTheTree, TreeShape, UNCHANGED <<ledger, held>>,
           \A r \in Slots : res'[r].kind # "none" => res'[r].owner \in nodes
    PROVE  LineageIsLive' /\ IndexIsTheTree' /\ TreeShape'
<1>1. LineageIsLive'
  BY DEF LineageIsLive, Live, Lineage, Parent, ledger
<1>2. IndexIsTheTree'
  BY DEF IndexIsTheTree, Parent, ledger
<1>3. TreeShape'
  BY DEF TreeShape, Parent, ledger
<1> QED
  BY <1>1, <1>2, <1>3

\* A step that replaces one reservation by rec keeps the invariant when it moves
\* every live node by what rec counts more than the reservation it replaces.
LEMMA LedgerStep ==
    ASSUME BudgetInv, UNCHANGED <<ledger, held>>,
           NEW r \in Slots, NEW rec \in Reservations, res' = [res EXCEPT ![r] = rec],
           rec.kind # "none" => rec.owner \in nodes,
           used' \in [Tokens -> Amounts], data' \in [Tokens -> Amounts],
           \A n \in nodes, d \in Dims :
              /\ used'[n][d] = used[n][d] - CountOf(res[r], n, d, Both) + CountOf(rec, n, d, Both)
              /\ data'[n][d] = data[n][d] - CountOf(res[r], n, d, {"Data"})
                                          + CountOf(rec, n, d, {"Data"}),
           \A t \in Tokens \ nodes : used'[t] = used[t] /\ data'[t] = data[t]
    PROVE  BudgetInv'
<1> USE DEF BudgetInv
<1>1. TypeOK'
  BY DEF TypeOK, ledger
<1>2. AccountingIsExact'
  <2> SUFFICES ASSUME NEW n \in nodes, NEW d \in Dims
               PROVE  /\ used'[n][d] = Charged(n, d, Both)'
                      /\ data'[n][d] = Charged(n, d, {"Data"})'
    BY DEF AccountingIsExact, ledger, Both
  <2>1. used[n][d] = Charged(n, d, Both) /\ data[n][d] = Charged(n, d, {"Data"})
    BY DEF AccountingIsExact, Both
  <2>2. scope' = scope
    BY DEF ledger
  <2>3. ASSUME NEW classes
        PROVE  Charged(n, d, classes)' = Charged(n, d, classes)
                 - CountOf(res[r], n, d, classes) + CountOf(rec, n, d, classes)
    <3>1. Counted(n, d, classes)' =
            [Counted(n, d, classes) EXCEPT ![r] = CountOf(rec, n, d, classes)]
      BY Zenon, <2>2 DEF Counted, CountOf, Lineage, Parent, TypeOK
    <3>2. Charged(n, d, classes)' = Total(Counted(n, d, classes)')
      BY DEF Charged, Total
    <3>3. CountOf(rec, n, d, classes) \in Nat
      BY CountIsNat
    <3>4. Total([Counted(n, d, classes) EXCEPT ![r] = CountOf(rec, n, d, classes)]) =
            Charged(n, d, classes) - CountOf(res[r], n, d, classes) + CountOf(rec, n, d, classes)
      BY <3>3, ChargedFacts
    <3> QED
      BY <3>1, <3>2, <3>4
  <2> QED
    BY <2>1, <2>3
<1>3. LineageIsLive' /\ IndexIsTheTree' /\ TreeShape'
  <2>1. \A s \in Slots : res'[s].kind # "none" => res'[s].owner \in nodes
    BY DEF LineageIsLive, Live, TypeOK
  <2> QED
    BY <2>1, TreeStands
<1>4. CleanSlate'
  BY SMTT(40), Zenon, BudgetAssumption DEF CleanSlate, TreeShape, TypeOK, ledger, Tokens
<1> QED
  BY <1>1, <1>2, <1>3, <1>4

-----------------------------------------------------------------------------
(* Charging and releasing.                                                 *)

\* add over a live lineage for a reservation of its scope: a new one of that
\* amount, or one that grows by it.
LEMMA AddStep ==
    ASSUME BudgetInv, UNCHANGED <<ledger, held>>,
           NEW t \in nodes, NEW class \in Both, NEW a \in Amounts, Add(t, class, a),
           NEW r \in Slots, NEW rec \in Reservations, res' = [res EXCEPT ![r] = rec],
           rec.kind # "none", rec.owner = t, rec.class = class,
           \/ res[r].kind = "none" /\ rec.amounts = a
           \/ /\ res[r].kind # "none" /\ res[r].owner = t /\ res[r].class = class
              /\ rec.amounts = Plus(res[r].amounts, a)
    PROVE  BudgetInv'
<1>1. /\ Lineage(t) \subseteq nodes /\ nodes \subseteq Tokens
      /\ used \in [Tokens -> Amounts] /\ data \in [Tokens -> Amounts]
      /\ res[r] \in Reservations
  BY DEF BudgetInv, LineageIsLive, TypeOK
<1>2. used' \in [Tokens -> Amounts] /\ data' \in [Tokens -> Amounts]
  BY <1>1, AmountFacts DEF Add
<1>3. \A n \in Tokens \ nodes : used'[n] = used[n] /\ data'[n] = data[n]
  BY <1>1 DEF Add
<1>4. ASSUME NEW n \in nodes, NEW d \in Dims
      PROVE  /\ used'[n][d] = used[n][d] - CountOf(res[r], n, d, Both) + CountOf(rec, n, d, Both)
             /\ data'[n][d] = data[n][d] - CountOf(res[r], n, d, {"Data"})
                                         + CountOf(rec, n, d, {"Data"})
  <2>1. /\ used'[n] = IF n \in Lineage(t) THEN Plus(used[n], a) ELSE used[n]
        /\ data'[n] = IF n \in Lineage(t) /\ class = "Data" THEN Plus(data[n], a) ELSE data[n]
    BY <1>1 DEF Add
  <2>2. /\ used[n][d] \in Nat /\ data[n][d] \in Nat /\ a[d] \in Nat
        /\ res[r].amounts[d] \in Nat /\ rec.amounts[d] \in Nat
    BY <1>1 DEF Amounts, Reservations
  <2>3. /\ Plus(used[n], a)[d] = used[n][d] + a[d] /\ Plus(data[n], a)[d] = data[n][d] + a[d]
        /\ Plus(res[r].amounts, a)[d] = res[r].amounts[d] + a[d]
    BY DEF Plus
  <2>4. CountOf(rec, n, d, Both) - CountOf(res[r], n, d, Both) = IF n \in Lineage(t) THEN a[d] ELSE 0
    BY <2>2, <2>3 DEF CountOf, Both
  <2>5. CountOf(rec, n, d, {"Data"}) - CountOf(res[r], n, d, {"Data"})
          = IF n \in Lineage(t) /\ class = "Data" THEN a[d] ELSE 0
    BY <2>2, <2>3 DEF CountOf, Both
  <2>6. /\ CountOf(rec, n, d, Both) \in Nat /\ CountOf(res[r], n, d, Both) \in Nat
        /\ CountOf(rec, n, d, {"Data"}) \in Nat /\ CountOf(res[r], n, d, {"Data"}) \in Nat
    BY <1>1, CountIsNat
  <2> QED
    BY <2>1, <2>2, <2>3, <2>4, <2>5, <2>6
<1> QED
  BY Zenon, <1>2, <1>3, <1>4, LedgerStep

\* subtract over the lineage of a live reservation: of all it owns, which ends
\* it, or of a part of it.
LEMMA SubtractStep ==
    ASSUME BudgetInv, UNCHANGED <<ledger, held>>,
           NEW r \in Slots, res[r].kind # "none", NEW a \in Amounts, Within(a, res[r].amounts),
           Subtract(res[r].owner, res[r].class, a),
           NEW rec \in Reservations, res' = [res EXCEPT ![r] = rec],
           \/ rec.kind = "none" /\ a = res[r].amounts
           \/ /\ rec.kind # "none" /\ rec.owner = res[r].owner /\ rec.class = res[r].class
              /\ rec.amounts = Minus(res[r].amounts, a)
    PROVE  BudgetInv'
<1> DEFINE t == res[r].owner
           class == res[r].class
<1>1. /\ t \in nodes /\ Lineage(t) \subseteq nodes /\ nodes \subseteq Tokens
      /\ used \in [Tokens -> Amounts] /\ data \in [Tokens -> Amounts]
      /\ res[r] \in Reservations /\ class \in Both /\ res[r].amounts \in Amounts
  BY DEF BudgetInv, LineageIsLive, TypeOK, Live, Reservations, Both
<1>2. ASSUME NEW n \in Lineage(t), NEW d \in Dims
      PROVE  /\ a[d] <= used[n][d]
             /\ class = "Data" => a[d] <= data[n][d]
  <2>1. /\ CountOf(res[r], n, d, Both) <= Charged(n, d, Both)
        /\ CountOf(res[r], n, d, {"Data"}) <= Charged(n, d, {"Data"})
    BY Zenon, ChargedFacts DEF BudgetInv
  <2>2. used[n][d] = Charged(n, d, Both) /\ data[n][d] = Charged(n, d, {"Data"})
    BY <1>1 DEF BudgetInv, AccountingIsExact, Both
  <2>3. /\ CountOf(res[r], n, d, Both) = res[r].amounts[d]
        /\ class = "Data" => CountOf(res[r], n, d, {"Data"}) = res[r].amounts[d]
    BY <1>1 DEF CountOf
  <2>4. /\ a[d] <= res[r].amounts[d] /\ a[d] \in Nat /\ res[r].amounts[d] \in Nat
        /\ used[n][d] \in Nat /\ data[n][d] \in Nat
    BY <1>1 DEF Within, Amounts
  <2> QED
    BY <2>1, <2>2, <2>3, <2>4
<1>3. used' \in [Tokens -> Amounts] /\ data' \in [Tokens -> Amounts]
  <2>1. /\ \A n \in Lineage(t) : Minus(used[n], a) \in Amounts
        /\ class = "Data" => \A n \in Lineage(t) : Minus(data[n], a) \in Amounts
    BY <1>1, <1>2, AmountFacts DEF Within
  <2> QED
    BY <1>1, <2>1 DEF Subtract
<1>4. \A n \in Tokens \ nodes : used'[n] = used[n] /\ data'[n] = data[n]
  BY <1>1 DEF Subtract
<1>5. ASSUME NEW n \in nodes, NEW d \in Dims
      PROVE  /\ used'[n][d] = used[n][d] - CountOf(res[r], n, d, Both) + CountOf(rec, n, d, Both)
             /\ data'[n][d] = data[n][d] - CountOf(res[r], n, d, {"Data"})
                                         + CountOf(rec, n, d, {"Data"})
  <2>1. /\ used'[n] = IF n \in Lineage(t) THEN Minus(used[n], a) ELSE used[n]
        /\ data'[n] = IF n \in Lineage(t) /\ class = "Data" THEN Minus(data[n], a) ELSE data[n]
    BY <1>1 DEF Subtract
  <2>2. /\ used[n][d] \in Nat /\ data[n][d] \in Nat /\ a[d] \in Nat
        /\ res[r].amounts[d] \in Nat /\ rec.amounts[d] \in Nat
    BY <1>1 DEF Amounts, Reservations
  <2>3. /\ Minus(used[n], a)[d] = used[n][d] - a[d] /\ Minus(data[n], a)[d] = data[n][d] - a[d]
        /\ Minus(res[r].amounts, a)[d] = res[r].amounts[d] - a[d]
    BY DEF Minus
  <2>4. CountOf(res[r], n, d, Both) - CountOf(rec, n, d, Both) = IF n \in Lineage(t) THEN a[d] ELSE 0
    BY <1>1, <2>2, <2>3 DEF CountOf
  <2>5. CountOf(res[r], n, d, {"Data"}) - CountOf(rec, n, d, {"Data"})
          = IF n \in Lineage(t) /\ class = "Data" THEN a[d] ELSE 0
    BY <1>1, <2>2, <2>3 DEF CountOf
  <2>6. /\ CountOf(rec, n, d, Both) \in Nat /\ CountOf(res[r], n, d, Both) \in Nat
        /\ CountOf(rec, n, d, {"Data"}) \in Nat /\ CountOf(res[r], n, d, {"Data"}) \in Nat
    BY <1>1, CountIsNat
  <2> QED
    BY <2>1, <2>2, <2>3, <2>4, <2>5, <2>6
<1> QED
  BY Zenon, <1>1, <1>3, <1>4, <1>5, LedgerStep

\* A step that charges nothing and keeps what the reservation counts for.
LEMMA KeepStep ==
    ASSUME BudgetInv, UNCHANGED <<ledger, used, data, held>>, NEW r \in Slots,
           NEW rec \in Reservations, res' = [res EXCEPT ![r] = rec], res[r].kind # "none",
           rec.kind # "none", rec.owner = res[r].owner, rec.class = res[r].class,
           rec.amounts = res[r].amounts
    PROVE  BudgetInv'
<1>1. /\ used \in [Tokens -> Amounts] /\ data \in [Tokens -> Amounts] /\ rec.owner \in nodes
      /\ res[r] \in Reservations /\ nodes \subseteq Tokens
  BY DEF BudgetInv, TypeOK, LineageIsLive, Live
<1>2. \A n, d, classes : CountOf(rec, n, d, classes) = CountOf(res[r], n, d, classes)
  BY DEF CountOf
<1>3. ASSUME NEW n \in nodes, NEW d \in Dims
      PROVE  /\ used'[n][d] = used[n][d] - CountOf(res[r], n, d, Both) + CountOf(rec, n, d, Both)
             /\ data'[n][d] = data[n][d] - CountOf(res[r], n, d, {"Data"})
                                         + CountOf(rec, n, d, {"Data"})
  <2>1. used[n][d] \in Nat /\ data[n][d] \in Nat
    BY <1>1 DEF Amounts
  <2>2. CountOf(res[r], n, d, Both) \in Nat /\ CountOf(res[r], n, d, {"Data"}) \in Nat
    BY <1>1, CountIsNat
  <2> QED
    BY <1>2, <2>1, <2>2
<1> QED
  BY Zenon, <1>1, <1>3, LedgerStep

\* split: the two reservations count together for what the one counted before.
LEMMA SplitStep ==
    ASSUME BudgetInv, NEW r \in Slots, NEW into \in Slots, NEW a \in Amounts, Split(r, into, a)
    PROVE  BudgetInv'
<1> DEFINE kept == [res[r] EXCEPT !.amounts = Minus(res[r].amounts, a)]
           part == [res[r] EXCEPT !.amounts = a]
<1>1. /\ TypeOK /\ res \in [Slots -> Reservations] /\ res[r] \in Reservations
      /\ res[r].kind = "plain" /\ res[into].kind = "none" /\ r # into
      /\ Within(a, res[r].amounts) /\ res[r].owner \in nodes /\ res[r].amounts \in Amounts
      /\ UNCHANGED <<ledger, used, data, held>> /\ scope' = scope
  BY DEF BudgetInv, TypeOK, Split, Plain, Free, LineageIsLive, Live, Reservations, ledger
<1>2. res' = [[res EXCEPT ![r] = kept] EXCEPT ![into] = part]
  BY <1>1 DEF Split, SplitInto
<1>3. kept \in Reservations /\ part \in Reservations
  BY <1>1, AmountFacts DEF Reservations
<1>4. /\ \A s \in Slots : res'[s].kind # "none" => res'[s].owner \in nodes
      /\ res' \in [Slots -> Reservations]
  <2>1. kept.owner = res[r].owner /\ part.owner = res[r].owner
    BY <1>1 DEF Reservations
  <2>2. \A s \in Slots : res[s].kind # "none" => res[s].owner \in nodes
    BY DEF BudgetInv, LineageIsLive, Live
  <2> HIDE DEF kept, part
  <2> QED
    BY <1>1, <1>2, <1>3, <2>1, <2>2
<1>5. TypeOK'
  BY <1>1, <1>4 DEF TypeOK, ledger
<1>6. ASSUME NEW n, NEW d \in Dims, NEW classes
      PROVE  Charged(n, d, classes)' = Charged(n, d, classes)
  <2>1. PICK f : f = Counted(n, d, classes)
    OBVIOUS
  <2>2. PICK k, p : k = CountOf(kept, n, d, classes) /\ p = CountOf(part, n, d, classes)
    OBVIOUS
  <2>3. f \in [Slots -> Nat] /\ k \in Nat /\ p \in Nat /\ Charged(n, d, classes) = Total(f)
    BY Zenon, <1>1, <1>3, <2>1, <2>2, ChargedFacts, CountIsNat DEF Charged
  <2>4. f[r] = CountOf(res[r], n, d, classes) /\ f[into] = 0
    BY <1>1, <2>1 DEF Counted, CountOf
  <2>5. k + p = f[r]
    <3>1. a[d] \in Nat /\ res[r].amounts[d] \in Nat /\ Minus(res[r].amounts, a)[d] = res[r].amounts[d] - a[d]
      BY <1>1 DEF Amounts, Minus
    <3>2. /\ kept.kind = res[r].kind /\ kept.owner = res[r].owner /\ kept.class = res[r].class
          /\ part.kind = res[r].kind /\ part.owner = res[r].owner /\ part.class = res[r].class
          /\ kept.amounts = Minus(res[r].amounts, a) /\ part.amounts = a
      BY <1>1 DEF Reservations
    <3> HIDE DEF kept, part
    <3> QED
      BY <2>2, <2>4, <3>1, <3>2 DEF CountOf
  <2>6. Counted(n, d, classes)' = [[f EXCEPT ![r] = k] EXCEPT ![into] = p]
    <3> HIDE DEF kept, part
    <3> QED
      BY Zenon, <1>1, <1>2, <2>1, <2>2 DEF Counted, CountOf, Lineage, Parent
  <2>7. Charged(n, d, classes)' = Total(Counted(n, d, classes)')
    BY DEF Charged, Total
  <2>8. PICK g : g = [f EXCEPT ![r] = k]
    BY Zenon
  <2>9. g \in [Slots -> Nat] /\ g[into] = 0 /\ Total(g) = Total(f) - f[r] + k /\ Total(f) \in Nat
    BY Zenon, <1>1, <2>3, <2>4, <2>8, TotalUpdate
  <2>10. Total([g EXCEPT ![into] = p]) = Total(g) - 0 + p /\ Total(g) \in Nat
    BY Zenon, <2>3, <2>9, TotalUpdate
  <2>11. Total([g EXCEPT ![into] = p]) = Total(f)
    BY <2>3, <2>5, <2>9, <2>10
  <2> QED
    BY <2>3, <2>6, <2>7, <2>8, <2>11
<1>7. AccountingIsExact'
  BY <1>1, <1>6 DEF BudgetInv, AccountingIsExact, ledger
<1>8. LineageIsLive' /\ IndexIsTheTree' /\ TreeShape'
  BY <1>1, <1>4, TreeStands DEF BudgetInv
<1>9. CleanSlate'
  BY <1>1 DEF BudgetInv, CleanSlate, ledger
<1> QED
  BY <1>5, <1>7, <1>8, <1>9 DEF BudgetInv

\* try_reserve and reserve_scope_bookkeeping charge a fresh reservation.
LEMMA ReserveStep ==
    ASSUME BudgetInv, NEW t \in Tokens, NEW r \in Slots
    PROVE  /\ \A class \in Both, a \in Demands : TryReserve(t, r, class, a) => BudgetInv'
           /\ Bookkeeping(t, r) => BudgetInv'
<1>1. ASSUME NEW class \in Both, NEW a \in Demands, TryReserve(t, r, class, a)
      PROVE  BudgetInv'
  <2> DEFINE rec == [kind |-> "plain", owner |-> t, class |-> class, amounts |-> a,
                     shares |-> 1, of |-> 0]
  <2>1. t \in nodes /\ a \in Amounts /\ 0 \in Tokens
    BY <1>1, BudgetAssumption DEF TryReserve, BudgetInv, LineageIsLive, Tokens
  <2>2. rec \in Reservations
    BY <2>1 DEF Reservations, Both
  <2> QED
    BY Zenon, <1>1, <2>1, <2>2, AddStep DEF TryReserve, Free
<1>2. ASSUME Bookkeeping(t, r)
      PROVE  BudgetInv'
  <2> DEFINE rec == [kind |-> "book", owner |-> Parent(t), class |-> "Data",
                     amounts |-> Memory(BookBytes), shares |-> 1, of |-> t]
  <2>1. Parent(t) \in nodes /\ nodes \subseteq Tokens /\ Memory(BookBytes) \in Amounts
    BY <1>2, AmountFacts DEF Bookkeeping, BudgetInv, LineageIsLive, Lineage, TypeOK
  <2>2. rec \in Reservations
    BY <2>1 DEF Reservations
  <2>3. "Data" \in Both
    BY DEF Both
  <2> QED
    BY ZenonT(40), <1>2, <2>1, <2>2, <2>3, AddStep DEF Bookkeeping, Free
<1> QED
  BY <1>1, <1>2

\* try_grow and grow_infallible charge what they add to a live reservation.
LEMMA GrowStep ==
    ASSUME BudgetInv, NEW r \in Slots, NEW a \in Demands,
           TryGrow(r, a) \/ GrowInfallible(r, a)
    PROVE  BudgetInv'
<1> DEFINE rec == [res[r] EXCEPT !.amounts = Plus(res[r].amounts, a)]
<1>1. /\ res[r].kind # "none" /\ Add(res[r].owner, res[r].class, a)
      /\ UNCHANGED <<ledger, held>> /\ res' = [res EXCEPT ![r] = rec]
  BY DEF TryGrow, GrowInfallible, BudgetInv, TypeOK, Reservations
<1>2. /\ a \in Amounts /\ res[r] \in Reservations /\ res[r].owner \in nodes /\ res[r].class \in Both
      /\ res[r].amounts \in Amounts
  BY <1>1, BudgetAssumption DEF BudgetInv, LineageIsLive, Live, TypeOK, Reservations, Both
<1>3. /\ rec \in Reservations /\ rec.kind # "none" /\ rec.owner = res[r].owner
      /\ rec.class = res[r].class /\ rec.amounts = Plus(res[r].amounts, a)
  BY <1>1, <1>2, AmountFacts DEF Reservations
<1> HIDE DEF rec
<1> QED
  BY Zenon, <1>1, <1>2, <1>3, AddStep

\* shrink releases a part of what is owned.
LEMMA ShrinkStep ==
    ASSUME BudgetInv, NEW r \in Slots, NEW a \in Demands, Shrink(r, a)
    PROVE  BudgetInv'
<1> DEFINE rec == [res[r] EXCEPT !.amounts = Minus(res[r].amounts, a)]
<1>1. /\ res[r].kind # "none" /\ Subtract(res[r].owner, res[r].class, a)
      /\ Within(a, res[r].amounts) /\ UNCHANGED <<ledger, held>> /\ res' = [res EXCEPT ![r] = rec]
  BY DEF Shrink, BudgetInv, TypeOK, Reservations
<1>2. a \in Amounts /\ res[r] \in Reservations /\ res[r].amounts \in Amounts
  BY BudgetAssumption DEF BudgetInv, TypeOK, Reservations
<1>3. /\ rec \in Reservations /\ rec.kind # "none" /\ rec.owner = res[r].owner
      /\ rec.class = res[r].class /\ rec.amounts = Minus(res[r].amounts, a)
  BY <1>1, <1>2, AmountFacts DEF Reservations
<1> HIDE DEF rec
<1> QED
  BY Zenon, <1>1, <1>2, <1>3, SubtractStep

\* A reservation that releases all it owns is gone.
LEMMA ReleaseStep ==
    ASSUME BudgetInv, NEW r \in Slots, res[r].kind # "none",
           Subtract(res[r].owner, res[r].class, res[r].amounts),
           res' = [res EXCEPT ![r] = NoRes], UNCHANGED <<ledger, held>>
    PROVE  BudgetInv'
<1>1. res[r].amounts \in Amounts /\ Within(res[r].amounts, res[r].amounts)
  BY DEF BudgetInv, TypeOK, Reservations, Amounts, Within
<1>2. NoRes \in Reservations /\ NoRes.kind = "none"
  BY AmountFacts, BudgetAssumption DEF NoRes, Reservations, Tokens
<1> QED
  BY Zenon, <1>1, <1>2, SubtractStep

\* Conversions, shares and drops: the capacity stays until its last owner goes.
LEMMA OwnershipStep ==
    ASSUME BudgetInv, NEW r \in Slots
    PROVE  /\ IntoNative(r) => BudgetInv'
           /\ Charge(r) => BudgetInv'
           /\ Share(r) => BudgetInv'
           /\ Drop(r) => BudgetInv'
<1>1. /\ res \in [Slots -> Reservations] /\ res[r] \in Reservations
      /\ used \in [Tokens -> Amounts] /\ data \in [Tokens -> Amounts]
  BY DEF BudgetInv, TypeOK
<1>2. ASSUME NEW kind \in {"native", "charged"}, res[r].kind # "none",
             res' = [res EXCEPT ![r].kind = kind], UNCHANGED <<ledger, used, data, held>>
      PROVE  BudgetInv'
  <2> DEFINE rec == [res[r] EXCEPT !.kind = kind]
  <2>1. /\ rec \in Reservations /\ rec.kind # "none" /\ rec.owner = res[r].owner
        /\ rec.class = res[r].class /\ rec.amounts = res[r].amounts
        /\ res' = [res EXCEPT ![r] = rec]
    BY <1>1, <1>2 DEF Reservations
  <2> HIDE DEF rec
  <2> QED
    BY Zenon, <1>2, <2>1, KeepStep
<1>3. ASSUME NEW shares \in 1..2, res[r].kind # "none",
             res' = [res EXCEPT ![r].shares = shares], UNCHANGED <<ledger, used, data, held>>
      PROVE  BudgetInv'
  <2> DEFINE rec == [res[r] EXCEPT !.shares = shares]
  <2>1. /\ rec \in Reservations /\ rec.kind # "none" /\ rec.owner = res[r].owner
        /\ rec.class = res[r].class /\ rec.amounts = res[r].amounts
        /\ res' = [res EXCEPT ![r] = rec]
    BY <1>1, <1>3 DEF Reservations
  <2> HIDE DEF rec
  <2> QED
    BY Zenon, <1>3, <2>1, KeepStep
<1>4. IntoNative(r) => BudgetInv'
  <2>1. CASE IntoNative(r) /\ MemoryOnly(res[r].amounts)
    BY <1>2, <2>1 DEF IntoNative, Plain
  <2>2. CASE IntoNative(r) /\ ~MemoryOnly(res[r].amounts)
    BY <2>2, ReleaseStep DEF IntoNative, Plain
  <2> QED
    BY <2>1, <2>2
<1>5. Charge(r) => BudgetInv'
  BY <1>2 DEF Charge, Plain
<1>6. Share(r) => BudgetInv'
  BY <1>3 DEF Share
<1>7. Drop(r) => BudgetInv'
  <2>1. CASE Drop(r) /\ LastOwner(r)
    <3>1. res' = [res EXCEPT ![r] = NoRes]
      BY <1>1, <2>1 DEF Drop, LastOwner
    <3> QED
      BY Zenon, <2>1, <3>1, ReleaseStep DEF Drop
  <2>2. CASE Drop(r) /\ ~LastOwner(r)
    BY <1>3, <2>2 DEF Drop
  <2> QED
    BY <2>1, <2>2
<1> QED
  BY <1>4, <1>5, <1>6, <1>7

-----------------------------------------------------------------------------
(* Scopes come and go.                                                     *)

KidsOf(p) == {c \in nodes \ {0} : Parent(c) = p}

\* The children of a node are finitely many.
LEMMA KidsFinite ==
    ASSUME TypeOK, NEW p
    PROVE  IsFiniteSet(KidsOf(p)) /\ Cardinality(KidsOf(p)) \in Nat
<1>1. IsFiniteSet(Tokens)
  BY BudgetAssumption, FS_Interval DEF Tokens
<1>2. KidsOf(p) \in SUBSET Tokens
  BY DEF KidsOf, TypeOK
<1> QED
  BY <1>1, <1>2, FS_Subset, FS_CardinalityType

\* Handles come and go; a reservation gives one of its own scope.
LEMMA HandleStep ==
    ASSUME BudgetInv
    PROVE  /\ \A t \in Tokens : DropHandle(t) => BudgetInv'
           /\ \A r \in Slots : CloneOwner(r) => BudgetInv'
           /\ UNCHANGED vars => BudgetInv'
<1>1. ASSUME UNCHANGED <<ledger, used, data, res>>, held' \subseteq nodes
      PROVE  BudgetInv'
  <2>1. TypeOK'
    BY <1>1 DEF BudgetInv, TypeOK, ledger
  <2>2. AccountingIsExact'
    <3>1. ASSUME NEW n, NEW d, NEW classes
          PROVE  Charged(n, d, classes)' = Charged(n, d, classes)
      <4>1. Counted(n, d, classes)' = Counted(n, d, classes)
        BY <1>1 DEF Counted, CountOf, Lineage, Parent, ledger
      <4>2. Charged(n, d, classes)' = Total(Counted(n, d, classes)')
        BY DEF Charged, Total
      <4>3. Charged(n, d, classes) = Total(Counted(n, d, classes))
        BY DEF Charged
      <4> QED
        BY <4>1, <4>2, <4>3
    <3> QED
      BY <1>1, <3>1 DEF BudgetInv, AccountingIsExact, ledger
  <2>3. LineageIsLive'
    BY <1>1 DEF BudgetInv, LineageIsLive, Live, Lineage, Parent, ledger
  <2>4. IndexIsTheTree'
    BY <1>1 DEF BudgetInv, IndexIsTheTree, Parent, ledger
  <2>5. TreeShape' /\ CleanSlate'
    BY <1>1 DEF BudgetInv, TreeShape, CleanSlate, Parent, ledger
  <2> QED
    BY <2>1, <2>2, <2>3, <2>4, <2>5 DEF BudgetInv
<1>2. /\ held \subseteq nodes
      /\ \A r \in Slots : res[r].kind # "none" => res[r].owner \in nodes
  BY DEF BudgetInv, LineageIsLive, Live
<1>3. ASSUME NEW t \in Tokens, DropHandle(t) PROVE BudgetInv'
  BY <1>1, <1>2, <1>3 DEF DropHandle
<1>4. ASSUME NEW r \in Slots, CloneOwner(r) PROVE BudgetInv'
  BY <1>1, <1>2, <1>4 DEF CloneOwner
<1>5. ASSUME UNCHANGED vars PROVE BudgetInv'
  BY <1>1, <1>2, <1>5 DEF vars, ledger
<1> QED
  BY <1>3, <1>4, <1>5

\* child: the new node has a live parent, an empty ledger and no children, and
\* no lineage of an older scope runs through it.
LEMMA ChildStep ==
    ASSUME BudgetInv, NEW t \in Tokens, NEW id \in Ids, NEW policy \in Policies,
           Child(t, id, policy)
    PROVE  BudgetInv'
<1> DEFINE new == [kind |-> ChildKind(t), id |-> id, parent |-> t, policy |-> policy]
<1>0. PICK n : n = next
  OBVIOUS
<1>1. /\ TypeOK /\ t \in nodes /\ n \in Tokens /\ n \notin nodes /\ n # 0 /\ n # t
      /\ nodes \subseteq Tokens /\ next \in Nat /\ MaxScopes \in Nat
      /\ scope' = [scope EXCEPT ![n] = new] /\ nodes' = nodes \cup {n} /\ next' = n + 1
      /\ UNCHANGED <<used, data, res>> /\ held' = held \cup {n}
      /\ counts' = [counts EXCEPT ![t] = counts[t] + 1] /\ counts \in [Tokens -> Nat]
      /\ \A x \in nodes : x < n
  <2>1. /\ TypeOK /\ t \in held /\ held \subseteq nodes /\ nodes \subseteq Tokens
        /\ next \in 1..MaxScopes + 1 /\ counts \in [Tokens -> Nat] /\ MaxScopes \in Nat
        /\ \A x \in nodes : x < next
    BY BudgetAssumption DEF Child, BudgetInv, LineageIsLive, TreeShape, TypeOK
  <2>2. n \in Tokens /\ n # 0 /\ n \notin nodes /\ next \in Nat
    BY <1>0, <2>1 DEF Child, Tokens
  <2>3. counts' = [counts EXCEPT ![t] = counts[t] + 1]
    BY DEF Child
  <2> QED
    BY ZenonT(40), <1>0, <2>1, <2>2, <2>3 DEF Child
<1>2. /\ scope'[n].kind = ChildKind(t) /\ scope'[n].parent = t /\ scope'[n].id = id
      /\ \A x \in Tokens \ {n} : scope'[x] = scope[x]
      /\ scope \in [Tokens -> [kind: {"none", "Process", "Workspace", "Operation"},
                               id: Ids \cup {"none"}, parent: Tokens,
                               policy: Policies \cup {RootPolicy}]]
  BY <1>1 DEF TypeOK
<1>3. /\ \A x \in nodes : {x, scope[x].parent, scope[scope[x].parent].parent} \subseteq nodes
      /\ held \subseteq nodes /\ \A r \in Slots : res[r].kind # "none" => res[r].owner \in nodes
  BY DEF BudgetInv, LineageIsLive, Lineage, Parent, Live
<1>4. \/ t = 0 /\ ChildKind(t) = "Workspace"
      \/ t # 0 /\ ChildKind(t) = "Operation" /\ scope[t].kind = "Workspace" /\ scope[t].parent = 0
  BY <1>1 DEF Child, ChildAdmits, ChildKind, BudgetInv, TreeShape, Parent
<1>5. TypeOK'
  <2>1. new \in [kind: {"none", "Process", "Workspace", "Operation"}, id: Ids \cup {"none"},
                 parent: Tokens, policy: Policies \cup {RootPolicy}]
    BY Zenon, <1>4
  <2>2. children' \subseteq [parent: Tokens, kind: {"Workspace", "Operation"}, id: Ids, token: Tokens]
    BY <1>0, <1>1, <1>4 DEF Child, TypeOK
  <2>3. next' \in 1..MaxScopes + 1
    BY <1>0, <1>1 DEF Tokens
  <2> QED
    BY <1>1, <1>2, <2>1, <2>2, <2>3, SMTT(40), Zenon DEF TypeOK
<1>6. LineageIsLive'
  BY <1>1, <1>2, <1>3 DEF LineageIsLive, Live, Lineage, Parent
<1>7. TreeShape'
  <2>1. 0 \in nodes' => scope'[0].kind = "Process" /\ scope'[0].parent = 0
    BY <1>1, <1>2 DEF BudgetInv, TreeShape, Parent
  <2>2. \A x \in nodes' : x < next'
    BY <1>1 DEF Tokens
  <2>3. ASSUME NEW x \in nodes' \ {0}
        PROVE  \/ scope'[x].kind = "Workspace" /\ scope'[x].parent = 0
               \/ /\ scope'[x].kind = "Operation" /\ scope'[x].parent \in nodes' \ {0}
                  /\ scope'[scope'[x].parent].kind = "Workspace"
    <3>1. CASE x = n
      BY ZenonT(40), <1>1, <1>2, <1>4, <3>1
    <3>2. CASE x # n
      BY <1>1, <1>2, <1>3, <3>2 DEF BudgetInv, TreeShape, Parent
    <3> QED
      BY <3>1, <3>2
  <2> QED
    BY <2>1, <2>2, <2>3 DEF TreeShape, Parent
<1>8. CleanSlate'
  BY <1>0, <1>1 DEF BudgetInv, CleanSlate, Tokens
<1>9. ASSUME NEW m \in nodes', NEW d \in Dims, NEW classes
      PROVE  /\ m # n => Charged(m, d, classes)' = Charged(m, d, classes)
             /\ m = n => Charged(m, d, classes)' = 0
  <2>1. PICK f : f = Counted(m, d, classes)'
    OBVIOUS
  <2>2. Charged(m, d, classes)' = Total(f)
    BY ZenonT(40), <2>1 DEF Charged, Total
  <2>3. \A r \in Slots : res[r].kind # "none" =>
            {res[r].owner, scope'[res[r].owner].parent, scope'[scope'[res[r].owner].parent].parent}
          = {res[r].owner, scope[res[r].owner].parent, scope[scope[res[r].owner].parent].parent}
    BY SMTT(40), Zenon, <1>1, <1>2, <1>3
  <2>4. f = Counted(m, d, classes)
    BY Zenon, <1>1, <2>1, <2>3 DEF Counted, CountOf, Lineage, Parent
  <2>5. m = n => \A r \in Slots : f[r] = 0
    BY Zenon, <1>1, <1>3, <2>4 DEF Counted, CountOf, Lineage, Parent
  <2> QED
    BY <2>2, <2>4, <2>5, TotalNothing DEF Charged
<1>10. AccountingIsExact'
  <2>1. used[n] = Zero /\ data[n] = Zero
    BY <1>0, <1>1 DEF BudgetInv, CleanSlate
  <2>2. \A d \in Dims : used[n][d] = 0 /\ data[n][d] = 0
    BY <2>1 DEF Zero
  <2>3. ASSUME NEW m \in nodes', NEW d \in Dims
        PROVE  /\ used'[m][d] = Charged(m, d, {"Data", "Control"})'
               /\ data'[m][d] = Charged(m, d, {"Data"})'
    <3>1. CASE m = n
      BY Zenon, <1>1, <1>9, <2>2, <2>3, <3>1
    <3>2. CASE m # n
      <4>1. m \in nodes
        BY Zenon, <1>1, <2>3, <3>2
      <4>2. /\ used[m][d] = Charged(m, d, {"Data", "Control"})
            /\ data[m][d] = Charged(m, d, {"Data"})
        BY Zenon, <2>3, <4>1 DEF BudgetInv, AccountingIsExact
      <4> QED
        BY Zenon, <1>1, <1>9, <2>3, <3>2, <4>2
    <3> QED
      BY Zenon, <3>1, <3>2
  <2> QED
    BY Zenon, <2>3 DEF AccountingIsExact
<1>11. IndexIsTheTree'
  <2>1. children = {[parent |-> scope[x].parent, kind |-> scope[x].kind,
                     id |-> scope[x].id, token |-> x] : x \in nodes \ {0}}
    BY DEF BudgetInv, IndexIsTheTree, Parent
  <2>2. children' = {[parent |-> scope'[x].parent, kind |-> scope'[x].kind,
                      id |-> scope'[x].id, token |-> x] : x \in nodes' \ {0}}
    <3>1. children' = children \cup {[parent |-> t, kind |-> ChildKind(t), id |-> id, token |-> n]}
      BY <1>0 DEF Child
    <3>2. \A x \in nodes \ {0} : scope'[x] = scope[x]
      BY <1>1, <1>2
    <3>3. nodes' \ {0} = (nodes \ {0}) \cup {n}
      BY Zenon, <1>1
    <3> QED
      BY <1>2, <2>1, <3>1, <3>2, <3>3
  <2>3. \A c, o \in children' :
          c.parent = o.parent /\ c.kind = o.kind /\ c.id = o.id => c.token = o.token
    BY DEF Child, ChildAdmits, BudgetInv, IndexIsTheTree
  <2>4. ASSUME NEW p \in nodes'
        PROVE  /\ counts'[p] = Cardinality({c \in nodes' \ {0} : scope'[c].parent = p})
               /\ counts'[p] <= ChildCapacity
    <3>0. IsFiniteSet(KidsOf(p)) /\ Cardinality(KidsOf(p)) \in Nat
      BY <1>1, KidsFinite
    <3>1. CASE p = t
      <4>1. {c \in nodes' \ {0} : scope'[c].parent = p} = KidsOf(p) \cup {n}
        BY <1>1, <1>2, <3>1 DEF KidsOf, Parent
      <4>2. n \notin KidsOf(p)
        BY Zenon, <1>1 DEF KidsOf
      <4>3. counts[t] = Cardinality(KidsOf(p)) /\ counts[t] < ChildCapacity
        BY <1>1, <3>1 DEF BudgetInv, IndexIsTheTree, KidsOf, Child, ChildAdmits
      <4>4. Cardinality(KidsOf(p) \cup {n}) = Cardinality(KidsOf(p)) + 1
        BY Zenon, <3>0, <4>2, FS_AddElement
      <4>5. counts'[p] = counts[t] + 1 /\ counts[t] \in Nat
        BY <1>1, <3>1
      <4>6. ChildCapacity \in Nat
        BY BudgetAssumption
      <4>7. counts'[p] <= ChildCapacity
        BY <4>3, <4>5, <4>6
      <4> QED
        BY Zenon, <4>1, <4>3, <4>4, <4>5, <4>7
    <3>2. CASE p # t
      <4>1. {c \in nodes' \ {0} : scope'[c].parent = p} = KidsOf(p)
        BY <1>1, <1>2, <3>2 DEF KidsOf, Parent
      <4>2. CASE p = n
        <5>1. KidsOf(p) = {}
          BY <1>1, <1>3, <4>2 DEF KidsOf, Parent
        <5>2. counts'[p] = 0
          BY SMTT(40), Zenon, <1>0, <1>1, <3>2, <4>2 DEF BudgetInv, CleanSlate
        <5> QED
          <6>1. ChildCapacity \in Nat
            BY BudgetAssumption
          <6> QED
            BY SMTT(40), Zenon, <4>1, <5>1, <5>2, <6>1, FS_EmptySet
      <4>3. CASE p # n
        BY <1>1, <3>2, <4>1, <4>3 DEF BudgetInv, IndexIsTheTree, KidsOf
      <4> QED
        BY <4>2, <4>3
    <3> QED
      BY <3>1, <3>2
  <2> QED
    BY <2>2, <2>3, <2>4 DEF IndexIsTheTree, Parent
<1> QED
  BY <1>5, <1>6, <1>7, <1>8, <1>10, <1>11 DEF BudgetInv

\* Drop of a scope: nothing refers to it, so no lineage of a remaining scope runs
\* through it, and its parent's index loses exactly its own entry.
LEMMA DropScopeStep ==
    ASSUME BudgetInv, NEW t \in Tokens, DropScope(t)
    PROVE  BudgetInv'
<1>1. /\ TypeOK /\ t \in nodes /\ nodes \subseteq Tokens
      /\ scope' = [scope EXCEPT ![t] = NoScope] /\ nodes' = nodes \ {t}
      /\ UNCHANGED <<next, used, data, held, res>>
      /\ counts \in [Tokens -> Nat] /\ 0 \in Tokens
      /\ scope \in [Tokens -> [kind: {"none", "Process", "Workspace", "Operation"},
                               id: Ids \cup {"none"}, parent: Tokens,
                               policy: Policies \cup {RootPolicy}]]
  <2>1. 0 \in Tokens
    BY BudgetAssumption DEF Tokens
  <2>2. TypeOK
    BY Zenon DEF BudgetInv
  <2> QED
    BY <2>1, <2>2 DEF DropScope, TypeOK
<1>2. /\ t \notin held
      /\ \A c \in nodes \ {0} : scope[c].parent # t
      /\ \A r \in Slots : res[r].kind # "none" => res[r].owner # t
  BY Zenon DEF DropScope, Droppable, Referenced, Live, Parent
<1>3. /\ \A x \in nodes : {x, scope[x].parent, scope[scope[x].parent].parent} \subseteq nodes
      /\ held \subseteq nodes /\ \A r \in Slots : res[r].kind # "none" => res[r].owner \in nodes
      /\ 0 \in nodes => scope[0].parent = 0 /\ scope[0].kind = "Process"
      /\ \A x \in nodes \ {0} :
            \/ scope[x].kind = "Workspace" /\ scope[x].parent = 0
            \/ /\ scope[x].kind = "Operation"
               /\ scope[x].parent \in nodes \ {0} /\ scope[scope[x].parent].kind = "Workspace"
  BY DEF BudgetInv, LineageIsLive, Lineage, Parent, Live, TreeShape
<1>4. \A x \in nodes' : /\ x \in nodes /\ x # t /\ scope'[x] = scope[x]
                        /\ scope[x].parent # t /\ scope[scope[x].parent].parent # t
                        /\ scope'[scope[x].parent] = scope[scope[x].parent]
  <2>1. CASE t = 0
    <3>1. nodes' = {}
      BY Zenon, <1>1, <1>2, <1>3, <2>1
    <3> QED
      BY <3>1
  <2>2. CASE t # 0
    BY <1>1, <1>2, <1>3, <2>2
  <2> QED
    BY <2>1, <2>2
<1>5. t # 0 => scope[t].parent \in nodes' /\ scope[t].parent \in Tokens
  BY <1>1, <1>2, <1>3
<1>6. TypeOK'
  <2>1. NoScope \in [kind: {"none", "Process", "Workspace", "Operation"}, id: Ids \cup {"none"},
                     parent: Tokens, policy: Policies \cup {RootPolicy}]
    BY <1>1 DEF NoScope
  <2>2. children' \subseteq children
    BY DEF DropScope, Unindex
  <2>3. counts' \in [Tokens -> Nat]
    <3>1. CASE t = 0
      BY <1>1, <3>1 DEF DropScope
    <3>2. CASE t # 0
      <4> DEFINE p == scope[t].parent
      <4>1. counts' = [counts EXCEPT ![p] = counts[p] - 1]
        BY <3>2 DEF DropScope, Unindex, Parent
      <4>2. counts[p] = Cardinality(KidsOf(p)) /\ t \in KidsOf(p)
        BY <1>1, <1>3, <3>2 DEF BudgetInv, IndexIsTheTree, KidsOf, Parent
      <4>3. IsFiniteSet(KidsOf(p)) /\ Cardinality(KidsOf(p)) \in Nat
        BY <1>1, KidsFinite
      <4>4. Cardinality(KidsOf(p)) # 0
        BY ZenonT(40), <4>2, <4>3, FS_EmptySet
      <4> QED
        BY SMTT(40), Zenon, <1>1, <4>1, <4>2, <4>3, <4>4
    <3> QED
      BY <3>1, <3>2
  <2> QED
    BY <1>1, <2>1, <2>2, <2>3, Zenon DEF TypeOK
<1>7. LineageIsLive'
  BY <1>1, <1>2, <1>3, <1>4 DEF LineageIsLive, Live, Lineage, Parent
<1>8. TreeShape'
  BY SMTT(40), Zenon, <1>1, <1>3, <1>4 DEF BudgetInv, TreeShape, Parent
<1>9. CleanSlate'
  <2>1. t # 0 => scope[t].parent < next
    BY <1>3, <1>1 DEF BudgetInv, TreeShape
  <2>2. \A x \in Tokens : x >= next /\ counts'[x] # counts[x] => t # 0 /\ x = scope[t].parent
    BY <1>1, <1>5 DEF DropScope, Unindex, Parent
  <2>3. next \in Nat /\ Tokens \subseteq Nat
    BY <1>1, BudgetAssumption DEF TypeOK, Tokens
  <2> QED
    BY SMTT(40), Zenon, <1>1, <1>5, <2>1, <2>2, <2>3 DEF BudgetInv, CleanSlate
<1>10. AccountingIsExact'
  <2>1. ASSUME NEW n, NEW d, NEW classes
        PROVE  Charged(n, d, classes)' = Charged(n, d, classes)
    <3>1. \A r \in Slots : res[r].kind # "none" =>
            {res[r].owner, scope'[res[r].owner].parent, scope'[scope'[res[r].owner].parent].parent}
          = {res[r].owner, scope[res[r].owner].parent, scope[scope[res[r].owner].parent].parent}
      BY <1>1, <1>2, <1>3, <1>4, SMTT(40), Zenon
    <3>2. Counted(n, d, classes)' = Counted(n, d, classes)
      BY <1>1, <3>1, Zenon DEF Counted, CountOf, Lineage, Parent
    <3>3. Charged(n, d, classes)' = Total(Counted(n, d, classes)')
      BY DEF Charged, Total
    <3>4. Charged(n, d, classes) = Total(Counted(n, d, classes))
      BY DEF Charged
    <3> QED
      BY ZenonT(40), <3>2, <3>3, <3>4
  <2> QED
    BY <1>1, <2>1 DEF BudgetInv, AccountingIsExact
<1>11. IndexIsTheTree'
  <2>1. children = {[parent |-> scope[x].parent, kind |-> scope[x].kind,
                     id |-> scope[x].id, token |-> x] : x \in nodes \ {0}}
    BY DEF BudgetInv, IndexIsTheTree, Parent
  <2>2. \A c, o \in children :
          c.parent = o.parent /\ c.kind = o.kind /\ c.id = o.id => c.token = o.token
    BY DEF BudgetInv, IndexIsTheTree
  <2>3. children' = {[parent |-> scope'[x].parent, kind |-> scope'[x].kind,
                      id |-> scope'[x].id, token |-> x] : x \in nodes' \ {0}}
    <3>1. CASE t = 0
      BY <1>1, <1>4, <2>1, <3>1 DEF DropScope
    <3>2. CASE t # 0
      <4>1. children' = {c \in children : c.token # t}
        <5>1. children' = {c \in children : ~(c.parent = scope[t].parent /\ c.kind = scope[t].kind
                                              /\ c.id = scope[t].id)}
          BY <3>2 DEF DropScope, Unindex, Parent
        <5>2. PICK e \in children : /\ e.parent = scope[t].parent /\ e.kind = scope[t].kind
                                    /\ e.id = scope[t].id /\ e.token = t
          <6>1. [parent |-> scope[t].parent, kind |-> scope[t].kind,
                 id |-> scope[t].id, token |-> t] \in children
            BY Zenon, <1>1, <2>1, <3>2
          <6> QED
            BY Zenon, <6>1
        <5>3. \A c \in children : c.token = t => c = e
          BY <2>1, <5>2
        <5>4. \A c \in children :
                c.parent = e.parent /\ c.kind = e.kind /\ c.id = e.id => c.token = t
          BY <2>2, <5>2
        <5> QED
          BY <5>1, <5>2, <5>3, <5>4
      <4> QED
        BY <1>1, <1>4, <2>1, <4>1
    <3> QED
      BY <3>1, <3>2
  <2>4. \A c, o \in children' :
          c.parent = o.parent /\ c.kind = o.kind /\ c.id = o.id => c.token = o.token
    BY <2>2 DEF DropScope, Unindex
  <2>5. ASSUME NEW p \in nodes'
        PROVE  /\ counts'[p] = Cardinality({c \in nodes' \ {0} : scope'[c].parent = p})
               /\ counts'[p] <= ChildCapacity
    <3>1. {c \in nodes' \ {0} : scope'[c].parent = p} = KidsOf(p) \ {t}
      BY SMTT(40), Zenon, <1>1, <1>4 DEF KidsOf, Parent
    <3>2. counts[p] = Cardinality(KidsOf(p)) /\ counts[p] <= ChildCapacity /\ counts[p] \in Nat
      BY <1>1, <1>4 DEF BudgetInv, IndexIsTheTree, KidsOf
    <3>3. IsFiniteSet(KidsOf(p)) /\ Cardinality(KidsOf(p)) \in Nat
      BY <1>1, KidsFinite
    <3>4. Cardinality(KidsOf(p) \ {t}) = IF t \in KidsOf(p) THEN Cardinality(KidsOf(p)) - 1
                                         ELSE Cardinality(KidsOf(p))
      BY Zenon, <3>3, FS_RemoveElement
    <3>5. t \in KidsOf(p) <=> t # 0 /\ scope[t].parent = p
      BY <1>1 DEF KidsOf, Parent
    <3>6. counts'[p] = IF t # 0 /\ scope[t].parent = p THEN counts[p] - 1 ELSE counts[p]
      BY <1>1, <1>4 DEF DropScope, Unindex, Parent
    <3>7. ChildCapacity \in Nat
      BY BudgetAssumption
    <3>8. counts'[p] <= ChildCapacity
      BY <3>2, <3>6, <3>7
    <3> QED
      BY Zenon, <3>1, <3>2, <3>4, <3>5, <3>6, <3>8
  <2> QED
    BY <2>3, <2>4, <2>5 DEF IndexIsTheTree, Parent
<1> QED
  BY <1>6, <1>7, <1>8, <1>9, <1>10, <1>11 DEF BudgetInv

-----------------------------------------------------------------------------
(* The theorems.                                                           *)

\* A fresh process scope satisfies the invariant.
LEMMA BudgetInit == Init => BudgetInv
<1> SUFFICES ASSUME Init PROVE BudgetInv
  OBVIOUS
<1>1. 0 \in Tokens /\ Tokens \subseteq Nat /\ MaxScopes \in Nat \ {0}
  BY BudgetAssumption DEF Tokens
<1>2. TypeOK
  <2>1. NoRes \in Reservations
    BY <1>1, AmountFacts DEF NoRes, Reservations
  <2>2. scope \in [Tokens -> [kind: {"none", "Process", "Workspace", "Operation"},
                              id: Ids \cup {"none"}, parent: Tokens,
                              policy: Policies \cup {RootPolicy}]]
    BY <1>1 DEF Init, NoScope
  <2> QED
    BY <1>1, <2>1, <2>2, AmountFacts DEF Init, TypeOK
<1>3. nodes = {0} /\ scope[0].kind = "Process" /\ scope[0].parent = 0 /\ next = 1
  BY <1>1 DEF Init, NoScope
<1>4. AccountingIsExact
  <2> SUFFICES ASSUME NEW n \in nodes, NEW d \in Dims, NEW classes
               PROVE  used[n][d] = 0 /\ data[n][d] = 0 /\ Charged(n, d, classes) = 0
    BY DEF AccountingIsExact
  <2>1. used[n][d] = 0 /\ data[n][d] = 0
    BY <1>1, <1>3 DEF Init, Zero
  <2>2. \A r \in Slots : Counted(n, d, classes)[r] = 0
    BY DEF Init, Counted, CountOf, NoRes
  <2> QED
    BY <2>1, <2>2, TotalNothing DEF Charged
<1>5. LineageIsLive /\ TreeShape
  <2>1. held = {0} /\ \A r \in Slots : res[r].kind = "none"
    BY DEF Init, NoRes
  <2>2. Lineage(0) = {0}
    BY <1>3 DEF Lineage, Parent
  <2> QED
    BY <1>3, <2>1, <2>2 DEF LineageIsLive, TreeShape, Live, Parent
<1>6. IndexIsTheTree
  <2>1. Cardinality({c \in nodes \ {0} : Parent(c) = 0}) = 0
    BY <1>3, FS_EmptySet
  <2>2. 0 <= ChildCapacity
    BY BudgetAssumption
  <2> QED
    BY <1>1, <1>3, <2>1, <2>2 DEF Init, IndexIsTheTree
<1>7. CleanSlate
  BY DEF Init, CleanSlate
<1> QED
  BY <1>2, <1>4, <1>5, <1>6, <1>7 DEF BudgetInv

\* Every critical section of the ledger keeps the invariant.
LEMMA BudgetNext == BudgetInv /\ [Next]_vars => BudgetInv'
<1> SUFFICES ASSUME BudgetInv, [Next]_vars PROVE BudgetInv'
  OBVIOUS
<1>1. CASE UNCHANGED vars
  BY <1>1, HandleStep
<1>2. ASSUME NEW t \in Tokens,
             \/ \E id \in Ids, policy \in Policies : Child(t, id, policy)
             \/ DropHandle(t) \/ DropScope(t)
             \/ \E r \in Slots : Bookkeeping(t, r)
             \/ \E r \in Slots, class \in {"Data", "Control"}, a \in Demands :
                   TryReserve(t, r, class, a)
      PROVE  BudgetInv'
  BY <1>2, ChildStep, HandleStep, DropScopeStep, ReserveStep DEF Both
<1>3. ASSUME NEW r \in Slots, CloneOwner(r) \/ IntoNative(r) \/ Charge(r) \/ Share(r) \/ Drop(r)
      PROVE  BudgetInv'
  BY <1>3, HandleStep, OwnershipStep
<1>4. ASSUME NEW r \in Slots, NEW a \in Demands,
             \/ TryGrow(r, a) \/ Shrink(r, a) \/ GrowInfallible(r, a)
             \/ \E into \in Slots : Split(r, into, a)
      PROVE  BudgetInv'
  <2>1. a \in Amounts
    BY BudgetAssumption
  <2> QED
    BY <1>4, <2>1, GrowStep, ShrinkStep, SplitStep
<1> QED
  BY <1>1, <1>2, <1>3, <1>4 DEF Next

\* Each live node counts exactly the reservations its subtree still owns, for
\* any number of scopes, reservations, dimensions and threads dropping them.
THEOREM BudgetIsExact == Spec => []LedgersAreExact
<1>1. BudgetInv => LedgersAreExact
  BY DEF BudgetInv, LedgersAreExact
<1> QED
  BY <1>1, BudgetInit, BudgetNext, PTL DEF Spec

\* The lineage of every handle and reservation is in the ledger, and the index
\* of each scope is the set of its live children, within its capacity.
THEOREM BudgetTreeIsLive == Spec => []TreeIsLive
<1>1. BudgetInv => TreeIsLive
  BY ZenonT(40) DEF BudgetInv, TreeIsLive
<1> QED
  BY <1>1, BudgetInit, BudgetNext, PTL DEF Spec

\* A charge that was admitted leaves every node of its lineage within its limit,
\* and data work out of its control reserve.
LEMMA FitsBounds ==
    ASSUME TypeOK, NEW t, NEW class \in Both, NEW a \in Amounts,
           Fits(t, class, a), Add(t, class, a),
           NEW n \in Tokens, NEW d \in Dims
    PROVE  /\ used'[n][d] > used[n][d] => used'[n][d] <= scope[n].policy.limits[d]
           /\ data'[n][d] > data[n][d] =>
                 data'[n][d] <= scope[n].policy.limits[d] - scope[n].policy.reserve[d]
<1>1. used[n] \in Amounts /\ data[n] \in Amounts
  BY Zenon DEF TypeOK
<1>2. used[n][d] \in Nat /\ data[n][d] \in Nat /\ a[d] \in Nat
  BY <1>1, SMTT(40), Zenon DEF Amounts
<1>3. CASE n \in Lineage(t)
  <2>1. /\ used'[n][d] = used[n][d] + a[d]
        /\ data'[n][d] = IF class = "Data" THEN data[n][d] + a[d] ELSE data[n][d]
    BY ZenonT(40), <1>3 DEF Add, Plus
  <2>2. /\ used[n][d] + a[d] <= scope[n].policy.limits[d]
        /\ class = "Data" => data[n][d] + a[d] <= scope[n].policy.limits[d] - scope[n].policy.reserve[d]
    BY <1>3 DEF Fits, Within, Plus, Minus
  <2>3. used'[n][d] <= scope[n].policy.limits[d]
    BY <2>1, <2>2, Zenon
  <2>4. CASE class = "Data"
    <3>1. data'[n][d] <= scope[n].policy.limits[d] - scope[n].policy.reserve[d]
      BY <2>1, <2>2, <2>4, Zenon
    <3> QED
      BY <2>3, <3>1, Zenon
  <2>5. CASE class # "Data"
    <3>1. data'[n][d] = data[n][d]
      BY <2>1, <2>5, Zenon
    <3>2. ~(data'[n][d] > data[n][d])
      <4>1. \A k \in Nat : ~(k > k)
        OBVIOUS
      <4> QED
        BY <1>2, <3>1, <4>1, Zenon
    <3> QED
      BY <2>3, <3>2, Zenon
  <2> QED
    BY <2>4, <2>5, Zenon
<1>4. CASE n \notin Lineage(t)
  BY <1>2, <1>4 DEF Add
<1> QED
  BY <1>3, <1>4

\* Giving back never raises what a node counts.
LEMMA SubtractLowers ==
    ASSUME TypeOK, NEW t, NEW class, NEW a \in Amounts, Subtract(t, class, a),
           NEW n \in Tokens, NEW d \in Dims
    PROVE  ~(used'[n][d] > used[n][d]) /\ ~(data'[n][d] > data[n][d])
<1>1. used[n] \in Amounts /\ data[n] \in Amounts
  BY DEF TypeOK
<1>2. used[n][d] \in Nat /\ data[n][d] \in Nat /\ a[d] \in Nat
  BY <1>1 DEF Amounts
<1>3. /\ used'[n][d] = used[n][d] \/ used'[n][d] = used[n][d] - a[d]
      /\ data'[n][d] = data[n][d] \/ data'[n][d] = data[n][d] - a[d]
  BY DEF Subtract, Minus
<1> QED
  BY <1>2, <1>3

\* Only an infallible growth takes any node of the tree past its limit, or data
\* work into the control reserve of an ancestor, for every tree of policies.
THEOREM BudgetLimitsHold == Spec => LimitsHoldAtEveryLevel
<1> DEFINE Bounded(n, d) ==
             /\ used'[n][d] > used[n][d] => used'[n][d] <= scope[n].policy.limits[d]
             /\ data'[n][d] > data[n][d] =>
                   data'[n][d] <= scope[n].policy.limits[d] - scope[n].policy.reserve[d]
           Infallible == \E r \in Slots, a \in Demands : GrowInfallible(r, a)
<1>1. ASSUME BudgetInv, [Next]_vars
      PROVE  [\A n \in nodes, d \in Dims :
                LET limit == scope[n].policy.limits[d]
                    room  == limit - scope[n].policy.reserve[d]
                IN  \/ /\ used'[n][d] > used[n][d] => used'[n][d] <= limit
                       /\ data'[n][d] > data[n][d] => data'[n][d] <= room
                    \/ \E r \in Slots, a \in Demands : GrowInfallible(r, a)]_vars
  <2> SUFFICES ASSUME Next, ~Infallible, NEW n \in nodes, NEW d \in Dims
               PROVE  Bounded(n, d)
    BY <1>1
  <2>1. TypeOK /\ n \in Tokens /\ Demands \subseteq Amounts
    BY <1>1, BudgetAssumption DEF BudgetInv, TypeOK
  <2>2. used[n][d] \in Nat /\ data[n][d] \in Nat
    BY <2>1 DEF TypeOK, Amounts
  <2>3. \A r \in Slots : /\ res[r].amounts \in Amounts /\ res[r].class \in Both
    BY <2>1 DEF TypeOK, Reservations, Both
  <2>4. CASE UNCHANGED <<used, data>>
    BY SMTT(40), Zenon, <2>2, <2>4
  <2>5. ASSUME NEW t \in Tokens,
               \/ \E id \in Ids, policy \in Policies : Child(t, id, policy)
               \/ DropHandle(t) \/ DropScope(t)
        PROVE  UNCHANGED <<used, data>>
    BY <2>5, SMTT(40), Zenon DEF Child, DropHandle, DropScope
  <2>6. ASSUME NEW t \in Tokens, NEW r \in Slots, Bookkeeping(t, r)
        PROVE  Bounded(n, d)
    <3>1. "Data" \in Both /\ Memory(BookBytes) \in Amounts
      BY AmountFacts, SMTT(40), Zenon DEF Both
    <3> QED
      BY Zenon, <2>1, <2>6, <3>1, FitsBounds DEF Bookkeeping
  <2>7. ASSUME NEW t \in Tokens, NEW r \in Slots, NEW class \in Both, NEW a \in Demands,
               TryReserve(t, r, class, a)
        PROVE  Bounded(n, d)
    BY Zenon, <2>1, <2>7, FitsBounds DEF TryReserve
  <2>8. ASSUME NEW r \in Slots, NEW a \in Demands, TryGrow(r, a)
        PROVE  Bounded(n, d)
    BY Zenon, <2>1, <2>3, <2>8, FitsBounds DEF TryGrow
  <2>9. ASSUME NEW r \in Slots, NEW a \in Demands, Shrink(r, a)
        PROVE  Bounded(n, d)
    BY ZenonT(40), <2>1, <2>9, SubtractLowers DEF Shrink
  <2>10. ASSUME NEW r \in Slots, IntoNative(r) \/ Drop(r)
         PROVE  Bounded(n, d)
    <3>1. \/ UNCHANGED <<used, data>>
          \/ Subtract(res[r].owner, res[r].class, res[r].amounts)
      BY <2>10 DEF IntoNative, Drop
    <3> QED
      BY <2>1, <2>3, <2>4, <3>1, SubtractLowers
  <2>11. ASSUME NEW r \in Slots,
                \/ CloneOwner(r) \/ Charge(r) \/ Share(r)
                \/ \E into \in Slots, a \in Demands : Split(r, into, a)
         PROVE  UNCHANGED <<used, data>>
    BY <2>11 DEF CloneOwner, Charge, Share, Split
  <2> HIDE DEF Bounded
  <2> QED
    BY Zenon, <2>4, <2>5, <2>6, <2>7, <2>8, <2>9, <2>10, <2>11 DEF Next, Both
<1> QED
  BY <1>1, BudgetInit, BudgetNext, PTL DEF Spec, LimitsHoldAtEveryLevel
=============================================================================
