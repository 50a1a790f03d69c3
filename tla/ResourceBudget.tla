--------------------------- MODULE ResourceBudget ---------------------------
(***************************************************************************)
(* Hierarchical admission and lifetime accounting (resource_budget.rs): a  *)
(* process scope, its workspaces and their operations, the ledger the      *)
(* whole tree shares under one mutex, and the reservations, charged values *)
(* and native memory accounts that keep capacity admitted until their last *)
(* owner drops them, on whatever thread that happens.                      *)
(*                                                                         *)
(* One action is one critical section of the ledger mutex. Dropping the    *)
(* last handle of a scope and removing its node are two steps: a strong    *)
(* count reaches zero before Drop locks the ledger. Peaks and observations *)
(* are left out; the eight dimensions are the set Dims.                    *)
(***************************************************************************)
EXTENDS Naturals, FiniteSets

CONSTANTS Dims,          \* resource dimensions; "memory" is one of them
          Ids,           \* owner identities a caller may ask for
          Policies,      \* policies a caller may ask for: [limits, reserve]
          RootPolicy,    \* the process policy
          ChildCapacity, \* child_scope_capacity of a scope
          BookBytes,     \* memory a workspace pre-admits for its index
          Demands,       \* amounts a caller may ask for
          MaxNative,     \* bound on the bytes of a native account
          MaxScopes,     \* bound on scopes ever created below the process
          Slots          \* reservations that may exist at a time

Tokens == 0..MaxScopes

Amounts == [Dims -> Nat]
Within(a, b) == \A d \in Dims : a[d] <= b[d]
Plus(a, b) == [d \in Dims |-> a[d] + b[d]]
Minus(a, b) == [d \in Dims |-> a[d] - b[d]]
Zero == [d \in Dims |-> 0]
Memory(n) == [d \in Dims |-> IF d = "memory" THEN n ELSE 0]
MemoryOnly(a) == \A d \in Dims \ {"memory"} : a[d] = 0

\* ResourceBudgetPolicy::validate.
Valid(policy) ==
    \A d \in Dims : policy.limits[d] # 0 /\ policy.reserve[d] < policy.limits[d]

ASSUME BudgetAssumption ==
    /\ "memory" \in Dims /\ Zero \notin Demands /\ Demands \subseteq Amounts
    /\ RootPolicy \in [limits: Amounts, reserve: Amounts] /\ Valid(RootPolicy)
    /\ Policies \subseteq [limits: Amounts, reserve: Amounts]
    /\ ChildCapacity \in Nat \ {0} /\ BookBytes \in Nat /\ MaxNative \in Nat
    /\ MaxScopes \in Nat \ {0} /\ IsFiniteSet(Slots)

VARIABLES nodes,     \* Ledger.nodes: tokens of the live nodes
          scope,     \* what the node and the Scope of a token say
          used,      \* NodeState.used
          data,      \* NodeState.data_used
          children,  \* Ledger.children: parent, owner and token
          counts,    \* Ledger.child_counts
          next,      \* Ledger.next
          held,      \* tokens of which some caller holds a handle
          res        \* reservations and accounts

ledger == <<nodes, scope, children, counts, next>>
vars == <<nodes, scope, used, data, children, counts, next, held, res>>

NoScope == [kind |-> "none", id |-> "none", parent |-> 0, policy |-> RootPolicy]
NoRes == [kind |-> "none", owner |-> 0, class |-> "Data", amounts |-> Zero,
          shares |-> 0, of |-> 0]

Live == {r \in Slots : res[r].kind # "none"}
Parent(t) == scope[t].parent
Lineage(t) == {t, Parent(t), Parent(Parent(t))}

\* The strong references of a scope: handles, child scopes and reservations. A
\* bookkeeping reservation belongs to the process and hangs on its workspace.
Referenced(t) ==
    \/ t \in held
    \/ \E c \in nodes \ {0} : Parent(c) = t
    \/ \E r \in Live : res[r].owner = t

\* try_process.
Init ==
    /\ nodes = {0}
    /\ scope = [t \in Tokens |-> IF t = 0 THEN [NoScope EXCEPT !.kind = "Process"] ELSE NoScope]
    /\ used = [t \in Tokens |-> Zero] /\ data = [t \in Tokens |-> Zero]
    /\ children = {} /\ counts = [t \in Tokens |-> 0] /\ next = 1
    /\ held = {0}
    /\ res = [r \in Slots |-> NoRes]

-----------------------------------------------------------------------------
(* Scopes.                                                                 *)
ChildKind(t) == IF scope[t].kind = "Process" THEN "Workspace" ELSE "Operation"

\* The checks of child, in its order.
ChildAdmits(t, id, policy) ==
    /\ Valid(policy)
    /\ scope[t].kind \in {"Process", "Workspace"}
    /\ Within(policy.limits, scope[t].policy.limits)
    /\ \A c \in children : ~(c.parent = t /\ c.kind = ChildKind(t) /\ c.id = id)
    /\ counts[t] < ChildCapacity

\* child: workspace and operation, by a caller that holds the parent.
Child(t, id, policy) ==
    /\ t \in held /\ next <= MaxScopes
    /\ ChildAdmits(t, id, policy)
    /\ nodes' = nodes \cup {next}
    /\ scope' = [scope EXCEPT ![next] =
          [kind |-> ChildKind(t), id |-> id, parent |-> t, policy |-> policy]]
    /\ children' = children \cup {[parent |-> t, kind |-> ChildKind(t), id |-> id, token |-> next]}
    /\ counts' = [counts EXCEPT ![t] = @ + 1]
    /\ next' = next + 1
    /\ held' = held \cup {next}
    /\ UNCHANGED <<used, data, res>>

\* The last handle of a scope goes; a reservation gives out handles again.
DropHandle(t) ==
    /\ t \in held
    /\ held' = held \ {t}
    /\ UNCHANGED <<ledger, used, data, res>>

CloneOwner(r) ==
    /\ res[r].kind # "none" /\ res[r].owner \notin held
    /\ held' = held \cup {res[r].owner}
    /\ UNCHANGED <<ledger, used, data, res>>

Unindex(t) ==
    /\ children' = {c \in children : ~(c.parent = Parent(t) /\ c.kind = scope[t].kind /\ c.id = scope[t].id)}
    /\ counts' = [counts EXCEPT ![Parent(t)] = @ - 1]

\* Mutant: a scope goes with its last handle, whatever still refers to it.
Unowned(t) == t \notin held

Droppable(t) == ~Referenced(t)

\* Drop for Scope.
DropScope(t) ==
    /\ t \in nodes /\ Droppable(t)
    /\ nodes' = nodes \ {t}
    /\ scope' = [scope EXCEPT ![t] = NoScope]
    /\ IF t = 0 THEN UNCHANGED <<children, counts>> ELSE Unindex(t)
    /\ UNCHANGED <<next, used, data, held, res>>

-----------------------------------------------------------------------------
(* add and subtract: one transaction over the lineage.                     *)

\* Mutant: only the scope that asks is checked.
FitsItself(t, class, a) ==
    /\ Within(Plus(used[t], a), scope[t].policy.limits)
    /\ class = "Data" =>
          Within(Plus(data[t], a), Minus(scope[t].policy.limits, scope[t].policy.reserve))

Fits(t, class, a) ==
    \A n \in Lineage(t) :
        /\ Within(Plus(used[n], a), scope[n].policy.limits)
        /\ class = "Data" =>
              Within(Plus(data[n], a), Minus(scope[n].policy.limits, scope[n].policy.reserve))

Add(t, class, a) ==
    /\ used' = [n \in Tokens |-> IF n \in Lineage(t) THEN Plus(used[n], a) ELSE used[n]]
    /\ data' = [n \in Tokens |-> IF n \in Lineage(t) /\ class = "Data"
                                 THEN Plus(data[n], a) ELSE data[n]]

Subtract(t, class, a) ==
    /\ used' = [n \in Tokens |-> IF n \in Lineage(t) THEN Minus(used[n], a) ELSE used[n]]
    /\ data' = [n \in Tokens |-> IF n \in Lineage(t) /\ class = "Data"
                                 THEN Minus(data[n], a) ELSE data[n]]

-----------------------------------------------------------------------------
(* Reservations.                                                           *)
Free(r) == res[r].kind = "none"
Plain(r) == res[r].kind = "plain"

\* try_reserve.
TryReserve(t, r, class, a) ==
    /\ t \in held /\ Free(r)
    /\ Fits(t, class, a)
    /\ Add(t, class, a)
    /\ res' = [res EXCEPT ![r] = [kind |-> "plain", owner |-> t, class |-> class,
                                  amounts |-> a, shares |-> 1, of |-> 0]]
    /\ UNCHANGED <<ledger, held>>

\* reserve_scope_bookkeeping: at the process, once for the workspace
\* that keeps it.
Bookkeeping(t, r) ==
    /\ t \in held /\ Free(r)
    /\ scope[t].kind = "Workspace"
    /\ \A other \in Live : ~(res[other].kind = "book" /\ res[other].of = t)
    /\ Fits(Parent(t), "Data", Memory(BookBytes))
    /\ Add(Parent(t), "Data", Memory(BookBytes))
    /\ res' = [res EXCEPT ![r] = [kind |-> "book", owner |-> Parent(t), class |-> "Data",
                                  amounts |-> Memory(BookBytes), shares |-> 1, of |-> t]]
    /\ UNCHANGED <<ledger, held>>

\* try_grow, of a reservation and of a native account.
TryGrow(r, a) ==
    /\ res[r].kind \in {"plain", "native"}
    /\ res[r].kind = "native" => MemoryOnly(a)
    /\ Fits(res[r].owner, res[r].class, a)
    /\ Add(res[r].owner, res[r].class, a)
    /\ res' = [res EXCEPT ![r].amounts = Plus(@, a)]
    /\ UNCHANGED <<ledger, held>>

\* shrink, of a reservation and of a native account; releasing more than is
\* owned is refused (the pool never asks it of an account).
Shrink(r, a) ==
    /\ res[r].kind \in {"plain", "native"}
    /\ Within(a, res[r].amounts)
    /\ Subtract(res[r].owner, res[r].class, a)
    /\ res' = [res EXCEPT ![r].amounts = Minus(@, a)]
    /\ UNCHANGED <<ledger, held>>

\* Mutant: a split leaves the full amount with the reservation it came from.
SplitCopies(r, into, a) ==
    res' = [res EXCEPT ![into] = [res[r] EXCEPT !.amounts = a]]

SplitInto(r, into, a) ==
    res' = [res EXCEPT ![r].amounts = Minus(@, a), ![into] = [res[r] EXCEPT !.amounts = a]]

Split(r, into, a) ==
    /\ Plain(r) /\ Free(into)
    /\ Within(a, res[r].amounts)
    /\ SplitInto(r, into, a)
    /\ UNCHANGED <<ledger, used, data, held>>

\* into_native_memory_account: the account takes the bytes over; a reservation
\* of anything else is consumed by the refusal.
IntoNative(r) ==
    /\ Plain(r)
    /\ IF MemoryOnly(res[r].amounts)
       THEN /\ res' = [res EXCEPT ![r].kind = "native"]
            /\ UNCHANGED <<used, data>>
       ELSE /\ Subtract(res[r].owner, res[r].class, res[r].amounts)
            /\ res' = [res EXCEPT ![r] = NoRes]
    /\ UNCHANGED <<ledger, held>>

\* grow_infallible: no limit is compared.
GrowInfallible(r, a) ==
    /\ res[r].kind = "native" /\ MemoryOnly(a)
    /\ res[r].amounts["memory"] + a["memory"] <= MaxNative
    /\ Add(res[r].owner, res[r].class, a)
    /\ res' = [res EXCEPT ![r].amounts = Plus(@, a)]
    /\ UNCHANGED <<ledger, held>>

\* into_charged_value, into_charged_vec and slice: the backing is shared.
Charge(r) ==
    /\ Plain(r)
    /\ res' = [res EXCEPT ![r].kind = "charged"]
    /\ UNCHANGED <<ledger, used, data, held>>

Share(r) ==
    /\ res[r].kind = "charged" /\ res[r].shares = 1
    /\ res' = [res EXCEPT ![r].shares = 2]
    /\ UNCHANGED <<ledger, used, data, held>>

\* The drop that releases: the last owner's.
LastOwner(r) == res[r].shares = 1

\* Drop for ResourceReservation and NativeMemoryAccount; a bookkeeping
\* reservation goes with the fields of its scope, after the node.
Drop(r) ==
    /\ res[r].kind # "none"
    /\ res[r].kind = "book" => res[r].of \notin nodes
    /\ IF LastOwner(r)
       THEN /\ Subtract(res[r].owner, res[r].class, res[r].amounts)
            /\ res' = [res EXCEPT ![r] = IF @.kind = "charged" /\ @.shares = 2
                                         THEN [@ EXCEPT !.shares = 1] ELSE NoRes]
       ELSE /\ res' = [res EXCEPT ![r].shares = 1]
            /\ UNCHANGED <<used, data>>
    /\ UNCHANGED <<ledger, held>>

Next ==
    \/ \E t \in Tokens :
          \/ \E id \in Ids, policy \in Policies : Child(t, id, policy)
          \/ DropHandle(t) \/ DropScope(t)
          \/ \E r \in Slots : Bookkeeping(t, r)
          \/ \E r \in Slots, class \in {"Data", "Control"}, a \in Demands :
                TryReserve(t, r, class, a)
    \/ \E r \in Slots :
          \/ CloneOwner(r) \/ IntoNative(r) \/ Charge(r) \/ Share(r) \/ Drop(r)
          \/ \E a \in Demands : TryGrow(r, a) \/ Shrink(r, a)
          \/ \E a \in Demands : GrowInfallible(r, a)
          \/ \E into \in Slots, a \in Demands : Split(r, into, a)

Spec == Init /\ [][Next]_vars

-----------------------------------------------------------------------------
(* Properties.                                                             *)

Reservations ==
    [kind: {"none", "plain", "native", "charged", "book"}, owner: Tokens,
     class: {"Data", "Control"}, amounts: Amounts, shares: 0..2, of: Tokens]

\* The shape of the ledger and of the reservations.
TypeOK ==
    /\ nodes \subseteq Tokens /\ held \subseteq Tokens /\ next \in 1..MaxScopes + 1
    /\ scope \in [Tokens -> [kind: {"none", "Process", "Workspace", "Operation"},
                             id: Ids \cup {"none"}, parent: Tokens,
                             policy: Policies \cup {RootPolicy}]]
    /\ used \in [Tokens -> Amounts] /\ data \in [Tokens -> Amounts]
    /\ children \subseteq [parent: Tokens, kind: {"Workspace", "Operation"}, id: Ids, token: Tokens]
    /\ counts \in [Tokens -> Nat]
    /\ res \in [Slots -> Reservations]

\* The sum of f over the slots, as the number of units f counts out.
Total(f) == Cardinality(UNION {{r} \X (1..f[r]) : r \in Slots})

\* What a reservation counts for in a dimension of a node.
CountOf(rec, n, d, classes) ==
    IF rec.kind # "none" /\ n \in Lineage(rec.owner) /\ rec.class \in classes
    THEN rec.amounts[d] ELSE 0

\* What a node counts for a dimension: every reservation of its subtree.
Counted(n, d, classes) == [r \in Slots |-> CountOf(res[r], n, d, classes)]
Charged(n, d, classes) == Total(Counted(n, d, classes))

\* Whatever was grown, shrunk, split, shared, converted and dropped, on any
\* thread, each live node counts exactly the reservations that its subtree
\* still owns: nothing leaks and nothing is given back twice.
AccountingIsExact ==
    \A n \in nodes, d \in Dims :
        /\ used[n][d] = Charged(n, d, {"Data", "Control"})
        /\ data[n][d] = Charged(n, d, {"Data"})

\* add and subtract unwrap every node of the lineage ("live scope retains
\* lineage", :598 and :618): a handle, a reservation and a child scope find
\* all their ancestors in the ledger.
LineageIsLive ==
    /\ held \subseteq nodes
    /\ \A r \in Live : res[r].owner \in nodes
    /\ \A t \in nodes : Lineage(t) \subseteq nodes

\* The index is the tree: one entry for each live child, no two of one parent
\* with the same identity, and counts that stay within the capacity although
\* scopes are removed by whichever thread drops them last.
IndexIsTheTree ==
    /\ children = {[parent |-> Parent(t), kind |-> scope[t].kind, id |-> scope[t].id, token |-> t] :
                   t \in nodes \ {0}}
    /\ \A c, o \in children :
          c.parent = o.parent /\ c.kind = o.kind /\ c.id = o.id => c.token = o.token
    /\ \A t \in nodes :
          /\ counts[t] = Cardinality({c \in nodes \ {0} : Parent(c) = t})
          /\ counts[t] <= ChildCapacity

\* Only an infallible growth may take a node past its limit, or data work into
\* the control reserve of any ancestor.
LimitsHoldAtEveryLevel ==
    [][\A n \in nodes, d \in Dims :
          LET limit == scope[n].policy.limits[d]
              room  == limit - scope[n].policy.reserve[d]
          IN  \/ /\ used'[n][d] > used[n][d] => used'[n][d] <= limit
                 /\ data'[n][d] > data[n][d] => data'[n][d] <= room
              \/ \E r \in Slots, a \in Demands : GrowInfallible(r, a)]_vars

\* The ledgers hold typed amounts that are the exact sums of what is charged.
LedgersAreExact == TypeOK /\ AccountingIsExact

\* The budgets in use form a live tree, and the index is that tree.
TreeIsLive == LineageIsLive /\ IndexIsTheTree
=============================================================================
