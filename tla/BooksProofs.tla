---------------------------- MODULE BooksProofs ----------------------------
(***************************************************************************)
(* The books add up: for every number of requests, users and items, the      *)
(* credit of a user is what the user paid in minus what was bought, the      *)
(* stock of an item is what it was minus what was sold, and an edit that     *)
(* nobody else overwrites stays.  All three hold of requests that do not     *)
(* overlap; the runs LostUpdate and Isolated of MCTransactions show the      *)
(* difference on small instances.                                            *)
(***************************************************************************)
EXTENDS TransactionsProofs, FiniteSetTheorems

-----------------------------------------------------------------------------
(* Facts about MapThenSumSet, with which Transactions adds up what was paid  *)
(* and what was sold.  The sum is a function defined by recursion over the   *)
(* subsets of a finite set; the induction is an argument about a smallest    *)
(* subset for which a claim fails (WFMin), since a theorem with an operator  *)
(* parameter cannot be used here.  For the same reason the facts are about   *)
(* sums of the values of a function.                                         *)

(* The element a sum takes next.                                             *)
Pick(s) == CHOOSE x \in s : TRUE

(* The equation of the recursive function by which MapThenSumSet adds f[x]   *)
(* for all x in a subset of S.                                               *)
Adds(g, f, S) ==
    g = [s \in SUBSET S |->
           IF s = {} THEN 0 ELSE f[Pick(s)] + g[s \ {Pick(s)}]]

(* The sum of f[x] for all x in S.                                           *)
Total(f, S) == MapThenSumSet(LAMBDA x : f[x], S)

-----------------------------------------------------------------------------
(* A non-empty set of subsets of a finite set has a smallest member.         *)
LEMMA SmallestSubset ==
  ASSUME NEW S, IsFiniteSet(S), NEW C, C \subseteq SUBSET S, C # {}
  PROVE  \E T \in C : \A U \in SUBSET T : U # T => U \notin C
  <1>1. IsWellFoundedOn(StrictSubsetOrdering(S), SUBSET S)
    BY FS_FiniteSubsetsOfFinite, FS_StrictSubsetOrderingWellFounded
  <1>2. PICK T \in C : \A U \in C : <<U, T>> \notin StrictSubsetOrdering(S)
    BY <1>1, WFMin
  <1>3. ASSUME NEW U \in SUBSET T, U # T, U \in C PROVE FALSE
    <2>1. U \in SUBSET S /\ T \in SUBSET S
      BY <1>3
    <2>2. <<U, T>> \in StrictSubsetOrdering(S)
      BY <1>3, <2>1 DEF StrictSubsetOrdering
    <2>. QED  BY <1>2, <1>3, <2>2
  <1>. QED  BY <1>3

LEMMA PickIsMember ==
  ASSUME NEW s, s # {}
  PROVE  Pick(s) \in s
  BY DEF Pick

(* Two solutions of the equation agree where both are defined.               *)
LEMMA AddsUnique ==
  ASSUME NEW S, IsFiniteSet(S), NEW T, S \subseteq T, NEW f, NEW h,
         \A x \in S : f[x] = h[x],
         NEW g, Adds(g, f, S), NEW k, Adds(k, h, T)
  PROVE  \A s \in SUBSET S : g[s] = k[s]
  <1>. DEFINE C == {s \in SUBSET S : g[s] # k[s]}
  <1>. SUFFICES ASSUME C # {} PROVE FALSE
    OBVIOUS
  <1>1. PICK s \in C : \A U \in SUBSET s : U # s => U \notin C
    <2>. HIDE DEF C
    <2>1. C \subseteq SUBSET S
      BY DEF C
    <2>. QED  BY <2>1, SmallestSubset
  <1>2. s \in SUBSET S /\ s \in SUBSET T
    OBVIOUS
  <1>3. g[s] = IF s = {} THEN 0 ELSE f[Pick(s)] + g[s \ {Pick(s)}]
    BY <1>2 DEF Adds
  <1>4. k[s] = IF s = {} THEN 0 ELSE h[Pick(s)] + k[s \ {Pick(s)}]
    BY <1>2 DEF Adds
  <1>5. s # {}
    BY <1>3, <1>4
  <1>6. Pick(s) \in s
    BY <1>5, PickIsMember
  <1>7. g[s \ {Pick(s)}] = k[s \ {Pick(s)}]
    BY <1>1, <1>2, <1>6
  <1>. QED  BY <1>2, <1>3, <1>4, <1>5, <1>6, <1>7

(* The equation has a solution.                                              *)
LEMMA AddsExists ==
  ASSUME NEW S, IsFiniteSet(S), NEW f
  PROVE  \E g : Adds(g, f, S)
  <1>. DEFINE C == {s \in SUBSET S : ~ \E g : Adds(g, f, s)}
  <1>. SUFFICES ASSUME C # {} PROVE FALSE
    BY DEF C
  <1>1. PICK T \in C : \A U \in SUBSET T : U # T => U \notin C
    <2>. HIDE DEF C
    <2>1. C \subseteq SUBSET S
      BY DEF C
    <2>. QED  BY <2>1, SmallestSubset
  <1>2. T \in SUBSET S /\ IsFiniteSet(T) /\ ~ \E g : Adds(g, f, T)
    BY FS_Subset
  <1>. DEFINE Sol(s) == CHOOSE g : Adds(g, f, s)
              G == [s \in SUBSET T |->
                      IF s = {} THEN 0
                      ELSE f[Pick(s)] + Sol(s \ {Pick(s)})[s \ {Pick(s)}]]
  <1>3. ASSUME NEW s \in SUBSET T, s # T PROVE Adds(Sol(s), f, s)
    <2>1. \E g : Adds(g, f, s)
      BY <1>1, <1>2, <1>3
    <2>. HIDE DEF Adds
    <2>. QED  BY <2>1
  <1>4. ASSUME NEW s \in SUBSET T, s # T PROVE G[s] = Sol(s)[s]
    <2>1. Sol(s)[s] = IF s = {} THEN 0 ELSE f[Pick(s)] + Sol(s)[s \ {Pick(s)}]
      <3>1. Adds(Sol(s), f, s) 
        BY <1>3, <1>4
      <3>2. s \in SUBSET s
        OBVIOUS
      <3>. HIDE DEF Sol
      <3>. QED  BY <3>1, <3>2 DEF Adds
    <2>2. CASE s = {}
      BY <2>1, <2>2
    <2>3. CASE s # {}
      <3>1. Pick(s) \in s
        BY <2>3, PickIsMember
      <3>. DEFINE p == s \ {Pick(s)}
      <3>2. p \in SUBSET T /\ p # T /\ p \subseteq s /\ IsFiniteSet(p)
        BY <1>2, <1>4, <3>1, FS_Subset
      <3>3. Adds(Sol(p), f, p) /\ Adds(Sol(s), f, s)
        BY <1>3, <1>4, <3>2
      <3>4. Sol(p)[p] = Sol(s)[p]
        <4>. HIDE DEF Sol, p
        <4>1. \A t \in SUBSET p : Sol(p)[t] = Sol(s)[t]
          BY <3>2, <3>3, AddsUnique
        <4>. QED  BY <4>1
      <3>5. G[s] = f[Pick(s)] + Sol(p)[p]
        BY <2>3
      <3>. QED  BY <2>1, <2>3, <3>4, <3>5
    <2>. QED  BY <2>2, <2>3
  <1>5. Adds(G, f, T)
    <2>1. ASSUME NEW s \in SUBSET T
          PROVE  G[s] = IF s = {} THEN 0 ELSE f[Pick(s)] + G[s \ {Pick(s)}]
      <3>1. CASE s = {}
        BY <3>1
      <3>2. CASE s # {}
        <4>1. Pick(s) \in s
          BY <3>2, PickIsMember
        <4>. DEFINE p == s \ {Pick(s)}
        <4>2. p \in SUBSET T /\ p # T
          BY <4>1
        <4>3. G[p] = Sol(p)[p]
          BY <4>2, <1>4
        <4>4. G[s] = f[Pick(s)] + Sol(p)[p]
          BY <3>2
        <4>. QED  BY <3>2, <4>3, <4>4
      <3>. QED  BY <3>1, <3>2
    <2>2. G = [s \in SUBSET T |-> G[s]]
      OBVIOUS
    <2>. HIDE DEF G
    <2>. QED  BY <2>1, <2>2 DEF Adds
  <1>. QED  BY <1>2, <1>5

(* A sum is the value that a solution of the equation has for the whole set. *)
LEMMA TotalIsSolution ==
  ASSUME NEW S, IsFiniteSet(S), NEW f, NEW g, Adds(g, f, S)
  PROVE  Total(f, S) = g[S]
  <1>. DEFINE c == CHOOSE k : Adds(k, f, S)
  <1>1. Adds(c, f, S)
    BY DEF Adds
  <1>2. Total(f, S) = c[S]
    BY DEF Total, MapThenSumSet, MapThenFoldSet, Adds, Pick
  <1>3. \A s \in SUBSET S : g[s] = c[s]
    <2>. HIDE DEF c
    <2>. QED  BY <1>1, AddsUnique
  <1>. QED  BY <1>2, <1>3

(* The sum over no elements.                                                 *)
LEMMA TotalOfNone ==
  ASSUME NEW f
  PROVE  Total(f, {}) = 0
  <1>1. IsFiniteSet({})
    BY FS_EmptySet
  <1>2. PICK g : Adds(g, f, {})
    BY <1>1, AddsExists
  <1>3. g[{}] = 0
    BY <1>2 DEF Adds
  <1>. QED  BY <1>1, <1>2, <1>3, TotalIsSolution

(* A sum depends on the values of its elements only.                         *)
LEMMA TotalAgrees ==
  ASSUME NEW S, IsFiniteSet(S), NEW f, NEW h, \A x \in S : f[x] = h[x]
  PROVE  Total(f, S) = Total(h, S)
  <1>1. PICK g : Adds(g, f, S)
    BY AddsExists
  <1>2. PICK k : Adds(k, h, S)
    BY AddsExists
  <1>3. g[S] = k[S]
    BY <1>1, <1>2, AddsUnique
  <1>. QED  BY <1>1, <1>2, <1>3, TotalIsSolution

(* The sums of integers are integers.                                        *)
LEMMA SolutionIsInt ==
  ASSUME NEW S, IsFiniteSet(S), NEW f, \A x \in S : f[x] \in Int,
         NEW g, Adds(g, f, S)
  PROVE  \A s \in SUBSET S : g[s] \in Int
  <1>. DEFINE C == {s \in SUBSET S : g[s] \notin Int}
  <1>. SUFFICES ASSUME C # {} PROVE FALSE
    OBVIOUS
  <1>1. PICK s \in C : \A U \in SUBSET s : U # s => U \notin C
    <2>. HIDE DEF C
    <2>1. C \subseteq SUBSET S
      BY DEF C
    <2>. QED  BY <2>1, SmallestSubset
  <1>2. g[s] = IF s = {} THEN 0 ELSE f[Pick(s)] + g[s \ {Pick(s)}]
    BY DEF Adds
  <1>3. Pick(s) \in s
    BY <1>2, PickIsMember
  <1>4. g[s \ {Pick(s)}] \in Int
    BY <1>1, <1>3
  <1>. QED  BY <1>2, <1>3, <1>4

(* Any element may be the first to be added: + is associative and            *)
(* commutative.                                                              *)
LEMMA AnyFirst ==
  ASSUME NEW S, IsFiniteSet(S), NEW f, \A x \in S : f[x] \in Int,
         NEW g, Adds(g, f, S)
  PROVE  \A s \in SUBSET S : \A x \in s : g[s] = f[x] + g[s \ {x}]
  <1>. DEFINE C == {s \in SUBSET S : ~ \A x \in s : g[s] = f[x] + g[s \ {x}]}
  <1>. SUFFICES ASSUME C # {} PROVE FALSE
    OBVIOUS
  <1>1. PICK s \in C : \A U \in SUBSET s : U # s => U \notin C
    <2>. HIDE DEF C
    <2>1. C \subseteq SUBSET S
      BY DEF C
    <2>. QED  BY <2>1, SmallestSubset
  <1>2. PICK x \in s : g[s] # f[x] + g[s \ {x}]
    OBVIOUS
  <1>. DEFINE p == Pick(s)
              rest == (s \ {p}) \ {x}
  <1>3. g[s] = f[p] + g[s \ {p}]
    BY <1>2 DEF Adds
  <1>4. p \in s /\ p # x
    BY <1>2, <1>3, PickIsMember
  <1>. HIDE DEF p
  <1>5. g[s \ {p}] = f[x] + g[rest]
    <2>1. s \ {p} \in SUBSET s /\ s \ {p} # s /\ x \in s \ {p}
      BY <1>2, <1>4
    <2>. QED  BY <1>1, <2>1
  <1>6. g[s \ {x}] = f[p] + g[rest]
    <2>1. s \ {x} \in SUBSET s /\ s \ {x} # s /\ p \in s \ {x}
      BY <1>2, <1>4
    <2>2. (s \ {x}) \ {p} = rest
      OBVIOUS
    <2>. QED  BY <1>1, <2>1, <2>2
  <1>7. f[x] \in Int /\ f[p] \in Int /\ g[rest] \in Int
    BY <1>2, <1>4, SolutionIsInt
  <1>. QED  BY <1>2, <1>3, <1>5, <1>6, <1>7

LEMMA TotalIsInt ==
  ASSUME NEW S, IsFiniteSet(S), NEW f, \A x \in S : f[x] \in Int
  PROVE  Total(f, S) \in Int
  <1>1. PICK g : Adds(g, f, S)
    BY AddsExists
  <1>. QED  BY <1>1, SolutionIsInt, TotalIsSolution

(* One element more adds its value to the sum.                               *)
THEOREM TotalAddElement ==
  ASSUME NEW S, IsFiniteSet(S), NEW x, x \notin S,
         NEW f, \A y \in S \cup {x} : f[y] \in Int
  PROVE  Total(f, S \cup {x}) = Total(f, S) + f[x]
  <1>. DEFINE T == S \cup {x}
  <1>1. IsFiniteSet(T)
    BY FS_AddElement
  <1>2. PICK g : Adds(g, f, T)
    BY <1>1, AddsExists
  <1>3. PICK k : Adds(k, f, S)
    BY AddsExists
  <1>4. g[T] = f[x] + g[S]
    <2>1. T \in SUBSET T /\ x \in T /\ T \ {x} = S
      OBVIOUS
    <2>. HIDE DEF T
    <2>2. \A y \in T : f[y] \in Int
      BY DEF T
    <2>. QED  BY <1>1, <1>2, <2>1, <2>2, AnyFirst
  <1>5. g[S] = k[S]
    <2>1. S \subseteq T /\ \A y \in S : f[y] = f[y]
      OBVIOUS
    <2>. HIDE DEF T
    <2>2. \A s \in SUBSET S : k[s] = g[s]
      BY <1>2, <1>3, <2>1, AddsUnique
    <2>. QED  BY <2>2
  <1>6. Total(f, T) = g[T] /\ Total(f, S) = k[S]
    BY <1>1, <1>2, <1>3, TotalIsSolution
  <1>7. Total(f, S) \in Int /\ f[x] \in Int
    BY TotalIsInt
  <1>. QED  BY <1>4, <1>5, <1>6, <1>7

-----------------------------------------------------------------------------
(* What a request leaves behind that has taken effect.                       *)

(* A sale keeps the row of the item it sold, an updated item has a row.      *)
EffectLeft(r) ==
    /\ r \in applied /\ req[r].kind = "buy" => item[r] \in ItemRow
    /\ r \in applied /\ req[r].kind = "update" => items[req[r].item] # NoItem

(* The effects so far are finitely many, and a recorded sale is one of them. *)
EffectsCounted ==
    /\ IsFiniteSet(applied) /\ IsFiniteSet(transactions)
    /\ \A t \in transactions : t.id \in applied

EffectsInv == EffectsCounted /\ \A r \in Requests : EffectLeft(r)

-----------------------------------------------------------------------------
(* What an edit that is being committed relies on.                           *)
LEMMA EditFacts ==
  ASSUME IInv, NEW r \in Requests, EditsNow(r)
  PROVE  /\ req[r].kind \in {"update", "add"} /\ req[r].item \in Items
         /\ NewRow(r) = req[r].row /\ NewRow(r) \in ItemRow
         /\ r \notin applied
  <1>1. req[r] \in Payload /\ HandlerOK(r)
    BY DEF IInv, TypeOK
  <1>2. /\ req[r].kind \in {"update", "add"} /\ pc[r] = "write"
        /\ RowFits(NewRow(r))
    BY DEF EditsNow, WriteItem
  <1>3. req[r].item \in Items /\ req[r].row \in [name : Names, price : Int, amount : Int]
    BY <1>1, <1>2, PayloadFields
  <1>4. NewRow(r) = req[r].row
    BY <1>2 DEF NewRow
  <1>5. NewRow(r) \in ItemRow
    BY <1>2, <1>3, <1>4 DEF RowFits, Fits, ItemRow
  <1>6. r \notin applied
    BY <1>1, <1>2 DEF HandlerOK, EffectOK
  <1>. QED  BY <1>2, <1>3, <1>4, <1>5, <1>6

(* A row of table items that is there stays there: nothing deletes items.    *)
LEMMA RowsStay ==
  ASSUME IInv, [Next]_vars, NEW i \in Items, items[i] # NoItem
  PROVE  items'[i] # NoItem
  <1>0. items \in [Items -> ItemRow \cup {NoItem}] /\ req \in [Requests -> Payload]
    BY DEF IInv, TypeOK
  <1>1. CASE UNCHANGED books
    BY <1>1 DEF books
  <1>2. ASSUME NEW r \in Requests, SellsNow(r) PROVE items'[i] # NoItem
    <2>1. ItemAfterSale(r) # NoItem
      BY <1>2, SaleFacts, NoItemAssumption
    <2>. QED  BY <1>0, <1>2, <2>1 DEF SellsNow, Publish
  <1>3. ASSUME NEW r \in Requests, CreditsNow(r) PROVE items'[i] # NoItem
    BY <1>3 DEF CreditsNow, UpdateUser
  <1>4. ASSUME NEW r \in Requests, EditsNow(r) PROVE items'[i] # NoItem
    <2>1. NewRow(r) # NoItem
      BY <1>4, EditFacts, NoItemAssumption
    <2>. QED  BY <1>0, <1>4, <2>1 DEF EditsNow, WriteItem
  <1>. QED  BY <1>1, <1>2, <1>3, <1>4, HowBooksChange

(* A handler that has ended takes no step.                                   *)
LEMMA EndedIsEnded ==
  ASSUME NEW r \in Requests, Advance(r) \/ Fail(r)
  PROVE  pc[r] # "done"
  BY DEF Advance, Fail, WriteReportedFailed, GetItemById, GetUserForId, CheckSale,
     UpdateUserInSale, UpdateItemInSale, InsertAndCommit, CheckDiff, UpdateUser,
     UpdateUserOverflows, GetItemByName, WriteItem, UpdateNoItem,
     WriteItemConflicts, Reject, StatementFails, CommitFails, QueryFails,
     GetItemByNameFails

(* The copies of a request that has taken effect are what they were then.    *)
LEMMA EffectsKeepCopies ==
  ASSUME IInv, [Next]_vars, NEW q \in applied
  PROVE  item'[q] = item[q]
  <1>1. q \in Requests /\ pc[q] = "done"
    BY DEF IInv, TypeOK, HandlerOK, EffectOK
  <1>2. ASSUME NEW r \in Requests, Advance(r) \/ Fail(r) PROVE item'[q] = item[q]
    <2>1. q \in Requests \ {r}
      BY <1>1, <1>2, EndedIsEnded
    <2>2. TypeOK
      BY DEF IInv
    <2>. QED  BY <1>2, <2>1, <2>2, StepsAreLocal DEF Untouched
  <1>. QED  BY <1>2 DEF Next, Crash, Terminating, vars

(* One request takes effect, for the first time; a sale is recorded, and the *)
(* row it sold is the one the handler has.                                   *)
LEMMA EffectIsNew ==
  ASSUME IInv, NEW r \in Requests, SellsNow(r) \/ CreditsNow(r) \/ EditsNow(r)
  PROVE  /\ r \notin applied /\ applied' = applied \cup {r}
         /\ transactions' = IF req[r].kind = "buy" THEN transactions \cup {Record(r)}
                                                   ELSE transactions
         /\ UNCHANGED <<req, item>>
         /\ req[r].kind = "buy" => item[r] \in ItemRow
         /\ req[r].kind = "buy" <=> SellsNow(r)
  <1>1. CASE SellsNow(r)
    BY <1>1, SaleFacts DEF SellsNow, Publish
  <1>2. CASE CreditsNow(r)
    <2>1. HandlerOK(r)
      BY DEF IInv
    <2>. QED  BY <1>2, <2>1 DEF CreditsNow, UpdateUser, SellsNow, HandlerOK, EffectOK
  <1>3. CASE EditsNow(r)
    <2>1. /\ applied' = applied \cup {r} /\ pc[r] = "write"
          /\ UNCHANGED <<credit, transactions, req, user, item, tx>>
      BY <1>3 DEF EditsNow, WriteItem
    <2>. QED  BY <1>3, <2>1, EditFacts DEF SellsNow
  <1>. QED  BY <1>1, <1>2, <1>3

LEMMA EffectsInvKept ==
  ASSUME IInv, EffectsInv, [Next]_vars
  PROVE  EffectsInv'
  <1>0. UNCHANGED req /\ \A q \in applied : item'[q] = item[q] /\ q \in Requests
    BY RequestsKept, EffectsKeepCopies DEF IInv, TypeOK
  <1>1. EffectsCounted'
    <2>1. CASE UNCHANGED books
      BY <2>1 DEF books, EffectsInv, EffectsCounted
    <2>2. ASSUME NEW r \in Requests, SellsNow(r) \/ CreditsNow(r) \/ EditsNow(r)
          PROVE  EffectsCounted'
      <3>1. /\ applied' = applied \cup {r}
            /\ transactions' \in {transactions, transactions \cup {Record(r)}}
        BY <2>2, EffectIsNew
      <3>2. Record(r).id = r
        BY DEF Record
      <3>. HIDE DEF Record
      <3>3. IsFiniteSet(applied') /\ IsFiniteSet(transactions')
        BY <3>1, FS_AddElement DEF EffectsInv, EffectsCounted
      <3>. QED  BY <3>1, <3>2, <3>3 DEF EffectsInv, EffectsCounted
    <2>. QED  BY <2>1, <2>2, HowBooksChange
  <1>2. ASSUME NEW q \in Requests, q \in applied PROVE EffectLeft(q)'
    <2>1. EffectLeft(q) /\ req[q] \in Payload
      BY DEF EffectsInv, IInv, TypeOK
    <2>2. req[q].kind = "update" => items'[req[q].item] # NoItem
      BY <1>2, <2>1, RowsStay, PayloadFields DEF EffectLeft
    <2>. QED  BY <1>0, <1>2, <2>1, <2>2 DEF EffectLeft
  <1>3. ASSUME NEW r \in Requests, SellsNow(r) \/ CreditsNow(r) \/ EditsNow(r)
        PROVE  EffectLeft(r)'
    <2>1. UNCHANGED <<req, item>> /\ (req[r].kind = "buy" => item[r] \in ItemRow)
      BY <1>3, EffectIsNew
    <2>2. req[r].kind = "update" => items'[req[r].item] # NoItem
      <3>1. CASE EditsNow(r)
        <4>1. /\ items' = [items EXCEPT ![req[r].item] = NewRow(r)]
              /\ items \in [Items -> ItemRow \cup {NoItem}]
          BY <3>1 DEF EditsNow, WriteItem, IInv, TypeOK
        <4>. QED  BY <3>1, <4>1, EditFacts, NoItemAssumption
      <3>2. CASE ~EditsNow(r)
        BY <1>3, <3>2, EffectIsNew DEF CreditsNow, UpdateUser
      <3>. QED  BY <3>1, <3>2
    <2>. QED  BY <2>1, <2>2 DEF EffectLeft
  <1>4. ASSUME NEW q \in Requests PROVE EffectLeft(q)'
    <2>1. CASE q \in applied
      BY <1>2, <2>1
    <2>2. CASE q \notin applied /\ q \notin applied'
      BY <2>2 DEF EffectLeft
    <2>3. CASE q \notin applied /\ q \in applied'
      <3>1. PICK r \in Requests : SellsNow(r) \/ CreditsNow(r) \/ EditsNow(r)
        BY <2>3, HowBooksChange DEF books
      <3>2. q = r
        BY <2>3, <3>1, EffectIsNew
      <3>. QED  BY <1>3, <3>1, <3>2
    <2>. QED  BY <2>1, <2>2, <2>3
  <1>. QED  BY <1>1, <1>4 DEF EffectsInv

(* Whatever requests overlap, crash or fail: no sale is recorded without     *)
(* having taken effect, and an item that has been updated is there.          *)
THEOREM EffectsAreCounted == Spec => []EffectsInv
  <1>1. Init => EffectsInv
    BY FS_EmptySet DEF Init, EffectsInv, EffectsCounted, EffectLeft
  <1>. QED  BY <1>1, EffectsInvKept, IInvHolds, PTL DEF Spec

-----------------------------------------------------------------------------
(* From here on requests do not overlap: a request that takes effect does so *)
(* on copies that agree with the database.                                   *)

(* What a sale changes, on the books as they are.                            *)
LEMMA SaleOnTheBooks ==
  ASSUME IsolatedInv, NEW r \in Requests, SellsNow(r)
  PROVE  /\ items[req[r].item] \in ItemRow
         /\ items' = [items EXCEPT ![req[r].item].amount = @ - req[r].amount]
         /\ \A u \in Users : credit'[u] =
              credit[u] + IF req[r].user = u THEN CreditMoved(r) ELSE 0
         /\ CreditMoved(r) \in Int
  <1>1. TypeOK /\ Fresh(r)
    BY EffectsAreFresh DEF IsolatedInv, IInv
  <1>2. /\ req[r].kind = "buy" /\ item[r] \in ItemRow /\ FinalPrice(r) \in Int
        /\ req[r].user \in Accounts /\ req[r].item \in Items
        /\ ("user" \in tx[r]) <=> ~IsCashUser(req[r].user)
    BY SaleFacts DEF IsolatedInv
  <1>3. item[r] = items[req[r].item] /\ user[r] = credit[req[r].user]
    BY <1>1, <1>2 DEF Fresh
  <1>4. items' = [items EXCEPT ![req[r].item].amount = @ - req[r].amount]
    BY <1>1, <1>2, <1>3 DEF SellsNow, Publish, ItemAfterSale, TypeOK
  <1>5. CreditMoved(r) = -FinalPrice(r)
    BY <1>2 DEF CreditMoved
  <1>6. credit \in [Accounts -> Int]
    BY <1>1, ColumnAssumption DEF TypeOK, Column
  <1>7. ASSUME NEW u \in Users
        PROVE  credit'[u] = credit[u] + IF req[r].user = u THEN CreditMoved(r) ELSE 0
    <2>1. u \in Accounts /\ u # Cash
      BY CashAssumption DEF Accounts
    <2>2. CASE req[r].user = u
      <3>1. credit' = [credit EXCEPT ![u] = credit[u] - FinalPrice(r)]
        BY <1>2, <1>3, <2>1, <2>2 DEF SellsNow, Publish, IsCashUser, UserAfterSale
      <3>2. credit'[u] = credit[u] - FinalPrice(r) /\ credit[u] \in Int
        BY <1>6, <2>1, <3>1
      <3>. QED  BY <1>2, <1>5, <2>2, <3>2
    <2>3. CASE req[r].user # u
      BY <1>2, <1>6, <2>1, <2>3 DEF SellsNow, Publish
    <2>. QED  BY <2>2, <2>3
  <1>. QED  BY <1>2, <1>3, <1>4, <1>5, <1>7

(* The only edit of an item stays: a sale writes the whole row back, but     *)
(* with the name and the price that the edit gave it.                        *)
LEMMA EditsStickKept ==
  ASSUME IsolatedInv, EffectsInv, EditsStick, [Next]_vars
  PROVE  EditsStick'
  <1>0. IInv /\ TypeOK /\ UNCHANGED req /\ applied \subseteq Requests
    BY RequestsKept DEF IsolatedInv, IInv, TypeOK
  <1>1. CASE UNCHANGED books
    BY <1>0, <1>1 DEF books, EditsStick
  <1>2. ASSUME NEW r \in Requests, SellsNow(r) \/ CreditsNow(r) \/ EditsNow(r),
               NEW q \in applied', req[q].kind = "update",
               \A p \in Requests \ {q} :
                   req[p].kind = "update" => req[p].item # req[q].item
        PROVE  /\ items'[req[q].item].name = req[q].row.name
               /\ items'[req[q].item].price = req[q].row.price
    <2>1. applied' = applied \cup {r} /\ r \notin applied /\ q \in Requests
      BY <1>0, <1>2, EffectIsNew
    <2>2. req[q].item \in Items /\ items \in [Items -> ItemRow \cup {NoItem}]
      BY <1>0, <1>2, <2>1, PayloadFields DEF TypeOK
    <2>3. CASE q = r
      <3>1. EditsNow(r)
        BY <1>2, <2>3, SaleFacts, <1>0 DEF CreditsNow, UpdateUser
      <3>. QED  BY <1>0, <2>2, <2>3, <3>1, EditFacts DEF EditsNow, WriteItem
    <2>4. CASE q # r
      <3>1. /\ q \in applied /\ items[req[q].item] # NoItem
            /\ items[req[q].item].name = req[q].row.name
            /\ items[req[q].item].price = req[q].row.price
        BY <1>2, <2>1, <2>4 DEF EditsStick, EffectsInv, EffectLeft
      <3>2. CASE SellsNow(r)
        <4>1. /\ items[req[r].item] \in ItemRow
              /\ items' = [items EXCEPT ![req[r].item].amount = @ - req[r].amount]
          BY <3>2, SaleOnTheBooks
        <4>2. CASE req[q].item = req[r].item
          <5>1. items'[req[q].item] = [items[req[q].item] EXCEPT !.amount = @ - req[r].amount]
            BY <2>2, <4>1, <4>2
          <5>. QED  BY <3>1, <4>1, <4>2, <5>1 DEF ItemRow
        <4>3. CASE req[q].item # req[r].item
          BY <2>2, <3>1, <4>1, <4>3
        <4>. QED  BY <4>2, <4>3
      <3>3. CASE CreditsNow(r)
        BY <3>1, <3>3 DEF CreditsNow, UpdateUser
      <3>4. CASE EditsNow(r)
        <4>1. req[r].item # req[q].item
          BY <1>2, <2>4, <3>1, <3>4 DEF EditsNow, WriteItem
        <4>. QED  BY <2>2, <3>1, <3>4, <4>1 DEF EditsNow, WriteItem
      <3>. QED  BY <1>2, <3>2, <3>3, <3>4
    <2>. QED  BY <2>3, <2>4
  <1>. QED  BY <1>0, <1>1, <1>2, HowBooksChange DEF EditsStick

(* An edit of an item that no other edit overwrites is never undone by the   *)
(* sales of the item.                                                        *)
THEOREM SalesKeepEdits == IsolatedSpec => []EditsStick
  <1>1. Init => EditsStick /\ EffectsInv
    BY FS_EmptySet DEF Init, EditsStick, EffectsInv, EffectsCounted, EffectLeft
  <1>2. IsolatedInv /\ EffectsInv /\ EditsStick /\ [Next /\ NoOverlap']_vars
          => EffectsInv' /\ EditsStick'
    <2>1. IsolatedInv => IInv
      BY DEF IsolatedInv
    <2>. QED  BY <2>1, EffectsInvKept, EditsStickKept
  <1>. QED  BY <1>1, <1>2, IsolatedInvHolds, PTL DEF IsolatedSpec

-----------------------------------------------------------------------------
(* The credit of a user.                                                     *)

(* The requests that have moved credit of user u, and what each has moved.   *)
Movers(u) == {r \in applied : req[r].kind \in {"buy", "credit"} /\ req[r].user = u}

Moved == [r \in Requests |-> CreditMoved(r)]

(* The sum of CreditAddsUp is a sum of the values of a function.             *)
LEMMA CreditMovedTotal ==
  \A S \in SUBSET Requests :
      IsFiniteSet(S) => MapThenSumSet(CreditMoved, S) = Total(Moved, S)
  <1>. SUFFICES ASSUME NEW S \in SUBSET Requests, IsFiniteSet(S)
                PROVE  MapThenSumSet(CreditMoved, S) = Total(Moved, S)
    OBVIOUS
  <1>. DEFINE Eq(g) == g = [s \in SUBSET S |->
                              IF s = {} THEN 0
                              ELSE CreditMoved(Pick(s)) + g[s \ {Pick(s)}]]
              c == CHOOSE g : Eq(g)
  <1>1. ASSUME NEW g PROVE Eq(g) <=> Adds(g, Moved, S)
    <2>1. ASSUME NEW s \in SUBSET S, s # {}
          PROVE  Moved[Pick(s)] = CreditMoved(Pick(s))
      <3>1. Pick(s) \in Requests
        BY <2>1, PickIsMember
      <3>. QED  BY <3>1 DEF Moved
    <2>2. [s \in SUBSET S |->
             IF s = {} THEN 0 ELSE Moved[Pick(s)] + g[s \ {Pick(s)}]]
          = [s \in SUBSET S |->
             IF s = {} THEN 0 ELSE CreditMoved(Pick(s)) + g[s \ {Pick(s)}]]
      BY <2>1
    <2>. QED  BY <2>2 DEF Adds
  <1>2. \E g : Eq(g)
    <2>. HIDE DEF Eq
    <2>. QED  BY <1>1, AddsExists
  <1>3. Adds(c, Moved, S)
    <2>. HIDE DEF Eq
    <2>. QED  BY <1>1, <1>2
  <1>4. MapThenSumSet(CreditMoved, S) = c[S]
    BY DEF MapThenSumSet, MapThenFoldSet, Pick
  <1>. QED  BY <1>3, <1>4, TotalIsSolution

CreditInv == \A u \in Users :
    credit[u] = OpeningCredit[u] + Total(Moved, Movers(u))

(* What moves credit is an integer, and known once the request has an effect.*)
IntMoved == \A r \in applied :
    req[r].kind \in {"buy", "credit"} => CreditMoved(r) \in Int

LEMMA MovedIsInt == IInv /\ EffectsInv => IntMoved
  <1>. SUFFICES ASSUME IInv, EffectsInv,
                       NEW r \in applied, req[r].kind \in {"buy", "credit"}
                PROVE  CreditMoved(r) \in Int
    BY DEF IntMoved
  <1>1. r \in Requests /\ req[r] \in Payload /\ TypeOK
    BY DEF IInv, TypeOK
  <1>2. CASE req[r].kind = "buy"
    <2>1. item[r] \in ItemRow
      BY <1>1, <1>2 DEF EffectsInv, EffectLeft
    <2>2. FinalPrice(r) \in Int
      BY <1>1, <1>2, <2>1, SaleValues
    <2>. QED  BY <1>2, <2>2 DEF CreditMoved
  <1>3. CASE req[r].kind = "credit"
    BY <1>1, <1>3, PayloadFields DEF CreditMoved
  <1>. QED  BY <1>2, <1>3

LEMMA MovedIsIntNext == IInv' /\ EffectsInv' => IntMoved'
  BY MovedIsInt, PTL

(* A credit request moves what it says, on the books as they are.            *)
LEMMA CreditOnTheBooks ==
  ASSUME IsolatedInv, NEW r \in Requests, CreditsNow(r)
  PROVE  /\ req[r].kind = "credit" /\ CreditMoved(r) \in Int
         /\ \A u \in Users : credit'[u] =
              credit[u] + IF req[r].user = u THEN CreditMoved(r) ELSE 0
  <1>1. TypeOK /\ Fresh(r) /\ req[r] \in Payload
    BY EffectsAreFresh DEF IsolatedInv, IInv, TypeOK
  <1>2. /\ req[r].kind = "credit"
        /\ credit' = [credit EXCEPT ![req[r].user] = user[r] + req[r].diff]
    BY DEF CreditsNow, UpdateUser
  <1>3. user[r] = credit[req[r].user] /\ CreditMoved(r) = req[r].diff
    BY <1>1, <1>2 DEF Fresh, CreditMoved
  <1>4. req[r].diff \in Int /\ req[r].user \in Users
    BY <1>1, <1>2, PayloadFields
  <1>5. credit \in [Accounts -> Int] /\ Users \subseteq Accounts
    BY <1>1, ColumnAssumption DEF TypeOK, Column, Accounts
  <1>. QED  BY <1>2, <1>3, <1>4, <1>5

LEMMA CreditInvKept ==
  ASSUME IsolatedInv, IInv', EffectsInv, EffectsInv', CreditInv, [Next]_vars
  PROVE  CreditInv'
  <1>0. /\ IInv /\ TypeOK /\ UNCHANGED req /\ applied \subseteq Requests
        /\ IsFiniteSet(applied)
    BY RequestsKept DEF IsolatedInv, IInv, TypeOK, EffectsInv, EffectsCounted
  <1>. SUFFICES ASSUME NEW u \in Users
                PROVE  credit'[u] = OpeningCredit[u] + Total(Moved', Movers(u)')
    BY DEF CreditInv
  <1>1. credit[u] = OpeningCredit[u] + Total(Moved, Movers(u))
    BY DEF CreditInv
  <1>2. IsFiniteSet(Movers(u)) /\ Movers(u) \subseteq applied
    BY <1>0, FS_Subset DEF Movers
  <1>3. Total(Moved', Movers(u)) = Total(Moved, Movers(u))
    <2>1. ASSUME NEW r \in Movers(u) PROVE Moved'[r] = Moved[r]
      <3>1. r \in Requests /\ item'[r] = item[r] /\ req'[r] = req[r]
        BY <1>0, <1>2, EffectsKeepCopies
      <3>. QED  BY <3>1 DEF Moved, CreditMoved, FinalPrice
    <2>. QED  BY <1>2, <2>1, TotalAgrees
  <1>4. CASE UNCHANGED books
    <2>1. Movers(u)' = Movers(u) /\ credit' = credit
      BY <1>0, <1>4 DEF Movers, books
    <2>. QED  BY <1>1, <1>3, <2>1
  <1>5. ASSUME NEW r \in Requests, SellsNow(r) \/ CreditsNow(r) \/ EditsNow(r)
        PROVE  credit'[u] = OpeningCredit[u] + Total(Moved', Movers(u)')
    <2>1. applied' = applied \cup {r} /\ r \notin applied /\ UNCHANGED <<req, item>>
      BY <1>0, <1>5, EffectIsNew
    <2>2. CASE req[r].kind \in {"buy", "credit"} /\ req[r].user = u
      <3>1. Movers(u)' = Movers(u) \cup {r} /\ r \notin Movers(u)
        BY <2>1, <2>2 DEF Movers
      <3>2. credit'[u] = credit[u] + CreditMoved(r)
        <4>1. SellsNow(r) \/ CreditsNow(r)
          BY <1>0, <1>5, <2>2, EditFacts
        <4>. QED  BY <2>2, <4>1, SaleOnTheBooks, CreditOnTheBooks
      <3>3. Moved'[r] = CreditMoved(r)
        BY <2>1 DEF Moved, CreditMoved, FinalPrice
      <3>4. \A q \in Movers(u) \cup {r} : Moved'[q] \in Int
        <4>1. IntMoved'
          BY MovedIsIntNext
        <4>2. ASSUME NEW q \in Movers(u)' PROVE Moved'[q] \in Int
          <5>1. q \in applied' /\ req'[q].kind \in {"buy", "credit"} /\ q \in Requests
            BY <1>0, <2>1 DEF Movers
          <5>. QED  BY <4>1, <5>1 DEF Moved, IntMoved
        <4>. QED  BY <3>1, <4>2
      <3>5. Total(Moved', Movers(u)') = Total(Moved', Movers(u)) + CreditMoved(r)
        BY <1>2, <3>1, <3>3, <3>4, TotalAddElement
      <3>6. Total(Moved, Movers(u)) \in Int /\ CreditMoved(r) \in Int
        <4>1. \A q \in Movers(u) : Moved[q] \in Int
          BY <1>0, <1>2, MovedIsInt DEF Movers, Moved, IntMoved
        <4>2. Moved'[r] \in Int
          BY <3>4
        <4>. QED  BY <1>2, <3>3, <4>1, <4>2, TotalIsInt
      <3>7. OpeningCredit[u] \in Int
        BY OpeningCreditAssumption DEF Accounts
      <3>. QED  BY <1>1, <1>3, <3>2, <3>5, <3>6, <3>7
    <2>3. CASE ~(req[r].kind \in {"buy", "credit"} /\ req[r].user = u)
      <3>1. Movers(u)' = Movers(u)
        BY <2>1, <2>3 DEF Movers
      <3>2. credit'[u] = credit[u]
        <4>1. u \in Accounts
          BY DEF Accounts
        <4>. QED  BY <1>0, <1>5, <2>3, <4>1, EffectsAreOwn
      <3>. QED  BY <1>1, <1>3, <3>1, <3>2
    <2>. QED  BY <2>2, <2>3
  <1>. QED  BY <1>0, <1>4, <1>5, HowBooksChange

(* The credit of a user is what the user paid in, minus what was bought, at  *)
(* the price charged: no update of an account is lost, none is made twice,   *)
(* through any crash and any failing statement.                              *)
THEOREM CreditsAddUp == IsolatedSpec => []CreditAddsUp
  <1>1. Init => CreditInv /\ EffectsInv
    <2>1. Init => EffectsInv
      BY FS_EmptySet DEF Init, EffectsInv, EffectsCounted, EffectLeft
    <2>2. ASSUME Init, NEW u \in Users
          PROVE  credit[u] = OpeningCredit[u] + Total(Moved, Movers(u))
      <3>1. Movers(u) = {}
        BY <2>2 DEF Init, Movers
      <3>2. Total(Moved, Movers(u)) = 0
        BY <3>1, TotalOfNone
      <3>3. OpeningCredit[u] \in Int
        BY OpeningCreditAssumption DEF Accounts
      <3>. QED  BY <2>2, <3>2, <3>3 DEF Init
    <2>. QED  BY <2>1, <2>2 DEF CreditInv
  <1>2. IsolatedInv /\ EffectsInv /\ CreditInv /\ [Next /\ NoOverlap']_vars
          => EffectsInv' /\ CreditInv'
    <2>1. IsolatedInv => IInv
      BY DEF IsolatedInv
    <2>. QED  BY <2>1, NextKeepsIInv, EffectsInvKept, CreditInvKept
  <1>3. IsolatedInv /\ EffectsInv /\ CreditInv => CreditAddsUp
    <2>. SUFFICES ASSUME IsolatedInv, EffectsInv, CreditInv, NEW u \in Users
                  PROVE  credit[u] = OpeningCredit[u]
                           + MapThenSumSet(CreditMoved, {r \in applied :
                               req[r].kind \in {"buy", "credit"} /\ req[r].user = u})
      BY DEF CreditAddsUp
    <2>1. Movers(u) \in SUBSET Requests /\ IsFiniteSet(Movers(u))
      <3>1. Movers(u) \subseteq applied
        BY DEF Movers
      <3>. QED  BY <3>1, FS_Subset
        DEF IsolatedInv, IInv, TypeOK, EffectsInv, EffectsCounted
    <2>2. MapThenSumSet(CreditMoved, Movers(u)) = Total(Moved, Movers(u))
      BY <2>1, CreditMovedTotal
    <2>3. credit[u] = OpeningCredit[u] + MapThenSumSet(CreditMoved, Movers(u))
      BY <2>2 DEF CreditInv
    <2>. QED  BY <2>3 DEF Movers
  <1>. QED  BY <1>1, <1>2, <1>3, IsolatedInvHolds, PTL DEF IsolatedSpec

-----------------------------------------------------------------------------
(* The stock of an item.                                                     *)

(* The rows of table transactions, and how many items each has sold.         *)
SaleRow == [id : Requests, item : Items, user : Accounts, amount : Int]

AmountSold == [t \in SaleRow |-> t.amount]

SalesOf(i) == {t \in transactions : t.item = i}

(* The sum of StockAddsUp is a sum of the values of a function.              *)
LEMMA AmountSoldTotal ==
  ASSUME NEW S \in SUBSET SaleRow, IsFiniteSet(S)
  PROVE  MapThenSumSet(LAMBDA t : t.amount, S) = Total(AmountSold, S)
  <1>. DEFINE Eq(g) == g = [s \in SUBSET S |->
                              IF s = {} THEN 0
                              ELSE Pick(s).amount + g[s \ {Pick(s)}]]
              c == CHOOSE g : Eq(g)
  <1>1. ASSUME NEW g PROVE Eq(g) <=> Adds(g, AmountSold, S)
    <2>1. ASSUME NEW s \in SUBSET S, s # {}
          PROVE  AmountSold[Pick(s)] = Pick(s).amount
      <3>1. Pick(s) \in SaleRow
        BY <2>1, PickIsMember
      <3>. QED  BY <3>1 DEF AmountSold
    <2>2. [s \in SUBSET S |->
             IF s = {} THEN 0 ELSE AmountSold[Pick(s)] + g[s \ {Pick(s)}]]
          = [s \in SUBSET S |->
             IF s = {} THEN 0 ELSE Pick(s).amount + g[s \ {Pick(s)}]]
      BY <2>1
    <2>. QED  BY <2>2 DEF Adds
  <1>2. \E g : Eq(g)
    <2>. HIDE DEF Eq
    <2>. QED  BY <1>1, AddsExists
  <1>3. Adds(c, AmountSold, S)
    <2>. HIDE DEF Eq
    <2>. QED  BY <1>1, <1>2
  <1>4. MapThenSumSet(LAMBDA t : t.amount, S) = c[S]
    BY DEF MapThenSumSet, MapThenFoldSet, Pick
  <1>. QED  BY <1>3, <1>4, TotalIsSolution

(* An item of the opening catalogue that nobody edits.                       *)
Unedited(i) ==
    /\ \A r \in Requests : req[r].kind \in {"update", "add"} => req[r].item # i
    /\ OpeningItems[i] # NoItem

StockInv == \A i \in Items : Unedited(i) =>
    /\ items[i] # NoItem
    /\ OpeningItems[i].amount = items[i].amount + Total(AmountSold, SalesOf(i))

LEMMA SalesOfFinite ==
  IInv /\ EffectsInv =>
      \A i \in Items : SalesOf(i) \in SUBSET SaleRow /\ IsFiniteSet(SalesOf(i))
  <1>. SUFFICES ASSUME IInv, EffectsInv, NEW i \in Items
                PROVE  SalesOf(i) \in SUBSET SaleRow /\ IsFiniteSet(SalesOf(i))
    OBVIOUS
  <1>1. SalesOf(i) \subseteq transactions
    BY DEF SalesOf
  <1>. QED  BY <1>1, FS_Subset DEF IInv, TypeOK, EffectsInv, EffectsCounted, SaleRow

LEMMA StockInvKept ==
  ASSUME IsolatedInv, EffectsInv, StockInv, [Next]_vars
  PROVE  StockInv'
  <1>0. IInv /\ TypeOK /\ UNCHANGED req /\ items \in [Items -> ItemRow \cup {NoItem}]
    BY RequestsKept DEF IsolatedInv, IInv, TypeOK
  <1>. SUFFICES ASSUME NEW i \in Items, Unedited(i)
                PROVE  /\ items'[i] # NoItem
                       /\ OpeningItems[i].amount =
                            items'[i].amount + Total(AmountSold, SalesOf(i)')
    BY <1>0 DEF StockInv, Unedited, AmountSold
  <1>1. /\ items[i] # NoItem /\ items[i] \in ItemRow
        /\ OpeningItems[i].amount = items[i].amount + Total(AmountSold, SalesOf(i))
    BY <1>0 DEF StockInv
  <1>2. items'[i] # NoItem
    BY <1>0, <1>1, RowsStay
  <1>3. CASE UNCHANGED books
    BY <1>1, <1>3 DEF books, SalesOf
  <1>4. ASSUME NEW r \in Requests, SellsNow(r)
        PROVE  OpeningItems[i].amount =
                 items'[i].amount + Total(AmountSold, SalesOf(i)')
    <2>1. /\ items[req[r].item] \in ItemRow
          /\ items' = [items EXCEPT ![req[r].item].amount = @ - req[r].amount]
      BY <1>4, SaleOnTheBooks
    <2>2. /\ req[r].kind = "buy" /\ r \notin applied
          /\ req[r].user \in Accounts /\ req[r].item \in Items /\ req[r].amount \in Int
      BY <1>0, <1>4, SaleFacts
    <2>3. transactions' = transactions \cup {Record(r)}
      BY <1>4 DEF SellsNow, Publish
    <2>4. Record(r) \in SaleRow /\ Record(r) \notin transactions
          /\ Record(r).item = req[r].item /\ Record(r).amount = req[r].amount
      BY <2>2 DEF Record, SaleRow, EffectsInv, EffectsCounted
    <2>. HIDE DEF Record
    <2>5. CASE req[r].item = i
      <3>1. SalesOf(i)' = SalesOf(i) \cup {Record(r)} /\ Record(r) \notin SalesOf(i)
        BY <2>3, <2>4, <2>5 DEF SalesOf
      <3>2. SalesOf(i) \in SUBSET SaleRow /\ IsFiniteSet(SalesOf(i))
        BY <1>0, SalesOfFinite
      <3>3. \A t \in SalesOf(i) \cup {Record(r)} : AmountSold[t] \in Int
        BY <2>4, <3>2 DEF AmountSold, SaleRow
      <3>4. Total(AmountSold, SalesOf(i)')
              = Total(AmountSold, SalesOf(i)) + AmountSold[Record(r)]
        BY <3>1, <3>2, <3>3, TotalAddElement
      <3>5. AmountSold[Record(r)] = req[r].amount
        BY <2>4 DEF AmountSold
      <3>6. Total(AmountSold, SalesOf(i)) \in Int
        BY <3>2, <3>3, TotalIsInt
      <3>7. items'[i].amount = items[i].amount - req[r].amount
        <4>1. items'[i] = [items[i] EXCEPT !.amount = @ - req[r].amount]
          BY <1>0, <2>1, <2>5
        <4>. QED  BY <1>1, <4>1 DEF ItemRow
      <3>8. items[i].amount \in Int
        BY <1>1, ColumnAssumption DEF ItemRow, Column
      <3>. QED  BY <1>1, <2>2, <3>4, <3>5, <3>6, <3>7, <3>8
    <2>6. CASE req[r].item # i
      <3>1. SalesOf(i)' = SalesOf(i)
        BY <2>3, <2>4, <2>6 DEF SalesOf
      <3>2. items'[i] = items[i]
        BY <1>0, <2>1, <2>6
      <3>. QED  BY <1>1, <3>1, <3>2
    <2>. QED  BY <2>5, <2>6
  <1>5. ASSUME NEW r \in Requests, CreditsNow(r)
        PROVE  OpeningItems[i].amount =
                 items'[i].amount + Total(AmountSold, SalesOf(i)')
    BY <1>1, <1>5 DEF CreditsNow, UpdateUser, SalesOf
  <1>6. ASSUME NEW r \in Requests, EditsNow(r)
        PROVE  OpeningItems[i].amount =
                 items'[i].amount + Total(AmountSold, SalesOf(i)')
    <2>1. req[r].item # i
      BY <1>0, <1>6, EditFacts DEF Unedited
    <2>. QED  BY <1>0, <1>1, <1>6, <2>1 DEF EditsNow, WriteItem, SalesOf
  <1>. QED  BY <1>2, <1>3, <1>4, <1>5, <1>6, HowBooksChange, <1>0

(* While nobody edits an item, what is in stock and what the recorded sales  *)
(* have taken out add up to the opening stock.                               *)
THEOREM StocksAddUp == IsolatedSpec => []StockAddsUp
  <1>1. Init => StockInv /\ EffectsInv
    <2>1. Init => EffectsInv
      BY FS_EmptySet DEF Init, EffectsInv, EffectsCounted, EffectLeft
    <2>2. ASSUME Init, NEW i \in Items, Unedited(i)
          PROVE  /\ items[i] # NoItem
                 /\ OpeningItems[i].amount =
                      items[i].amount + Total(AmountSold, SalesOf(i))
      <3>1. SalesOf(i) = {}
        BY <2>2 DEF Init, SalesOf
      <3>2. Total(AmountSold, SalesOf(i)) = 0
        BY <3>1, TotalOfNone
      <3>3. OpeningItems[i].amount \in Int
        BY <2>2, OpeningItemsAssumption, ColumnAssumption DEF Unedited, ItemRow, Column
      <3>. QED  BY <2>2, <3>2, <3>3 DEF Init, Unedited
    <2>. QED  BY <2>1, <2>2 DEF StockInv
  <1>2. IsolatedInv /\ EffectsInv /\ StockInv /\ [Next /\ NoOverlap']_vars
          => EffectsInv' /\ StockInv'
    <2>1. IsolatedInv => IInv
      BY DEF IsolatedInv
    <2>. QED  BY <2>1, EffectsInvKept, StockInvKept
  <1>3. IsolatedInv /\ EffectsInv /\ StockInv => StockAddsUp
    <2>. SUFFICES ASSUME IsolatedInv, EffectsInv, StockInv,
                         NEW i \in Items, Unedited(i)
                  PROVE  OpeningItems[i].amount = items[i].amount
                           + MapThenSumSet(LAMBDA t : t.amount,
                                           {t \in transactions : t.item = i})
      BY DEF StockAddsUp, Unedited
    <2>1. SalesOf(i) \in SUBSET SaleRow /\ IsFiniteSet(SalesOf(i))
      BY SalesOfFinite DEF IsolatedInv
    <2>2. MapThenSumSet(LAMBDA t : t.amount, SalesOf(i)) = Total(AmountSold, SalesOf(i))
      BY <2>1, AmountSoldTotal
    <2>3. OpeningItems[i].amount =
            items[i].amount + MapThenSumSet(LAMBDA t : t.amount, SalesOf(i))
      BY <2>2 DEF StockInv
    <2>. QED  BY <2>3 DEF SalesOf
  <1>. QED  BY <1>1, <1>2, <1>3, IsolatedInvHolds, PTL DEF IsolatedSpec
=============================================================================
