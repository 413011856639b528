--------------------------- MODULE InventoryProofs ---------------------------
(***************************************************************************)
(* What is proved about bags and their items, for any characters, slots and *)
(* entries, however many items there are and statements are rejected.       *)
(*                                                                          *)
(* The tables are sound when no row of a bag is without its item and ids    *)
(* that are still to come are used nowhere.  Each operation of the          *)
(* repository keeps them so in whichever of its steps it stops, leaves the  *)
(* bags of others as they are and does a known thing to what its own bag    *)
(* holds.  What a bag holds is a sum over its slots, so its proof is about  *)
(* sums of functions on finite sets, and the removal by entry is a loop: of *)
(* both the recursive function is shown to exist, by counting up.           *)
(*                                                                          *)
(* That items only shrink and stay in the mail is told from the same steps  *)
(* once more: each operation continues every item, and deletes none but its *)
(* own (Continues, Spares, Wipes, Sends).                                   *)
(***************************************************************************)
EXTENDS Inventory, FiniteSetTheorems, WellFoundedInduction, TLAPS

---------------------------------------------------------------------------
\* Numbers and sums.
\* A set of numbers with 0 and with the successor of each has them all.
LEMMA CountUp ==
  ASSUME NEW T \in SUBSET Nat, 0 \in T, \A n \in T : n + 1 \in T
  PROVE  T = Nat
<1> DEFINE S == Nat \ T
           R == OpToRel(<, Nat)
<1> SUFFICES ASSUME S # {} PROVE FALSE
  OBVIOUS
<1>1. IsWellFoundedOn(R, Nat) BY NatLessThanWellFounded
<1>2. \A x, y \in Nat : <<x, y>> \in R <=> x < y BY Zenon DEF OpToRel
<1> HIDE DEF R
<1>3. PICK x \in S : \A y \in S : ~ (<<y, x>> \in R) BY <1>1, WFMin
<1>4. \A y \in S : ~ (y < x) BY <1>2, <1>3, Zenon
<1>5. x \in Nat /\ x # 0 /\ x \notin T OBVIOUS
<1>6. x - 1 \in Nat BY <1>5
<1>7. x - 1 \in T BY <1>4, <1>6
<1>8. (x - 1) + 1 = x BY <1>5
<1> QED BY <1>5, <1>7, <1>8

Pick(T) == CHOOSE x \in T : TRUE

LEMMA PickOne ==
  ASSUME NEW T, T # {} PROVE Pick(T) \in T
  BY DEF Pick

\* The sum over every part of a finite set, as the fold adds it up.
Adds(sum, f, S) ==
  sum = [T \in SUBSET S |-> IF T = {} THEN 0 ELSE f[Pick(T)] + sum[T \ {Pick(T)}]]

LEMMA PartsAddUp ==
  ASSUME NEW S, IsFiniteSet(S), NEW f
  PROVE  \E sum : Adds(sum, f, S)
<1> DEFINE Parts(n) == {T \in SUBSET S : Cardinality(T) =< n}
           Eq(g, n) == g = [T \in Parts(n) |-> IF T = {} THEN 0 ELSE f[Pick(T)] + g[T \ {Pick(T)}]]
           Done == {n \in Nat : \E g : Eq(g, n)}
<1>1. \A T \in SUBSET S : IsFiniteSet(T) /\ Cardinality(T) \in Nat
  BY FS_Subset, FS_CardinalityType
<1>2. 0 \in Done
  <2>1. \A T \in Parts(0) : T = {}
    BY <1>1, FS_EmptySet
  <2>2. Eq([T \in Parts(0) |-> 0], 0)
    BY <2>1
  <2> QED BY <2>2
<1>3. ASSUME NEW n \in Done PROVE n + 1 \in Done
  <2>1. PICK g : Eq(g, n)
    OBVIOUS
  <2>2. n \in Nat /\ n + 1 \in Nat
    OBVIOUS
  <2> DEFINE h == [T \in Parts(n + 1) |-> IF T = {} THEN 0 ELSE f[Pick(T)] + g[T \ {Pick(T)}]]
  <2>3. \A T \in Parts(n) : T \in Parts(n + 1)
    BY <1>1, <2>2
  <2> HIDE DEF Parts
  <2>4. \A T \in Parts(n) : h[T] = g[T]
    BY <2>1, <2>3
  <2>5. ASSUME NEW T \in Parts(n + 1), T # {} PROVE T \ {Pick(T)} \in Parts(n)
    <3>1. T \in SUBSET S /\ Cardinality(T) =< n + 1 /\ IsFiniteSet(T) /\ Cardinality(T) \in Nat
      BY <1>1 DEF Parts
    <3>2. Pick(T) \in T
      BY <2>5, PickOne
    <3>3. Cardinality(T \ {Pick(T)}) = Cardinality(T) - 1
      BY <3>1, <3>2, FS_RemoveElement
    <3> QED BY <2>2, <3>1, <3>3 DEF Parts
  <2>6. h = [T \in Parts(n + 1) |-> IF T = {} THEN 0 ELSE f[Pick(T)] + h[T \ {Pick(T)}]]
    <3>1. \A T \in Parts(n + 1) : T # {} => g[T \ {Pick(T)}] = h[T \ {Pick(T)}]
      BY <2>4, <2>5
    <3> QED BY <3>1
  <2> QED BY <2>2, <2>6
<1>4. Cardinality(S) \in Done
  <2>1. Done \in SUBSET Nat
    OBVIOUS
  <2> HIDE DEF Done
  <2>2. Done = Nat
    BY <1>2, <1>3, <2>1, CountUp
  <2> QED BY <2>2, FS_CardinalityType
<1>5. Parts(Cardinality(S)) = SUBSET S
  <2>1. \A T \in SUBSET S : Cardinality(T) =< Cardinality(S)
    BY FS_Subset
  <2> QED BY <2>1
<1>6. PICK g : Eq(g, Cardinality(S))
  BY <1>4
<1> HIDE DEF Parts
<1>7. Adds(g, f, S)
  BY <1>5, <1>6 DEF Adds
<1> QED BY <1>7

LEMMA SumIsAdded ==
  ASSUME NEW S, IsFiniteSet(S), NEW f
  PROVE  \E sum : Adds(sum, f, S) /\ SumFunctionOnSet(f, S) = sum[S]
<1> DEFINE iter == CHOOSE g : g = [T \in SUBSET S |->
                       IF T = {} THEN 0
                       ELSE f[CHOOSE x \in T : TRUE] + g[T \ {CHOOSE x \in T : TRUE}]]
<1>1. SumFunctionOnSet(f, S) = iter[S]
  BY DEF SumFunctionOnSet, FoldFunctionOnSet, MapThenFoldSet
<1>2. \E g : g = [T \in SUBSET S |->
                       IF T = {} THEN 0
                       ELSE f[CHOOSE x \in T : TRUE] + g[T \ {CHOOSE x \in T : TRUE}]]
  <2>1. PICK g : Adds(g, f, S)
    BY PartsAddUp
  <2> QED BY <2>1, Zenon DEF Adds, Pick
<1>3. iter = [T \in SUBSET S |->
                       IF T = {} THEN 0
                       ELSE f[CHOOSE x \in T : TRUE] + iter[T \ {CHOOSE x \in T : TRUE}]]
  BY <1>2
<1> HIDE DEF iter
<1>4. Adds(iter, f, S)
  BY <1>3 DEF Adds, Pick
<1> QED BY <1>1, <1>4

\* Sums of numbers are numbers, and follow each number that changes.
LEMMA SumType ==
  ASSUME NEW S, IsFiniteSet(S), NEW f \in [S -> Nat]
  PROVE  SumFunctionOnSet(f, S) \in Nat
<1>1. PICK sum : Adds(sum, f, S) /\ SumFunctionOnSet(f, S) = sum[S]
  BY SumIsAdded
<1> DEFINE Ok == {n \in Nat : \A T \in SUBSET S : Cardinality(T) = n => sum[T] \in Nat}
<1>2. \A T \in SUBSET S : IsFiniteSet(T) /\ Cardinality(T) \in Nat
  BY FS_Subset, FS_CardinalityType
<1>3. 0 \in Ok
  BY <1>1, <1>2, FS_EmptySet DEF Adds
<1>4. ASSUME NEW n \in Ok PROVE n + 1 \in Ok
  <2>1. ASSUME NEW T \in SUBSET S, Cardinality(T) = n + 1 PROVE sum[T] \in Nat
    <3>0. n \in Nat /\ n + 1 # 0
      OBVIOUS
    <3>1. T # {}
      BY <2>1, <3>0, FS_EmptySet
    <3>2. Pick(T) \in T /\ Cardinality(T \ {Pick(T)}) = n
      BY <1>2, <2>1, <3>1, PickOne, FS_RemoveElement
    <3>3. sum[T] = f[Pick(T)] + sum[T \ {Pick(T)}]
      BY <1>1, <3>1 DEF Adds
    <3> QED BY <3>2, <3>3
  <2> QED BY <2>1
<1>5. Ok = Nat
  <2>1. Ok \in SUBSET Nat
    OBVIOUS
  <2> HIDE DEF Ok
  <2> QED BY <1>3, <1>4, <2>1, CountUp
<1> QED BY <1>1, <1>2, <1>5

LEMMA SumChanges ==
  ASSUME NEW S, IsFiniteSet(S), NEW f \in [S -> Nat], NEW g \in [S -> Nat], NEW s \in S,
         \A t \in S : t # s => g[t] = f[t]
  PROVE  SumFunctionOnSet(g, S) = SumFunctionOnSet(f, S) - f[s] + g[s]
<1>1. PICK sum : Adds(sum, f, S) /\ SumFunctionOnSet(f, S) = sum[S]
  BY SumIsAdded
<1>2. PICK tot : Adds(tot, g, S) /\ SumFunctionOnSet(g, S) = tot[S]
  BY SumIsAdded
<1> DEFINE Differ(T) == /\ sum[T] \in Int /\ tot[T] \in Int
                        /\ tot[T] = IF s \in T THEN sum[T] - f[s] + g[s] ELSE sum[T]
           Ok == {n \in Nat : \A T \in SUBSET S : Cardinality(T) = n => Differ(T)}
<1>3. \A T \in SUBSET S : IsFiniteSet(T) /\ Cardinality(T) \in Nat
  BY FS_Subset, FS_CardinalityType
<1>4. 0 \in Ok
  BY <1>1, <1>2, <1>3, FS_EmptySet DEF Adds
<1>5. ASSUME NEW n \in Ok PROVE n + 1 \in Ok
  <2>1. ASSUME NEW T \in SUBSET S, Cardinality(T) = n + 1 PROVE Differ(T)
    <3>0. n \in Nat /\ n + 1 # 0
      OBVIOUS
    <3>1. T # {}
      BY <2>1, <3>0, FS_EmptySet
    <3>2. Pick(T) \in T /\ Cardinality(T \ {Pick(T)}) = n
      <4>1. Pick(T) \in T
        BY <2>1, <3>1, PickOne
      <4>2. IsFiniteSet(T) /\ Cardinality(T \ {Pick(T)}) = Cardinality(T) - 1
        BY <1>3, <2>1, <4>1, FS_RemoveElement
      <4> QED BY <2>1, <3>0, <4>1, <4>2
    <3>3. /\ sum[T] = f[Pick(T)] + sum[T \ {Pick(T)}]
          /\ tot[T] = g[Pick(T)] + tot[T \ {Pick(T)}]
      BY <1>1, <1>2, <3>1 DEF Adds
    <3>4. Differ(T \ {Pick(T)})
      BY <3>2
    <3>5. f[Pick(T)] \in Int /\ g[Pick(T)] \in Int /\ f[s] \in Int /\ g[s] \in Int
      BY <3>2
    <3>6. CASE Pick(T) = s
      BY <3>2, <3>3, <3>4, <3>5, <3>6
    <3>7. CASE Pick(T) # s
      <4>1. g[Pick(T)] = f[Pick(T)]
        BY <3>2, <3>7
      <4> QED BY <3>2, <3>3, <3>4, <3>5, <3>7, <4>1
    <3> QED BY <3>6, <3>7
  <2> QED BY <2>1
<1>6. Ok = Nat
  <2>1. Ok \in SUBSET Nat
    OBVIOUS
  <2> HIDE DEF Ok
  <2> QED BY <1>4, <1>5, <2>1, CountUp
<1>7. Differ(S)
  BY <1>3, <1>6
<1> QED BY <1>1, <1>2, <1>7

LEMMA SumOfNone ==
  ASSUME NEW S, IsFiniteSet(S), NEW f \in [S -> Nat], \A s \in S : f[s] = 0
  PROVE  SumFunctionOnSet(f, S) = 0
<1>1. PICK sum : Adds(sum, f, S) /\ SumFunctionOnSet(f, S) = sum[S]
  BY SumIsAdded
<1> DEFINE Ok == {n \in Nat : \A T \in SUBSET S : Cardinality(T) = n => sum[T] = 0}
<1>2. \A T \in SUBSET S : IsFiniteSet(T) /\ Cardinality(T) \in Nat
  BY FS_Subset, FS_CardinalityType
<1>3. 0 \in Ok
  BY <1>1, <1>2, FS_EmptySet DEF Adds
<1>4. ASSUME NEW n \in Ok PROVE n + 1 \in Ok
  <2>1. ASSUME NEW T \in SUBSET S, Cardinality(T) = n + 1 PROVE sum[T] = 0
    <3>0. n \in Nat /\ n + 1 # 0
      OBVIOUS
    <3>1. T # {}
      BY <2>1, <3>0, FS_EmptySet
    <3>2. Pick(T) \in T /\ Cardinality(T \ {Pick(T)}) = n
      BY <1>2, <2>1, <3>1, PickOne, FS_RemoveElement
    <3>3. sum[T] = f[Pick(T)] + sum[T \ {Pick(T)}]
      BY <1>1, <3>1 DEF Adds
    <3> QED BY <3>2, <3>3
  <2> QED BY <2>1
<1>5. Ok = Nat
  <2>1. Ok \in SUBSET Nat
    OBVIOUS
  <2> HIDE DEF Ok
  <2> QED BY <1>3, <1>4, <2>1, CountUp
<1> QED BY <1>1, <1>2, <1>5

\* No number of a sum is more than the sum.
LEMMA PartOfSum ==
  ASSUME NEW S, IsFiniteSet(S), NEW f \in [S -> Nat], NEW s \in S
  PROVE  f[s] =< SumFunctionOnSet(f, S)
<1> DEFINE g == [f EXCEPT ![s] = 0]
<1>1. g \in [S -> Nat] /\ g[s] = 0 /\ \A t \in S : t # s => g[t] = f[t]
  OBVIOUS
<1> HIDE DEF g
<1>2. SumFunctionOnSet(g, S) = SumFunctionOnSet(f, S) - f[s] + g[s]
  BY <1>1, SumChanges
<1>3. SumFunctionOnSet(g, S) \in Nat /\ SumFunctionOnSet(f, S) \in Nat /\ f[s] \in Nat
  BY <1>1, SumType
<1> QED BY <1>1, <1>2, <1>3

\* The least number of a set.
LEMMA MinIsMember ==
  ASSUME NEW S \in SUBSET Nat, S # {}
  PROVE  Min(S) \in S /\ \A y \in S : Min(S) =< y
<1> DEFINE R == OpToRel(<, Nat)
<1>1. IsWellFoundedOn(R, Nat) BY NatLessThanWellFounded
<1>2. \A x, y \in Nat : <<x, y>> \in R <=> x < y BY Zenon DEF OpToRel
<1> HIDE DEF R
<1>3. PICK x \in S : \A y \in S : ~ (<<y, x>> \in R) BY <1>1, WFMin
<1>4. \A y \in S : <<y, x>> \in R <=> y < x BY <1>2, Zenon
<1>5. \A y \in S : ~ (y < x) BY <1>3, <1>4
<1>6. \A y \in S : x <= y BY <1>5
<1> QED BY <1>6 DEF Min

---------------------------------------------------------------------------
\* Tables.
Backed(d) ==
  \A c \in Character, s \in Slot : d.bag[c][s] # NoItem =>
    /\ d.instance[d.bag[c][s]] # NoRow
    /\ d.instance[d.bag[c][s]].owner = c
    /\ \A o \in Character, t \in Slot : d.bag[o][t] = d.bag[c][s] => o = c /\ t = s
    /\ \A m \in d.mail : m.item # d.bag[c][s]

\* Ids from next on are used nowhere.
Fresh(d) ==
  /\ \A i \in Item : i >= d.next => d.instance[i] = NoRow
  /\ \A m \in d.mail : m.item < d.next

Sound(d) == d \in Tables /\ Backed(d) /\ Fresh(d)

\* The bag of a character, and the items in it, are the same in e as in d.
Kept(d, e, c) ==
  /\ e.bag[c] = d.bag[c]
  /\ \A s \in Slot : d.bag[c][s] # NoItem => e.instance[d.bag[c][s]] = d.instance[d.bag[c][s]]

LEMMA Constants ==
  /\ EquipSlot \subseteq Nat /\ PackSlot \subseteq Nat /\ Slot \subseteq Nat
  /\ EquipSlot \subseteq Slot /\ PackSlot \subseteq Slot /\ EquipSlot \cap PackSlot = {}
  /\ IsFiniteSet(Slot) /\ IsFiniteSet(PackSlot)
  /\ MaxItems \in Nat /\ MaxFailures \in Nat
  /\ NoItem \notin Item /\ NoRow \notin Instance /\ Item \subseteq Nat
<1>1. IsFiniteSet(Slot) /\ PackSlot \subseteq Slot
  BY InventoryAssumption DEF Slot
<1>2. IsFiniteSet(PackSlot)
  BY <1>1, FS_Subset
<1> QED BY <1>1, <1>2, InventoryAssumption DEF Slot, Item

LEMMA TablesHave ==
  ASSUME NEW d \in Tables
  PROVE  /\ d.instance \in [Item -> Instance \cup {NoRow}]
         /\ d.bag \in [Character -> [Slot -> Item \cup {NoItem}]]
         /\ d.mail \subseteq [item : Item, receiver : Character]
         /\ d.next \in 1 .. MaxItems + 1 /\ d.next \in Nat
  BY Constants DEF Tables

\* In sound tables a bag loads as it is, and a stack is as large as its item says.
LEMMA LoadsAll ==
  ASSUME NEW d, Sound(d), NEW c \in Character
  PROVE  LoadBag0Inventory(d, c) = d.bag[c]
  BY TablesHave DEF Sound, Backed, LoadBag0Inventory

LEMMA StackSize ==
  ASSUME NEW d, Sound(d), NEW c \in Character, NEW s \in Slot
  PROVE  /\ d.bag[c][s] = NoItem => StackAt(d, c, s) = 0
         /\ d.bag[c][s] # NoItem =>
              /\ d.bag[c][s] \in Item
              /\ d.instance[d.bag[c][s]] \in Instance
              /\ StackAt(d, c, s) = d.instance[d.bag[c][s]].count
              /\ StackAt(d, c, s) > 0
         /\ StackAt(d, c, s) \in Nat
<1>1. LoadBag0Inventory(d, c) = d.bag[c] /\ d \in Tables
  BY LoadsAll DEF Sound
<1>2. d.bag[c][s] \in Item \cup {NoItem}
  BY <1>1, TablesHave
<1>3. d.bag[c][s] # NoItem => d.bag[c][s] \in Item /\ d.instance[d.bag[c][s]] \in Instance
  BY <1>1, <1>2, TablesHave DEF Sound, Backed
<1>4. \A r \in Instance : r.count \in Nat /\ r.count > 0
  BY DEF Instance
<1> QED BY <1>1, <1>2, <1>3, <1>4 DEF StackAt

\* The stacks of one entry, slot by slot, and their sum.
LEMMA Stacks ==
  ASSUME NEW d, Sound(d), NEW c \in Character, NEW e \in Entry
  PROVE  /\ StacksOf(d, c, e) \in [Slot -> Nat]
         /\ \A s \in Slot : StacksOf(d, c, e)[s] =
              IF d.bag[c][s] # NoItem /\ d.instance[d.bag[c][s]].entry = e
              THEN d.instance[d.bag[c][s]].count ELSE 0
         /\ Held(d, c)[e] = SumFunctionOnSet(StacksOf(d, c, e), Slot)
         /\ Held(d, c)[e] \in Nat
<1>1. \A s \in Slot : StacksOf(d, c, e)[s] =
              IF d.bag[c][s] # NoItem /\ d.instance[d.bag[c][s]].entry = e
              THEN d.instance[d.bag[c][s]].count ELSE 0
  BY StackSize DEF StacksOf
<1>2. StacksOf(d, c, e) \in [Slot -> Nat] /\ DOMAIN StacksOf(d, c, e) = Slot
  BY StackSize DEF StacksOf
<1>3. Held(d, c)[e] = SumFunctionOnSet(StacksOf(d, c, e), Slot)
  BY <1>2 DEF Held, SumFunction
<1> QED BY <1>1, <1>2, <1>3, SumType, Constants

\* One slot changes its stack.
LEMMA OneStack ==
  ASSUME NEW f \in [Slot -> Nat], NEW g \in [Slot -> Nat], NEW s \in Slot,
         \A t \in Slot : t # s => g[t] = f[t]
  PROVE  /\ SumFunctionOnSet(g, Slot) = SumFunctionOnSet(f, Slot) - f[s] + g[s]
         /\ SumFunctionOnSet(g, Slot) \in Nat /\ SumFunctionOnSet(f, Slot) \in Nat
         /\ f[s] \in Nat /\ g[s] \in Nat
<1>1. IsFiniteSet(Slot)
  BY Constants
<1> QED BY <1>1, SumChanges, SumType

\* A slot whose item is another slot's, with the same row, has that slot's stack.
LEMMA SameStack ==
  ASSUME NEW d, Sound(d), NEW x, Sound(x), NEW c \in Character, NEW e \in Entry,
         NEW s \in Slot, NEW t \in Slot, x.bag[c][s] = d.bag[c][t],
         d.bag[c][t] # NoItem => x.instance[d.bag[c][t]] = d.instance[d.bag[c][t]]
  PROVE  StacksOf(x, c, e)[s] = StacksOf(d, c, e)[t]
<1>1. StacksOf(x, c, e)[s] = IF x.bag[c][s] # NoItem /\ x.instance[x.bag[c][s]].entry = e
                             THEN x.instance[x.bag[c][s]].count ELSE 0
  BY Stacks
<1>2. StacksOf(d, c, e)[t] = IF d.bag[c][t] # NoItem /\ d.instance[d.bag[c][t]].entry = e
                             THEN d.instance[d.bag[c][t]].count ELSE 0
  BY Stacks
<1> QED BY <1>1, <1>2

LEMMA HeldSame ==
  ASSUME NEW d, Sound(d), NEW x, Sound(x), NEW c \in Character, Kept(d, x, c)
  PROVE  Held(x, c) = Held(d, c)
<1>1. ASSUME NEW e \in Entry PROVE StacksOf(x, c, e) = StacksOf(d, c, e)
  <2>1. ASSUME NEW s \in Slot PROVE StacksOf(x, c, e)[s] = StacksOf(d, c, e)[s]
    <3>1. /\ x.bag[c][s] = d.bag[c][s]
          /\ d.bag[c][s] # NoItem => x.instance[d.bag[c][s]] = d.instance[d.bag[c][s]]
      BY DEF Kept
    <3> QED BY <3>1, SameStack
  <2> QED BY <2>1, Stacks
<1> QED BY <1>1 DEF Held

LEMMA HeldType ==
  ASSUME NEW d, Sound(d), NEW c \in Character
  PROVE  Held(d, c) \in [Entry -> Nat]
<1>1. \A e \in Entry : Held(d, c)[e] \in Nat
  BY Stacks
<1> QED BY <1>1 DEF Held

---------------------------------------------------------------------------
\* Operations write one table after the other.
LEMMA SetInstance ==
  ASSUME NEW d \in Tables, NEW f \in [Item -> Instance \cup {NoRow}]
  PROVE  LET x == [d EXCEPT !.instance = f] IN
         /\ x \in Tables /\ x.instance = f /\ x.bag = d.bag
         /\ x.mail = d.mail /\ x.next = d.next
  BY DEF Tables

LEMMA SetBag ==
  ASSUME NEW d \in Tables, NEW f \in [Character -> [Slot -> Item \cup {NoItem}]]
  PROVE  LET x == [d EXCEPT !.bag = f] IN
         /\ x \in Tables /\ x.bag = f /\ x.instance = d.instance
         /\ x.mail = d.mail /\ x.next = d.next
  BY DEF Tables

LEMMA SetMail ==
  ASSUME NEW d \in Tables, NEW f \in SUBSET [item : Item, receiver : Character]
  PROVE  LET x == [d EXCEPT !.mail = f] IN
         /\ x \in Tables /\ x.mail = f /\ x.instance = d.instance
         /\ x.bag = d.bag /\ x.next = d.next
  BY DEF Tables

LEMMA SetNext ==
  ASSUME NEW d \in Tables, NEW n \in 1 .. MaxItems + 1
  PROVE  LET x == [d EXCEPT !.next = n] IN
         /\ x \in Tables /\ x.next = n /\ x.instance = d.instance
         /\ x.bag = d.bag /\ x.mail = d.mail
  BY DEF Tables

\* A new item that lies nowhere yet.
LEMMA Inserted ==
  ASSUME NEW d, Sound(d), d.next =< MaxItems,
         NEW c \in Character, NEW e \in Entry, NEW n \in Nat \ {0}
  PROVE  LET x == InsertInstance(d, c, e, n) IN
         /\ Sound(x) /\ x.bag = d.bag /\ x.mail = d.mail /\ x.next = d.next + 1
         /\ d.next \in Item
         /\ x.instance[d.next] = [owner |-> c, entry |-> e, count |-> n]
         /\ \A o \in Character : Kept(d, x, o)
         /\ \A o \in Character, t \in Slot : d.bag[o][t] # d.next
         /\ \A m \in d.mail : m.item # d.next
<1> DEFINE row == [owner |-> c, entry |-> e, count |-> n]
           f == [d.instance EXCEPT ![d.next] = row]
           y == [d EXCEPT !.instance = f]
           x == InsertInstance(d, c, e, n)
<1>1. d \in Tables /\ d.next \in Item /\ d.next + 1 \in 1 .. MaxItems + 1
  BY Constants, TablesHave DEF Sound, Item
<1>2. row \in Instance
  BY DEF Instance
<1>3. f \in [Item -> Instance \cup {NoRow}] /\ f[d.next] = row
      /\ \A i \in Item : i # d.next => f[i] = d.instance[i]
  BY <1>1, <1>2, TablesHave
<1>4. x = [y EXCEPT !.next = d.next + 1]
  BY DEF InsertInstance
<1> HIDE DEF f, row
<1>5. y \in Tables /\ y.instance = f /\ y.bag = d.bag /\ y.mail = d.mail
  BY <1>1, <1>3, SetInstance
<1> HIDE DEF y, x
<1>6. x \in Tables /\ x.instance = f /\ x.bag = d.bag /\ x.mail = d.mail /\ x.next = d.next + 1
  BY <1>1, <1>4, <1>5, SetNext
<1>7. /\ \A o \in Character, t \in Slot : d.bag[o][t] # d.next
      /\ \A m \in d.mail : m.item # d.next
  <2>1. d.instance[d.next] = NoRow
    BY <1>1, TablesHave DEF Sound, Fresh
  <2>2. d.next # NoItem
    BY <1>1, Constants
  <2> QED BY <1>1, <2>1, <2>2, TablesHave DEF Sound, Backed, Fresh
<1>8. \A o \in Character : Kept(d, x, o)
  <2> SUFFICES ASSUME NEW o \in Character, NEW t \in Slot, d.bag[o][t] # NoItem
               PROVE  x.instance[d.bag[o][t]] = d.instance[d.bag[o][t]]
    BY <1>6 DEF Kept
  <2>1. d.bag[o][t] \in Item
    BY <1>1, TablesHave
  <2> QED BY <1>3, <1>6, <1>7, <2>1
<1>9. Backed(x)
  <2> SUFFICES ASSUME NEW o \in Character, NEW t \in Slot, x.bag[o][t] # NoItem
               PROVE  /\ x.instance[x.bag[o][t]] # NoRow
                      /\ x.instance[x.bag[o][t]].owner = o
                      /\ \A o1 \in Character, t1 \in Slot : x.bag[o1][t1] = x.bag[o][t] => o1 = o /\ t1 = t
                      /\ \A m \in x.mail : m.item # x.bag[o][t]
    BY DEF Backed
  <2>1. d.bag[o][t] # NoItem
    BY <1>6
  <2>2. x.instance[d.bag[o][t]] = d.instance[d.bag[o][t]]
    BY <1>8, <2>1 DEF Kept
  <2>3. /\ d.instance[d.bag[o][t]] # NoRow /\ d.instance[d.bag[o][t]].owner = o
        /\ \A o1 \in Character, t1 \in Slot : d.bag[o1][t1] = d.bag[o][t] => o1 = o /\ t1 = t
        /\ \A m \in d.mail : m.item # d.bag[o][t]
    BY <2>1 DEF Sound, Backed
  <2>4. x.bag = d.bag /\ x.mail = d.mail
    BY <1>6
  <2> QED BY <2>2, <2>3, <2>4
<1>10. Fresh(x)
  <2>1. ASSUME NEW i \in Item, i >= x.next PROVE x.instance[i] = NoRow
    <3>1. i # d.next /\ i >= d.next
      BY <1>6, <2>1, <1>1, TablesHave, Constants
    <3> QED BY <1>3, <1>6, <3>1 DEF Sound, Fresh
  <2>2. ASSUME NEW m \in x.mail PROVE m.item < x.next
    <3>1. m \in d.mail /\ m.item < d.next /\ m.item \in Item
      BY <1>1, <1>6, <2>2, TablesHave DEF Sound, Fresh
    <3>2. m.item \in Nat /\ d.next \in Nat /\ x.next = d.next + 1
      BY <1>1, <1>6, <3>1, Constants
    <3> QED BY <3>1, <3>2
  <2> QED BY <2>1, <2>2 DEF Fresh
<1> QED BY <1>1, <1>3, <1>6, <1>7, <1>8, <1>9, <1>10 DEF Sound, x, row

\* All that x has more than d is item i in slot s of character c.
PutInto(d, x, c, s, i) ==
  /\ x.instance = d.instance /\ x.mail = d.mail /\ x.next = d.next
  /\ x.bag[c][s] = i
  /\ \A t \in Slot : t # s => x.bag[c][t] = d.bag[c][t]
  /\ \A o \in Character : o # c => x.bag[o] = d.bag[o]

LEMMA PutsInto ==
  ASSUME NEW d \in Tables, NEW c \in Character, NEW s \in Slot, NEW i \in Item
  PROVE  /\ [d EXCEPT !.bag[c][s] = i] \in Tables
         /\ PutInto(d, [d EXCEPT !.bag[c][s] = i], c, s, i)
<1> DEFINE f == [d.bag EXCEPT ![c] = [d.bag[c] EXCEPT ![s] = i]]
           x == [d EXCEPT !.bag = f]
<1>1. d.bag[c] \in [Slot -> Item \cup {NoItem}]
  BY TablesHave
<1>2. /\ f \in [Character -> [Slot -> Item \cup {NoItem}]]
      /\ f[c] = [d.bag[c] EXCEPT ![s] = i]
      /\ \A o \in Character : o # c => f[o] = d.bag[o]
  BY <1>1, TablesHave
<1> HIDE DEF f
<1>3. x \in Tables /\ x.bag = f /\ x.instance = d.instance /\ x.mail = d.mail /\ x.next = d.next
  BY <1>2, SetBag
<1> HIDE DEF x
<1>4. f[c][s] = i /\ \A t \in Slot : t # s => f[c][t] = d.bag[c][t]
  BY <1>1, <1>2
<1>5. PutInto(d, x, c, s, i)
  BY <1>2, <1>3, <1>4 DEF PutInto
<1> QED BY <1>3, <1>5 DEF x, f

\* An item that lies nowhere is put into an empty slot.
LEMMA PutDown ==
  ASSUME NEW d, Sound(d), NEW c \in Character, NEW s \in Slot, d.bag[c][s] = NoItem,
         NEW i \in Item, d.instance[i] # NoRow, d.instance[i].owner = c,
         \A o \in Character, t \in Slot : d.bag[o][t] # i,
         \A m \in d.mail : m.item # i,
         NEW x \in Tables, PutInto(d, x, c, s, i)
  PROVE  /\ Sound(x)
         /\ \A o \in Character : o # c => Kept(d, x, o)
         /\ \A e \in Entry : Held(x, c)[e] = IF e = d.instance[i].entry
                                            THEN Held(d, c)[e] + d.instance[i].count
                                            ELSE Held(d, c)[e]
<1>1. d \in Tables
  BY DEF Sound
<1>4. x.instance = d.instance /\ x.mail = d.mail /\ x.next = d.next
  BY DEF PutInto
<1>5. /\ x.bag[c][s] = i /\ \A t \in Slot : t # s => x.bag[c][t] = d.bag[c][t]
      /\ \A o \in Character : o # c => x.bag[o] = d.bag[o]
  BY DEF PutInto
<1>6. i # NoItem
  BY Constants
<1>7. Backed(x)
  <2> SUFFICES ASSUME NEW o \in Character, NEW t \in Slot, x.bag[o][t] # NoItem
               PROVE  /\ x.instance[x.bag[o][t]] # NoRow
                      /\ x.instance[x.bag[o][t]].owner = o
                      /\ \A o1 \in Character, t1 \in Slot : x.bag[o1][t1] = x.bag[o][t] => o1 = o /\ t1 = t
                      /\ \A m \in x.mail : m.item # x.bag[o][t]
    BY DEF Backed
  <2>1. \A o1 \in Character, t1 \in Slot : (o1 = c /\ t1 = s) \/ x.bag[o1][t1] = d.bag[o1][t1]
    BY <1>5
  <2>2. CASE o = c /\ t = s
    BY <1>4, <1>5, <2>1, <2>2
  <2>3. CASE ~(o = c /\ t = s)
    <3>1. x.bag[o][t] = d.bag[o][t] /\ d.bag[o][t] # i
      BY <1>4, <2>1, <2>3
    <3> QED BY <1>4, <1>5, <2>1, <2>3, <3>1 DEF Sound, Backed
  <2> QED BY <2>2, <2>3
<1>8. Sound(x)
  BY <1>4, <1>7 DEF Sound, Fresh
<1>9. \A o \in Character : o # c => Kept(d, x, o)
  BY <1>4, <1>5 DEF Kept
<1>10. ASSUME NEW e \in Entry
       PROVE  Held(x, c)[e] = IF e = d.instance[i].entry
                              THEN Held(d, c)[e] + d.instance[i].count ELSE Held(d, c)[e]
  <2>1. ASSUME NEW t \in Slot, t # s PROVE StacksOf(x, c, e)[t] = StacksOf(d, c, e)[t]
    <3>1. x.bag[c][t] = d.bag[c][t] /\ x.instance = d.instance
      BY <1>4, <1>5, <2>1
    <3> QED BY <1>8, <3>1, SameStack
  <2>2. /\ StacksOf(d, c, e)[s] = 0
        /\ StacksOf(x, c, e)[s] = IF d.instance[i].entry = e THEN d.instance[i].count ELSE 0
    <3>1. x.bag[c][s] = i /\ x.instance[i] = d.instance[i]
      BY <1>4, <1>5
    <3>2. StacksOf(x, c, e)[s] = IF x.bag[c][s] # NoItem /\ x.instance[x.bag[c][s]].entry = e
                                 THEN x.instance[x.bag[c][s]].count ELSE 0
      BY <1>8, Stacks
    <3> QED BY <1>6, <3>1, <3>2, Stacks
  <2>5. StacksOf(x, c, e) \in [Slot -> Nat] /\ StacksOf(d, c, e) \in [Slot -> Nat]
    BY <1>8, Stacks
  <2>3. SumFunctionOnSet(StacksOf(x, c, e), Slot)
          = SumFunctionOnSet(StacksOf(d, c, e), Slot) - StacksOf(d, c, e)[s] + StacksOf(x, c, e)[s]
    BY <2>1, <2>5, OneStack
  <2>4. Held(d, c)[e] \in Nat /\ d.instance[i].count \in Nat
    <3>1. d.instance[i] \in Instance
      BY <1>1, TablesHave
    <3> QED BY <3>1, Stacks DEF Instance
  <2> QED BY <1>8, <2>2, <2>3, <2>4, Stacks
<1> QED BY <1>8, <1>9, <1>10

\* A mail is written for an item that lies in no bag.
LEMMA MailSent ==
  ASSUME NEW d, Sound(d), NEW c \in Character, NEW i \in Item, i < d.next,
         \A o \in Character, t \in Slot : d.bag[o][t] # i
  PROVE  LET x == [d EXCEPT !.mail = @ \cup {[item |-> i, receiver |-> c]}] IN
         Sound(x) /\ x.bag = d.bag /\ \A o \in Character : Kept(d, x, o)
<1> DEFINE f == d.mail \cup {[item |-> i, receiver |-> c]}
           x == [d EXCEPT !.mail = f]
<1>1. d \in Tables /\ f \in SUBSET [item : Item, receiver : Character]
  BY TablesHave DEF Sound
<1>2. \A m \in f : m \in d.mail \/ m.item = i
  OBVIOUS
<1> HIDE DEF f
<1>3. x \in Tables /\ x.mail = f /\ x.instance = d.instance /\ x.bag = d.bag /\ x.next = d.next
  BY <1>1, SetMail
<1> HIDE DEF x
<1>4. Backed(x)
  BY <1>2, <1>3 DEF Sound, Backed
<1>5. Fresh(x)
  BY <1>2, <1>3 DEF Sound, Fresh
<1> QED BY <1>3, <1>4, <1>5 DEF Sound, Kept, x, f

\* Two slots change their items, of which either may be none.
LEMMA Swapped ==
  ASSUME NEW d, Sound(d), NEW c \in Character, NEW src \in Slot, NEW dst \in Slot, src # dst
  PROVE  LET x == [d EXCEPT !.bag[c] = [@ EXCEPT ![src] = d.bag[c][dst],
                                                 ![dst] = d.bag[c][src]]] IN
         /\ Sound(x) /\ Held(x, c) = Held(d, c)
         /\ \A o \in Character : o # c => Kept(d, x, o)
<1> DEFINE old == d.bag[c]
           bag == [old EXCEPT ![src] = old[dst], ![dst] = old[src]]
           f == [d.bag EXCEPT ![c] = bag]
           x == [d EXCEPT !.bag = f]
<1>1. d \in Tables /\ old \in [Slot -> Item \cup {NoItem}]
  BY TablesHave DEF Sound
<1>2. /\ bag \in [Slot -> Item \cup {NoItem}]
      /\ bag[src] = old[dst] /\ bag[dst] = old[src]
      /\ \A t \in Slot : t # src /\ t # dst => bag[t] = old[t]
  BY <1>1
<1> HIDE DEF bag
<1>3. /\ f \in [Character -> [Slot -> Item \cup {NoItem}]]
      /\ f[c] = bag /\ \A o \in Character : o # c => f[o] = d.bag[o]
  BY <1>1, <1>2, TablesHave
<1> HIDE DEF f
<1>4. x \in Tables /\ x.bag = f /\ x.instance = d.instance /\ x.mail = d.mail /\ x.next = d.next
  BY <1>1, <1>3, SetBag
<1> HIDE DEF x
<1> DEFINE other(o, t) == IF o = c /\ t = src THEN dst ELSE IF o = c /\ t = dst THEN src ELSE t
<1>5. \A o \in Character, t \in Slot :
        /\ other(o, t) \in Slot /\ x.bag[o][t] = d.bag[o][other(o, t)]
        /\ other(o, other(o, t)) = t
  BY <1>2, <1>3, <1>4
<1> HIDE DEF other
<1>6. Backed(x)
  <2> SUFFICES ASSUME NEW o \in Character, NEW t \in Slot, x.bag[o][t] # NoItem
               PROVE  /\ x.instance[x.bag[o][t]] # NoRow
                      /\ x.instance[x.bag[o][t]].owner = o
                      /\ \A o1 \in Character, t1 \in Slot : x.bag[o1][t1] = x.bag[o][t] => o1 = o /\ t1 = t
                      /\ \A m \in x.mail : m.item # x.bag[o][t]
    BY DEF Backed
  <2>1. other(o, t) \in Slot /\ x.bag[o][t] = d.bag[o][other(o, t)]
    BY <1>5
  <2>2. /\ d.instance[x.bag[o][t]] # NoRow
        /\ d.instance[x.bag[o][t]].owner = o
        /\ \A o1 \in Character, t1 \in Slot : d.bag[o1][t1] = x.bag[o][t] => o1 = o /\ t1 = other(o, t)
        /\ \A m \in d.mail : m.item # x.bag[o][t]
    BY <2>1 DEF Sound, Backed
  <2>3. ASSUME NEW o1 \in Character, NEW t1 \in Slot, x.bag[o1][t1] = x.bag[o][t]
        PROVE  o1 = o /\ t1 = t
    <3>1. other(o1, t1) \in Slot /\ d.bag[o1][other(o1, t1)] = x.bag[o][t]
      BY <1>5, <2>3
    <3>2. o1 = o /\ other(o1, t1) = other(o, t)
      BY <2>2, <3>1
    <3> QED BY <1>5, <3>2
  <2> QED BY <1>4, <2>2, <2>3
<1>7. Sound(x)
  BY <1>4, <1>6 DEF Sound, Fresh
<1>8. \A o \in Character : o # c => Kept(d, x, o)
  BY <1>3, <1>4 DEF Kept
<1>9. ASSUME NEW e \in Entry PROVE Held(x, c)[e] = Held(d, c)[e]
  <2> DEFINE before == StacksOf(d, c, e)
             after == StacksOf(x, c, e)
             half == [before EXCEPT ![src] = after[src]]
  <2>1. before \in [Slot -> Nat] /\ after \in [Slot -> Nat]
    BY <1>7, Stacks
  <2>2. /\ after[src] = before[dst] /\ after[dst] = before[src]
        /\ \A t \in Slot : t # src /\ t # dst => after[t] = before[t]
    <3>1. x.bag[c] = bag /\ x.instance = d.instance
      BY <1>3, <1>4
    <3>2. after[src] = before[dst]
      <4>1. x.bag[c][src] = d.bag[c][dst]
        BY <1>2, <3>1
      <4> QED BY <1>7, <3>1, <4>1, SameStack
    <3>3. after[dst] = before[src]
      <4>1. x.bag[c][dst] = d.bag[c][src]
        BY <1>2, <3>1
      <4> QED BY <1>7, <3>1, <4>1, SameStack
    <3>4. ASSUME NEW t \in Slot, t # src, t # dst PROVE after[t] = before[t]
      <4>1. x.bag[c][t] = d.bag[c][t]
        BY <1>2, <3>1, <3>4
      <4> QED BY <1>7, <3>1, <4>1, SameStack
    <3> QED BY <3>2, <3>3, <3>4
  <2> HIDE DEF before, after
  <2>3. /\ half \in [Slot -> Nat] /\ half[src] = after[src] /\ half[dst] = before[dst]
        /\ \A t \in Slot : t # src => half[t] = before[t]
        /\ \A t \in Slot : t # dst => after[t] = half[t]
    BY <2>1, <2>2
  <2> HIDE DEF half
  <2>4. SumFunctionOnSet(half, Slot) = SumFunctionOnSet(before, Slot) - before[src] + half[src]
    BY <2>1, <2>3, OneStack
  <2>5. SumFunctionOnSet(after, Slot) = SumFunctionOnSet(half, Slot) - half[dst] + after[dst]
    BY <2>1, <2>3, OneStack
  <2>6. SumFunctionOnSet(before, Slot) \in Nat /\ before[src] \in Nat /\ before[dst] \in Nat
    BY <2>1, SumType, Constants
  <2>7. SumFunctionOnSet(after, Slot) = SumFunctionOnSet(before, Slot)
    BY <2>2, <2>3, <2>4, <2>5, <2>6
  <2> QED BY <1>7, <2>7, Stacks DEF before, after
<1>10. Held(x, c) = Held(d, c)
  BY <1>9 DEF Held
<1> QED BY <1>7, <1>8, <1>10 DEF x, f, bag

\* n items of a stack are taken out of its slot.
LEMMA TakenFrom ==
  ASSUME NEW d, Sound(d), NEW c \in Character, NEW s \in Slot, NEW n \in Nat \ {0},
         StackAt(d, c, s) > 0, n =< StackAt(d, c, s)
  PROVE  LET x == TakeFrom(d, c, s, n) IN
         /\ Sound(x) /\ x.next = d.next
         /\ \A o \in Character : o # c => Kept(d, x, o)
         /\ \A e \in Entry : Held(x, c)[e] = IF e = d.instance[d.bag[c][s]].entry
                                            THEN Held(d, c)[e] - n ELSE Held(d, c)[e]
<1> DEFINE i == d.bag[c][s]
           row == d.instance[i]
           x == TakeFrom(d, c, s, n)
<1>1. /\ d \in Tables /\ i \in Item /\ row \in Instance /\ i # NoItem
      /\ StackAt(d, c, s) = row.count /\ row.owner = c
      /\ \A o \in Character, t \in Slot : d.bag[o][t] = i => o = c /\ t = s
      /\ \A m \in d.mail : m.item # i
  BY StackSize DEF Sound, Backed
<1>2. /\ x \in Tables /\ x.mail = d.mail /\ x.next = d.next
      /\ \A j \in Item : j # i => x.instance[j] = d.instance[j]
      /\ \A o \in Character, t \in Slot : ~(o = c /\ t = s) => x.bag[o][t] = d.bag[o][t]
      /\ \A o \in Character : o # c => x.bag[o] = d.bag[o]
      /\ x.bag[c][s] # NoItem =>
           /\ x.bag[c][s] = i /\ n < row.count
           /\ x.instance[i] # NoRow /\ x.instance[i].owner = c /\ x.instance[i].entry = row.entry
           /\ x.instance[i].count = row.count - n
      /\ x.bag[c][s] = NoItem => n = row.count
      /\ x.instance[i] = NoRow \/ i < d.next
  <2>1. CASE n >= row.count
    <3> DEFINE f == [d.instance EXCEPT ![i] = NoRow]
               y == [d EXCEPT !.instance = f]
               bag == [d.bag[c] EXCEPT ![s] = NoItem]
               g == [d.bag EXCEPT ![c] = bag]
    <3>1. f \in [Item -> Instance \cup {NoRow}] /\ f[i] = NoRow
          /\ \A j \in Item : j # i => f[j] = d.instance[j]
      BY <1>1, TablesHave
    <3>2. /\ bag \in [Slot -> Item \cup {NoItem}] /\ bag[s] = NoItem
          /\ \A t \in Slot : t # s => bag[t] = d.bag[c][t]
      BY <1>1, TablesHave
    <3> HIDE DEF bag
    <3>3. /\ g \in [Character -> [Slot -> Item \cup {NoItem}]]
          /\ g[c] = bag /\ \A o \in Character : o # c => g[o] = d.bag[o]
      BY <1>1, <3>2, TablesHave
    <3> HIDE DEF f
    <3>4. y \in Tables /\ y.instance = f /\ y.bag = d.bag /\ y.mail = d.mail /\ y.next = d.next
      BY <1>1, <3>1, SetInstance
    <3>5. x = [y EXCEPT !.bag = g]
      BY <2>1, <1>1 DEF TakeFrom, f, bag
    <3> HIDE DEF y, x, g, i, row
    <3>6. x \in Tables /\ x.bag = g /\ x.instance = f /\ x.mail = d.mail /\ x.next = d.next
      BY <3>3, <3>4, <3>5, SetBag
    <3>7. n = row.count
      <4>1. row.count \in Nat /\ n =< row.count
        BY <1>1 DEF Instance
      <4> QED BY <2>1, <4>1
    <3> QED BY <3>1, <3>2, <3>3, <3>6, <3>7
  <2>2. CASE ~(n >= row.count)
    <3> DEFINE less == [row EXCEPT !.count = @ - n]
               f == [d.instance EXCEPT ![i] = less]
    <3>1. row.count - n \in Nat \ {0} /\ n < row.count
      <4>1. row.count \in Nat
        BY <1>1 DEF Instance
      <4> QED BY <2>2, <4>1
    <3>2. /\ less \in Instance /\ less.owner = row.owner /\ less.entry = row.entry
          /\ less.count = row.count - n
      BY <1>1, <3>1 DEF Instance
    <3> HIDE DEF less
    <3>3. /\ f \in [Item -> Instance \cup {NoRow}] /\ f[i] = less
          /\ \A j \in Item : j # i => f[j] = d.instance[j]
      BY <1>1, <3>2, TablesHave
    <3> HIDE DEF f
    <3>4. x = [d EXCEPT !.instance = f]
      BY <2>2, <1>1 DEF TakeFrom, f, less
    <3> HIDE DEF x
    <3>5. x \in Tables /\ x.instance = f /\ x.bag = d.bag /\ x.mail = d.mail /\ x.next = d.next
      BY <1>1, <3>3, <3>4, SetInstance
    <3>6. i < d.next
      <4>1. i \in Nat /\ d.next \in Nat /\ row # NoRow
        BY <1>1, Constants, TablesHave
      <4> QED BY <1>1, <4>1 DEF Sound, Fresh
    <3>7. less # NoRow
      BY <3>2, Constants
    <3> QED BY <1>1, <3>1, <3>2, <3>3, <3>5, <3>6, <3>7
  <2> QED BY <2>1, <2>2
<1> HIDE DEF x, i, row
<1>3. \A o \in Character, t \in Slot : (o # c \/ t # s) /\ d.bag[o][t] # NoItem =>
        d.bag[o][t] \in Item /\ d.bag[o][t] # i /\ x.instance[d.bag[o][t]] = d.instance[d.bag[o][t]]
  BY <1>1, <1>2, TablesHave
<1>4. Backed(x)
  <2> SUFFICES ASSUME NEW o \in Character, NEW t \in Slot, x.bag[o][t] # NoItem
               PROVE  /\ x.instance[x.bag[o][t]] # NoRow
                      /\ x.instance[x.bag[o][t]].owner = o
                      /\ \A o1 \in Character, t1 \in Slot : x.bag[o1][t1] = x.bag[o][t] => o1 = o /\ t1 = t
                      /\ \A m \in x.mail : m.item # x.bag[o][t]
    BY DEF Backed
  <2>1. CASE o = c /\ t = s
    <3>1. x.bag[o][t] = i
      BY <1>2, <2>1
    <3>2. ASSUME NEW o1 \in Character, NEW t1 \in Slot, x.bag[o1][t1] = i PROVE o1 = c /\ t1 = s
      BY <1>1, <1>2, <3>2
    <3> QED BY <1>1, <1>2, <2>1, <3>1, <3>2
  <2>2. CASE ~(o = c /\ t = s)
    <3>1. x.bag[o][t] = d.bag[o][t] /\ d.bag[o][t] # NoItem
      BY <1>2, <2>2
    <3>2. d.bag[o][t] # i /\ x.instance[d.bag[o][t]] = d.instance[d.bag[o][t]]
      BY <1>3, <2>2, <3>1
    <3>3. /\ d.instance[d.bag[o][t]] # NoRow /\ d.instance[d.bag[o][t]].owner = o
          /\ \A o1 \in Character, t1 \in Slot : d.bag[o1][t1] = d.bag[o][t] => o1 = o /\ t1 = t
          /\ \A m \in d.mail : m.item # d.bag[o][t]
      BY <3>1 DEF Sound, Backed
    <3>4. ASSUME NEW o1 \in Character, NEW t1 \in Slot, x.bag[o1][t1] = d.bag[o][t]
          PROVE  o1 = o /\ t1 = t
      BY <1>2, <3>1, <3>2, <3>3, <3>4
    <3>5. x.mail = d.mail
      BY <1>2
    <3> QED BY <3>1, <3>2, <3>3, <3>4, <3>5
  <2> QED BY <2>1, <2>2
<1>5. Fresh(x)
  <2>1. ASSUME NEW j \in Item, j >= d.next PROVE x.instance[j] = NoRow
    <3>1. CASE j # i
      BY <1>2, <2>1, <3>1 DEF Sound, Fresh
    <3>2. CASE j = i
      <4>1. j \in Nat /\ d.next \in Nat
        BY <1>1, Constants, TablesHave
      <4> QED BY <1>2, <2>1, <3>2, <4>1
    <3> QED BY <3>1, <3>2
  <2> QED BY <1>2, <2>1 DEF Sound, Fresh
<1>6. Sound(x)
  BY <1>2, <1>4, <1>5 DEF Sound
<1>7. \A o \in Character : o # c => Kept(d, x, o)
  BY <1>2, <1>3 DEF Kept
<1>8. ASSUME NEW e \in Entry
      PROVE  Held(x, c)[e] = IF e = row.entry THEN Held(d, c)[e] - n ELSE Held(d, c)[e]
  <2> DEFINE before == StacksOf(d, c, e)
             after == StacksOf(x, c, e)
  <2>1. before \in [Slot -> Nat] /\ after \in [Slot -> Nat]
    BY <1>6, Stacks
  <2>2. ASSUME NEW t \in Slot, t # s PROVE after[t] = before[t]
    <3>1. /\ x.bag[c][t] = d.bag[c][t]
          /\ d.bag[c][t] # NoItem => x.instance[d.bag[c][t]] = d.instance[d.bag[c][t]]
      BY <1>2, <1>3, <2>2
    <3> QED BY <1>6, <3>1, SameStack
  <2>3. before[s] = IF row.entry = e THEN row.count ELSE 0
    BY <1>1, Stacks DEF i, row
  <2>4. after[s] = IF row.entry = e THEN row.count - n ELSE 0
    <3>1. row.count \in Nat
      BY <1>1 DEF Instance
    <3> QED BY <1>2, <1>6, <3>1, Stacks
  <2> HIDE DEF before, after
  <2>5. SumFunctionOnSet(after, Slot) = SumFunctionOnSet(before, Slot) - before[s] + after[s]
    BY <2>1, <2>2, OneStack
  <2>6. SumFunctionOnSet(before, Slot) \in Nat /\ row.count \in Nat
    BY <1>1, <2>1, SumType, Constants DEF Instance
  <2>7. SumFunctionOnSet(after, Slot) =
          IF e = row.entry THEN SumFunctionOnSet(before, Slot) - n ELSE SumFunctionOnSet(before, Slot)
    BY <2>3, <2>4, <2>5, <2>6
  <2> QED BY <1>6, <2>7, Stacks DEF before, after
<1> QED BY <1>2, <1>6, <1>7, <1>8 DEF x, i, row

---------------------------------------------------------------------------
\* The operations of the repository.
LEMMA KeptOn ==
  ASSUME NEW d, NEW x, NEW y, NEW c \in Character, Kept(d, x, c), Kept(x, y, c)
  PROVE  Kept(d, y, c)
  BY DEF Kept

LEMMA Granted ==
  ASSUME NEW d, Sound(d), d.next =< MaxItems, NEW c \in Character, NEW e \in Entry,
         NEW n \in Nat \ {0}, NEW r \in GrantItemToBag0(d, c, e, n)
  PROVE  /\ Sound(r.db) /\ r.db.next =< d.next + 1 /\ r.rejected \in Nat
         /\ \A o \in Character : o # c => Kept(d, r.db, o)
         /\ ~r.ok => Kept(d, r.db, c)
         /\ r.ok => \A x \in Entry : Held(r.db, c)[x] = IF x = e THEN Held(d, c)[x] + n
                                                       ELSE Held(d, c)[x]
<1> DEFINE free == {s \in PackSlot : d.bag[c][s] = NoItem}
           made == InsertInstance(d, c, e, n)
           put == [made EXCEPT !.bag[c][Min(free)] = d.next]
<1>1. /\ Sound(made) /\ made.bag = d.bag /\ made.mail = d.mail /\ made.next = d.next + 1
      /\ d.next \in Item
      /\ made.instance[d.next] = [owner |-> c, entry |-> e, count |-> n]
      /\ \A o \in Character : Kept(d, made, o)
      /\ \A o \in Character, t \in Slot : d.bag[o][t] # d.next
      /\ \A m \in d.mail : m.item # d.next
  BY Inserted
<1>2. d.next \in Nat /\ Kept(d, d, c) /\ \A o \in Character : Kept(d, d, o)
  BY TablesHave DEF Sound, Kept
<1> HIDE DEF made
<1>3. ASSUME free # {}
      PROVE  /\ Sound(put) /\ put.next = d.next + 1
             /\ \A o \in Character : o # c => Kept(d, put, o)
             /\ \A x \in Entry : Held(put, c)[x] = IF x = e THEN Held(d, c)[x] + n ELSE Held(d, c)[x]
  <2>1. Min(free) \in free
    BY <1>3, MinIsMember, Constants
  <2>2. Min(free) \in Slot /\ made.bag[c][Min(free)] = NoItem
    BY <1>1, <2>1, Constants
  <2> DEFINE s == Min(free)
  <2> HIDE DEF free, s
  <2>3. made.instance[d.next].owner = c /\ made.instance[d.next].entry = e /\ made.instance[d.next].count = n
    BY <1>1
  <2>4. made.instance[d.next] # NoRow
    <3>1. [owner |-> c, entry |-> e, count |-> n] \in Instance
      BY DEF Instance
    <3> QED BY <1>1, <3>1, Constants
  <2> DEFINE y == [made EXCEPT !.bag[c][s] = d.next]
  <2>5. /\ Sound(y) /\ y.next = made.next
        /\ \A o \in Character : o # c => Kept(made, y, o)
        /\ \A x \in Entry : Held(y, c)[x] = IF x = e THEN Held(made, c)[x] + n ELSE Held(made, c)[x]
    <3>1. s \in Slot /\ made.bag[c][s] = NoItem /\ d.next \in Item
      BY <1>1, <2>2 DEF s
    <3>2. /\ \A o \in Character, t \in Slot : made.bag[o][t] # d.next
          /\ \A m \in made.mail : m.item # d.next
      BY <1>1
    <3>3. y \in Tables /\ PutInto(made, y, c, s, d.next) /\ Sound(made)
      BY <1>1, <3>1, PutsInto DEF Sound
    <3> HIDE DEF y
    <3>4. /\ Sound(y)
          /\ \A o \in Character : o # c => Kept(made, y, o)
          /\ \A x \in Entry : Held(y, c)[x] = IF x = made.instance[d.next].entry
                                              THEN Held(made, c)[x] + made.instance[d.next].count
                                              ELSE Held(made, c)[x]
      BY <2>3, <2>4, <3>1, <3>2, <3>3, PutDown
    <3>5. y.next = made.next
      BY <3>3 DEF PutInto
    <3> QED BY <2>3, <3>4, <3>5
  <2>6. put = y
    BY DEF s
  <2> HIDE DEF put, y
  <2>7. Held(made, c) = Held(d, c)
    BY <1>1, HeldSame
  <2> QED BY <1>1, <2>5, <2>6, <2>7, KeptOn
<1> HIDE DEF free, put
<1>4. \/ r = Result(d, FALSE, 0) \/ r = Result(d, FALSE, 1) \/ r = Result(made, FALSE, 1)
      \/ free # {} /\ r = Result(put, TRUE, 0)
  BY DEF GrantItemToBag0, made, free, put
<1> QED BY <1>1, <1>2, <1>3, <1>4 DEF Result

LEMMA Mailed ==
  ASSUME NEW d, Sound(d), d.next =< MaxItems, NEW c \in Character, NEW e \in Entry,
         NEW n \in Nat \ {0}, NEW r \in SendGmMailWithItem(d, c, e, n)
  PROVE  /\ Sound(r.db) /\ r.rejected \in Nat
         /\ \A o \in Character : Kept(d, r.db, o)
<1> DEFINE made == InsertInstance(d, c, e, n)
           sent == [made EXCEPT !.mail = @ \cup {[item |-> d.next, receiver |-> c]}]
<1>1. /\ Sound(made) /\ made.bag = d.bag /\ made.mail = d.mail /\ made.next = d.next + 1
      /\ d.next \in Item
      /\ made.instance[d.next] = [owner |-> c, entry |-> e, count |-> n]
      /\ \A o \in Character : Kept(d, made, o)
      /\ \A o \in Character, t \in Slot : d.bag[o][t] # d.next
      /\ \A m \in d.mail : m.item # d.next
  BY Inserted
<1> HIDE DEF made
<1>2. d.next < made.next
  BY <1>1 DEF Item
<1>3. Sound(sent) /\ \A o \in Character : Kept(made, sent, o)
  BY <1>1, <1>2, MailSent
<1> HIDE DEF sent
<1>4. \/ r = Result(d, FALSE, 1) \/ r = Result(made, FALSE, 1) \/ r = Result(made, FALSE, 0)
      \/ r = Result(sent, TRUE, 0)
  BY DEF SendGmMailWithItem, made, sent
<1>5. \A o \in Character : Kept(d, d, o) /\ Kept(d, sent, o)
  <2>1. \A o \in Character : Kept(d, d, o)
    BY DEF Kept
  <2> QED BY <1>1, <1>3, <2>1, KeptOn
<1> QED BY <1>1, <1>3, <1>4, <1>5 DEF Result

LEMMA Moved ==
  ASSUME NEW d, Sound(d), NEW c \in Character, NEW src \in Slot, NEW dst \in Slot, src # dst,
         NEW r \in SwapBag0Slots(d, c, src, dst)
  PROVE  /\ Sound(r.db) /\ r.rejected \in Nat /\ Held(r.db, c) = Held(d, c)
         /\ \A o \in Character : o # c => Kept(d, r.db, o)
         /\ ~r.ok => r.db = d
<1> DEFINE x == [d EXCEPT !.bag[c] = [@ EXCEPT ![src] = d.bag[c][dst], ![dst] = d.bag[c][src]]]
<1>1. /\ Sound(x) /\ Held(x, c) = Held(d, c)
      /\ \A o \in Character : o # c => Kept(d, x, o)
  BY Swapped
<1> HIDE DEF x
<1>2. r = Result(d, FALSE, 1) \/ r = Result(x, TRUE, 0)
  BY DEF SwapBag0Slots, x
<1>3. \A o \in Character : Kept(d, d, o)
  BY DEF Kept
<1> QED BY <1>1, <1>2, <1>3 DEF Result

\* Items that lie in no bag may be deleted, and mails too.
LEMMA Wiped ==
  ASSUME NEW d, Sound(d), NEW g \in [Item -> Instance \cup {NoRow}],
         \A i \in Item : g[i] = d.instance[i] \/ g[i] = NoRow,
         \A o \in Character, t \in Slot :
           d.bag[o][t] # NoItem => g[d.bag[o][t]] = d.instance[d.bag[o][t]]
  PROVE  LET x == [d EXCEPT !.instance = g] IN
         Sound(x) /\ x.bag = d.bag /\ \A o \in Character : Kept(d, x, o)
<1> DEFINE x == [d EXCEPT !.instance = g]
<1>1. d \in Tables
  BY DEF Sound
<1>2. x \in Tables /\ x.instance = g /\ x.bag = d.bag /\ x.mail = d.mail /\ x.next = d.next
  BY <1>1, SetInstance
<1> HIDE DEF x
<1>3. \A o \in Character : Kept(d, x, o)
  BY <1>2 DEF Kept
<1>4. Backed(x)
  <2> SUFFICES ASSUME NEW o \in Character, NEW t \in Slot, x.bag[o][t] # NoItem
               PROVE  /\ x.instance[x.bag[o][t]] # NoRow
                      /\ x.instance[x.bag[o][t]].owner = o
                      /\ \A o1 \in Character, t1 \in Slot : x.bag[o1][t1] = x.bag[o][t] => o1 = o /\ t1 = t
                      /\ \A m \in x.mail : m.item # x.bag[o][t]
    BY DEF Backed
  <2>1. x.instance[d.bag[o][t]] = d.instance[d.bag[o][t]] /\ d.bag[o][t] # NoItem
    BY <1>2
  <2> QED BY <1>2, <2>1 DEF Sound, Backed
<1>5. Fresh(x)
  BY <1>2 DEF Sound, Fresh
<1> QED BY <1>2, <1>3, <1>4, <1>5 DEF Sound, x

LEMMA LessMail ==
  ASSUME NEW d, Sound(d), NEW f \in SUBSET d.mail
  PROVE  LET x == [d EXCEPT !.mail = f] IN
         Sound(x) /\ x.bag = d.bag /\ \A o \in Character : Kept(d, x, o)
<1> DEFINE x == [d EXCEPT !.mail = f]
<1>1. d \in Tables /\ f \in SUBSET [item : Item, receiver : Character]
  BY TablesHave DEF Sound
<1>2. x \in Tables /\ x.mail = f /\ x.instance = d.instance /\ x.bag = d.bag /\ x.next = d.next
  BY <1>1, SetMail
<1> HIDE DEF x
<1>3. Backed(x) /\ Fresh(x)
  BY <1>2 DEF Sound, Backed, Fresh
<1> QED BY <1>2, <1>3 DEF Sound, Kept, x

LEMMA Emptied ==
  ASSUME NEW d, Sound(d), NEW c \in Character
  PROVE  LET x == NoBag(d, c) IN
         /\ Sound(x) /\ x.bag[c] = Bare /\ x.instance = d.instance
         /\ \A o \in Character : o # c => Kept(d, x, o)
         /\ \A e \in Entry : Held(x, c)[e] = 0
<1> DEFINE f == [d.bag EXCEPT ![c] = Bare]
           x == NoBag(d, c)
<1>1. d \in Tables /\ Bare \in [Slot -> Item \cup {NoItem}]
  BY DEF Sound, Bare
<1>2. /\ f \in [Character -> [Slot -> Item \cup {NoItem}]] /\ f[c] = Bare
      /\ \A o \in Character : o # c => f[o] = d.bag[o]
  BY <1>1, TablesHave
<1>3. x = [d EXCEPT !.bag = f]
  BY DEF NoBag
<1> HIDE DEF f, x
<1>4. x \in Tables /\ x.bag = f /\ x.instance = d.instance /\ x.mail = d.mail /\ x.next = d.next
  BY <1>1, <1>2, <1>3, SetBag
<1>5. \A t \in Slot : f[c][t] = NoItem
  BY <1>2 DEF Bare
<1>6. Backed(x)
  <2> SUFFICES ASSUME NEW o \in Character, NEW t \in Slot, x.bag[o][t] # NoItem
               PROVE  /\ x.instance[x.bag[o][t]] # NoRow
                      /\ x.instance[x.bag[o][t]].owner = o
                      /\ \A o1 \in Character, t1 \in Slot : x.bag[o1][t1] = x.bag[o][t] => o1 = o /\ t1 = t
                      /\ \A m \in x.mail : m.item # x.bag[o][t]
    BY DEF Backed
  <2>1. o # c /\ d.bag[o][t] # NoItem /\ x.bag[o][t] = d.bag[o][t]
    BY <1>2, <1>4, <1>5
  <2>2. /\ d.instance[d.bag[o][t]] # NoRow /\ d.instance[d.bag[o][t]].owner = o
        /\ \A o1 \in Character, t1 \in Slot : d.bag[o1][t1] = d.bag[o][t] => o1 = o /\ t1 = t
        /\ \A m \in d.mail : m.item # d.bag[o][t]
    BY <2>1 DEF Sound, Backed
  <2>3. \A o1 \in Character, t1 \in Slot : x.bag[o1][t1] = d.bag[o][t] => d.bag[o1][t1] = d.bag[o][t]
    BY <1>2, <1>4, <1>5, <2>1
  <2> QED BY <1>4, <2>1, <2>2, <2>3
<1>7. Sound(x)
  BY <1>4, <1>6 DEF Sound, Fresh
<1>8. \A o \in Character : o # c => Kept(d, x, o)
  BY <1>2, <1>4 DEF Kept
<1>9. ASSUME NEW e \in Entry PROVE Held(x, c)[e] = 0
  <2>1. /\ StacksOf(x, c, e) \in [Slot -> Nat] /\ \A t \in Slot : StacksOf(x, c, e)[t] = 0
        /\ Held(x, c)[e] = SumFunctionOnSet(StacksOf(x, c, e), Slot)
    BY <1>4, <1>5, <1>7, Stacks
  <2>2. IsFiniteSet(Slot)
    BY Constants
  <2> QED BY <2>1, <2>2, SumOfNone
<1> QED BY <1>2, <1>4, <1>7, <1>8, <1>9 DEF x

LEMMA Saved ==
  ASSUME NEW d, Sound(d), NEW c \in Character, NEW r \in SaveInventory(d, c)
  PROVE  /\ Sound(r.db) /\ r.rejected \in Nat
         /\ \A o \in Character : Kept(d, r.db, o)
<1> DEFINE bag == LoadBag0Inventory(d, c)
           kept == {bag[s] : s \in Slot}
           g == [i \in Item |-> IF d.instance[i] # NoRow /\ d.instance[i].owner = c /\ i \notin kept
                                THEN NoRow ELSE d.instance[i]]
           y == [d EXCEPT !.bag = [d.bag EXCEPT ![c] = bag]]
           x == [y EXCEPT !.instance = g]
<1>1. d \in Tables /\ bag = d.bag[c]
  BY LoadsAll DEF Sound
<1>2. y = d
  <2>1. [d.bag EXCEPT ![c] = bag] = d.bag
    BY <1>1, TablesHave
  <2> HIDE DEF bag
  <2> QED BY <1>1, <2>1 DEF Tables
<1>3. r = Result(d, FALSE, 1) \/ r = Result(x, TRUE, 0)
  BY DEF SaveInventory
<1>4. /\ g \in [Item -> Instance \cup {NoRow}]
      /\ \A i \in Item : g[i] = d.instance[i] \/ g[i] = NoRow
  BY <1>1, TablesHave
<1>5. ASSUME NEW o \in Character, NEW t \in Slot, d.bag[o][t] # NoItem
      PROVE  g[d.bag[o][t]] = d.instance[d.bag[o][t]]
  <2>1. d.bag[o][t] \in Item
    BY <1>1, <1>5, TablesHave
  <2>2. d.instance[d.bag[o][t]].owner = o
    BY <1>5 DEF Sound, Backed
  <2>3. o = c => d.bag[o][t] \in kept
    BY <1>1
  <2> QED BY <2>1, <2>2, <2>3
<1> HIDE DEF g, y
<1>6. Sound(x) /\ \A o \in Character : Kept(d, x, o)
  BY <1>2, <1>4, <1>5, Wiped
<1>7. \A o \in Character : Kept(d, d, o)
  BY DEF Kept
<1> HIDE DEF x
<1> QED BY <1>3, <1>6, <1>7 DEF Result

LEMMA Deleted ==
  ASSUME NEW d, Sound(d), NEW c \in Character, NEW r \in DeleteCharacter(d, c)
  PROVE  /\ Sound(r.db) /\ r.rejected \in Nat
         /\ \A o \in Character : o # c => Kept(d, r.db, o)
         /\ \A e \in Entry : Held(r.db, c)[e] =< Held(d, c)[e]
<1> DEFINE x == NoBag(d, c)
           y == NoInstances(x, c)
           z == [y EXCEPT !.mail = {m \in @ : m.receiver # c}]
<1>1. /\ Sound(x) /\ x.bag[c] = Bare /\ \A o \in Character : o # c => Kept(d, x, o)
      /\ \A e \in Entry : Held(x, c)[e] = 0
  BY Emptied
<1> HIDE DEF x
<1>2. Sound(y) /\ \A o \in Character : Kept(x, y, o)
  <2> DEFINE g == [i \in Item |-> IF x.instance[i] # NoRow /\ x.instance[i].owner = c
                                  THEN NoRow ELSE x.instance[i]]
  <2>1. y = [x EXCEPT !.instance = g]
    BY DEF NoInstances
  <2>2. /\ g \in [Item -> Instance \cup {NoRow}]
        /\ \A i \in Item : g[i] = x.instance[i] \/ g[i] = NoRow
    BY <1>1, TablesHave DEF Sound
  <2>3. ASSUME NEW o \in Character, NEW t \in Slot, x.bag[o][t] # NoItem
        PROVE  g[x.bag[o][t]] = x.instance[x.bag[o][t]]
    <3>1. x.bag[o][t] \in Item
      BY <1>1, <2>3, TablesHave DEF Sound
    <3>2. x.instance[x.bag[o][t]].owner = o
      BY <1>1, <2>3 DEF Sound, Backed
    <3>3. x.bag[c][t] = NoItem
      BY <1>1 DEF Bare
    <3>4. o # c
      BY <2>3, <3>3
    <3> QED BY <3>1, <3>2, <3>4
  <2> HIDE DEF g, y
  <2> QED BY <1>1, <2>1, <2>2, <2>3, Wiped
<1> HIDE DEF y
<1>3. Sound(z) /\ \A o \in Character : Kept(y, z, o)
  <2>1. {m \in y.mail : m.receiver # c} \in SUBSET y.mail
    OBVIOUS
  <2> QED BY <1>2, <2>1, LessMail
<1> HIDE DEF z
<1>4. Held(y, c) = Held(x, c) /\ Held(z, c) = Held(y, c)
  BY <1>1, <1>2, <1>3, HeldSame
<1>5. \A o \in Character : o # c => Kept(d, d, o) /\ Kept(d, y, o) /\ Kept(d, z, o)
  <2>1. \A o \in Character : Kept(d, d, o)
    BY DEF Kept
  <2>2. \A o \in Character : o # c => Kept(d, y, o)
    BY <1>1, <1>2, KeptOn
  <2> QED BY <1>3, <2>1, <2>2, KeptOn
<1>6. \/ r = Result(d, FALSE, 1) \/ r = Result(x, FALSE, 1)
      \/ r = Result(y, FALSE, 1) \/ r = Result(z, TRUE, 0)
  BY DEF DeleteCharacter, x, y, z
<1>7. r.db \in {d, x, y, z} /\ (r.rejected = 0 \/ r.rejected = 1)
  <2>1. CASE r = Result(d, FALSE, 1)
    BY <2>1 DEF Result
  <2>2. CASE r = Result(x, FALSE, 1)
    BY <2>2 DEF Result
  <2>3. CASE r = Result(y, FALSE, 1)
    BY <2>3 DEF Result
  <2>4. CASE r = Result(z, TRUE, 0)
    BY <2>4 DEF Result
  <2> QED BY <1>6, <2>1, <2>2, <2>3, <2>4
<1>8. \A e \in Entry : Held(r.db, c)[e] =< Held(d, c)[e]
  <2>1. \A e \in Entry : Held(d, c)[e] \in Nat
    BY Stacks
  <2> QED BY <1>1, <1>4, <1>7, <2>1
<1>9. Sound(r.db) /\ \A o \in Character : o # c => Kept(d, r.db, o)
  BY <1>1, <1>2, <1>3, <1>5, <1>7
<1> QED BY <1>7, <1>8, <1>9

LEMMA Equipped ==
  ASSUME NEW d, Sound(d), NEW c \in Character, NEW src \in PackSlot,
         NEW r \in AutoEquipFromBag0Slot(d, c, src)
  PROVE  /\ Sound(r.db) /\ r.rejected \in Nat /\ Held(r.db, c) = Held(d, c)
         /\ \A o \in Character : o # c => Kept(d, r.db, o)
         /\ ~r.ok => r.db = d
<1> DEFINE i == d.bag[c][src]
           e == d.instance[i].entry
           dst == PickAutoEquipDestination(d.bag[c], e)
<1>1. LoadBag0Inventory(d, c) = d.bag[c] /\ src \in Slot
  BY LoadsAll, Constants
<1>2. CASE i = NoItem \/ Fits[e] = <<>>
  <2>1. r = Result(d, FALSE, 0)
    BY <1>1, <1>2 DEF AutoEquipFromBag0Slot
  <2>2. \A o \in Character : Kept(d, d, o)
    BY DEF Kept
  <2> QED BY <2>1, <2>2 DEF Result
<1>3. CASE ~(i = NoItem \/ Fits[e] = <<>>)
  <2>1. r \in SwapBag0Slots(d, c, src, dst)
    BY <1>1, <1>3 DEF AutoEquipFromBag0Slot
  <2>2. e \in Entry
    BY <1>1, <1>3, StackSize DEF Instance
  <2> DEFINE f == Fits[e]
             free == {k \in DOMAIN f : d.bag[c][f[k]] = NoItem}
  <2>3. f \in Seq(EquipSlot) /\ f # <<>>
    BY <1>3, <2>2, InventoryAssumption
  <2> HIDE DEF f
  <2>4. DOMAIN f = 1 .. Len(f) /\ Len(f) \in Nat /\ Len(f) > 0 /\ \A k \in DOMAIN f : f[k] \in EquipSlot
    BY <2>3
  <2>5. free # {} => Min(free) \in free
    <3>1. free \in SUBSET Nat
      BY <2>4
    <3> QED BY <3>1, MinIsMember
  <2>6. dst \in EquipSlot
    <3>1. dst = IF free # {} THEN f[Min(free)] ELSE f[1]
      BY DEF PickAutoEquipDestination, f
    <3>2. 1 \in DOMAIN f
      BY <2>4
    <3> QED BY <2>4, <2>5, <3>1, <3>2
  <2>7. dst \in Slot /\ src # dst
    BY <2>6, Constants
  <2> QED BY <1>1, <2>1, <2>7, Moved
<1> QED BY <1>2, <1>3

LEMMA Destroyed ==
  ASSUME NEW d, Sound(d), NEW c \in Character, NEW s \in Slot, NEW want \in Nat,
         StackAt(d, c, s) > 0, NEW r \in DestroyBag0BackpackItem(d, c, s, want)
  PROVE  /\ Sound(r.db) /\ r.rejected \in Nat
         /\ \A o \in Character : o # c => Kept(d, r.db, o)
         /\ ~r.ok => r.db = d
         /\ Taken(StackAt(d, c, s), want) \in Nat
         /\ r.ok => \A e \in Entry :
              Held(r.db, c)[e] = IF e = d.instance[d.bag[c][s]].entry
                                 THEN Held(d, c)[e] - Taken(StackAt(d, c, s), want)
                                 ELSE Held(d, c)[e]
<1> DEFINE n == Taken(StackAt(d, c, s), want)
           x == TakeFrom(d, c, s, n)
<1>1. n \in Nat \ {0} /\ n =< StackAt(d, c, s)
  <2>1. StackAt(d, c, s) \in Nat
    BY StackSize
  <2> QED BY <2>1 DEF Taken, Less
<1>2. r = Result(d, FALSE, 1) \/ r = Result(x, TRUE, 0)
  <2>1. StackAt(d, c, s) # 0
    BY StackSize
  <2> HIDE DEF n, x
  <2>2. DestroyBag0BackpackItem(d, c, s, want) = {Result(d, FALSE, 1), Result(x, TRUE, 0)}
    BY <2>1, Zenon DEF DestroyBag0BackpackItem, n, x
  <2> QED BY <2>2
<1> HIDE DEF n
<1>3. /\ Sound(x) /\ x.next = d.next
      /\ \A o \in Character : o # c => Kept(d, x, o)
      /\ \A e \in Entry : Held(x, c)[e] = IF e = d.instance[d.bag[c][s]].entry
                                         THEN Held(d, c)[e] - n ELSE Held(d, c)[e]
  BY <1>1, TakenFrom
<1> HIDE DEF x
<1>4. \A o \in Character : Kept(d, d, o)
  BY DEF Kept
<1>5. CASE r = Result(d, FALSE, 1)
  <2>1. r.db = d /\ ~r.ok /\ r.rejected = 1
    BY <1>5 DEF Result
  <2> QED BY <1>1, <1>4, <2>1 DEF n
<1>6. CASE r = Result(x, TRUE, 0)
  <2>1. r.db = x /\ r.ok /\ r.rejected = 0
    BY <1>6 DEF Result
  <2> QED BY <1>1, <1>3, <2>1 DEF n
<1> QED BY <1>2, <1>5, <1>6

\* What stack after stack was taken so far.
Removing(d, c, e, want, r) ==
  /\ DOMAIN r = {"db", "left", "rejected"} /\ r.rejected = 0
  /\ Sound(r.db) /\ r.left \in 0 .. want
  /\ \A o \in Character : o # c => Kept(d, r.db, o)
  /\ \A x \in Entry : Held(r.db, c)[x] = IF x = e THEN Held(d, c)[x] - (want - r.left)
                                         ELSE Held(d, c)[x]
  /\ r.left = want => r.db = d

LEMMA TakesFirst ==
  ASSUME NEW d, Sound(d), NEW c \in Character, NEW e \in Entry, NEW want \in Nat,
         NEW r, Removing(d, c, e, want, r)
  PROVE  Removing(d, c, e, want, TakeFirst(r, c, e))
<1> DEFINE x == r.db
           found == {s \in PackSlot : StackAt(x, c, s) > 0 /\ x.instance[x.bag[c][s]].entry = e}
           s == Min(found)
           n == Less(StackAt(x, c, s), r.left)
           y == TakeFrom(x, c, s, n)
<1>1. CASE r.left = 0 \/ found = {}
  BY <1>1 DEF TakeFirst
<1>2. CASE ~(r.left = 0 \/ found = {})
  <2>1. s \in found
    BY <1>2, MinIsMember, Constants
  <2> HIDE DEF s
  <2>2. s \in Slot /\ StackAt(x, c, s) > 0 /\ x.instance[x.bag[c][s]].entry = e
    BY <2>1, Constants
  <2>3. Sound(x) /\ r.left \in Nat /\ r.left > 0 /\ StackAt(x, c, s) \in Nat /\ r.left =< want
    <3>1. Sound(x) /\ r.left \in 0 .. want
      BY DEF Removing
    <3>2. StackAt(x, c, s) \in Nat
      BY <2>2, <3>1, StackSize
    <3> QED BY <1>2, <3>1, <3>2
  <2>4. n \in Nat \ {0} /\ n =< StackAt(x, c, s) /\ n =< r.left
    BY <2>2, <2>3 DEF Less
  <2>5. TakeFirst(r, c, e) = [r EXCEPT !.db = y, !.left = r.left - n]
    BY <1>2 DEF TakeFirst, s
  <2> HIDE DEF n
  <2>6. /\ Sound(y) /\ y.next = x.next
        /\ \A o \in Character : o # c => Kept(x, y, o)
        /\ \A e1 \in Entry : Held(y, c)[e1] = IF e1 = x.instance[x.bag[c][s]].entry
                                              THEN Held(x, c)[e1] - n ELSE Held(x, c)[e1]
    BY <2>2, <2>3, <2>4, TakenFrom
  <2> HIDE DEF y
  <2> DEFINE q == TakeFirst(r, c, e)
  <2>7. DOMAIN r = {"db", "left", "rejected"} /\ r.rejected = 0
    BY DEF Removing
  <2> HIDE DEF found
  <2>8. /\ DOMAIN q = {"db", "left", "rejected"} /\ q.rejected = 0
        /\ q.db = y /\ q.left = r.left - n
    BY <2>5, <2>7
  <2> HIDE DEF q
  <2>9. q.left \in 0 .. want /\ q.left # want
    BY <2>3, <2>4, <2>8
  <2>10. \A o \in Character : o # c => Kept(d, y, o)
    BY <2>6, KeptOn DEF Removing
  <2>11. ASSUME NEW z \in Entry
         PROVE  Held(y, c)[z] = IF z = e THEN Held(d, c)[z] - (want - q.left) ELSE Held(d, c)[z]
    <3>1. Held(d, c)[z] \in Nat
      BY Stacks
    <3>2. Held(x, c)[z] = IF z = e THEN Held(d, c)[z] - (want - r.left) ELSE Held(d, c)[z]
      BY DEF Removing
    <3>3. Held(y, c)[z] = IF z = e THEN Held(x, c)[z] - n ELSE Held(x, c)[z]
      BY <2>2, <2>6
    <3> QED BY <2>3, <2>4, <2>8, <3>1, <3>2, <3>3
  <2> QED BY <2>6, <2>8, <2>9, <2>10, <2>11 DEF Removing, q
<1> QED BY <1>1, <1>2

\* The passes of the loop, up to the n-th.
Passes(g, n, d, c, e, want) ==
  g = [k \in 0 .. n |-> IF k = 0 THEN [db |-> d, left |-> want, rejected |-> 0]
                        ELSE TakeFirst(g[k - 1], c, e)]

LEMMA PassesExist ==
  ASSUME NEW n \in Nat, NEW d, NEW c, NEW e, NEW want
  PROVE  \E g : Passes(g, n, d, c, e, want)
<1> DEFINE P(g, m) == Passes(g, m, d, c, e, want)
           Done == {m \in Nat : \E g : P(g, m)}
           r0 == [db |-> d, left |-> want, rejected |-> 0]
<1>1. 0 \in Done
  <2>1. 0 .. 0 = {0}
    OBVIOUS
  <2>2. P([k \in 0 .. 0 |-> r0], 0)
    BY <2>1 DEF Passes
  <2> QED BY <2>2
<1>2. ASSUME NEW m \in Done PROVE m + 1 \in Done
  <2>1. PICK g : P(g, m)
    OBVIOUS
  <2>2. m \in Nat /\ m + 1 \in Nat
    OBVIOUS
  <2> DEFINE h == [k \in 0 .. (m + 1) |-> IF k = 0 THEN r0 ELSE TakeFirst(g[k - 1], c, e)]
  <2>3. \A k \in 0 .. m : h[k] = g[k]
    BY <2>1, <2>2 DEF Passes
  <2>4. \A k \in 0 .. (m + 1) : k # 0 => k - 1 \in 0 .. m
    BY <2>2
  <2>5. h = [k \in 0 .. (m + 1) |-> IF k = 0 THEN r0 ELSE TakeFirst(h[k - 1], c, e)]
    <3>1. \A k \in 0 .. (m + 1) : k # 0 => g[k - 1] = h[k - 1]
      BY <2>3, <2>4
    <3> QED BY <3>1
  <2>6. P(h, m + 1)
    BY <2>5, Zenon DEF Passes
  <2> QED BY <2>2, <2>6
<1>3. Done = Nat
  <2>1. Done \in SUBSET Nat
    OBVIOUS
  <2> HIDE DEF Done
  <2> QED BY <1>1, <1>2, <2>1, CountUp
<1> QED BY <1>3

LEMMA PassesRemove ==
  ASSUME NEW N \in Nat, NEW d, Sound(d), NEW c \in Character, NEW e \in Entry, NEW want \in Nat,
         NEW g, Passes(g, N, d, c, e, want)
  PROVE  \A k \in 0 .. N : Removing(d, c, e, want, g[k])
<1> DEFINE Ok == {k \in Nat : k =< N => Removing(d, c, e, want, g[k])}
<1>1. 0 \in Ok
  <2>1. g[0] = [db |-> d, left |-> want, rejected |-> 0]
    BY DEF Passes
  <2>2. \A o \in Character : Kept(d, d, o)
    BY DEF Kept
  <2>3. \A x \in Entry : Held(d, c)[x] \in Nat
    BY Stacks
  <2>4. Removing(d, c, e, want, g[0])
    BY <2>1, <2>2, <2>3 DEF Removing
  <2> QED BY <2>4
<1>2. ASSUME NEW k \in Ok PROVE k + 1 \in Ok
  <2>1. k \in Nat /\ k + 1 \in Nat
    OBVIOUS
  <2>2. ASSUME k + 1 =< N PROVE Removing(d, c, e, want, g[k + 1])
    <3>1. Removing(d, c, e, want, g[k])
      BY <2>1, <2>2
    <3>2. k + 1 \in 0 .. N /\ k + 1 # 0 /\ (k + 1) - 1 = k
      BY <2>1, <2>2
    <3>3. g[k + 1] = TakeFirst(g[k], c, e)
      BY <3>2 DEF Passes
    <3> QED BY <3>1, <3>3, TakesFirst
  <2> QED BY <2>1, <2>2
<1>3. Ok = Nat
  <2>1. Ok \in SUBSET Nat
    OBVIOUS
  <2> HIDE DEF Ok
  <2> QED BY <1>1, <1>2, <2>1, CountUp
<1> QED BY <1>3

LEMMA Removed ==
  ASSUME NEW d, Sound(d), NEW c \in Character, NEW e \in Entry, NEW want \in Nat,
         NEW r \in RemoveBag0ItemsByEntry(d, c, e, want)
  PROVE  /\ Sound(r.db) /\ r.rejected \in Nat /\ r.left \in 0 .. want
         /\ \A o \in Character : o # c => Kept(d, r.db, o)
         /\ \A x \in Entry : Held(r.db, c)[x] = IF x = e THEN Held(d, c)[x] - (want - r.left)
                                                ELSE Held(d, c)[x]
         /\ r.left = want => r.db = d
<1> DEFINE N == Cardinality(PackSlot)
           pass == CHOOSE g : g = [k \in 0 .. N |->
                     IF k = 0 THEN [db |-> d, left |-> want, rejected |-> 0]
                     ELSE TakeFirst(g[k - 1], c, e)]
<1>1. N \in Nat
  BY Constants, FS_CardinalityType
<1>2. \/ r = pass[N]
      \/ \E k \in 0 .. N - 1 : r = [pass[k] EXCEPT !.rejected = 1]
  BY DEF RemoveBag0ItemsByEntry
<1> HIDE DEF N
<1>3. Passes(pass, N, d, c, e, want)
  <2>1. PICK g : Passes(g, N, d, c, e, want)
    BY <1>1, PassesExist
  <2> QED BY <2>1, Zenon DEF Passes
<1> HIDE DEF pass
<1>4. \A k \in 0 .. N : Removing(d, c, e, want, pass[k])
  BY <1>1, <1>3, PassesRemove
<1>5. CASE r = pass[N]
  <2>1. Removing(d, c, e, want, r)
    BY <1>1, <1>4, <1>5
  <2>2. r.rejected = 0
    BY <2>1 DEF Removing
  <2> QED BY <2>1, <2>2 DEF Removing
<1>6. CASE \E k \in 0 .. N - 1 : r = [pass[k] EXCEPT !.rejected = 1]
  <2>1. PICK k \in 0 .. N - 1 : r = [pass[k] EXCEPT !.rejected = 1]
    BY <1>6
  <2> DEFINE q == pass[k]
  <2>2. Removing(d, c, e, want, q)
    BY <1>1, <1>4, <2>1
  <2> HIDE DEF q
  <2>3. DOMAIN q = {"db", "left", "rejected"}
    BY <2>2 DEF Removing
  <2>4. r.db = q.db /\ r.left = q.left /\ r.rejected = 1
    BY <2>1, <2>3 DEF q
  <2> QED BY <2>2, <2>4 DEF Removing
<1> QED BY <1>2, <1>5, <1>6

\* The ids of the starter items follow one another.
StarterId(d, k) == d.next + Cardinality({j \in Placed : j < k})

LEMMA StarterIds ==
  ASSUME NEW d \in Tables
  PROVE  /\ Placed \subseteq Nat /\ Cardinality(Placed) \in Nat
         /\ \A k \in Placed : /\ StarterId(d, k) \in Nat /\ d.next =< StarterId(d, k)
                              /\ StarterId(d, k) < d.next + Cardinality(Placed)
         /\ \A k, l \in Placed : StarterId(d, k) = StarterId(d, l) => k = l
<1> DEFINE Below(k) == {j \in Placed : j < k}
<1>1. Placed \subseteq Nat /\ IsFiniteSet(Placed)
  <2>1. Starter \in Seq([entry : Entry, bagOnly : BOOLEAN])
    BY InventoryAssumption
  <2>2. DOMAIN Starter = 1 .. Len(Starter) /\ Len(Starter) \in Nat
    BY <2>1
  <2>3. Placed \subseteq 1 .. Len(Starter)
    BY <2>2 DEF Placed
  <2>4. IsFiniteSet(1 .. Len(Starter))
    BY <2>2, FS_Interval
  <2>5. IsFiniteSet(Placed)
    BY <2>3, <2>4, FS_Subset
  <2> QED BY <2>2, <2>3, <2>5
<1>2. Cardinality(Placed) \in Nat
  BY <1>1, FS_CardinalityType
<1>3. d.next \in Nat
  BY TablesHave
<1>4. ASSUME NEW k \in Placed PROVE IsFiniteSet(Below(k)) /\ Cardinality(Below(k)) \in Nat
  BY <1>1, FS_Subset, FS_CardinalityType
<1>5. ASSUME NEW S \in SUBSET Placed, NEW k \in S
      PROVE  (\A j \in Below(k) : j \in S) => Cardinality(Below(k)) + 1 =< Cardinality(S)
  <2> SUFFICES ASSUME \A j \in Below(k) : j \in S PROVE Cardinality(Below(k)) + 1 =< Cardinality(S)
    OBVIOUS
  <2>1. IsFiniteSet(S) /\ Cardinality(S) \in Nat
    BY <1>1, FS_Subset, FS_CardinalityType
  <2>2. k \in Nat /\ k \notin Below(k)
    BY <1>1
  <2>3. Below(k) \subseteq S \ {k}
    BY <2>2
  <2>4. IsFiniteSet(S \ {k}) /\ Cardinality(S \ {k}) = Cardinality(S) - 1
    BY <2>1, FS_RemoveElement
  <2>5. Cardinality(Below(k)) =< Cardinality(S \ {k})
    BY <2>3, <2>4, FS_Subset
  <2>6. Cardinality(Below(k)) \in Nat
    BY <1>4
  <2> QED BY <2>1, <2>4, <2>5, <2>6
<1>6. ASSUME NEW k \in Placed PROVE Cardinality(Below(k)) + 1 =< Cardinality(Placed)
  BY <1>5
<1>7. ASSUME NEW k \in Placed, NEW l \in Placed, k < l
      PROVE  Cardinality(Below(k)) + 1 =< Cardinality(Below(l))
  <2>1. k \in Below(l) /\ Below(l) \in SUBSET Placed
    BY <1>7
  <2>2. k \in Nat /\ l \in Nat /\ \A j \in Placed : j \in Nat
    BY <1>1
  <2>3. \A j \in Below(k) : j \in Below(l)
    BY <1>7, <2>2
  <2> HIDE DEF Below
  <2> QED BY <1>5, <2>1, <2>3
<1>8. \A k \in Placed : StarterId(d, k) = d.next + Cardinality(Below(k))
  BY DEF StarterId
<1> HIDE DEF Below
<1>9. ASSUME NEW k \in Placed, NEW l \in Placed, StarterId(d, k) = StarterId(d, l) PROVE k = l
  <2>1. Cardinality(Below(k)) = Cardinality(Below(l))
    BY <1>3, <1>4, <1>8, <1>9
  <2>2. k \in Nat /\ l \in Nat
    BY <1>1
  <2>3. ~(k < l) /\ ~(l < k)
    BY <1>4, <1>7, <2>1
  <2> QED BY <2>2, <2>3
<1>10. ASSUME NEW k \in Placed
       PROVE  /\ StarterId(d, k) \in Nat /\ d.next =< StarterId(d, k)
              /\ StarterId(d, k) < d.next + Cardinality(Placed)
  BY <1>2, <1>3, <1>4, <1>6, <1>8
<1> QED BY <1>1, <1>2, <1>9, <1>10

LEMMA Started ==
  ASSUME NEW d, Sound(d), NEW c \in Character, d.next + Cardinality(Placed) =< MaxItems + 1,
         NEW r \in GrantStarterItems(d, c)
  PROVE  /\ Sound(r.db) /\ r.rejected \in Nat
         /\ \A o \in Character : o # c => Kept(d, r.db, o)
<1> DEFINE at(i) == {k \in Placed : StarterId(d, k) = i}
           in(s) == {k \in Placed : StarterPlace(k) = s}
           row(i) == [owner |-> c, entry |-> Starter[Min(at(i))].entry, count |-> 1]
           f == [i \in Item |-> IF at(i) = {} THEN d.instance[i] ELSE row(i)]
           bag == [s \in Slot |-> IF in(s) = {} THEN d.bag[c][s] ELSE StarterId(d, Min(in(s)))]
           g == [d.bag EXCEPT ![c] = bag]
           last == d.next + Cardinality(Placed)
           y == [d EXCEPT !.instance = f]
           z == [y EXCEPT !.bag = g]
           x == [z EXCEPT !.next = last]
<1>1. r = Result(d, FALSE, 1) \/ r = Result(x, TRUE, 0)
  BY DEF GrantStarterItems, StarterId
<1>2. d \in Tables /\ d.next \in Nat /\ Placed \subseteq Nat
  BY TablesHave, StarterIds DEF Sound
<1>0. /\ d.next \in 1 .. MaxItems + 1 /\ MaxItems \in Nat /\ Cardinality(Placed) \in Nat
      /\ \A i \in Item : i \in Nat
  BY <1>2, TablesHave, StarterIds, Constants
<1>3. ASSUME NEW k \in Placed
      PROVE  /\ StarterId(d, k) \in Item /\ d.next =< StarterId(d, k) /\ StarterId(d, k) < last
             /\ at(StarterId(d, k)) # {}
  <2>1. /\ StarterId(d, k) \in Nat /\ d.next =< StarterId(d, k)
        /\ StarterId(d, k) < d.next + Cardinality(Placed)
    BY <1>2, StarterIds
  <2>2. StarterId(d, k) \in Item
    BY <1>0, <2>1 DEF Item
  <2>3. at(StarterId(d, k)) # {}
    OBVIOUS
  <2> QED BY <2>1, <2>2, <2>3
<1>4. ASSUME NEW i \in Item, at(i) # {} PROVE row(i) \in Instance
  <2>1. Min(at(i)) \in Placed
    BY <1>2, <1>4, MinIsMember
  <2>2. Starter[Min(at(i))].entry \in Entry
    <3>1. Starter \in Seq([entry : Entry, bagOnly : BOOLEAN])
      BY InventoryAssumption
    <3>2. \A k \in DOMAIN Starter : Starter[k].entry \in Entry
      <4> DEFINE T == [entry : Entry, bagOnly : BOOLEAN]
      <4>1. \A q \in T : q.entry \in Entry
        OBVIOUS
      <4> HIDE DEF T
      <4>2. Starter \in Seq(T)
        BY <3>1 DEF T
      <4>3. \A k \in DOMAIN Starter : Starter[k] \in T
        BY <4>2
      <4> QED BY <4>1, <4>3
    <3>3. Placed \subseteq DOMAIN Starter
      BY DEF Placed
    <3> QED BY <2>1, <3>2, <3>3
  <2> QED BY <2>2 DEF Instance
<1>5. ASSUME NEW s \in Slot, in(s) # {}
      PROVE  Min(in(s)) \in Placed /\ StarterPlace(Min(in(s))) = s
  <2>1. in(s) \in SUBSET Nat
    BY <1>2
  <2> QED BY <1>5, <2>1, MinIsMember
<1>6. \A i \in Item : i < d.next => at(i) = {}
  BY <1>0, <1>3
<1>7. \A i \in Item : i >= last => at(i) = {}
  <2>1. last \in Nat
    BY <1>0
  <2> QED BY <1>0, <1>3, <2>1
<1> HIDE DEF at
<1>8. f \in [Item -> Instance \cup {NoRow}] /\ \A i \in Item : at(i) = {} => f[i] = d.instance[i]
  BY <1>2, <1>4, TablesHave
<1>9. \A i \in Item : at(i) # {} => f[i] # NoRow /\ f[i].owner = c
  BY <1>4, Constants
<1> HIDE DEF f, row
<1>10. /\ bag \in [Slot -> Item \cup {NoItem}]
       /\ \A s \in Slot : bag[s] = d.bag[c][s] \/ (in(s) # {} /\ bag[s] = StarterId(d, Min(in(s))))
  <2>1. \A s \in Slot : d.bag[c][s] \in Item \cup {NoItem}
    BY <1>2, TablesHave
  <2>2. \A s \in Slot : in(s) # {} => StarterId(d, Min(in(s))) \in Item
    BY <1>3, <1>5
  <2> HIDE DEF in
  <2> QED BY <2>1, <2>2
<1> HIDE DEF bag, in
<1>11. /\ g \in [Character -> [Slot -> Item \cup {NoItem}]] /\ g[c] = bag
       /\ \A o \in Character : o # c => g[o] = d.bag[o]
  BY <1>2, <1>10, TablesHave
<1> HIDE DEF g
<1>12. last \in 1 .. MaxItems + 1 /\ last \in Nat /\ d.next =< last
  <2>1. Cardinality(Placed) \in Nat /\ d.next \in 1 .. MaxItems + 1
    BY <1>2, StarterIds, TablesHave
  <2> QED BY <2>1, Constants
<1> HIDE DEF last
<1>13. y \in Tables /\ y.instance = f /\ y.bag = d.bag /\ y.mail = d.mail
  BY <1>2, <1>8, SetInstance
<1> HIDE DEF y
<1>14. z \in Tables /\ z.instance = f /\ z.bag = g /\ z.mail = d.mail
  BY <1>11, <1>13, SetBag
<1> HIDE DEF z
<1>15. x \in Tables /\ x.instance = f /\ x.bag = g /\ x.mail = d.mail /\ x.next = last
  BY <1>12, <1>14, SetNext
<1> HIDE DEF x
\* what lay in a bag before has an older id
<1>16. ASSUME NEW o \in Character, NEW t \in Slot, d.bag[o][t] # NoItem
       PROVE  /\ d.bag[o][t] \in Item /\ d.bag[o][t] < d.next
              /\ f[d.bag[o][t]] = d.instance[d.bag[o][t]]
  <2>1. d.bag[o][t] \in Item /\ d.bag[o][t] \in Nat
    <3>1. d.bag[o][t] \in Item \cup {NoItem}
      BY <1>2, TablesHave
    <3> QED BY <1>0, <1>16, <3>1
  <2>2. d.bag[o][t] < d.next
    BY <1>2, <1>16, <2>1 DEF Sound, Backed, Fresh
  <2> QED BY <1>6, <1>8, <2>1, <2>2
<1>17. \A o \in Character : o # c => Kept(d, x, o)
  BY <1>11, <1>15, <1>16 DEF Kept
\* each row of the new bags is an old one, or a new item that is there once
<1>18. ASSUME NEW o \in Character, NEW t \in Slot
       PROVE  \/ g[o][t] = d.bag[o][t]
              \/ /\ o = c /\ in(t) # {} /\ g[o][t] = StarterId(d, Min(in(t)))
                 /\ g[o][t] \in Item /\ d.next =< g[o][t] /\ f[g[o][t]] # NoRow /\ f[g[o][t]].owner = c
  <2>1. CASE o # c
    BY <1>11, <2>1
  <2>2. CASE o = c
    <3>1. CASE bag[t] = d.bag[c][t]
      BY <1>11, <2>2, <3>1
    <3>2. CASE in(t) # {} /\ bag[t] = StarterId(d, Min(in(t)))
      <4>1. Min(in(t)) \in Placed
        BY <1>5, <3>2
      <4>2. bag[t] \in Item /\ d.next =< bag[t] /\ at(bag[t]) # {}
        BY <1>3, <3>2, <4>1
      <4> QED BY <1>9, <1>11, <2>2, <3>2, <4>2
    <3> QED BY <1>10, <3>1, <3>2
  <2> QED BY <2>1, <2>2
<1>19. Backed(x)
  <2> SUFFICES ASSUME NEW o \in Character, NEW t \in Slot, g[o][t] # NoItem
               PROVE  /\ f[g[o][t]] # NoRow /\ f[g[o][t]].owner = o
                      /\ \A o1 \in Character, t1 \in Slot : g[o1][t1] = g[o][t] => o1 = o /\ t1 = t
                      /\ \A m \in d.mail : m.item # g[o][t]
    BY <1>15 DEF Backed
  <2>1. CASE g[o][t] = d.bag[o][t]
    <3>1. /\ d.bag[o][t] # NoItem /\ d.bag[o][t] \in Item /\ d.bag[o][t] < d.next
          /\ f[d.bag[o][t]] = d.instance[d.bag[o][t]]
      BY <1>16, <2>1
    <3>2. /\ d.instance[d.bag[o][t]] # NoRow /\ d.instance[d.bag[o][t]].owner = o
          /\ \A o1 \in Character, t1 \in Slot : d.bag[o1][t1] = d.bag[o][t] => o1 = o /\ t1 = t
          /\ \A m \in d.mail : m.item # d.bag[o][t]
      BY <3>1 DEF Sound, Backed
    <3>3. ASSUME NEW o1 \in Character, NEW t1 \in Slot, g[o1][t1] = d.bag[o][t]
          PROVE  o1 = o /\ t1 = t
      <4>1. ~(d.next =< g[o1][t1])
        BY <1>0, <3>1, <3>3
      <4>2. d.bag[o1][t1] = d.bag[o][t]
        BY <1>18, <3>3, <4>1
      <4> QED BY <3>2, <4>2
    <3> QED BY <2>1, <3>1, <3>2, <3>3
  <2>2. CASE g[o][t] # d.bag[o][t]
    <3>1. /\ o = c /\ in(t) # {} /\ g[o][t] = StarterId(d, Min(in(t)))
          /\ g[o][t] \in Item /\ d.next =< g[o][t] /\ f[g[o][t]] # NoRow /\ f[g[o][t]].owner = c
      BY <1>18, <2>2
    <3>2. ASSUME NEW o1 \in Character, NEW t1 \in Slot, g[o1][t1] = g[o][t]
          PROVE  o1 = o /\ t1 = t
      <4>1. g[o1][t1] # NoItem
        BY <3>2
      <4>2. g[o1][t1] # d.bag[o1][t1]
        <5> SUFFICES ASSUME g[o1][t1] = d.bag[o1][t1] PROVE FALSE
          OBVIOUS
        <5>1. g[o1][t1] < d.next /\ g[o1][t1] \in Item
          BY <1>16, <4>1
        <5>2. d.next =< g[o1][t1]
          BY <3>1, <3>2
        <5> QED BY <1>0, <5>1, <5>2
      <4>3. o1 = c /\ in(t1) # {} /\ g[o1][t1] = StarterId(d, Min(in(t1)))
        BY <1>18, <4>2
      <4>4. Min(in(t)) \in Placed /\ Min(in(t1)) \in Placed
        BY <1>5, <3>1, <4>3
      <4>5. Min(in(t)) = Min(in(t1))
        BY <1>2, <3>1, <3>2, <4>3, <4>4, StarterIds
      <4> QED BY <1>5, <3>1, <4>3, <4>5
    <3>3. \A m \in d.mail : m.item # g[o][t]
      <4>1. \A m \in d.mail : m.item < d.next /\ m.item \in Item
        BY <1>2, TablesHave DEF Sound, Fresh
      <4> QED BY <1>0, <3>1, <4>1
    <3> QED BY <3>1, <3>2, <3>3
  <2> QED BY <2>1, <2>2
<1>20. Fresh(x)
  <2>1. ASSUME NEW i \in Item, i >= last PROVE f[i] = NoRow
    <3>1. at(i) = {} /\ i >= d.next
      BY <1>2, <1>7, <1>12, <2>1, Constants
    <3> QED BY <1>8, <3>1 DEF Sound, Fresh
  <2>2. ASSUME NEW m \in d.mail PROVE m.item < last
    <3>1. m.item \in Item /\ m.item < d.next
      BY <1>2, TablesHave DEF Sound, Fresh
    <3> QED BY <1>0, <1>12, <3>1
  <2> QED BY <1>15, <2>1, <2>2 DEF Fresh
<1>21. \A o \in Character : Kept(d, d, o)
  BY DEF Kept
<1> QED BY <1>1, <1>15, <1>17, <1>19, <1>20, <1>21 DEF Result, Sound

---------------------------------------------------------------------------
\* The inductive invariant.
\* A bag holds what was reported, and never more than that.
Reported(d, led, lives) ==
  /\ led \in [Character -> [Entry -> Nat]]
  /\ \A c \in Character, e \in Entry : Held(d, c)[e] =< led[c][e]
  /\ \A c \in Character : lives[c] \in {"new", "alive"} => Held(d, c) = led[c]

\* A client in the world shows the rows of the bag.
Shows(d, seen, playing, lives) ==
  \A c \in playing : lives[c] = "alive" => seen[c] = d.bag[c]

IInv ==
  /\ TypeOK
  /\ Sound(db)
  /\ \A c \in online : life[c] # "new"
  /\ Reported(db, ledger, life)
  /\ Shows(db, shown, online, life)

LEMMA ReportedOn ==
  ASSUME NEW d, Sound(d), NEW x, Sound(x), NEW c \in Character,
         \A o \in Character : o # c => Kept(d, x, o),
         NEW led, NEW lives, Reported(d, led, lives), NEW row \in [Entry -> Nat],
         NEW after, \A o \in Character : o # c => after[o] = lives[o],
         \A e \in Entry : Held(x, c)[e] =< row[e],
         after[c] \in {"new", "alive"} => Held(x, c) = row
  PROVE  Reported(x, [led EXCEPT ![c] = row], after)
<1> DEFINE new == [led EXCEPT ![c] = row]
<1>1. /\ new \in [Character -> [Entry -> Nat]] /\ new[c] = row
      /\ \A o \in Character : o # c => new[o] = led[o]
  BY DEF Reported
<1> HIDE DEF new
<1>2. \A o \in Character : o # c => Held(x, o) = Held(d, o)
  BY HeldSame
<1>3. ASSUME NEW o \in Character, NEW e \in Entry PROVE Held(x, o)[e] =< new[o][e]
  <2>1. CASE o = c
    BY <1>1, <2>1
  <2>2. CASE o # c
    BY <1>1, <1>2, <2>2 DEF Reported
  <2> QED BY <2>1, <2>2
<1>4. ASSUME NEW o \in Character, after[o] \in {"new", "alive"} PROVE Held(x, o) = new[o]
  <2>1. CASE o = c
    BY <1>1, <1>4, <2>1
  <2>2. CASE o # c
    BY <1>1, <1>2, <1>4, <2>2 DEF Reported
  <2> QED BY <2>1, <2>2
<1> QED BY <1>1, <1>3, <1>4 DEF Reported, new

LEMMA ReportedSame ==
  ASSUME NEW d, Sound(d), NEW x, Sound(x), NEW c \in Character, Held(x, c) = Held(d, c),
         \A o \in Character : o # c => Kept(d, x, o),
         NEW led, NEW lives, Reported(d, led, lives)
  PROVE  Reported(x, led, lives)
<1>1. led \in [Character -> [Entry -> Nat]] /\ led[c] \in [Entry -> Nat]
  BY DEF Reported
<1>2. [led EXCEPT ![c] = led[c]] = led
  BY <1>1
<1>3. /\ \A e \in Entry : Held(x, c)[e] =< led[c][e]
      /\ lives[c] \in {"new", "alive"} => Held(x, c) = led[c]
  BY DEF Reported
<1>4. Reported(x, [led EXCEPT ![c] = led[c]], lives)
  BY <1>1, <1>3, ReportedOn
<1> QED BY <1>2, <1>4

\* A request of one session: the tables become x, and the client is sent its
\* slots or the bag is the same.
LEMMA Answered ==
  ASSUME IInv, NEW c \in online, NEW x, Sound(x), db' = x,
         \A o \in Character : o # c => Kept(db, x, o),
         NEW k \in Nat, Rejects(k), UNCHANGED <<life, online>>,
         SendBag(c) \/ (shown' = shown /\ x.bag[c] = db.bag[c]),
         Reported(x, ledger', life)
  PROVE  IInv'
<1>1. c \in Character /\ online \subseteq Character
  BY DEF IInv, TypeOK
<1>2. failures' \in 0 .. MaxFailures
  BY Constants DEF Rejects, IInv, TypeOK
<1>3. LoadBag0Inventory(x, c) = x.bag[c] /\ x.bag[c] \in [Slot -> Item \cup {NoItem}] /\ x \in Tables
  BY <1>1, LoadsAll, TablesHave DEF Sound
<1>4. \/ shown' = [shown EXCEPT ![c] = x.bag[c]]
      \/ shown' = shown /\ x.bag[c] = db.bag[c]
      \/ shown' = shown /\ life[c] # "alive"
  BY <1>3 DEF SendBag, Exists
<1>5. shown' \in [Character -> [Slot -> Item \cup {NoItem}]]
  BY <1>1, <1>3, <1>4 DEF IInv, TypeOK
<1>6. Shows(x, shown', online, life)
  <2> SUFFICES ASSUME NEW o \in online, life[o] = "alive" PROVE shown'[o] = x.bag[o]
    BY DEF Shows
  <2>1. shown[o] = db.bag[o] /\ shown \in [Character -> [Slot -> Item \cup {NoItem}]] /\ o \in Character
    BY <1>1 DEF IInv, TypeOK, Shows
  <2>2. CASE o = c
    BY <1>4, <2>1, <2>2
  <2>3. CASE o # c
    BY <1>4, <2>1, <2>3 DEF Kept
  <2> QED BY <2>2, <2>3
<1>7. ledger' \in [Character -> [Entry -> Nat]]
  BY DEF Reported
<1>8. TypeOK'
  BY <1>2, <1>3, <1>5, <1>7 DEF IInv, TypeOK
<1>9. \A o \in online' : life'[o] # "new"
  BY DEF IInv
<1> QED BY <1>6, <1>8, <1>9 DEF IInv

LEMMA Swap ==
  ASSUME IInv, NEW c \in Character, NEW src \in Slot, NEW dst \in Slot, src # dst,
         NEW r \in SwapBag0Slots(db, c, src, dst), c \in online, Answer(c, r), UNCHANGED ledger
  PROVE  IInv'
<1>1. /\ Sound(r.db) /\ r.rejected \in Nat /\ Held(r.db, c) = Held(db, c)
      /\ \A o \in Character : o # c => Kept(db, r.db, o)
      /\ ~r.ok => r.db = db
  BY Moved DEF IInv
<1>2. Reported(r.db, ledger', life)
  BY <1>1, ReportedSame DEF IInv
<1>3. SendBag(c) \/ (shown' = shown /\ r.db.bag[c] = db.bag[c])
  BY <1>1 DEF Answer
<1>4. db' = r.db /\ Rejects(r.rejected) /\ UNCHANGED <<life, online>>
  BY DEF Answer
<1> QED BY <1>1, <1>2, <1>3, <1>4, Answered

\* One lemma for each action.
LEMMA CreateStep ==
  ASSUME IInv, NEW c \in Character, HandleCharCreate(c)
  PROVE  IInv'
<1>1. PICK r \in GrantStarterItems(db, c) : Rejects(r.rejected) /\ db' = r.db
  BY DEF HandleCharCreate
<1>2. db.next + Cardinality(Placed) =< MaxItems + 1
  BY DEF HandleCharCreate
<1>3. /\ Sound(r.db) /\ r.rejected \in Nat
      /\ \A o \in Character : o # c => Kept(db, r.db, o)
  BY <1>2, Started DEF IInv
<1>4. /\ life[c] = "new" /\ life' = [life EXCEPT ![c] = "alive"]
      /\ ledger' = [ledger EXCEPT ![c] = Held(db', c)] /\ UNCHANGED <<online, shown>>
  BY DEF HandleCharCreate
<1>5. /\ life' \in [Character -> {"new", "alive", "asked", "gone"}]
      /\ \A o \in Character : o # c => life'[o] = life[o]
  BY <1>4 DEF IInv, TypeOK
<1>6. Held(r.db, c) \in [Entry -> Nat]
  BY <1>3, HeldType
<1> DEFINE row == Held(r.db, c)
<1>7. \A e \in Entry : row[e] =< row[e]
  BY <1>6
<1>8. Reported(r.db, [ledger EXCEPT ![c] = row], life')
  BY <1>3, <1>5, <1>6, <1>7, ReportedOn DEF IInv
<1>9. failures' \in 0 .. MaxFailures
  BY <1>1, <1>3, Constants DEF Rejects, IInv, TypeOK
<1>10. Shows(r.db, shown, online, life')
  <2> SUFFICES ASSUME NEW o \in online, life'[o] = "alive" PROVE shown[o] = r.db.bag[o]
    BY DEF Shows
  <2>1. o \in Character /\ o # c
    BY <1>4 DEF IInv, TypeOK
  <2> QED BY <1>3, <1>5, <2>1 DEF IInv, Shows, Kept
<1>11. \A o \in online : life'[o] # "new"
  BY <1>4, <1>5 DEF IInv, TypeOK
<1>12. TypeOK'
  BY <1>1, <1>3, <1>4, <1>5, <1>8, <1>9 DEF IInv, TypeOK, Reported, Sound
<1> QED BY <1>1, <1>3, <1>4, <1>8, <1>10, <1>11, <1>12 DEF IInv

LEMMA DeleteStep ==
  ASSUME IInv, NEW c \in Character, HandleCharDelete(c)
  PROVE  IInv'
<1>1. PICK r \in DeleteCharacter(db, c) :
        /\ Rejects(r.rejected) /\ db' = r.db
        /\ life' = [life EXCEPT ![c] = IF r.ok THEN "gone" ELSE "asked"]
  BY DEF HandleCharDelete
<1>2. UNCHANGED <<online, shown, ledger>>
  BY DEF HandleCharDelete
<1>3. /\ Sound(r.db) /\ r.rejected \in Nat
      /\ \A o \in Character : o # c => Kept(db, r.db, o)
      /\ \A e \in Entry : Held(r.db, c)[e] =< Held(db, c)[e]
  BY Deleted DEF IInv
<1>4. /\ life' \in [Character -> {"new", "alive", "asked", "gone"}]
      /\ life'[c] # "new" /\ life'[c] # "alive"
      /\ \A o \in Character : o # c => life'[o] = life[o]
  BY <1>1 DEF IInv, TypeOK
<1>5. ledger \in [Character -> [Entry -> Nat]] /\ ledger[c] \in [Entry -> Nat]
  BY DEF IInv, TypeOK
<1>6. \A e \in Entry : Held(r.db, c)[e] =< ledger[c][e]
  <2> SUFFICES ASSUME NEW e \in Entry PROVE Held(r.db, c)[e] =< ledger[c][e]
    OBVIOUS
  <2>1. Held(r.db, c)[e] \in Nat /\ Held(db, c)[e] \in Nat /\ ledger[c][e] \in Nat
    BY <1>3, <1>5, Stacks DEF IInv
  <2>2. Held(db, c)[e] =< ledger[c][e] /\ Held(r.db, c)[e] =< Held(db, c)[e]
    BY <1>3 DEF IInv, Reported
  <2> QED BY <2>1, <2>2
<1>7. Reported(r.db, [ledger EXCEPT ![c] = ledger[c]], life')
  BY <1>3, <1>4, <1>5, <1>6, ReportedOn DEF IInv
<1>8. [ledger EXCEPT ![c] = ledger[c]] = ledger
  BY <1>5
<1>9. failures' \in 0 .. MaxFailures
  BY <1>1, <1>3, Constants DEF Rejects, IInv, TypeOK
<1>10. Shows(r.db, shown, online, life')
  <2> SUFFICES ASSUME NEW o \in online, life'[o] = "alive" PROVE shown[o] = r.db.bag[o]
    BY DEF Shows
  <2>1. o \in Character /\ o # c
    BY <1>4 DEF IInv, TypeOK
  <2> QED BY <1>3, <1>4, <2>1 DEF IInv, Shows, Kept
<1>11. \A o \in online : life'[o] # "new"
  BY <1>4 DEF IInv, TypeOK
<1>12. TypeOK'
  BY <1>1, <1>2, <1>3, <1>4, <1>9 DEF IInv, TypeOK, Sound
<1> QED BY <1>1, <1>2, <1>3, <1>7, <1>8, <1>10, <1>11, <1>12 DEF IInv

LEMMA LoginStep ==
  ASSUME IInv, NEW c \in Character, HandlePlayerLogin(c)
  PROVE  IInv'
<1>1. /\ life[c] # "new" /\ c \notin online /\ online' = online \cup {c}
      /\ shown' = [shown EXCEPT ![c] = db.bag[c]]
      /\ UNCHANGED <<life, db, ledger, failures>>
  BY LoadsAll DEF HandlePlayerLogin, Exists, IInv
<1>2. db.bag[c] \in [Slot -> Item \cup {NoItem}]
  BY TablesHave DEF IInv, Sound
<1>3. /\ shown' \in [Character -> [Slot -> Item \cup {NoItem}]] /\ shown'[c] = db.bag[c]
      /\ \A o \in Character : o # c => shown'[o] = shown[o]
  BY <1>1, <1>2 DEF IInv, TypeOK
<1>4. Shows(db, shown', online', life)
  BY <1>1, <1>3 DEF IInv, TypeOK, Shows
<1>5. TypeOK'
  BY <1>1, <1>3 DEF IInv, TypeOK
<1> QED BY <1>1, <1>4, <1>5 DEF IInv

LEMMA ExitStep ==
  ASSUME IInv, NEW c \in Character, FinalizeWorldExit(c)
  PROVE  IInv'
<1>1. c \in online /\ online' = online \ {c} /\ shown' = [shown EXCEPT ![c] = Bare]
      /\ UNCHANGED <<life, ledger>>
  BY DEF FinalizeWorldExit
<1>2. /\ Sound(db') /\ failures' \in 0 .. MaxFailures
      /\ \A o \in Character : Kept(db, db', o)
  <2>1. CASE \E r \in SaveInventory(db, c) : Rejects(r.rejected) /\ db' = r.db
    <3>1. PICK r \in SaveInventory(db, c) : Rejects(r.rejected) /\ db' = r.db
      BY <2>1
    <3>2. Sound(r.db) /\ r.rejected \in Nat /\ \A o \in Character : Kept(db, r.db, o)
      BY Saved DEF IInv
    <3>3. failures' \in 0 .. MaxFailures
      BY <3>1, <3>2, Constants DEF Rejects, IInv, TypeOK
    <3> QED BY <3>1, <3>2, <3>3
  <2>2. CASE UNCHANGED <<db, failures>>
    BY <2>2 DEF IInv, TypeOK, Kept
  <2> QED BY <2>1, <2>2 DEF FinalizeWorldExit
<1>3. Held(db', c) = Held(db, c)
  BY <1>2, HeldSame DEF IInv
<1>4. Reported(db', ledger, life)
  BY <1>2, <1>3, ReportedSame DEF IInv
<1>5. /\ shown' \in [Character -> [Slot -> Item \cup {NoItem}]]
      /\ \A o \in Character : o # c => shown'[o] = shown[o]
  BY <1>1 DEF IInv, TypeOK, Bare
<1>6. Shows(db', shown', online', life)
  BY <1>1, <1>2, <1>5 DEF IInv, TypeOK, Shows, Kept
<1>7. TypeOK'
  BY <1>1, <1>2, <1>5 DEF IInv, TypeOK, Sound
<1> QED BY <1>1, <1>2, <1>4, <1>6, <1>7 DEF IInv

LEMMA SwapStep ==
  ASSUME IInv, NEW c \in Character, NEW src \in Slot, NEW dst \in Slot,
         HandleSwapInvItem(c, src, dst)
  PROVE  IInv'
<1>1. PICK r \in SwapBag0Slots(db, c, src, dst) : Answer(c, r)
  BY DEF HandleSwapInvItem
<1>2. c \in online /\ src # dst /\ UNCHANGED ledger
  BY DEF HandleSwapInvItem
<1> QED BY <1>1, <1>2, Swap

LEMMA AutoEquipSlotStep ==
  ASSUME IInv, NEW c \in Character, NEW item \in Item, NEW dst \in EquipSlot,
         HandleAutoEquipItemSlot(c, item, dst)
  PROVE  IInv'
<1>1. PICK src \in Slot : src # dst /\ \E r \in SwapBag0Slots(db, c, src, dst) : Answer(c, r)
  BY DEF HandleAutoEquipItemSlot
<1>2. PICK r \in SwapBag0Slots(db, c, src, dst) : Answer(c, r)
  BY <1>1
<1>3. c \in online /\ UNCHANGED ledger /\ dst \in Slot
  BY Constants DEF HandleAutoEquipItemSlot
<1> QED BY <1>1, <1>2, <1>3, Swap

LEMMA AutoEquipStep ==
  ASSUME IInv, NEW c \in Character, NEW src \in PackSlot, HandleAutoEquipItem(c, src)
  PROVE  IInv'
<1>1. PICK r \in AutoEquipFromBag0Slot(db, c, src) : Answer(c, r)
  BY DEF HandleAutoEquipItem
<1>2. c \in online /\ UNCHANGED ledger
  BY DEF HandleAutoEquipItem
<1>3. /\ Sound(r.db) /\ r.rejected \in Nat /\ Held(r.db, c) = Held(db, c)
      /\ \A o \in Character : o # c => Kept(db, r.db, o)
      /\ ~r.ok => r.db = db
  BY Equipped DEF IInv
<1>4. Reported(r.db, ledger', life)
  BY <1>2, <1>3, ReportedSame DEF IInv
<1>5. SendBag(c) \/ (shown' = shown /\ r.db.bag[c] = db.bag[c])
  BY <1>1, <1>3 DEF Answer
<1>6. db' = r.db /\ Rejects(r.rejected) /\ UNCHANGED <<life, online>>
  BY <1>1 DEF Answer
<1> QED BY <1>2, <1>3, <1>4, <1>5, <1>6, Answered

\* What is taken out of a bag is taken off what was reported.
LEMMA TakenOff ==
  ASSUME IInv, NEW c \in Character, NEW e \in Entry, NEW n \in Nat, NEW x, Sound(x),
         \A o \in Character : o # c => Kept(db, x, o),
         \A z \in Entry : Held(x, c)[z] = IF z = e THEN Held(db, c)[z] - n ELSE Held(db, c)[z]
  PROVE  Reported(x, [ledger EXCEPT ![c][e] = @ - n], life)
<1> DEFINE row == [ledger[c] EXCEPT ![e] = ledger[c][e] - n]
<1>1. ledger \in [Character -> [Entry -> Nat]] /\ ledger[c] \in [Entry -> Nat]
  BY DEF IInv, TypeOK
<1>2. ASSUME NEW z \in Entry
      PROVE  /\ Held(x, c)[z] \in Nat /\ Held(db, c)[z] \in Nat /\ ledger[c][z] \in Nat
             /\ Held(db, c)[z] =< ledger[c][z]
  BY <1>1, Stacks DEF IInv, Reported
<1>3. ledger[c][e] - n \in Nat
  BY <1>2
<1>4. /\ row \in [Entry -> Nat] /\ row[e] = ledger[c][e] - n
      /\ \A z \in Entry : z # e => row[z] = ledger[c][z]
  BY <1>1, <1>3
<1> HIDE DEF row
<1>5. \A z \in Entry : Held(x, c)[z] =< row[z]
  BY <1>2, <1>4
<1>6. ASSUME life[c] \in {"new", "alive"} PROVE Held(x, c) = row
  <2>1. Held(db, c) = ledger[c]
    BY <1>6 DEF IInv, Reported
  <2>2. \A z \in Entry : Held(x, c)[z] = row[z]
    BY <1>4, <2>1
  <2>3. Held(x, c) \in [Entry -> Nat]
    BY HeldType
  <2> QED BY <1>4, <2>2, <2>3
<1>7. Reported(x, [ledger EXCEPT ![c] = row], life)
  BY <1>4, <1>5, <1>6, ReportedOn DEF IInv
<1> QED BY <1>7 DEF row

LEMMA DestroyStep ==
  ASSUME IInv, NEW c \in Character, NEW s \in PackSlot, NEW want \in Count \cup {0},
         want \in Nat, HandleDestroyItem(c, s, want)
  PROVE  IInv'
<1> DEFINE e == db.instance[db.bag[c][s]].entry
           n == Taken(StackAt(db, c, s), want)
<1>1. c \in online /\ StackAt(db, c, s) > 0 /\ s \in Slot
  BY Constants DEF HandleDestroyItem
<1>2. PICK r \in DestroyBag0BackpackItem(db, c, s, want) :
        /\ Answer(c, r)
        /\ ledger' = IF r.ok THEN [ledger EXCEPT ![c][e] = @ - n] ELSE ledger
  BY DEF HandleDestroyItem
<1>3. /\ Sound(r.db) /\ r.rejected \in Nat
      /\ \A o \in Character : o # c => Kept(db, r.db, o)
      /\ ~r.ok => r.db = db
      /\ n \in Nat
      /\ r.ok => \A z \in Entry : Held(r.db, c)[z] = IF z = e THEN Held(db, c)[z] - n
                                                     ELSE Held(db, c)[z]
  BY <1>1, Destroyed DEF IInv
<1>4. e \in Entry
  <2>1. db.bag[c][s] # NoItem
    BY <1>1, StackSize DEF IInv
  <2> QED BY <1>1, <2>1, StackSize DEF IInv, Instance
<1> HIDE DEF e, n
<1>5. Reported(r.db, ledger', life)
  <2>1. CASE r.ok
    BY <1>2, <1>3, <1>4, <2>1, TakenOff
  <2>2. CASE ~r.ok
    BY <1>2, <1>3, <2>2 DEF IInv
  <2> QED BY <2>1, <2>2
<1>6. SendBag(c) \/ (shown' = shown /\ r.db.bag[c] = db.bag[c])
  BY <1>2, <1>3 DEF Answer
<1>7. db' = r.db /\ Rejects(r.rejected) /\ UNCHANGED <<life, online>>
  BY <1>2 DEF Answer
<1> QED BY <1>1, <1>3, <1>5, <1>6, <1>7, Answered

LEMMA GmAddStep ==
  ASSUME IInv, NEW c \in Character, NEW e \in Entry, NEW n \in Count, n \in Nat \ {0},
         GmAddItem(c, e, n)
  PROVE  IInv'
<1>1. c \in online /\ db.next + 1 =< MaxItems
  BY DEF GmAddItem
<1>2. PICK r \in GrantItemToBag0(db, c, e, n) :
       \/ /\ r.ok
          /\ Answer(c, r)
          /\ ledger' = [ledger EXCEPT ![c][e] = @ + n]
       \/ /\ ~r.ok
          /\ \E m \in SendGmMailWithItem(r.db, c, e, n) :
               Answer(c, Result(m.db, FALSE, r.rejected + m.rejected))
          /\ UNCHANGED ledger
  BY DEF GmAddItem
<1>3. db.next \in Nat /\ db.next =< MaxItems
  BY <1>1, TablesHave, Constants DEF IInv, Sound
<1>4. /\ Sound(r.db) /\ r.db.next =< db.next + 1 /\ r.rejected \in Nat
      /\ \A o \in Character : o # c => Kept(db, r.db, o)
      /\ ~r.ok => Kept(db, r.db, c)
      /\ r.ok => \A z \in Entry : Held(r.db, c)[z] = IF z = e THEN Held(db, c)[z] + n
                                                     ELSE Held(db, c)[z]
  BY <1>3, Granted DEF IInv
<1>5. CASE r.ok
  <2>1. Answer(c, r) /\ ledger' = [ledger EXCEPT ![c][e] = @ + n]
    BY <1>2, <1>5
  <2> DEFINE row == [ledger[c] EXCEPT ![e] = ledger[c][e] + n]
  <2>2. ledger \in [Character -> [Entry -> Nat]] /\ ledger[c] \in [Entry -> Nat]
    BY DEF IInv, TypeOK
  <2>3. ASSUME NEW z \in Entry
        PROVE  /\ Held(db, c)[z] \in Nat /\ ledger[c][z] \in Nat
               /\ Held(db, c)[z] =< ledger[c][z]
    BY <2>2, Stacks DEF IInv, Reported
  <2>4. /\ row \in [Entry -> Nat] /\ row[e] = ledger[c][e] + n
        /\ \A z \in Entry : z # e => row[z] = ledger[c][z]
    BY <2>2
  <2> HIDE DEF row
  <2>5. \A z \in Entry : Held(r.db, c)[z] =< row[z]
    BY <1>4, <1>5, <2>3, <2>4
  <2>6. ASSUME life[c] \in {"new", "alive"} PROVE Held(r.db, c) = row
    <3>1. Held(db, c) = ledger[c]
      BY <2>6 DEF IInv, Reported
    <3>2. \A z \in Entry : Held(r.db, c)[z] = row[z]
      BY <1>4, <1>5, <2>4, <3>1
    <3>3. Held(r.db, c) \in [Entry -> Nat]
      BY <1>4, HeldType
    <3> QED BY <2>4, <3>2, <3>3
  <2>7. Reported(r.db, [ledger EXCEPT ![c] = row], life)
    BY <1>4, <2>4, <2>5, <2>6, ReportedOn DEF IInv
  <2>8. Reported(r.db, ledger', life)
    BY <2>1, <2>7 DEF row
  <2>9. db' = r.db /\ Rejects(r.rejected) /\ UNCHANGED <<life, online>> /\ SendBag(c)
    BY <1>5, <2>1 DEF Answer
  <2> QED BY <1>1, <1>4, <2>8, <2>9, Answered
<1>6. CASE ~r.ok
  <2>1. PICK m \in SendGmMailWithItem(r.db, c, e, n) :
          Answer(c, Result(m.db, FALSE, r.rejected + m.rejected))
    BY <1>2, <1>6
  <2>2. UNCHANGED ledger
    BY <1>2, <1>6
  <2>3. r.db.next =< MaxItems
    <3>1. r.db.next \in Nat
      BY <1>4, TablesHave DEF Sound
    <3> QED BY <1>1, <1>3, <1>4, <3>1, Constants
  <2>4. Sound(m.db) /\ m.rejected \in Nat /\ \A o \in Character : Kept(r.db, m.db, o)
    BY <1>4, <2>3, Mailed
  <2>5. \A o \in Character : Kept(db, m.db, o)
    BY <1>4, <1>6, <2>4, KeptOn
  <2>6. Held(m.db, c) = Held(db, c)
    BY <2>4, <2>5, HeldSame DEF IInv
  <2>7. Reported(m.db, ledger', life)
    BY <2>2, <2>4, <2>5, <2>6, ReportedSame DEF IInv
  <2> DEFINE k == r.rejected + m.rejected
  <2>8. k \in Nat
    BY <1>4, <2>4
  <2> HIDE DEF k
  <2>9. Answer(c, Result(m.db, FALSE, k))
    BY <2>1 DEF k
  <2>10. db' = m.db /\ Rejects(k) /\ UNCHANGED <<life, online>> /\ shown' = shown
    BY <2>9 DEF Answer, Result
  <2>11. m.db.bag[c] = db.bag[c]
    BY <2>5 DEF Kept
  <2> QED BY <1>1, <2>4, <2>5, <2>7, <2>8, <2>10, <2>11, Answered
<1> QED BY <1>5, <1>6

LEMMA GmRemoveStep ==
  ASSUME IInv, NEW c \in Character, NEW e \in Entry, NEW n \in Count, n \in Nat \ {0},
         GmRemoveItem(c, e, n)
  PROVE  IInv'
<1>1. PICK r \in RemoveBag0ItemsByEntry(db, c, e, n) :
       /\ Answer(c, Result(r.db, r.left < n, r.rejected))
       /\ ledger' = [ledger EXCEPT ![c][e] = @ - (n - r.left)]
  BY DEF GmRemoveItem
<1>2. c \in online
  BY DEF GmRemoveItem
<1>3. /\ Sound(r.db) /\ r.rejected \in Nat /\ r.left \in 0 .. n
      /\ \A o \in Character : o # c => Kept(db, r.db, o)
      /\ \A z \in Entry : Held(r.db, c)[z] = IF z = e THEN Held(db, c)[z] - (n - r.left)
                                             ELSE Held(db, c)[z]
      /\ r.left = n => r.db = db
  BY Removed DEF IInv
<1> DEFINE k == n - r.left
<1>4. k \in Nat
  BY <1>3
<1> HIDE DEF k
<1>5. Reported(r.db, ledger', life)
  <2>1. ledger' = [ledger EXCEPT ![c][e] = @ - k]
    BY <1>1 DEF k
  <2>2. \A z \in Entry : Held(r.db, c)[z] = IF z = e THEN Held(db, c)[z] - k ELSE Held(db, c)[z]
    BY <1>3 DEF k
  <2> QED BY <1>3, <1>4, <2>1, <2>2, TakenOff
<1> DEFINE some == r.left < n
<1>6. ~some => r.left = n
  BY <1>3
<1>7. Answer(c, Result(r.db, some, r.rejected))
  BY <1>1
<1> HIDE DEF some
<1>8. /\ db' = r.db /\ Rejects(r.rejected) /\ UNCHANGED <<life, online>>
      /\ IF some THEN SendBag(c) ELSE UNCHANGED shown
  BY <1>7, Zenon DEF Answer, Result
<1>9. SendBag(c) \/ (shown' = shown /\ r.db.bag[c] = db.bag[c])
  BY <1>3, <1>6, <1>8
<1> QED BY <1>2, <1>3, <1>5, <1>8, <1>9, Answered

LEMMA CrashStep ==
  ASSUME IInv, Crash
  PROVE  IInv'
  BY DEF IInv, TypeOK, Crash, Shows, Bare

LEMMA StartsSound ==
  ASSUME Init
  PROVE  IInv
<1>1. db = [instance |-> [i \in Item |-> NoRow], bag |-> [c \in Character |-> Bare],
            mail |-> {}, next |-> 1]
  BY DEF Init
<1>2. Bare \in [Slot -> Item \cup {NoItem}] /\ \A s \in Slot : Bare[s] = NoItem
  BY DEF Bare
<1>3. 1 \in 1 .. MaxItems + 1
  BY Constants
<1>4. db \in Tables
  BY <1>1, <1>2, <1>3 DEF Tables
<1>5. Sound(db)
  BY <1>1, <1>2, <1>4 DEF Sound, Backed, Fresh
<1>6. life \in [Character -> {"new", "alive", "asked", "gone"}] /\ online = {}
  BY DEF Init
<1>7. shown \in [Character -> [Slot -> Item \cup {NoItem}]]
  BY <1>2 DEF Init
<1>8. /\ ledger \in [Character -> [Entry -> Nat]]
      /\ \A c \in Character : ledger[c] = [e \in Entry |-> 0]
  BY DEF Init
<1>9. failures \in 0 .. MaxFailures
  BY Constants DEF Init
<1>10. ASSUME NEW c \in Character PROVE Held(db, c) = [e \in Entry |-> 0]
  <2>1. ASSUME NEW e \in Entry PROVE Held(db, c)[e] = 0
    <3>1. /\ StacksOf(db, c, e) \in [Slot -> Nat]
          /\ \A s \in Slot : StacksOf(db, c, e)[s] = 0
          /\ Held(db, c)[e] = SumFunctionOnSet(StacksOf(db, c, e), Slot)
      <4>1. \A s \in Slot : db.bag[c][s] = NoItem
        BY <1>1, <1>2
      <4> QED BY <1>5, <4>1, Stacks
    <3>2. IsFiniteSet(Slot)
      BY Constants
    <3> QED BY <3>1, <3>2, SumOfNone
  <2>2. Held(db, c) \in [Entry -> Nat]
    BY <1>5, HeldType
  <2> QED BY <2>1, <2>2
<1>11. Reported(db, ledger, life)
  BY <1>8, <1>10 DEF Reported
<1> QED BY <1>4, <1>5, <1>6, <1>7, <1>8, <1>9, <1>11 DEF IInv, TypeOK, Shows

LEMMA StaysSound ==
  ASSUME IInv, [Next]_vars
  PROVE  IInv'
<1>1. CASE UNCHANGED vars
  BY <1>1 DEF vars, IInv, TypeOK
<1>2. CASE Crash
  BY <1>2, CrashStep
<1>3. ASSUME NEW c \in Character,
             \/ HandleCharCreate(c) \/ HandleCharDelete(c)
             \/ HandlePlayerLogin(c) \/ FinalizeWorldExit(c)
      PROVE  IInv'
  BY <1>3, CreateStep, DeleteStep, LoginStep, ExitStep
<1>4. ASSUME NEW c \in Character, NEW src \in Slot, NEW dst \in Slot, HandleSwapInvItem(c, src, dst)
      PROVE  IInv'
  BY <1>4, SwapStep
<1>5. ASSUME NEW c \in Character, NEW src \in PackSlot, HandleAutoEquipItem(c, src)
      PROVE  IInv'
  BY <1>5, AutoEquipStep
<1>6. ASSUME NEW c \in Character, NEW item \in Item, NEW dst \in EquipSlot,
             HandleAutoEquipItemSlot(c, item, dst)
      PROVE  IInv'
  BY <1>6, AutoEquipSlotStep
<1>7. Count \subseteq Nat \ {0}
  BY DEF Count
<1>8. ASSUME NEW c \in Character, NEW s \in PackSlot, NEW want \in Count \cup {0},
             HandleDestroyItem(c, s, want)
      PROVE  IInv'
  <2>1. want \in Nat
    BY <1>7
  <2> QED BY <1>8, <2>1, DestroyStep
<1>9. ASSUME NEW c \in Character, NEW e \in Entry, NEW n \in Count,
             GmAddItem(c, e, n) \/ GmRemoveItem(c, e, n)
      PROVE  IInv'
  <2>1. n \in Nat \ {0}
    BY <1>7
  <2> QED BY <1>9, <2>1, GmAddStep, GmRemoveStep
<1> QED BY <1>1, <1>2, <1>3, <1>4, <1>5, <1>6, <1>8, <1>9 DEF Next

LEMMA InventoryInvariant == Spec => []IInv
<1>1. Init => IInv
  BY StartsSound
<1>2. IInv /\ [Next]_vars => IInv'
  BY StaysSound
<1> QED BY <1>1, <1>2, PTL DEF Spec

\* The tables, the bags that clients show and the counts keep their types: no id
\* is given out twice or beyond the next one, and no count of what was reported
\* ever drops below zero, as no operation takes out of a bag what is not in it.
THEOREM TypeCorrect == Spec => []TypeOK
<1>1. IInv => TypeOK
  BY DEF IInv
<1> QED BY <1>1, InventoryInvariant, PTL

\* Every row of a bag has its item, which belongs to that character and lies
\* nowhere else, whichever statement of GrantStarterItems, GrantItemToBag0,
\* SendGmMailWithItem, SaveInventory, DeleteCharacter, SwapBag0Slots or
\* DestroyBag0BackpackItem was the last to take effect.
THEOREM BagsBacked == Spec => []InventoryBacked
<1>1. IInv => InventoryBacked
  BY DEF IInv, Sound, Backed, InventoryBacked
<1> QED BY <1>1, InventoryInvariant, PTL

\* A bag holds what was reported as put into it less what was reported as taken
\* out: for stacks of any size, any number of them, and every stack that
\* RemoveBag0ItemsByEntry's loop empties on the way.
THEOREM StacksAreReported == Spec => []StacksAddUp
<1>1. IInv => StacksAddUp
  BY DEF IInv, Reported, StacksAddUp
<1> QED BY <1>1, InventoryInvariant, PTL

\* The client of a character that is alive shows what lies in its bag, after
\* every request of its own and every command of a staff member.
THEOREM ClientIsShown == Spec => []ClientShowsTheBag
<1>1. ASSUME IInv PROVE ClientShowsTheBag
  <2> SUFFICES ASSUME NEW c \in online, life[c] = "alive"
               PROVE  shown[c] = LoadBag0Inventory(db, c)
    BY DEF ClientShowsTheBag
  <2>1. c \in Character /\ shown[c] = db.bag[c]
    BY <1>1 DEF IInv, TypeOK, Shows
  <2> QED BY <1>1, <2>1, LoadsAll DEF IInv
<1>2. IInv => ClientShowsTheBag
  BY <1>1
<1> QED BY <1>2, InventoryInvariant, PTL

---------------------------------------------------------------------------
\* Items across operations.  An item that x has under an id that d had given out
\* is what is left of d's.
Smaller(row, old) ==
  /\ old # NoRow
  /\ row.owner = old.owner /\ row.entry = old.entry /\ row.count =< old.count

Continues(d, x) ==
  /\ d.next =< x.next
  /\ \A i \in Item : i < d.next /\ x.instance[i] # NoRow => Smaller(x.instance[i], d.instance[i])

\* No mail comes or goes, and every item in the mail stays.
Spares(d, x) ==
  /\ x.mail = d.mail
  /\ \A m \in d.mail : d.instance[m.item] # NoRow => x.instance[m.item] # NoRow

\* What goes is c's.
Wipes(d, x, c) ==
  /\ x.mail \subseteq d.mail
  /\ \A i \in Item : d.instance[i] # NoRow /\ x.instance[i] = NoRow => d.instance[i].owner = c

\* What is sent is c's, and goes to c.
Sends(d, x, c) ==
  /\ \A m \in d.mail : d.instance[m.item] # NoRow => x.instance[m.item] # NoRow
  /\ \A m \in x.mail \ d.mail : m.receiver = c /\ x.instance[m.item].owner = c

LEMMA RowsErased ==
  ASSUME NEW d \in Tables, NEW x, x.next = d.next,
         \A i \in Item : x.instance[i] = d.instance[i] \/ x.instance[i] = NoRow
  PROVE  Continues(d, x)
<1>1. d.next \in Nat /\ d.instance \in [Item -> Instance \cup {NoRow}]
  BY TablesHave
<1>2. \A row \in Instance : row.count \in Nat
  BY DEF Instance
<1>3. ASSUME NEW i \in Item, x.instance[i] # NoRow PROVE Smaller(x.instance[i], d.instance[i])
  <2>1. x.instance[i] = d.instance[i] /\ d.instance[i] \in Instance
    BY <1>1, <1>3
  <2>2. d.instance[i].count =< d.instance[i].count
    BY <1>2, <2>1
  <2> QED BY <1>3, <2>1, <2>2 DEF Smaller
<1> QED BY <1>1, <1>3 DEF Continues

LEMMA ContinuesSame == ASSUME NEW d \in Tables PROVE Continues(d, d) /\ Spares(d, d)
BY RowsErased DEF Spares

LEMMA SparesOn ==
  ASSUME NEW d, NEW x, NEW y, Spares(d, x), Spares(x, y)
  PROVE  Spares(d, y)
  BY DEF Spares

LEMMA ContinuesOn ==
  ASSUME NEW d \in Tables, NEW x \in Tables, NEW y \in Tables, Continues(d, x), Continues(x, y)
  PROVE  Continues(d, y)
<1>1. d.next \in Nat /\ x.next \in Nat /\ y.next \in Nat
  BY TablesHave
<1>2. \A i \in Item : i \in Nat
  BY Constants
<1>3. /\ d.instance \in [Item -> Instance \cup {NoRow}]
      /\ x.instance \in [Item -> Instance \cup {NoRow}]
      /\ y.instance \in [Item -> Instance \cup {NoRow}]
  BY TablesHave
<1>4. ASSUME NEW i \in Item, i < d.next, y.instance[i] # NoRow
      PROVE  Smaller(y.instance[i], d.instance[i])
  <2>1. i < x.next
    BY <1>1, <1>2, <1>4 DEF Continues
  <2>2. Smaller(y.instance[i], x.instance[i])
    BY <1>4, <2>1 DEF Continues
  <2>3. Smaller(x.instance[i], d.instance[i])
    BY <1>4, <2>2 DEF Continues, Smaller
  <2>4. d.instance[i] \in Instance /\ x.instance[i] \in Instance /\ y.instance[i] \in Instance
    BY <1>3, <1>4, <2>2, <2>3 DEF Smaller
  <2>5. \A row \in Instance : row.count \in Nat
    BY DEF Instance
  <2> QED BY <2>2, <2>3, <2>4, <2>5 DEF Smaller
<1>5. d.next =< y.next
  BY <1>1 DEF Continues
<1> QED BY <1>4, <1>5 DEF Continues

LEMMA InsertContinues ==
  ASSUME NEW d, Sound(d), d.next =< MaxItems,
         NEW c \in Character, NEW e \in Entry, NEW n \in Nat \ {0}
  PROVE  LET x == InsertInstance(d, c, e, n) IN Continues(d, x) /\ Spares(d, x)
<1> DEFINE row == [owner |-> c, entry |-> e, count |-> n]
           x == InsertInstance(d, c, e, n)
<1>1. d \in Tables /\ d.next \in Nat /\ d.instance \in [Item -> Instance \cup {NoRow}]
  BY TablesHave DEF Sound
<1>2. x.next = d.next + 1
  BY <1>1 DEF InsertInstance, Tables
<1>3. \A i \in Item : i # d.next => x.instance[i] = d.instance[i]
  BY <1>1 DEF InsertInstance, Tables
<1> HIDE DEF x
<1>4. ASSUME NEW i \in Item, i < d.next, x.instance[i] # NoRow
      PROVE  Smaller(x.instance[i], d.instance[i])
  <2>1. x.instance[i] = d.instance[i] /\ d.instance[i] \in Instance
    BY <1>1, <1>3, <1>4
  <2>2. \A r \in Instance : r.count \in Nat
    BY DEF Instance
  <2>3. d.instance[i].count =< d.instance[i].count
    BY <2>1, <2>2
  <2> QED BY <1>4, <2>1, <2>3 DEF Smaller
<1>5. Continues(d, x)
  BY <1>1, <1>2, <1>4 DEF Continues
<1>6. Spares(d, x)
  <2>1. row \in Instance /\ row # NoRow
    <3>1. row \in Instance
      BY DEF Instance
    <3> QED BY <3>1, Constants
  <2>2. x.mail = d.mail /\ x.instance[d.next] = row
    <3>1. d.next \in Item
      BY Inserted
    <3>2. x.instance = [d.instance EXCEPT ![d.next] = row] /\ x.mail = d.mail
      BY <1>1 DEF x, InsertInstance, Tables
    <3> HIDE DEF row
    <3> QED BY <1>1, <3>1, <3>2
  <2> HIDE DEF row
  <2>3. \A m \in d.mail : m.item \in Item
    BY <1>1, TablesHave
  <2> QED BY <1>3, <2>1, <2>2, <2>3 DEF Spares
<1> QED BY <1>5, <1>6 DEF x

LEMMA GrantContinues ==
  ASSUME NEW d, Sound(d), d.next =< MaxItems, NEW c \in Character, NEW e \in Entry,
         NEW n \in Nat \ {0}, NEW r \in GrantItemToBag0(d, c, e, n)
  PROVE  Continues(d, r.db) /\ Spares(d, r.db)
<1> DEFINE made == InsertInstance(d, c, e, n)
           slot == Min({s \in PackSlot : d.bag[c][s] = NoItem})
           put == [made EXCEPT !.bag[c][slot] = d.next]
<1>1. d \in Tables /\ made \in Tables /\ Continues(d, made) /\ Spares(d, made)
  BY Inserted, InsertContinues DEF Sound
<1>2. r.db = d \/ r.db = made \/ r.db = put
  BY DEF GrantItemToBag0, Result
<1> HIDE DEF made, slot
<1>3. put.instance = made.instance /\ put.next = made.next /\ put.mail = made.mail
  BY <1>1 DEF Tables
<1>4. Continues(d, put) /\ Spares(d, put)
  BY <1>1, <1>3 DEF Continues, Spares
<1> QED BY <1>1, <1>2, <1>4, ContinuesSame

LEMMA MailContinues ==
  ASSUME NEW d, Sound(d), d.next =< MaxItems, NEW c \in Character, NEW e \in Entry,
         NEW n \in Nat \ {0}, NEW r \in SendGmMailWithItem(d, c, e, n)
  PROVE  Continues(d, r.db) /\ Sends(d, r.db, c)
<1> DEFINE made == InsertInstance(d, c, e, n)
           sent == [made EXCEPT !.mail = @ \cup {[item |-> d.next, receiver |-> c]}]
<1>1. d \in Tables /\ made \in Tables /\ Continues(d, made) /\ Spares(d, made)
  BY Inserted, InsertContinues DEF Sound
<1>2. r.db = d \/ r.db = made \/ r.db = sent
  BY DEF SendGmMailWithItem, Result
<1>3. made.instance[d.next].owner = c
  <2>1. made.instance[d.next] = [owner |-> c, entry |-> e, count |-> n]
    BY Inserted
  <2> HIDE DEF made
  <2> QED BY <2>1
<1> HIDE DEF made
<1>4. /\ sent.instance = made.instance /\ sent.next = made.next
      /\ sent.mail = made.mail \cup {[item |-> d.next, receiver |-> c]}
  BY <1>1 DEF Tables
<1> HIDE DEF sent
<1>5. Continues(d, sent) /\ Sends(d, sent, c)
  <2>1. Continues(d, sent)
    BY <1>1, <1>4 DEF Continues
  <2>2. \A m \in sent.mail \ d.mail : m = [item |-> d.next, receiver |-> c]
    BY <1>1, <1>4 DEF Spares
  <2>3. \A m \in sent.mail \ d.mail : m.receiver = c /\ m.item = d.next
    BY <2>2
  <2> QED BY <1>1, <1>4, <1>3, <2>1, <2>3 DEF Spares, Sends
<1>6. Sends(d, d, c) /\ Sends(d, made, c)
  BY <1>1 DEF Spares, Sends
<1> QED BY <1>1, <1>2, <1>5, <1>6, ContinuesSame

LEMMA MoveContinues ==
  ASSUME NEW d \in Tables, NEW c \in Character, NEW src, NEW dst,
         NEW r \in SwapBag0Slots(d, c, src, dst)
  PROVE  Continues(d, r.db) /\ Spares(d, r.db)
<1> DEFINE bag == [d.bag EXCEPT ![c] = [@ EXCEPT ![src] = d.bag[c][dst], ![dst] = d.bag[c][src]]]
           x == [d EXCEPT !.bag = bag]
<1>1. r.db = d \/ r.db = x
  BY DEF SwapBag0Slots, Result
<1> HIDE DEF bag
<1>2. x.instance = d.instance /\ x.next = d.next /\ x.mail = d.mail
  BY DEF Tables
<1> HIDE DEF x
<1>3. Continues(d, x) /\ Spares(d, x)
  BY <1>2, RowsErased DEF Spares
<1> QED BY <1>1, <1>3, ContinuesSame

LEMMA EquipContinues ==
  ASSUME NEW d, Sound(d), NEW c \in Character, NEW src \in PackSlot,
         NEW r \in AutoEquipFromBag0Slot(d, c, src)
  PROVE  Continues(d, r.db) /\ Spares(d, r.db)
<1>1. d \in Tables
  BY DEF Sound
<1> DEFINE bag == LoadBag0Inventory(d, c)
           dst == PickAutoEquipDestination(bag, d.instance[bag[src]].entry)
<1>2. r = Result(d, FALSE, 0) \/ r \in SwapBag0Slots(d, c, src, dst)
  BY DEF AutoEquipFromBag0Slot
<1> HIDE DEF dst
<1>3. CASE r = Result(d, FALSE, 0)
  BY <1>1, <1>3, ContinuesSame DEF Result
<1>4. CASE r \in SwapBag0Slots(d, c, src, dst)
  BY <1>1, <1>4, MoveContinues
<1> QED BY <1>2, <1>3, <1>4

LEMMA TakeContinues ==
  ASSUME NEW d, Sound(d), NEW c \in Character, NEW s \in Slot, NEW n \in Nat \ {0},
         StackAt(d, c, s) > 0, n =< StackAt(d, c, s)
  PROVE  LET x == TakeFrom(d, c, s, n) IN Continues(d, x) /\ Spares(d, x)
<1> DEFINE i == d.bag[c][s]
           row == d.instance[i]
           x == TakeFrom(d, c, s, n)
<1>1. /\ d \in Tables /\ i \in Item /\ row \in Instance /\ i # NoItem /\ row # NoRow
      /\ \A m \in d.mail : m.item \in Item /\ m.item # i
  BY StackSize, TablesHave, Constants DEF Sound, Backed
<1>2. x.next = d.next
  BY TakenFrom
<1>3. CASE n >= row.count
  <2>1. x = [d EXCEPT !.instance[i] = NoRow, !.bag[c][s] = NoItem]
    BY <1>3 DEF TakeFrom
  <2>2. x.instance = [d.instance EXCEPT ![i] = NoRow] /\ x.mail = d.mail
    BY <1>1, <2>1 DEF Tables
  <2> HIDE DEF x, i
  <2>3. \A j \in Item : x.instance[j] = d.instance[j] \/ (j = i /\ x.instance[j] = NoRow)
    BY <1>1, <2>2, TablesHave
  <2>4. Continues(d, x)
    BY <1>1, <1>2, <2>3, RowsErased
  <2>5. Spares(d, x)
    BY <1>1, <2>2, <2>3 DEF Spares
  <2> QED BY <2>4, <2>5 DEF x
<1>4. CASE ~(n >= row.count)
  <2>1. x = [d EXCEPT !.instance[i].count = @ - n]
    BY <1>4 DEF TakeFrom
  <2> DEFINE less == [row EXCEPT !.count = @ - n]
  <2>2. x.instance = [d.instance EXCEPT ![i] = less] /\ x.mail = d.mail
    BY <1>1, <2>1 DEF Tables
  <2>3. row.count \in Nat /\ \A q \in Instance : q.count \in Nat
    BY <1>1 DEF Instance
  <2>4. less.owner = row.owner /\ less.entry = row.entry /\ less.count =< row.count
    <3>1. less.count = row.count - n
      BY <1>1 DEF Instance
    <3>2. less.owner = row.owner /\ less.entry = row.entry
      BY <1>1 DEF Instance
    <3> QED BY <2>3, <3>1, <3>2
  <2> HIDE DEF x, less, i
  <2>5. x.instance[i] = less /\ \A j \in Item : j # i => x.instance[j] = d.instance[j]
    BY <1>1, <2>2, TablesHave
  <2>6. ASSUME NEW j \in Item, x.instance[j] # NoRow PROVE Smaller(x.instance[j], d.instance[j])
    <3>1. CASE j = i
      BY <1>1, <2>4, <2>5, <3>1 DEF Smaller
    <3>2. CASE j # i
      <4>1. x.instance[j] = d.instance[j] /\ d.instance[j] \in Instance
        BY <1>1, <2>5, <2>6, <3>2, TablesHave
      <4>2. d.instance[j].count =< d.instance[j].count
        BY <2>3, <4>1
      <4> QED BY <2>6, <4>1, <4>2 DEF Smaller
    <3> QED BY <3>1, <3>2
  <2>7. d.next =< x.next
    BY <1>1, <1>2, TablesHave
  <2>8. Continues(d, x)
    BY <2>6, <2>7 DEF Continues
  <2>9. Spares(d, x)
    BY <1>1, <2>2, <2>5 DEF Spares
  <2> QED BY <2>8, <2>9 DEF x
<1> QED BY <1>3, <1>4

LEMMA DestroyContinues ==
  ASSUME NEW d, Sound(d), NEW c \in Character, NEW s \in Slot, NEW want \in Nat,
         StackAt(d, c, s) > 0, NEW r \in DestroyBag0BackpackItem(d, c, s, want)
  PROVE  Continues(d, r.db) /\ Spares(d, r.db)
<1> DEFINE n == Taken(StackAt(d, c, s), want)
           x == TakeFrom(d, c, s, n)
<1>1. n \in Nat \ {0} /\ n =< StackAt(d, c, s)
  <2>1. StackAt(d, c, s) \in Nat
    BY StackSize
  <2> QED BY <2>1 DEF Taken, Less
<1>2. r.db = d \/ r.db = x
  <2>1. StackAt(d, c, s) # 0
    BY StackSize
  <2> HIDE DEF n, x
  <2>2. DestroyBag0BackpackItem(d, c, s, want) = {Result(d, FALSE, 1), Result(x, TRUE, 0)}
    BY <2>1, Zenon DEF DestroyBag0BackpackItem, n, x
  <2> QED BY <2>2 DEF Result
<1> HIDE DEF n
<1>3. Continues(d, x) /\ Spares(d, x)
  BY <1>1, TakeContinues
<1> HIDE DEF x
<1> QED BY <1>2, <1>3, ContinuesSame DEF Sound

LEMMA FirstContinues ==
  ASSUME NEW d, Sound(d), NEW c \in Character, NEW e \in Entry, NEW want \in Nat,
         NEW r, Removing(d, c, e, want, r), Continues(d, r.db), Spares(d, r.db)
  PROVE  LET y == TakeFirst(r, c, e).db IN Continues(d, y) /\ Spares(d, y)
<1> DEFINE x == r.db
           found == {s \in PackSlot : StackAt(x, c, s) > 0 /\ x.instance[x.bag[c][s]].entry = e}
           s == Min(found)
           n == Less(StackAt(x, c, s), r.left)
           y == TakeFrom(x, c, s, n)
<1>1. CASE r.left = 0 \/ found = {}
  BY <1>1 DEF TakeFirst
<1>2. CASE ~(r.left = 0 \/ found = {})
  <2>1. s \in found
    BY <1>2, MinIsMember, Constants
  <2> HIDE DEF s
  <2>2. s \in Slot /\ StackAt(x, c, s) > 0
    BY <2>1, Constants
  <2>3. Sound(x) /\ r.left \in Nat /\ r.left > 0 /\ StackAt(x, c, s) \in Nat
    <3>1. Sound(x) /\ r.left \in 0 .. want
      BY DEF Removing
    <3>2. StackAt(x, c, s) \in Nat
      BY <2>2, <3>1, StackSize
    <3> QED BY <1>2, <3>1, <3>2
  <2>4. n \in Nat \ {0} /\ n =< StackAt(x, c, s)
    BY <2>2, <2>3 DEF Less
  <2>5. TakeFirst(r, c, e) = [r EXCEPT !.db = y, !.left = r.left - n]
    BY <1>2 DEF TakeFirst, s
  <2> HIDE DEF n
  <2>6. Continues(x, y) /\ Spares(x, y) /\ Sound(y)
    BY <2>2, <2>3, <2>4, TakeContinues, TakenFrom
  <2> HIDE DEF y, found
  <2>7. TakeFirst(r, c, e).db = y
    BY <2>5 DEF Removing
  <2> QED BY <2>3, <2>6, <2>7, ContinuesOn, SparesOn DEF Sound
<1> QED BY <1>1, <1>2

LEMMA PassesContinue ==
  ASSUME NEW N \in Nat, NEW d, Sound(d), NEW c \in Character, NEW e \in Entry, NEW want \in Nat,
         NEW g, Passes(g, N, d, c, e, want)
  PROVE  \A k \in 0 .. N : Continues(d, g[k].db) /\ Spares(d, g[k].db)
<1> DEFINE Ok == {k \in Nat : k =< N => Continues(d, g[k].db) /\ Spares(d, g[k].db)}
<1>1. 0 \in Ok
  <2>1. g[0] = [db |-> d, left |-> want, rejected |-> 0]
    BY DEF Passes
  <2>2. Continues(d, g[0].db) /\ Spares(d, g[0].db)
    BY <2>1, ContinuesSame DEF Sound
  <2> QED BY <2>2
<1>2. ASSUME NEW k \in Ok PROVE k + 1 \in Ok
  <2>1. k \in Nat /\ k + 1 \in Nat
    OBVIOUS
  <2>2. ASSUME k + 1 =< N PROVE Continues(d, g[k + 1].db) /\ Spares(d, g[k + 1].db)
    <3>1. Continues(d, g[k].db) /\ Spares(d, g[k].db) /\ k \in 0 .. N
      BY <2>1, <2>2
    <3>2. k + 1 \in 0 .. N /\ k + 1 # 0 /\ (k + 1) - 1 = k
      BY <2>1, <2>2
    <3>3. g[k + 1] = TakeFirst(g[k], c, e)
      BY <3>2 DEF Passes
    <3>4. Removing(d, c, e, want, g[k])
      BY <3>1, PassesRemove
    <3> QED BY <3>1, <3>3, <3>4, FirstContinues
  <2> QED BY <2>1, <2>2
<1>3. Ok = Nat
  <2>1. Ok \in SUBSET Nat
    OBVIOUS
  <2> HIDE DEF Ok
  <2> QED BY <1>1, <1>2, <2>1, CountUp
<1> QED BY <1>3

LEMMA RemoveContinues ==
  ASSUME NEW d, Sound(d), NEW c \in Character, NEW e \in Entry, NEW want \in Nat,
         NEW r \in RemoveBag0ItemsByEntry(d, c, e, want)
  PROVE  Continues(d, r.db) /\ Spares(d, r.db)
<1> DEFINE N == Cardinality(PackSlot)
           pass == CHOOSE g : g = [k \in 0 .. N |->
                     IF k = 0 THEN [db |-> d, left |-> want, rejected |-> 0]
                     ELSE TakeFirst(g[k - 1], c, e)]
<1>1. N \in Nat
  BY Constants, FS_CardinalityType
<1>2. \/ r = pass[N]
      \/ \E k \in 0 .. N - 1 : r = [pass[k] EXCEPT !.rejected = 1]
  BY DEF RemoveBag0ItemsByEntry
<1> HIDE DEF N
<1>3. Passes(pass, N, d, c, e, want)
  <2>1. PICK g : Passes(g, N, d, c, e, want)
    BY <1>1, PassesExist
  <2> QED BY <2>1, Zenon DEF Passes
<1> HIDE DEF pass
<1>4. \A k \in 0 .. N : /\ Removing(d, c, e, want, pass[k])
                       /\ Continues(d, pass[k].db) /\ Spares(d, pass[k].db)
  BY <1>1, <1>3, PassesRemove, PassesContinue
<1>5. CASE r = pass[N]
  BY <1>1, <1>4, <1>5
<1>6. CASE \E k \in 0 .. N - 1 : r = [pass[k] EXCEPT !.rejected = 1]
  <2>1. PICK k \in 0 .. N - 1 : r = [pass[k] EXCEPT !.rejected = 1]
    BY <1>6
  <2>2. /\ Removing(d, c, e, want, pass[k])
        /\ Continues(d, pass[k].db) /\ Spares(d, pass[k].db)
    BY <1>1, <1>4, <2>1
  <2>3. r.db = pass[k].db
    BY <2>1, <2>2 DEF Removing
  <2> QED BY <2>2, <2>3
<1> QED BY <1>2, <1>5, <1>6

\* What the save deletes it inserts again as it was, or not at all.
LEMMA SaveContinues ==
  ASSUME NEW d \in Tables, NEW c \in Character, NEW r \in SaveInventory(d, c)
  PROVE  Continues(d, r.db) /\ Wipes(d, r.db, c)
<1> DEFINE bag == LoadBag0Inventory(d, c)
           kept == {bag[s] : s \in Slot}
           f == [d.bag EXCEPT ![c] = bag]
           g == [i \in Item |-> IF d.instance[i] # NoRow /\ d.instance[i].owner = c /\ i \notin kept
                                THEN NoRow ELSE d.instance[i]]
           x == [d EXCEPT !.bag = f, !.instance = g]
<1>1. r.db = d \/ r.db = x
  BY DEF SaveInventory, Result
<1>2. \A i \in Item : g[i] = d.instance[i] \/ (g[i] = NoRow /\ d.instance[i].owner = c)
  OBVIOUS
<1> HIDE DEF f, g
<1>3. x.instance = g /\ x.next = d.next /\ x.mail = d.mail
  BY DEF Tables
<1> HIDE DEF x
<1>4. Continues(d, x) /\ Wipes(d, x, c)
  BY <1>2, <1>3, RowsErased DEF Wipes
<1>5. Wipes(d, d, c)
  BY DEF Wipes
<1> QED BY <1>1, <1>4, <1>5, ContinuesSame

LEMMA DeleteContinues ==
  ASSUME NEW d, Sound(d), NEW c \in Character, NEW r \in DeleteCharacter(d, c)
  PROVE  Continues(d, r.db) /\ Wipes(d, r.db, c)
<1> DEFINE x == NoBag(d, c)
           y == NoInstances(x, c)
           z == [y EXCEPT !.mail = {m \in @ : m.receiver # c}]
           g == [i \in Item |-> IF x.instance[i] # NoRow /\ x.instance[i].owner = c
                                THEN NoRow ELSE x.instance[i]]
<1>1. /\ d \in Tables /\ x \in Tables
      /\ x.instance = d.instance /\ x.next = d.next /\ x.mail = d.mail
  <2>1. Sound(x) /\ x.instance = d.instance
    BY Emptied
  <2>2. d \in Tables
    BY DEF Sound
  <2> DEFINE f == [d.bag EXCEPT ![c] = Bare]
  <2>3. x = [d EXCEPT !.bag = f]
    BY DEF NoBag
  <2> HIDE DEF f
  <2>4. x.next = d.next /\ x.mail = d.mail
    BY <2>2, <2>3 DEF Tables
  <2> QED BY <2>1, <2>2, <2>4 DEF Sound
<1> HIDE DEF x
<1>2. \A i \in Item : g[i] = x.instance[i] \/ (g[i] = NoRow /\ x.instance[i].owner = c)
  OBVIOUS
<1>3. y = [x EXCEPT !.instance = g]
  BY DEF NoInstances
<1> HIDE DEF g, y
<1>4. /\ y.instance = g /\ y.next = x.next /\ y.mail = x.mail
      /\ z.instance = y.instance /\ z.next = y.next /\ z.mail \subseteq y.mail
  <2>1. y.instance = g /\ y.next = x.next /\ y.mail = x.mail /\ DOMAIN y = DOMAIN x
    BY <1>1, <1>3 DEF Tables
  <2>2. DOMAIN x = {"instance", "bag", "mail", "next"}
    BY <1>1 DEF Tables
  <2> QED BY <2>1, <2>2
<1> HIDE DEF z
<1>5. Continues(d, x) /\ Continues(d, y) /\ Continues(d, z)
  BY <1>1, <1>2, <1>4, RowsErased
<1>6. Wipes(d, d, c) /\ Wipes(d, x, c) /\ Wipes(d, y, c) /\ Wipes(d, z, c)
  BY <1>1, <1>2, <1>4 DEF Wipes
<1>7. \/ r = Result(d, FALSE, 1) \/ r = Result(x, FALSE, 1)
      \/ r = Result(y, FALSE, 1) \/ r = Result(z, TRUE, 0)
  BY DEF DeleteCharacter, x, y, z
<1>8. r.db = d \/ r.db = x \/ r.db = y \/ r.db = z
  BY <1>7 DEF Result
<1> QED BY <1>1, <1>5, <1>8, <1>6, ContinuesSame

LEMMA StartContinues ==
  ASSUME NEW d, Sound(d), NEW c \in Character, d.next + Cardinality(Placed) =< MaxItems + 1,
         NEW r \in GrantStarterItems(d, c)
  PROVE  Continues(d, r.db) /\ Spares(d, r.db)
<1> DEFINE at(i) == {k \in Placed : StarterId(d, k) = i}
           in(s) == {k \in Placed : StarterPlace(k) = s}
           f == [i \in Item |->
                  IF at(i) = {} THEN d.instance[i]
                  ELSE [owner |-> c, entry |-> Starter[Min(at(i))].entry, count |-> 1]]
           bag == [s \in Slot |-> IF in(s) = {} THEN d.bag[c][s] ELSE StarterId(d, Min(in(s)))]
           g == [d.bag EXCEPT ![c] = bag]
           last == d.next + Cardinality(Placed)
           x == [d EXCEPT !.instance = f, !.bag = g, !.next = last]
<1>1. r.db = d \/ r.db = x
  BY DEF GrantStarterItems, StarterId, Result
<1>2. /\ d \in Tables /\ d.next \in Nat /\ Cardinality(Placed) \in Nat
      /\ d.instance \in [Item -> Instance \cup {NoRow}]
      /\ \A i \in Item : i \in Nat
  BY TablesHave, StarterIds, Constants DEF Sound
<1>3. ASSUME NEW i \in Item, i < d.next PROVE f[i] = d.instance[i]
  <2>1. \A k \in Placed : StarterId(d, k) \in Nat /\ d.next =< StarterId(d, k)
    BY <1>2, StarterIds
  <2>2. at(i) = {}
    BY <1>2, <1>3, <2>1
  <2> QED BY <2>2
<1> HIDE DEF f, g
<1>4. x.instance = f /\ x.next = last /\ x.mail = d.mail
  BY <1>2 DEF Tables
<1> HIDE DEF x
<1>5. ASSUME NEW i \in Item, i < d.next, x.instance[i] # NoRow
      PROVE  Smaller(x.instance[i], d.instance[i])
  <2>1. x.instance[i] = d.instance[i] /\ d.instance[i] \in Instance
    BY <1>2, <1>3, <1>4, <1>5
  <2>2. \A q \in Instance : q.count \in Nat
    BY DEF Instance
  <2>3. d.instance[i].count =< d.instance[i].count
    BY <2>1, <2>2
  <2> QED BY <1>5, <2>1, <2>3 DEF Smaller
<1>6. d.next =< x.next
  BY <1>2, <1>4
<1>7. Continues(d, x)
  BY <1>5, <1>6 DEF Continues
<1>8. Spares(d, x)
  <2>1. \A m \in d.mail : m.item \in Item /\ m.item < d.next
    BY <1>2, TablesHave DEF Sound, Fresh
  <2> QED BY <1>3, <1>4, <2>1 DEF Spares
<1> QED BY <1>1, <1>2, <1>7, <1>8, ContinuesSame

\* What a step does to the mail.
MailMoves ==
  \/ Spares(db, db')
  \/ \E c \in Character : Sends(db, db', c)
  \/ \E c \in Character : /\ FinalizeWorldExit(c) \/ HandleCharDelete(c)
                          /\ Wipes(db, db', c)

LEMMA StepContinues ==
  ASSUME IInv, [Next]_vars
  PROVE  Continues(db, db') /\ MailMoves
<1>0. Sound(db) /\ db \in Tables
  BY DEF IInv, Sound
<1>1. ASSUME UNCHANGED db PROVE Continues(db, db') /\ MailMoves
  BY <1>0, <1>1, ContinuesSame DEF MailMoves
<1>2. ASSUME NEW c \in Character, HandleCharCreate(c) PROVE Continues(db, db') /\ MailMoves
  <2>1. PICK r \in GrantStarterItems(db, c) : db' = r.db
    BY <1>2 DEF HandleCharCreate
  <2>2. db.next + Cardinality(Placed) =< MaxItems + 1
    BY <1>2 DEF HandleCharCreate
  <2> QED BY <1>0, <2>1, <2>2, StartContinues DEF MailMoves
<1>3. ASSUME NEW c \in Character, HandleCharDelete(c) PROVE Continues(db, db') /\ MailMoves
  <2>1. PICK r \in DeleteCharacter(db, c) : db' = r.db
    BY <1>3 DEF HandleCharDelete
  <2> QED BY <1>0, <1>3, <2>1, DeleteContinues DEF MailMoves
<1>4. ASSUME NEW c \in Character, FinalizeWorldExit(c) PROVE Continues(db, db') /\ MailMoves
  <2>1. UNCHANGED db \/ \E r \in SaveInventory(db, c) : db' = r.db
    BY <1>4 DEF FinalizeWorldExit
  <2> QED BY <1>0, <1>1, <1>4, <2>1, SaveContinues DEF MailMoves
<1>5. ASSUME NEW c \in Character, NEW src \in Slot, NEW dst \in Slot, HandleSwapInvItem(c, src, dst)
      PROVE  Continues(db, db') /\ MailMoves
  <2>1. PICK r \in SwapBag0Slots(db, c, src, dst) : db' = r.db
    BY <1>5 DEF HandleSwapInvItem, Answer
  <2> QED BY <1>0, <2>1, MoveContinues DEF MailMoves
<1>6. ASSUME NEW c \in Character, NEW src \in PackSlot, HandleAutoEquipItem(c, src)
      PROVE  Continues(db, db') /\ MailMoves
  <2>1. PICK r \in AutoEquipFromBag0Slot(db, c, src) : db' = r.db
    BY <1>6 DEF HandleAutoEquipItem, Answer
  <2> QED BY <1>0, <2>1, EquipContinues DEF MailMoves
<1>7. ASSUME NEW c \in Character, NEW item \in Item, NEW dst \in EquipSlot,
             HandleAutoEquipItemSlot(c, item, dst)
      PROVE  Continues(db, db') /\ MailMoves
  <2>1. PICK src \in Slot : \E r \in SwapBag0Slots(db, c, src, dst) : db' = r.db
    BY <1>7 DEF HandleAutoEquipItemSlot, Answer
  <2>2. PICK r \in SwapBag0Slots(db, c, src, dst) : db' = r.db
    BY <2>1
  <2> QED BY <1>0, <2>2, MoveContinues DEF MailMoves
<1>8. Count \subseteq Nat \ {0}
  BY DEF Count
<1>9. ASSUME NEW c \in Character, NEW s \in PackSlot, NEW want \in Count \cup {0},
             HandleDestroyItem(c, s, want)
      PROVE  Continues(db, db') /\ MailMoves
  <2>1. StackAt(db, c, s) > 0
    BY <1>9 DEF HandleDestroyItem
  <2>2. PICK r \in DestroyBag0BackpackItem(db, c, s, want) : db' = r.db
    BY <1>9 DEF HandleDestroyItem, Answer
  <2>3. want \in Nat /\ s \in Slot
    BY <1>8, Constants
  <2> QED BY <1>0, <2>1, <2>2, <2>3, DestroyContinues DEF MailMoves
<1>10. ASSUME NEW c \in Character, NEW e \in Entry, NEW n \in Count, GmAddItem(c, e, n)
       PROVE  Continues(db, db') /\ MailMoves
  <2>1. n \in Nat \ {0}
    BY <1>8
  <2>2. db.next \in Nat /\ MaxItems \in Nat /\ db.next =< MaxItems /\ db.next + 1 =< MaxItems
    BY <1>0, <1>10, TablesHave, Constants DEF GmAddItem
  <2>3. PICK r \in GrantItemToBag0(db, c, e, n) :
          \/ db' = r.db
          \/ \E m \in SendGmMailWithItem(r.db, c, e, n) : db' = m.db
    <3>1. \A k, ok, m : Answer(c, Result(m, ok, k)) => db' = m
      BY DEF Answer, Result
    <3>2. \A q : Answer(c, q) => db' = q.db
      BY DEF Answer
    <3> QED BY <1>10, <3>1, <3>2 DEF GmAddItem
  <2>4. Continues(db, r.db) /\ Spares(db, r.db) /\ Sound(r.db) /\ r.db.next =< db.next + 1
    BY <1>0, <2>1, <2>2, GrantContinues, Granted
  <2>5. ASSUME NEW m \in SendGmMailWithItem(r.db, c, e, n)
        PROVE  Continues(db, m.db) /\ Sends(db, m.db, c)
    <3>1. r.db.next =< MaxItems /\ r.db \in Tables
      <4>1. r.db.next \in Nat /\ r.db \in Tables
        BY <2>4, TablesHave DEF Sound
      <4> QED BY <2>2, <2>4, <4>1
    <3>2. Continues(r.db, m.db) /\ Sends(r.db, m.db, c) /\ Sound(m.db)
      BY <2>1, <2>4, <3>1, MailContinues, Mailed
    <3>3. Sends(db, m.db, c)
      BY <2>4, <3>2 DEF Spares, Sends
    <3> QED BY <1>0, <2>4, <3>1, <3>2, <3>3, ContinuesOn DEF Sound
  <2> QED BY <2>3, <2>4, <2>5 DEF MailMoves
<1>11. ASSUME NEW c \in Character, NEW e \in Entry, NEW n \in Count, GmRemoveItem(c, e, n)
       PROVE  Continues(db, db') /\ MailMoves
  <2>1. PICK r \in RemoveBag0ItemsByEntry(db, c, e, n) : db' = r.db
    BY <1>11 DEF GmRemoveItem, Answer, Result
  <2>2. n \in Nat
    BY <1>8
  <2> QED BY <1>0, <2>1, <2>2, RemoveContinues DEF MailMoves
<1>12. ASSUME NEW c \in Character, HandlePlayerLogin(c) PROVE Continues(db, db') /\ MailMoves
  BY <1>1, <1>12 DEF HandlePlayerLogin
<1>13. CASE Crash
  BY <1>1, <1>13 DEF Crash
<1>14. CASE UNCHANGED vars
  BY <1>1, <1>14 DEF vars
<1> QED BY <1>2, <1>3, <1>4, <1>5, <1>6, <1>7, <1>9, <1>10, <1>11, <1>12, <1>13, <1>14 DEF Next

\* An item keeps its owner and its template, never grows, and once gone never comes back:
\* neither the save, which deletes every item and inserts it again, nor a grant of which
\* only the first statement took effect doubles one.
THEOREM ItemsStay == Spec => ItemsOnlyShrink
<1>1. ASSUME IInv, [Next]_vars
      PROVE  [\A i \in Item : i < db.next /\ db'.instance[i] # NoRow =>
                /\ db.instance[i] # NoRow
                /\ db'.instance[i].owner = db.instance[i].owner
                /\ db'.instance[i].entry = db.instance[i].entry
                /\ db'.instance[i].count =< db.instance[i].count]_vars
  BY <1>1, StepContinues DEF Continues, Smaller
<1> QED BY <1>1, InventoryInvariant, PTL DEF Spec, ItemsOnlyShrink

\* The mail of a character carries what is its own.
MailOwned ==
  \A m \in db.mail : db.instance[m.item] # NoRow => db.instance[m.item].owner = m.receiver

LEMMA MailOwnedStep == ASSUME IInv, MailOwned, [Next]_vars PROVE MailOwned'
<1>1. Continues(db, db') /\ MailMoves
  BY StepContinues
<1>2. \A m \in db.mail : m.item \in Item /\ m.item < db.next
  BY TablesHave DEF IInv, Sound, Fresh
<1>3. ASSUME NEW m \in db.mail, db'.instance[m.item] # NoRow
      PROVE  db'.instance[m.item].owner = m.receiver
  BY <1>1, <1>2, <1>3 DEF Continues, Smaller, MailOwned
<1>4. \A m \in db'.mail \ db.mail : db'.instance[m.item].owner = m.receiver
  BY <1>1 DEF MailMoves, Spares, Sends, Wipes
<1> QED BY <1>3, <1>4 DEF MailOwned

\* Nothing but its receiver's save at logout or deletion takes an item out of the mail,
\* whatever other characters save, destroy or delete meanwhile.
THEOREM MailLostAtExit == Spec => MailIsLostAtExit
<1>1. Init => MailOwned
  BY DEF Init, MailOwned
<1>2. ASSUME IInv, MailOwned, [Next]_vars, NEW m \in db.mail,
             db.instance[m.item] # NoRow, db'.instance[m.item] = NoRow
      PROVE  FinalizeWorldExit(m.receiver) \/ HandleCharDelete(m.receiver)
  <2>1. m.item \in Item /\ db.instance[m.item].owner = m.receiver
    BY <1>2, TablesHave DEF IInv, Sound, MailOwned
  <2>2. PICK c \in Character : /\ FinalizeWorldExit(c) \/ HandleCharDelete(c)
                               /\ Wipes(db, db', c)
    BY <1>2, StepContinues DEF MailMoves, Spares, Sends
  <2>3. m.receiver = c
    BY <1>2, <2>1, <2>2 DEF Wipes
  <2> QED BY <2>2, <2>3
<1>3. ASSUME IInv, MailOwned, [Next]_vars
      PROVE  [\A m \in db.mail : db.instance[m.item] # NoRow /\ db'.instance[m.item] = NoRow =>
                FinalizeWorldExit(m.receiver) \/ HandleCharDelete(m.receiver)]_vars
  BY <1>2, <1>3
<1>4. IInv /\ MailOwned /\ [Next]_vars => MailOwned'
  BY MailOwnedStep
<1> QED BY <1>1, <1>3, <1>4, InventoryInvariant, PTL DEF Spec, MailIsLostAtExit
=============================================================================
