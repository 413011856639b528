------------------------------ MODULE Inventory ------------------------------
(***************************************************************************)
(* The items of the characters of one account.  Nothing of a bag is kept in   *)
(* a session: every request reads and writes the tables character_inventory,  *)
(* item_instance and mail_items, and the client is sent what they hold then.  *)
(* Some requests are one transaction, others are statements that take effect  *)
(* one by one, any of which may be rejected; a server that stops between two   *)
(* statements leaves the same tables.                                         *)
(*                                                                            *)
(* A packet or a command is handled in one step.  SELECTs are assumed to work. *)
(***************************************************************************)
EXTENDS Integers, FiniteSetsExt, SequencesExt

CONSTANTS
  Character,
  Entry,            \* item templates
  Fits,             \* equipment slots of an entry, the primary one first
  EquipSlot, PackSlot,
  Starter,          \* GetStarterItemGrants: a sequence of [entry, bagOnly]
  MaxCount,         \* bound: largest stack granted, by entry
  MaxItems,         \* bound: AUTO_INCREMENT of item_instance
  MaxFailures,      \* bound: statements that are rejected
  NoItem, NoRow, NoSlot

Slot == EquipSlot \cup PackSlot
Item == 1 .. MaxItems
Count == 1 .. Max(Range(MaxCount))
Instance == [owner : Character, entry : Entry, count : Nat \ {0}]

ASSUME InventoryAssumption ==
  /\ EquipSlot \subseteq Nat /\ PackSlot \subseteq Nat
  /\ EquipSlot \cap PackSlot = {} /\ IsFiniteSet(Slot)
  /\ Fits \in [Entry -> Seq(EquipSlot)]
  /\ Starter \in Seq([entry : Entry, bagOnly : BOOLEAN])
  /\ MaxCount \in [Entry -> Nat \ {0}] /\ MaxItems \in Nat /\ MaxFailures \in Nat
  /\ NoItem \notin Item /\ NoSlot \notin Slot /\ NoRow \notin Instance

VARIABLES
  life,      \* of each character: is there a row in characters
  online,    \* characters a session plays
  db,        \* the three tables and the next AUTO_INCREMENT value
  shown,     \* the item each slot of the bag shows, of each character online
  ledger,    \* history: what went in, less what was taken out, as reported
  failures   \* history: rejected statements

vars == <<life, online, db, shown, ledger, failures>>

Bare == [s \in Slot |-> NoItem]
Tables == [instance : [Item -> Instance \cup {NoRow}],           \* item_instance
           bag : [Character -> [Slot -> Item \cup {NoItem}]],     \* character_inventory
           mail : SUBSET [item : Item, receiver : Character],     \* mail_items
           next : 1 .. MaxItems + 1]

TypeOK ==
  /\ life \in [Character -> {"new", "alive", "asked", "gone"}]
  /\ online \subseteq Character
  /\ db \in Tables
  /\ shown \in [Character -> [Slot -> Item \cup {NoItem}]]
  /\ ledger \in [Character -> [Entry -> Nat]]
  /\ failures \in 0 .. MaxFailures

Init ==
  /\ life = [c \in Character |-> "new"]
  /\ online = {}
  /\ db = [instance |-> [i \in Item |-> NoRow], bag |-> [c \in Character |-> Bare],
           mail |-> {}, next |-> 1]
  /\ shown = [c \in Character |-> Bare]
  /\ ledger = [c \in Character |-> [e \in Entry |-> 0]]
  /\ failures = 0

\* A row of characters; "asked" is one whose deletion was asked for and failed.
Exists(c) == life[c] \in {"alive", "asked"}

Less(x, y) == IF x < y THEN x ELSE y

---------------------------------------------------------------------------
\* The repository.  An operation yields the tables it may leave, whether it
\* returned true, and how many statements were rejected.
Result(d, ok, rejected) == [db |-> d, ok |-> ok, rejected |-> rejected]

\* The rows of a bag that have an instance (INNER JOIN).
LoadBag0Inventory(d, c) ==
  [s \in Slot |-> IF d.bag[c][s] # NoItem /\ d.instance[d.bag[c][s]] # NoRow
                  THEN d.bag[c][s] ELSE NoItem]

InsertInstance(d, c, e, n) ==
  [d EXCEPT !.instance[d.next] = [owner |-> c, entry |-> e, count |-> n], !.next = @ + 1]

\* Two INSERTs without a transaction.
GrantItemToBag0(d, c, e, n) ==
  LET free == {s \in PackSlot : d.bag[c][s] = NoItem}
      made == InsertInstance(d, c, e, n)
  IN IF free = {} THEN {Result(d, FALSE, 0)}
     ELSE {Result(d, FALSE, 1), Result(made, FALSE, 1),
           Result([made EXCEPT !.bag[c][Min(free)] = d.next], TRUE, 0)}

\* Three INSERTs without a transaction; the mail must have a receiver.
SendGmMailWithItem(d, c, e, n) ==
  LET made == InsertInstance(d, c, e, n)
      sent == [made EXCEPT !.mail = @ \cup {[item |-> d.next, receiver |-> c]}]
  IN {Result(d, FALSE, 1)}
     \cup (IF Exists(c) THEN {Result(made, FALSE, 1), Result(sent, TRUE, 0)}
           ELSE {Result(made, FALSE, 0)})

\* One transaction, of a slot that is not empty.
SwapBag0Slots(d, c, src, dst) ==
  {Result(d, FALSE, 1),
   Result([d EXCEPT !.bag[c] = [@ EXCEPT ![src] = d.bag[c][dst],
                                         ![dst] = d.bag[c][src]]], TRUE, 0)}

\* A free slot of the pair, else the primary one.
PickAutoEquipDestination(bag, e) ==
  LET free == {k \in DOMAIN Fits[e] : bag[Fits[e][k]] = NoItem}
  IN IF free # {} THEN Fits[e][Min(free)] ELSE Fits[e][1]

AutoEquipFromBag0Slot(d, c, src) ==
  LET bag == LoadBag0Inventory(d, c)
      e == d.instance[bag[src]].entry
  IN IF bag[src] = NoItem \/ Fits[e] = <<>> THEN {Result(d, FALSE, 0)}
     ELSE SwapBag0Slots(d, c, src, PickAutoEquipDestination(bag, e))

\* Take n of the stack in a slot.
TakeFrom(d, c, s, n) ==
  LET i == d.bag[c][s] IN
  IF n >= d.instance[i].count
  THEN [d EXCEPT !.instance[i] = NoRow, !.bag[c][s] = NoItem]
  ELSE [d EXCEPT !.instance[i].count = @ - n]

StackAt(d, c, s) ==
  LET i == LoadBag0Inventory(d, c)[s] IN IF i = NoItem THEN 0 ELSE d.instance[i].count

\* What a request for want (0: all of it) takes out of a stack.
Taken(stack, want) == IF want = 0 THEN stack ELSE Less(want, stack)

\* One transaction.
DestroyBag0BackpackItem(d, c, s, want) ==
  IF StackAt(d, c, s) = 0 THEN {Result(d, FALSE, 0)}
  ELSE {Result(d, FALSE, 1), Result(TakeFrom(d, c, s, Taken(StackAt(d, c, s), want)), TRUE, 0)}

\* The first stack of an entry gives what is still wanted, if it has that much.
TakeFirst(r, c, e) ==
  LET found == {s \in PackSlot : /\ StackAt(r.db, c, s) > 0
                                 /\ r.db.instance[r.db.bag[c][s]].entry = e}
      s == Min(found)
      n == Less(StackAt(r.db, c, s), r.left)
  IN IF r.left = 0 \/ found = {} THEN r
     ELSE [r EXCEPT !.db = TakeFrom(r.db, c, s, n), !.left = @ - n]

\* Stack after stack, until want is reached, none is left or one destroy fails.
\* left is what could not be removed.
RemoveBag0ItemsByEntry(d, c, e, want) ==
  LET pass[k \in 0 .. Cardinality(PackSlot)] ==
        IF k = 0 THEN [db |-> d, left |-> want, rejected |-> 0]
        ELSE TakeFirst(pass[k - 1], c, e)
  IN {pass[Cardinality(PackSlot)]}
     \cup {[pass[k] EXCEPT !.rejected = 1] :
             k \in {j \in 0 .. Cardinality(PackSlot) - 1 : pass[j + 1] # pass[j]}}

\* MUTANT: the worn items are not written back.
SaveInventory_PackOnly(d, c) ==
  LET bag == [s \in Slot |-> IF s \in PackSlot THEN LoadBag0Inventory(d, c)[s] ELSE NoItem]
      kept == {bag[s] : s \in Slot}
  IN {Result(d, FALSE, 1),
      Result([d EXCEPT !.bag[c] = bag,
                       !.instance = [i \in Item |->
                          IF @[i] # NoRow /\ @[i].owner = c /\ i \notin kept THEN NoRow ELSE @[i]]],
             TRUE, 0)}

\* One transaction: the bag and every item of the owner are deleted, and what
\* had been loaded of the bag is inserted again.
SaveInventory(d, c) ==
  LET bag == LoadBag0Inventory(d, c)
      kept == {bag[s] : s \in Slot}
  IN {Result(d, FALSE, 1),
      Result([d EXCEPT !.bag[c] = bag,
                       !.instance = [i \in Item |->
                          IF @[i] # NoRow /\ @[i].owner = c /\ i \notin kept THEN NoRow ELSE @[i]]],
             TRUE, 0)}

NoBag(d, c) == [d EXCEPT !.bag[c] = Bare]
NoInstances(d, c) ==
  [d EXCEPT !.instance = [i \in Item |-> IF @[i] # NoRow /\ @[i].owner = c THEN NoRow ELSE @[i]]]

\* MUTANT: the items are deleted before the bag that refers to them.
DeleteCharacter_ItemsFirst(d, c) ==
  {Result(d, FALSE, 1), Result(NoInstances(d, c), FALSE, 1),
   Result(NoBag(NoInstances(d, c), c), FALSE, 1),
   Result([NoBag(NoInstances(d, c), c) EXCEPT !.mail = {m \in @ : m.receiver # c}], TRUE, 0)}

\* Three DELETEs without a transaction; the last takes the mail with it
\* (ON DELETE CASCADE).
DeleteCharacter(d, c) ==
  {Result(d, FALSE, 1), Result(NoBag(d, c), FALSE, 1),
   Result(NoInstances(NoBag(d, c), c), FALSE, 1),
   Result([NoInstances(NoBag(d, c), c) EXCEPT !.mail = {m \in @ : m.receiver # c}], TRUE, 0)}

---------------------------------------------------------------------------
\* The starter items.  TryEquipSlot hands out the slots that fit in turn, each
\* once; what finds none goes into the backpack.
TryEquipSlot(k) ==
  LET f == Fits[Starter[k].entry]
      n == Cardinality({j \in 1 .. k : ~Starter[j].bagOnly /\ Fits[Starter[j].entry] = f})
  IN IF ~Starter[k].bagOnly /\ n <= Len(f) THEN f[n] ELSE NoSlot

StarterPlace(k) ==
  LET packed == Cardinality({j \in 1 .. k : TryEquipSlot(j) = NoSlot})
      slots == SetToSortSeq(PackSlot, <)
  IN IF TryEquipSlot(k) # NoSlot THEN TryEquipSlot(k)
     ELSE IF packed <= Len(slots) THEN slots[packed] ELSE NoSlot

Placed == {k \in DOMAIN Starter : StarterPlace(k) # NoSlot}

\* One transaction.
GrantStarterItems(d, c) ==
  LET id(k) == d.next + Cardinality({j \in Placed : j < k})
      at(i) == {k \in Placed : id(k) = i}
      in(s) == {k \in Placed : StarterPlace(k) = s}
  IN {Result(d, FALSE, 1),
      Result([d EXCEPT
        !.instance = [i \in Item |->
           IF at(i) = {} THEN @[i]
           ELSE [owner |-> c, entry |-> Starter[Min(at(i))].entry, count |-> 1]],
        !.bag[c] = [s \in Slot |-> IF in(s) = {} THEN @[s] ELSE id(Min(in(s)))],
        !.next = @ + Cardinality(Placed)], TRUE, 0)}

---------------------------------------------------------------------------
\* The handlers.
Rejects(n) ==
  /\ failures + n <= MaxFailures
  /\ failures' = failures + n

\* What lies in a bag, by entry.
StacksOf(d, c, e) ==
  [s \in Slot |-> IF StackAt(d, c, s) > 0 /\ d.instance[d.bag[c][s]].entry = e
                  THEN StackAt(d, c, s) ELSE 0]

Held(d, c) == [e \in Entry |-> SumFunction(StacksOf(d, c, e))]

\* The character is read again and its slots are sent; a row that is gone is not.
SendBag(c) ==
  shown' = IF Exists(c) THEN [shown EXCEPT ![c] = LoadBag0Inventory(db', c)] ELSE shown

HandleCharCreate(c) ==
  /\ life[c] = "new"
  /\ db.next + Cardinality(Placed) <= MaxItems + 1
  /\ \E r \in GrantStarterItems(db, c) :
       /\ Rejects(r.rejected)
       /\ db' = r.db
  /\ life' = [life EXCEPT ![c] = "alive"]
  /\ ledger' = [ledger EXCEPT ![c] = Held(db', c)]
  /\ UNCHANGED <<online, shown>>

\* From the list of characters; the account may play it on another session.
HandleCharDelete(c) ==
  /\ Exists(c)
  /\ \E r \in DeleteCharacter(db, c) :
       /\ Rejects(r.rejected)
       /\ db' = r.db
       /\ life' = [life EXCEPT ![c] = IF r.ok THEN "gone" ELSE "asked"]
  /\ UNCHANGED <<online, shown, ledger>>

HandlePlayerLogin(c) ==
  /\ Exists(c)
  /\ c \notin online
  /\ online' = online \cup {c}
  /\ shown' = [shown EXCEPT ![c] = LoadBag0Inventory(db, c)]
  /\ UNCHANGED <<life, db, ledger, failures>>

\* FinalizeWorldExit reads the character and saves what it has just read.
FinalizeWorldExit(c) ==
  /\ c \in online
  /\ online' = online \ {c}
  /\ \/ /\ Exists(c)
        /\ \E r \in SaveInventory(db, c) : Rejects(r.rejected) /\ db' = r.db
     \/ /\ ~Exists(c)
        /\ UNCHANGED <<db, failures>>
  /\ shown' = [shown EXCEPT ![c] = Bare]
  /\ UNCHANGED <<life, ledger>>

\* A request that leads to tables r.db; the client is sent its slots on success.
Answer(c, r) ==
  /\ Rejects(r.rejected)
  /\ db' = r.db
  /\ IF r.ok THEN SendBag(c) ELSE UNCHANGED shown
  /\ UNCHANGED <<life, online>>

\* CMSG_SWAP_INV_ITEM and CMSG_SWAP_ITEM; from an empty slot nothing moves.
HandleSwapInvItem(c, src, dst) ==
  /\ c \in online /\ src # dst /\ db.bag[c][src] # NoItem
  /\ \E r \in SwapBag0Slots(db, c, src, dst) : Answer(c, r)
  /\ UNCHANGED ledger

\* CMSG_AUTO_EQUIP_ITEM and CMSG_USE_ITEM.
HandleAutoEquipItem(c, src) ==
  /\ c \in online /\ Exists(c)
  /\ \E r \in AutoEquipFromBag0Slot(db, c, src) : Answer(c, r)
  /\ UNCHANGED ledger

\* CMSG_AUTO_EQUIP_ITEM_SLOT names the item, wherever it lies now.
HandleAutoEquipItemSlot(c, item, dst) ==
  /\ c \in online /\ Exists(c)
  /\ \E src \in {s \in Slot : LoadBag0Inventory(db, c)[s] = item} :
       /\ src # dst
       /\ \E r \in SwapBag0Slots(db, c, src, dst) : Answer(c, r)
  /\ UNCHANGED ledger

HandleDestroyItem(c, s, want) ==
  /\ c \in online /\ Exists(c)
  /\ StackAt(db, c, s) > 0
  /\ LET e == db.instance[db.bag[c][s]].entry IN
     \E r \in DestroyBag0BackpackItem(db, c, s, want) :
       /\ Answer(c, r)
       /\ ledger' = IF r.ok THEN [ledger EXCEPT ![c][e] = @ - Taken(StackAt(db, c, s), want)]
                    ELSE ledger

\* .additem: the backpack first, then the mail.
GmAddItem(c, e, n) ==
  /\ c \in online /\ n <= MaxCount[e]
  /\ db.next + 1 <= MaxItems
  /\ \E r \in GrantItemToBag0(db, c, e, n) :
       \/ /\ r.ok
          /\ Answer(c, r)
          /\ ledger' = [ledger EXCEPT ![c][e] = @ + n]
       \/ /\ ~r.ok
          /\ \E m \in SendGmMailWithItem(r.db, c, e, n) :
               Answer(c, Result(m.db, FALSE, r.rejected + m.rejected))
          /\ UNCHANGED ledger

\* MUTANT: the client is not told what was taken.
GmRemoveItem_Silent(c, e, n) ==
  /\ c \in online /\ Exists(c)
  /\ \E r \in RemoveBag0ItemsByEntry(db, c, e, n) :
       /\ Answer(c, Result(r.db, FALSE, r.rejected))
       /\ ledger' = [ledger EXCEPT ![c][e] = @ - (n - r.left)]

\* .delitem; of an entry that is not in the backpack nothing is taken.
GmRemoveItem(c, e, n) ==
  /\ c \in online /\ Exists(c)
  /\ \E s \in PackSlot : StackAt(db, c, s) > 0 /\ db.instance[db.bag[c][s]].entry = e
  /\ \E r \in RemoveBag0ItemsByEntry(db, c, e, n) :
       /\ Answer(c, Result(r.db, r.left < n, r.rejected))
       /\ ledger' = [ledger EXCEPT ![c][e] = @ - (n - r.left)]

\* Sessions end without a logout; a statement that was never sent is one that
\* was rejected.
Crash ==
  /\ online # {}
  /\ online' = {}
  /\ shown' = [c \in Character |-> Bare]
  /\ UNCHANGED <<life, db, ledger, failures>>

Next ==
  \/ \E c \in Character :
       \/ HandleCharCreate(c) \/ HandleCharDelete(c)
       \/ HandlePlayerLogin(c) \/ FinalizeWorldExit(c)
       \/ \E src, dst \in Slot : HandleSwapInvItem(c, src, dst)
       \/ \E src \in PackSlot : HandleAutoEquipItem(c, src)
       \/ \E item \in Item, dst \in EquipSlot : HandleAutoEquipItemSlot(c, item, dst)
       \/ \E s \in PackSlot, want \in Count \cup {0} : HandleDestroyItem(c, s, want)
       \/ \E e \in Entry, n \in Count : GmAddItem(c, e, n) \/ GmRemoveItem(c, e, n)
  \/ Crash

Spec == Init /\ [][Next]_vars

---------------------------------------------------------------------------
\* Every row of a bag has its item, which belongs to that character and lies
\* nowhere else, whatever statement of a creation, grant, deletion or save was
\* the last to take effect: the INNER JOINs never hide a row.
InventoryBacked ==
  \A c \in Character, s \in Slot : db.bag[c][s] # NoItem =>
    LET i == db.bag[c][s] IN
    /\ db.instance[i] # NoRow
    /\ db.instance[i].owner = c
    /\ \A o \in Character, t \in Slot : db.bag[o][t] = i => o = c /\ t = s
    /\ \A m \in db.mail : m.item # i

\* A bag holds exactly what was reported as put into it less what was reported
\* as taken out, through every swap, equip, partial removal, rejected statement,
\* logout, deletion-and-rewrite of a save, and crash.  Of a character whose
\* deletion was asked for nothing is said.
StacksAddUp ==
  \A c \in Character : life[c] \in {"new", "alive"} => Held(db, c) = ledger[c]

\* The client of a character in the world shows in each slot the item that lies
\* there, also after a staff member gave or took items and after a refused swap.
ClientShowsTheBag ==
  \A c \in online : life[c] = "alive" => shown[c] = LoadBag0Inventory(db, c)

\* An item keeps its owner and its template, never grows, and once gone never comes
\* back under its id: the save, which deletes every item and inserts it again,
\* doubles none (SaveInventory, DestroyBag0BackpackItem, InsertInstance).
ItemsOnlyShrink ==
  [][\A i \in Item : i < db.next /\ db'.instance[i] # NoRow =>
       /\ db.instance[i] # NoRow
       /\ db'.instance[i].owner = db.instance[i].owner
       /\ db'.instance[i].entry = db.instance[i].entry
       /\ db'.instance[i].count <= db.instance[i].count]_vars

\* An item that was sent by mail because the backpack was full is still there
\* (GrantItemToBag0OrMail, and the notification of GmAddItem).
MailIsKept == \A m \in db.mail : db.instance[m.item] # NoRow

\* Nothing but its receiver's save at logout or deletion takes an item out of the
\* mail: no request on a bag and no other character's save touches it.
MailIsLostAtExit ==
  [][\A m \in db.mail : db.instance[m.item] # NoRow /\ db'.instance[m.item] = NoRow =>
       FinalizeWorldExit(m.receiver) \/ HandleCharDelete(m.receiver)]_vars
=============================================================================
