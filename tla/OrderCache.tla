------------------------------ MODULE OrderCache ----------------------------
(***************************************************************************)
(* order-service keeps one order under several Redis keys: by its id, in   *)
(* the list of its buyer, in the list of every seller of an item, its list *)
(* of items and each item.  A change of the order computes the keys it     *)
(* deletes from the order it loaded before it waited for the catalog, the  *)
(* broker and the commit, and from the items it adds or takes out itself.  *)
(*                                                                         *)
(* Keys do not influence one another: a behaviour follows one key, chosen  *)
(* at its start.  The statements of one read are taken as one (a change    *)
(* between them makes the fill late as one after them does), and so are    *)
(* those of one write, with the refresh after update_all_items.  The total *)
(* is left out: every change deletes all keys that show it.  A request is  *)
(* a handler, made again and again; MaxChanges bounds the commits.         *)
(***************************************************************************)
EXTENDS OrderStatus, Naturals

CONSTANTS Item, Seller,
          SellerOf,      \* item -> its seller
          First,         \* the orders a behaviour may start with, None: there is none yet
          Quantities, Request, Reader, MaxChanges, None

SomeItems == UNION {[S -> Quantities] : S \in SUBSET Item}
NoItems == [i \in {} |-> None]
Order == [status : Status, items : SomeItems]

\* Keys of different kinds have different prefixes.
ASSUME OrderCacheAssumption ==
    /\ SellerOf \in [Item -> Seller] /\ MaxChanges \in Nat
    /\ None \notin Item \cup Seller \cup Quantities \cup Status \cup SomeItems \cup Order
    /\ First \subseteq Order \cup {None}
    /\ Item \cap Seller = {} /\ {"order", "user", "items"} \cap (Item \cup Seller) = {}

VARIABLES order,     \* [status, items], or None: the committed rows
          used,      \* ids of items that were given out
          req,       \* request -> its handler
          key,       \* the key this behaviour follows
          entry, reader, kept,    \* CacheAside
          changes

Cache == INSTANCE CacheAside

cached == <<entry, reader, kept>>
vars == <<order, used, req, key, cached, changes>>

Key == {"order", "user", "items"} \cup Item \cup Seller
Lists == {"user"} \cup Seller

Idle == [pc |-> "idle", kind |-> None, loaded |-> None, item |-> None, was |-> None,
         quantity |-> None, status |-> None, new |-> NoItems, delete |-> {}]

\* A list is stored even when it is empty, what was not found is not.
Stores(value) == key \in Lists \/ value # None

TypeOK ==
    /\ order = None \/ order \in Order
    /\ order # None => DOMAIN order.items \subseteq used
    /\ used \subseteq Item /\ key \in Key /\ changes \in 0..MaxChanges
    /\ \A r \in Request : req[r].pc \in {"idle", "find", "commit", "delete", "lists"}
                          /\ req[r].delete \subseteq Key
    /\ entry # None => Stores(entry.value)

Init ==
    /\ order \in First /\ used = (IF order = None THEN {} ELSE DOMAIN order.items)
    /\ req = [r \in Request |-> Idle]
    /\ key \in Key /\ changes = 0
    /\ Cache!CacheInit

-----------------------------------------------------------------------------
(* What the reads make of the rows                                         *)

OrderById(o) == o
OrdersOfUser(o) == o
ItemsOfOrder(o) == o.items
ItemOfOrder(o, i) == IF i \in DOMAIN o.items THEN o.items[i] ELSE None

\* A seller sees an order with his own items only, and only if it has some.
OrdersOfSeller(o, s) ==
    LET own == {i \in DOMAIN o.items : SellerOf[i] = s}
    IN  IF own = {} THEN None
        ELSE [status |-> o.status, items |-> [i \in own |-> o.items[i]]]

View(k, o) ==
    IF o = None THEN None
    ELSE CASE k = "order"  -> OrderById(o)
           [] k = "user"   -> OrdersOfUser(o)
           [] k = "items"  -> ItemsOfOrder(o)
           [] k \in Item   -> ItemOfOrder(o, k)
           [] k \in Seller -> OrdersOfSeller(o, k)

Load(r) == Cache!Load(r, View(key, order)) /\ UNCHANGED <<order, used, req, key, changes>>

Fill(r) == /\ Stores(reader[r].value)
           /\ Cache!Fill(r) /\ UNCHANGED <<order, used, req, key, changes>>

NoFill(r) == Cache!NoFill(r) /\ UNCHANGED <<order, used, req, key, changes>>

\* Every entry is stored with a TTL.
Expire == Cache!Expire /\ UNCHANGED <<order, used, req, key, changes>>

-----------------------------------------------------------------------------
(* The keys of an order: those under its own id, then the lists            *)

KeysOf(items) == {"order", "items", "user"} \cup items \cup {SellerOf[i] : i \in items}

\* A request begins.  What it asks for is checked against the order it loads; of the keys
\* it is to delete only the followed one is remembered.
Begin(r, step, kind, items, keys, asked) ==
    /\ req[r] = Idle /\ changes < MaxChanges
    /\ req' = [req EXCEPT ![r] = [asked EXCEPT !.pc = step, !.kind = kind, !.loaded = items,
                                               !.delete = keys \cap {key}]]
    /\ UNCHANGED <<order, key, cached, changes>>

Fresh(new) == new # NoItems /\ DOMAIN new \cap used = {}
Takes(ids) == used' = used \cup ids
CanEdit == order # None /\ order.status \in {"created", "waiting_payment"}

\* The lists of the buyer and of the sellers, nothing else shows the order yet.
CreateOrder(r) == \E new \in SomeItems :
    /\ order = None /\ used = {} /\ Fresh(new) /\ Takes(DOMAIN new)
    /\ Begin(r, "commit", "create", None, Lists \cap KeysOf(DOMAIN new),
             [Idle EXCEPT !.new = new])

\* update_order, cancel_order, close_order and the event handlers.
SetStatus(r) == order # None /\ \E s \in Transitions[order.status] :
    /\ s = "closed" => order.items # NoItems
    /\ Begin(r, "commit", "status", order.items, KeysOf(DOMAIN order.items),
             [Idle EXCEPT !.status = s])
    /\ UNCHANGED used

AddItemForgetting(r) == \E i \in Item \ used, q \in Quantities :
    /\ CanEdit /\ Takes({i})
    /\ Begin(r, "commit", "add", order.items, KeysOf(DOMAIN order.items),
             [Idle EXCEPT !.item = i, !.quantity = q])
\* order.items does not get the new item: its id and seller are named apart.
AddItem(r) == \E i \in Item \ used, q \in Quantities :
    /\ CanEdit /\ Takes({i})
    /\ Begin(r, "commit", "add", order.items, KeysOf({i} \cup DOMAIN order.items),
             [Idle EXCEPT !.item = i, !.quantity = q])

\* The item is looked up after the order.
UpdateItem(r) == \E q \in Quantities :
    /\ CanEdit /\ UNCHANGED used
    /\ Begin(r, "find", "update", order.items, {}, [Idle EXCEPT !.quantity = q])

RemoveItem(r) == CanEdit /\ Begin(r, "find", "remove", order.items, {}, Idle) /\ UNCHANGED used

\* An item that came with the order keeps the quantity it had then.
Find(r) == req[r].pc = "find" /\ \E i \in DOMAIN order.items :
    LET items == req[r].loaded
    IN  /\ req' = [req EXCEPT ![r] =
             [@ EXCEPT !.pc = "commit", !.item = i,
                       !.was = IF i \in DOMAIN items THEN items[i] ELSE order.items[i],
                       !.delete = {key} \cap KeysOf(DOMAIN items \cup
                                         IF req[r].kind = "remove" THEN {i} ELSE {})]]
        /\ UNCHANGED <<order, used, key, cached, changes>>

UpdateAllItems(r) == \E new \in SomeItems :
    /\ CanEdit /\ Fresh(new) /\ Takes(DOMAIN new)
    /\ Begin(r, "commit", "replace", order.items,
             KeysOf(DOMAIN new \cup DOMAIN order.items), [Idle EXCEPT !.new = new])

-----------------------------------------------------------------------------
(* The commit and the two deletes that follow it                           *)

Without(items, i) == [j \in DOMAIN items \ {i} |-> items[j]]
With(items, i, q) == [j \in DOMAIN items \cup {i} |-> IF j = i THEN q ELSE items[j]]

After(q) ==
    CASE q.kind = "create"  -> [status |-> "created", items |-> q.new]
      [] q.kind = "status"  -> [order EXCEPT !.status = q.status]
      [] q.kind = "add"     -> [order EXCEPT !.items = With(@, q.item, q.quantity)]
      [] q.kind = "update"  -> IF q.was = q.quantity THEN order
                               ELSE [order EXCEPT !.items[q.item] = q.quantity]
      [] q.kind = "remove"  -> [order EXCEPT !.items = Without(@, q.item)]
      [] q.kind = "replace" -> [order EXCEPT !.items = q.new]

\* UPDATE of an item that is gone: StaleDataError, the request can only fail.
RowGone(q) == q.kind = "update" /\ q.was # q.quantity /\ q.item \notin DOMAIN order.items

\* An item of this key came after the request had loaded the order.
CameSince(q) ==
    q.loaded # None /\ \E i \in DOMAIN order.items \ DOMAIN q.loaded :
                          key = i \/ key = SellerOf[i]

Commit(r) ==
    /\ req[r].pc = "commit" /\ ~RowGone(req[r]) /\ changes < MaxChanges
    /\ order' = After(req[r]) /\ changes' = changes + 1
    /\ req' = [req EXCEPT ![r] =
                 [Idle EXCEPT !.pc = IF req[r].kind = "create" THEN "lists" ELSE "delete",
                              !.delete = req[r].delete]]
    /\ IF View(key, order') = View(key, order) THEN UNCHANGED cached
       ELSE IF CameSince(req[r]) THEN Cache!ChangeKept ELSE Cache!Change
    /\ UNCHANGED <<used, key>>

\* RedisCache.delete catches what Redis raises.
Delete(keys) == IF key \in keys THEN Cache!Delete \/ Cache!LoseDelete ELSE UNCHANGED cached

DeleteKeys(r) ==
    /\ req[r].pc = "delete"
    /\ Delete(req[r].delete \ Lists)
    /\ req' = [req EXCEPT ![r].pc = "lists", ![r].delete = @ \cap Lists]
    /\ UNCHANGED <<order, used, key, changes>>

DeleteLists(r) ==
    /\ req[r].pc = "lists"
    /\ Delete(req[r].delete)
    /\ req' = [req EXCEPT ![r] = Idle]
    /\ UNCHANGED <<order, used, key, changes>>

\* The request fails, or its handler dies: what it had still to delete stays.
Deleting(r) == req[r].pc \in {"delete", "lists"} /\ key \in req[r].delete
Die(r) ==
    /\ req[r] # Idle
    /\ IF Deleting(r) THEN Cache!LoseDelete ELSE UNCHANGED cached
    /\ req' = [req EXCEPT ![r] = Idle]
    /\ UNCHANGED <<order, used, key, changes>>

Next ==
    \/ \E r \in Request :
          \/ CreateOrder(r) \/ SetStatus(r) \/ AddItem(r) \/ UpdateItem(r)
          \/ RemoveItem(r) \/ UpdateAllItems(r)
          \/ Find(r) \/ Commit(r) \/ DeleteKeys(r) \/ DeleteLists(r) \/ Die(r)
    \/ \E r \in Reader : Load(r) \/ Fill(r) \/ NoFill(r)
    \/ Expire

Spec == Init /\ [][Next]_vars

-----------------------------------------------------------------------------
(* Properties                                                              *)

\* What a key shows differs from the rows only when a fill overlapped the change, a
\* delete is still to come or was lost; and, for an item and for the list of its seller,
\* when the item came after the changing request had loaded the order (CameSince): all
\* the other keys, and these otherwise, are deleted by every change that they show.
CachedViewStaleOnlyIfLate ==
    Cache!StaleOnlyIfLate(View(key, order), \E r \in Request : Deleting(r))
=============================================================================
