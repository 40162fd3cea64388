------------------------------ MODULE CartStore ------------------------------
(***************************************************************************)
(* The cart service: concurrent AddItem, GetCart and EmptyCart calls on    *)
(* the Valkey server, one command at a time.                               *)
(*                                                                         *)
(* A cart is one value under the user's key, so adding an item reads it,   *)
(* changes a copy and writes the copy back; the key's expiry is set by a   *)
(* command of its own.  Each command can fail, with or without effect.     *)
(*                                                                         *)
(* A stored cart has the field units, which the service does not store: it *)
(* names the AddItem calls whose item went into it.                        *)
(***************************************************************************)
EXTENDS Integers, FiniteSetsExt

CONSTANTS Users,      \* user ids
          Products,   \* product ids
          Calls,      \* bound: the calls of the service
          Quantities, \* quantities of AddItem calls
          IntHalf     \* 2^31 in the code: quantities are int32

ASSUME IntHalfAssumption == IntHalf \in Nat \ {0}
ASSUME QuantitiesAssumption == Quantities \subseteq (-IntHalf)..(IntHalf - 1)
ASSUME NamesAssumption == {"", "null"} \cap Users = {}

Int32 == (-IntHalf)..(IntHalf - 1)
Wrap(n) == ((n + IntHalf) % (2 * IntHalf)) - IntHalf

Requests ==
  [op : {"add"}, user : Users, product : Products, quantity : Quantities]
    \cup [op : {"get", "empty"}, user : Users]

Lines == [product : Products, quantity : Int32]

\* What HashGet returns when there is no such key.
None == [user |-> "null", lines |-> {}, units |-> {}]
Carts == [user : Users \cup {""}, lines : SUBSET Lines, units : SUBSET Calls]

VARIABLES request,  \* what each call asks for
          at,       \* the command each call is at
          status,   \* how each call ended
          held,     \* the cart each call has read
          stored,   \* the carts in Valkey
          expires,  \* users whose key has an expiry
          added     \* AddItem calls whose item was stored

vars == <<request, at, status, held, stored, expires, added>>

TypeOK ==
  /\ request \in [Calls -> Requests]
  /\ at \in [Calls -> {"idle", "HashGet", "HashSet", "KeyExpire", "end"}]
  /\ status \in [Calls -> {"none", "ok", "error"}]
  /\ held \in [Calls -> Carts \cup {None}]
  /\ stored \in [Users -> Carts \cup {None}]
  /\ expires \in SUBSET Users
  /\ added \in SUBSET Calls

Init ==
  /\ request \in [Calls -> Requests]
  /\ at = [c \in Calls |-> "idle"]
  /\ status = [c \in Calls |-> "none"]
  /\ held = [c \in Calls |-> None]
  /\ stored = [u \in Users |-> None]
  /\ expires = {}
  /\ added = {}

-----------------------------------------------------------------------------
(* Carts.                                                                  *)

\* _emptyCartBytes: the cart of nobody, which is not the same as no cart.
EmptyCart == [user |-> "", lines |-> {}, units |-> {}]

NewCart(u) == [user |-> u, lines |-> {}, units |-> {}]

Single(lines) == \A one, other \in lines : one = other

LinesOf(cart, p) == {line \in cart.lines : line.product = p}

\* Mutant: the item is added without looking for a line of the same product.
AddLine_Always(cart, p, n) == cart.lines \cup {[product |-> p, quantity |-> n]}

\* Mutant: the quantity of the call replaces that of the line.
AddLine_Replaces(cart, p, n) ==
  (cart.lines \ LinesOf(cart, p)) \cup {[product |-> p, quantity |-> n]}

\* cart.Items with the quantity added to the product's line, or with a new line.
AddLine(cart, p, n) ==
  LET old == LinesOf(cart, p)
  IN IF old = {} THEN cart.lines \cup {[product |-> p, quantity |-> n]}
     ELSE (cart.lines \ old)
            \cup {[line EXCEPT !.quantity = Wrap(@ + n)] : line \in old}

\* What AddItemAsync writes, of what it has read.
WithItem(c) ==
  LET r == request[c]
      cart == IF held[c] = None THEN NewCart(r.user) ELSE held[c]
  IN [cart EXCEPT !.lines = AddLine(cart, r.product, r.quantity),
                  !.units = @ \cup {c}]

\* SingleOrDefault throws when it finds the product on two lines.
Addable(c) == Single(LinesOf(held[c], request[c].product))

-----------------------------------------------------------------------------
(* The commands, as Valkey executes them.                                  *)

HashSet(u, cart) ==
  /\ stored' = [stored EXCEPT ![u] = cart]
  /\ UNCHANGED expires

\* The cart a call at HashSet writes.
Written(c) == IF request[c].op = "add" THEN WithItem(c) ELSE EmptyCart

\* Setting the expiry of a key that is not there does nothing.
KeyExpire(u) ==
  /\ expires' = IF stored[u] = None THEN expires ELSE expires \cup {u}
  /\ UNCHANGED stored

-----------------------------------------------------------------------------
(* The calls.                                                              *)

Running(c) == at[c] \in {"HashGet", "HashSet", "KeyExpire"} /\ status[c] = "none"

Goto(c, place) == at' = [at EXCEPT ![c] = place] /\ UNCHANGED status
Return(c) == at' = [at EXCEPT ![c] = "end"] /\ status' = [status EXCEPT ![c] = "ok"]

\* EmptyCartAsync reads nothing.
Begin(c) ==
  /\ at[c] = "idle"
  /\ Goto(c, IF request[c].op = "empty" THEN "HashSet" ELSE "HashGet")
  /\ UNCHANGED <<request, held, stored, expires, added>>

GetHash(c) ==
  /\ at[c] = "HashGet" /\ Running(c)
  /\ held' = [held EXCEPT ![c] = stored[request[c].user]]
  /\ IF request[c].op = "get" THEN Return(c) ELSE Goto(c, "HashSet")
  /\ UNCHANGED <<request, stored, expires, added>>

\* Mutant: the call does not set the expiry.
SetHash_Returns(c) ==
  /\ at[c] = "HashSet" /\ Running(c)
  /\ request[c].op = "add" => Addable(c)
  /\ HashSet(request[c].user, Written(c))
  /\ added' = IF request[c].op = "add" THEN added \cup {c} ELSE added
  /\ Return(c)
  /\ UNCHANGED <<request, held>>

\* Mutant: the call starts over when it has stored its item.
SetHash_StartsOver(c) ==
  /\ at[c] = "HashSet" /\ Running(c)
  /\ request[c].op = "add" => Addable(c)
  /\ HashSet(request[c].user, Written(c))
  /\ added' = IF request[c].op = "add" THEN added \cup {c} ELSE added
  /\ Goto(c, "HashGet")
  /\ UNCHANGED <<request, held>>

SetHash(c) ==
  /\ at[c] = "HashSet" /\ Running(c)
  /\ request[c].op = "add" => Addable(c)
  /\ HashSet(request[c].user, Written(c))
  /\ added' = IF request[c].op = "add" THEN added \cup {c} ELSE added
  /\ Goto(c, "KeyExpire")
  /\ UNCHANGED <<request, held>>

SetExpiry(c) ==
  /\ at[c] = "KeyExpire" /\ Running(c)
  /\ KeyExpire(request[c].user)
  /\ Return(c)
  /\ UNCHANGED <<request, held, added>>

\* An exception: no connection, a command that fails or is not answered (and may
\* have been executed), a cart that cannot be changed, the bad store of the
\* cartFailure flag, or the end of the process.
Fail(c) ==
  /\ Running(c)
  /\ status' = [status EXCEPT ![c] = "error"]
  /\ \/ UNCHANGED <<stored, expires, added>>
     \/ /\ at[c] = "HashSet" /\ (request[c].op = "add" => Addable(c))
        /\ HashSet(request[c].user, Written(c))
        /\ added' = IF request[c].op = "add" THEN added \cup {c} ELSE added
     \/ /\ at[c] = "KeyExpire"
        /\ KeyExpire(request[c].user)
        /\ UNCHANGED added
  /\ UNCHANGED <<request, at, held>>

-----------------------------------------------------------------------------
(* Valkey.                                                                 *)

\* Keys whose time is over, or all keys when the server is replaced.
Lose(users) ==
  /\ users # {}
  /\ \A u \in users : stored[u] # None
  /\ users \subseteq expires \/ users = {u \in Users : stored[u] # None}
  /\ stored' = [u \in Users |-> IF u \in users THEN None ELSE stored[u]]
  /\ expires' = expires \ users
  /\ UNCHANGED <<request, at, status, held, added>>

Next ==
  \/ \E c \in Calls :
       Begin(c) \/ GetHash(c) \/ SetHash(c) \/ SetExpiry(c) \/ Fail(c)
  \/ \E users \in SUBSET Users : Lose(users)

Spec == Init /\ [][Next]_vars

-----------------------------------------------------------------------------
(* Properties.                                                             *)

\* A product is on one line of a cart at most, however calls interleave: a second
\* line would make every later AddItem of the product fail (SingleOrDefault).
OneLinePerProduct ==
  \A u \in Users, p \in Products : Single(LinesOf(stored[u], p))

\* The lines of a cart are the sums of what the AddItem calls in it added: a
\* quantity is lost with its call or kept with its call, never counted twice.
LinesAddUp ==
  \A u \in Users, p \in Products :
    LET calls == {c \in stored[u].units : request[c].product = p}
    IN {line.quantity : line \in LinesOf(stored[u], p)} =
         IF calls = {} THEN {}
         ELSE {Wrap(MapThenSumSet(LAMBDA c : request[c].quantity, calls))}

\* A cart that will never expire was left by a call that failed at or just before
\* setting the expiry; while no call fails there is none but those being set.
OnlyFailuresStay ==
  \A u \in Users :
    stored[u] # None /\ u \notin expires =>
      \E c \in Calls : /\ request[c].user = u
                       /\ \/ at[c] = "KeyExpire"
                          \/ at[c] = "HashSet" /\ status[c] = "error"

\* The service keeps the contract checkout relies on.
Additions ==
  {[user |-> request[c].user, unit |-> c, seen |-> held[c].units] :
     c \in {d \in Calls : at[d] = "HashSet" /\ Running(d) /\ request[d].op = "add"}}

Contract == INSTANCE CartContract
            WITH Units <- Calls, cart <- [u \in Users |-> stored[u].units],
                 adding <- Additions
ContractKept == Contract!Spec

\* An EmptyCart call for the user has stored its cart, or failed at doing so.
Emptied(u) ==
  \E c \in Calls : /\ request[c].op = "empty" /\ request[c].user = u
                   /\ \/ at[c] \in {"KeyExpire", "end"}
                      \/ at[c] = "HashSet" /\ status[c] = "error"

\* A cart names its user, or nobody, and nobody only after an EmptyCart call of
\* the user: that call stores a cart without a user, and every AddItem after it
\* keeps adding to that one.  A cart never names somebody else.
NamedUnlessEmptied ==
  \A u \in Users :
    LET named == stored[u].user
    IN stored[u] = None \/ named = u \/ (named = "" /\ Emptied(u))

\* Carts stay carts, however calls interleave and commands fail.
CartsWellFormed == OneLinePerProduct /\ NamedUnlessEmptied
=============================================================================
