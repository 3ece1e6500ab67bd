------------------------------- MODULE Checkout --------------------------------
(* The cart of one tablet and the confirmation of orders: pages that come and    *)
(* go while a request is pending, answers that are lost, reloads, and menus that *)
(* change between browsing and ordering.  The cart's copy in localStorage is     *)
(* written in the render that changes the cart, so a reload finds the same cart. *)
EXTENDS Integers, FiniteSets, Functions

CONSTANTS Menus,
          MaxQuantity,  \* MAX_QUANTITY
          MaxPrice,     \* bound on prices
          MaxConfirms,  \* bound on confirmations
          MaxChosen,    \* bound on the pieces the customer wants
          Ideals        \* sets of IdealKinds, see there

(* What the customer, the network and the staff may be excluded to do.         *)
IdealKinds == {"stays",      \* the customer stays on the page until the answer
               "fixedMenu"}  \* menus and prices do not change

ASSUME CheckoutAssumption ==
  /\ MaxQuantity \in Nat \ {0} /\ MaxPrice \in Nat \ {0}
  /\ MaxConfirms \in Nat /\ MaxChosen \in Nat /\ Ideals \subseteq SUBSET IdealKinds

VARIABLES menu,     \* price of each menu on the server, 0 once it is deleted
          browsed,  \* ... as the menu page loaded it, 0 on other pages
          cart, page,
          posts,    \* createOrder requests without an answer handled yet
          confirms, \* confirmations so far
          placed,   \* orders the server has stored
          chosen,   \* pieces of each menu the customer has asked for
          ordered,  \* pieces of each menu in the orders stored
          unsure,   \* ... in those whose success no waiting page has seen: history
          ideal     \* what is excluded in this behaviour: it never changes

vars == <<menu, browsed, cart, page, posts, confirms, placed, chosen, ordered, unsure,
          ideal>>

(* A cart maps the menus in it to their lines.                                 *)
Line == [price : 1 .. MaxPrice, qty : 1 .. MaxQuantity]
Partial(S) == UNION {[M -> S] : M \in SUBSET Menus}
Empty == [m \in {} |-> 0]

Qty(lines, m) == IF m \in DOMAIN lines THEN lines[m].qty ELSE 0

(* A sum is kept as its terms, one for each line.                              *)
Total(lines) == [m \in DOMAIN lines |-> lines[m].price * lines[m].qty]

Post == [n : 1 .. MaxConfirms, lines : Partial(Line),
         at : {"page", "left", "reloaded"}, reply : {"none", "ok", "error"}]

TypeOK == /\ menu \in [Menus -> 0 .. MaxPrice] /\ browsed \in [Menus -> 0 .. MaxPrice]
          /\ cart \in Partial(Line)
          /\ page \in {"menu", "cart", "confirm", "success"}
          /\ posts \subseteq Post /\ confirms \in 0 .. MaxConfirms
          /\ \A o \in placed : o \in [n : 1 .. MaxConfirms, lines : Partial(Line),
                                    total : [DOMAIN o.lines -> Nat]]
          /\ chosen \in [Menus -> Int] /\ ordered \in [Menus -> Nat]
          /\ unsure \in [Menus -> Int] /\ ideal \in Ideals

Init == /\ menu \in [Menus -> 1 .. MaxPrice] /\ browsed = menu
        /\ cart = Empty /\ page = "menu" /\ posts = {} /\ confirms = 0 /\ placed = {}
        /\ chosen = [m \in Menus |-> 0] /\ ordered = chosen /\ unsure = chosen
        /\ ideal \in Ideals

-------------------------------------------------------------------------------
(* cart-logic.ts                                                               *)

(* Mutant: no upper bound. *)
Uncapped(q) == q
Capped(q) == IF q > MaxQuantity THEN MaxQuantity ELSE q

RemoveItem(lines, m) == Restrict(lines, DOMAIN lines \ {m})

AddItem(lines, m, price) ==
  [n \in DOMAIN lines \cup {m} |->
     IF n # m THEN lines[n]
     ELSE IF m \in DOMAIN lines THEN [lines[m] EXCEPT !.qty = Capped(lines[m].qty + 1)]
     ELSE [price |-> price, qty |-> 1]]

SetQuantity(lines, m, q) == IF q <= 0 THEN RemoveItem(lines, m)
                            ELSE [lines EXCEPT ![m].qty = Capped(q)]

-------------------------------------------------------------------------------
(* The customer.                                                               *)

Edit(lines) == /\ cart' = lines
               /\ chosen' = [m \in Menus |-> chosen[m] + Qty(lines, m) - Qty(cart, m)]
               /\ UNCHANGED <<menu, browsed, page, posts, confirms, placed, ordered, unsure, ideal>>

WantsMore == SumFunction(chosen) < MaxChosen

Add(m) == /\ page = "menu" /\ browsed[m] > 0 /\ WantsMore
          /\ Edit(AddItem(cart, m, browsed[m]))

Adjust == /\ page = "cart"
          /\ \E m \in DOMAIN cart :
               \/ Edit(RemoveItem(cart, m)) \/ Edit(SetQuantity(cart, m, cart[m].qty - 1))
               \/ WantsMore /\ Edit(SetQuantity(cart, m, cart[m].qty + 1))

Clear == page = "cart" /\ cart # Empty /\ Edit(Empty)

(* Leaving a page unmounts it; its request goes on.  The menu is read afresh.  *)
(* The success page goes to the menu by itself after REDIRECT_SECONDS.         *)
Left == {IF p.at = "page" THEN [p EXCEPT !.at = "left"] ELSE p : p \in posts}
Shows(next) ==
  page' = next /\ browsed' = IF next = "menu" THEN menu ELSE [m \in Menus |-> 0]

Submitting == \E p \in posts : p.at = "page"

Go(next) == /\ page # next /\ ("stays" \in ideal => ~Submitting)
            /\ next = "confirm" => page = "cart" /\ cart # Empty
            /\ Shows(next) /\ posts' = Left
            /\ UNCHANGED <<menu, cart, confirms, placed, chosen, ordered, unsure, ideal>>

Confirm == /\ page = "confirm" /\ cart # Empty /\ ~Submitting /\ confirms < MaxConfirms
           /\ confirms' = confirms + 1
           /\ posts' = posts \cup
                {[n |-> confirms + 1, lines |-> cart, at |-> "page", reply |-> "none"]}
           /\ UNCHANGED <<menu, browsed, cart, page, placed, chosen, ordered, unsure, ideal>>

Reload == /\ "stays" \in ideal => ~Submitting
          /\ Shows(page)
          /\ posts' = {[p EXCEPT !.at = "reloaded"] : p \in {q \in posts : q.reply = "none"}}
          /\ UNCHANGED <<menu, cart, page, confirms, placed, chosen, ordered, unsure, ideal>>

-------------------------------------------------------------------------------
(* The server prices the menus asked for anew.  It reads the order back after   *)
(* the commit: if that fails the answer is an error, and the order is stored.  *)

Answer(p, reply) ==
  posts' = (posts \ {p}) \cup IF p.at = "reloaded" THEN {} ELSE {[p EXCEPT !.reply = reply]}

(* Mutant: each line is priced once, whatever its quantity.                    *)
PricedOnce(lines) == [m \in DOMAIN lines |-> menu[m]]
Priced(lines) == [m \in DOMAIN lines |-> menu[m] * lines[m].qty]

Serve(p) == /\ p \in posts /\ p.reply = "none"
            /\ IF \A m \in DOMAIN p.lines : menu[m] > 0
               THEN /\ placed' = placed \cup
                         {[n |-> p.n, lines |-> p.lines, total |-> Priced(p.lines)]}
                    /\ ordered' = [m \in Menus |-> ordered[m] + Qty(p.lines, m)]
                    /\ unsure' = [m \in Menus |-> unsure[m] + Qty(p.lines, m)]
                    /\ \E reply \in {"ok", "error"} : Answer(p, reply)
               ELSE Answer(p, "error") /\ UNCHANGED <<placed, ordered, unsure>>
            /\ UNCHANGED <<menu, browsed, cart, page, confirms, chosen, ideal>>

(* The request does not arrive or is refused, or its answer does not arrive.   *)
Lose(p) == /\ p \in posts /\ p.reply # "error" /\ Answer(p, "error")
           /\ UNCHANGED <<menu, browsed, cart, page, confirms, placed, chosen, ordered, unsure,
                          ideal>>

Reprice(m) == /\ "fixedMenu" \notin ideal /\ menu[m] > 0
              /\ \E price \in {0, menu[m] + 1} :
                   price <= MaxPrice /\ menu' = [menu EXCEPT ![m] = price]
              /\ UNCHANGED <<browsed, cart, page, posts, confirms, placed, chosen, ordered, unsure,
                            ideal>>

(* What the history notes: the page that confirmed the order has seen it stored. *)
Seen(p) == unsure' = [m \in Menus |->
                        unsure[m] - IF p.reply = "ok" /\ p.at = "page" THEN Qty(p.lines, m) ELSE 0]

(* Mutants: an error empties the cart too; success keeps it; an answer is      *)
(* handled only while its page is open.                                        *)
ClearAlways(p) ==
  /\ p \in posts /\ p.at # "reloaded" /\ p.reply # "none"
  /\ cart' = Empty
  /\ IF p.reply = "ok" THEN Shows("success") /\ posts' = Left \ {[p EXCEPT !.at = "left"]}
     ELSE UNCHANGED <<page, browsed>> /\ posts' = posts \ {p}
  /\ Seen(p) /\ UNCHANGED <<menu, confirms, placed, chosen, ordered, ideal>>
ClearNever(p) ==
  /\ p \in posts /\ p.at # "reloaded" /\ p.reply # "none"
  /\ IF p.reply = "ok" THEN Shows("success") /\ posts' = Left \ {[p EXCEPT !.at = "left"]}
     ELSE UNCHANGED <<page, browsed>> /\ posts' = posts \ {p}
  /\ Seen(p) /\ UNCHANGED <<menu, cart, confirms, placed, chosen, ordered, ideal>>
HandleOnPage(p) ==
  /\ p \in posts /\ p.at = "page" /\ p.reply # "none"
  /\ cart' = IF p.reply = "ok" THEN Empty ELSE cart
  /\ IF p.reply = "ok" THEN Shows("success") ELSE UNCHANGED <<page, browsed>>
  /\ posts' = posts \ {p}
  /\ Seen(p) /\ UNCHANGED <<menu, confirms, placed, chosen, ordered, ideal>>

(* Success empties the cart and shows the success page, wherever the customer  *)
(* is by now; an error keeps the cart.                                         *)
Handle(p) == /\ p \in posts /\ p.at # "reloaded" /\ p.reply # "none"
             /\ IF p.reply = "ok"
                THEN /\ cart' = Empty /\ Shows("success")
                     /\ posts' = Left \ {[p EXCEPT !.at = "left"]}
                ELSE UNCHANGED <<cart, page, browsed>> /\ posts' = posts \ {p}
             /\ Seen(p) /\ UNCHANGED <<menu, confirms, placed, chosen, ordered, ideal>>

-------------------------------------------------------------------------------
Customer == \/ \E m \in Menus : Add(m)
            \/ \E next \in {"menu", "cart", "confirm"} : Go(next)
            \/ Adjust \/ Clear \/ Confirm \/ Reload

Requests == \E p \in posts : Serve(p) \/ Lose(p) \/ Handle(p)

Next == Customer \/ Requests \/ \E m \in Menus : Reprice(m)

(* A request that was sent is answered, or the browser sees its connection     *)
(* fail; the customer has to do nothing.                                       *)
Spec == Init /\ [][Next]_vars /\ WF_vars(Requests)

-------------------------------------------------------------------------------
(* Only an order whose success its own page has not seen can be ordered again: the *)
(* answer lost, an error for an order that was stored, the page left or reloaded. *)
(* Pieces ordered, and those still in the cart and so about to be, are otherwise  *)
(* no more than the customer chose.                                               *)
NothingTwice == \A m \in Menus : ordered[m] + Qty(cart, m) <= chosen[m] + unsure[m]

(* When the customer waits for answers every piece chosen is ordered or still in  *)
(* the cart, whatever is lost.  The late success of an order whose page was left  *)
(* would empty a cart that has been filled again.                                 *)
NothingWiped == "stays" \in ideal /\ posts = {} =>
                  \A m \in Menus : chosen[m] <= ordered[m] + Qty(cart, m)

(* The total the server stores is the total of the cart that was confirmed, as  *)
(* long as no price changes in between: nobody compares the two.               *)
TotalAgrees == "fixedMenu" \in ideal => \A o \in placed : o.total = Total(o.lines)

(* Every confirmation ends, whether its page is still open or not.             *)
ConfirmEnds == \A n \in 1 .. MaxConfirms :
                 (\E p \in posts : p.n = n) ~> ~(\E p \in posts : p.n = n)

================================================================================
