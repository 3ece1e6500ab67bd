---------------------------- MODULE CheckoutProofs -----------------------------
(* What holds of Checkout for any menus, prices, caps and numbers of orders:      *)
(* pieces are ordered again only by orders whose success their page has not seen; *)
(* a customer who waits for answers loses no piece; if no price changes, the      *)
(* server bills what the cart showed.                                             *)
EXTENDS Checkout, TLAPS

--------------------------------------------------------------------------------
(* Carts.                                                                         *)

LEMMA PartialIs ==
  ASSUME NEW S, NEW f
  PROVE  f \in Partial(S) <=> DOMAIN f \subseteq Menus /\ f \in [DOMAIN f -> S]
<1>1. ASSUME f \in Partial(S) PROVE DOMAIN f \subseteq Menus /\ f \in [DOMAIN f -> S]
  BY <1>1 DEF Partial
<1>2. ASSUME DOMAIN f \subseteq Menus, f \in [DOMAIN f -> S] PROVE f \in Partial(S)
  BY <1>2 DEF Partial
<1> QED
  BY <1>1, <1>2

LEMMA EmptyTyped == DOMAIN Empty = {} /\ \A S : Empty \in Partial(S)
<1>1. DOMAIN Empty = {}
  BY DEF Empty
<1>2. \A S : Empty \in [DOMAIN Empty -> S]
  BY DEF Empty
<1> QED
  BY <1>1, <1>2, PartialIs

LEMMA CappedTyped == \A q \in Nat \ {0} : Capped(q) \in 1 .. MaxQuantity
BY CheckoutAssumption DEF Capped

LEMMA LineTyped ==
  ASSUME NEW lines \in Partial(Line), NEW m \in DOMAIN lines
  PROVE  /\ m \in Menus /\ lines[m] \in Line
         /\ lines[m].price \in 1 .. MaxPrice /\ lines[m].qty \in 1 .. MaxQuantity
<1>1. m \in Menus /\ lines[m] \in Line
  BY PartialIs
<1> QED
  BY <1>1 DEF Line

LEMMA QtyTyped == \A lines \in Partial(Line) : \A m : Qty(lines, m) \in Nat
BY LineTyped DEF Qty

(* What an edit of the cart makes is a cart again; lines that were there keep     *)
(* their prices.                                                                  *)
Keeps(lines, new) == new \in Partial(Line) /\ \A n \in DOMAIN new \cap DOMAIN lines :
                                                 new[n].price = lines[n].price

LEMMA RemoveKeeps ==
  ASSUME NEW lines \in Partial(Line), NEW m
  PROVE  Keeps(lines, RemoveItem(lines, m)) /\ DOMAIN RemoveItem(lines, m) \subseteq DOMAIN lines
<1> DEFINE new == [n \in DOMAIN lines \ {m} |-> lines[n]]
<1>1. RemoveItem(lines, m) = new
  BY DEF RemoveItem, Restrict
<1>2. DOMAIN lines \subseteq Menus /\ lines \in [DOMAIN lines -> Line]
  BY PartialIs
<1>3. DOMAIN new \subseteq DOMAIN lines /\ \A n \in DOMAIN new : new[n] = lines[n]
  OBVIOUS
<1>4. new \in Partial(Line)
  BY <1>2, PartialIs
<1> HIDE DEF new
<1> QED
  BY <1>1, <1>3, <1>4 DEF Keeps

LEMMA AddKeeps ==
  ASSUME NEW lines \in Partial(Line), NEW m \in Menus, NEW price \in 1 .. MaxPrice
  PROVE  LET new == AddItem(lines, m, price) IN
           /\ Keeps(lines, new) /\ DOMAIN new \subseteq DOMAIN lines \cup {m}
           /\ m \notin DOMAIN lines => new[m].price = price
<1> DEFINE item == IF m \in DOMAIN lines THEN [lines[m] EXCEPT !.qty = Capped(lines[m].qty + 1)]
                   ELSE [price |-> price, qty |-> 1]
           new == AddItem(lines, m, price)
<1>1. new = [n \in DOMAIN lines \cup {m} |-> IF n # m THEN lines[n] ELSE item]
  BY DEF AddItem
<1>2. item \in Line /\ item.price = IF m \in DOMAIN lines THEN lines[m].price ELSE price
  <2>1. CASE m \in DOMAIN lines
    <3>1. lines[m] \in Line /\ lines[m].qty + 1 \in Nat \ {0}
      BY <2>1, LineTyped
    <3>2. Capped(lines[m].qty + 1) \in 1 .. MaxQuantity
      BY <3>1, CappedTyped
    <3> QED
      BY <2>1, <3>1, <3>2 DEF Line
  <2>2. CASE m \notin DOMAIN lines
    BY <2>2, CheckoutAssumption DEF Line
  <2> QED
    BY <2>1, <2>2
<1>3. DOMAIN lines \subseteq Menus /\ lines \in [DOMAIN lines -> Line]
  BY PartialIs
<1> HIDE DEF item, new
<1>4. /\ DOMAIN new = DOMAIN lines \cup {m} /\ new[m] = item
      /\ \A n \in DOMAIN lines : n # m => new[n] = lines[n]
  BY <1>1
<1>5. new \in [DOMAIN new -> Line]
  BY <1>1, <1>2, <1>3
<1>6. new \in Partial(Line)
  BY <1>3, <1>4, <1>5, PartialIs
<1>7. Keeps(lines, new) /\ (m \notin DOMAIN lines => new[m].price = price)
  BY <1>2, <1>4, <1>6 DEF Keeps
<1> QED
  BY <1>4, <1>7 DEF new

LEMMA SetKeeps ==
  ASSUME NEW lines \in Partial(Line), NEW m, NEW q \in Int
  PROVE  /\ Keeps(lines, SetQuantity(lines, m, q))
         /\ DOMAIN SetQuantity(lines, m, q) \subseteq DOMAIN lines
<1>1. CASE q <= 0
  BY <1>1, RemoveKeeps DEF SetQuantity
<1>2. CASE ~(q <= 0)
  <2> DEFINE new == [lines EXCEPT ![m].qty = Capped(q)]
  <2>1. SetQuantity(lines, m, q) = new
    BY <1>2 DEF SetQuantity
  <2>2. DOMAIN lines \subseteq Menus /\ lines \in [DOMAIN lines -> Line]
    BY PartialIs
  <2>3. Capped(q) \in 1 .. MaxQuantity
    BY <1>2, CappedTyped
  <2>4. /\ DOMAIN new = DOMAIN lines
        /\ \A n \in DOMAIN new : new[n] \in Line /\ new[n].price = lines[n].price
    BY <2>2, <2>3 DEF Line
  <2>5. new \in Partial(Line)
    BY <2>2, <2>4, PartialIs
  <2> HIDE DEF new
  <2> QED
    BY <2>1, <2>4, <2>5 DEF Keeps
<1> QED
  BY <1>1, <1>2

--------------------------------------------------------------------------------
(* The customer's edits of the cart, as one.                                      *)

Edits == /\ page \in {"menu", "cart"}
         /\ \E new \in Partial(Line) :
              /\ Edit(new)
              /\ \A n \in DOMAIN new : new[n].price = IF n \in DOMAIN cart THEN cart[n].price
                                                      ELSE browsed[n]
              /\ page = "menu" \/ DOMAIN new \subseteq DOMAIN cart

LEMMA AddEdits ==
  ASSUME TypeOK, NEW m \in Menus, Add(m)
  PROVE  Edits
<1> DEFINE new == AddItem(cart, m, browsed[m])
<1>1. browsed[m] \in 1 .. MaxPrice /\ cart \in Partial(Line) /\ page = "menu" /\ Edit(new)
  BY CheckoutAssumption DEF Add, TypeOK
<1>2. /\ Keeps(cart, new) /\ DOMAIN new \subseteq DOMAIN cart \cup {m}
      /\ m \notin DOMAIN cart => new[m].price = browsed[m]
  BY <1>1, AddKeeps
<1> HIDE DEF new
<1> QED
  BY <1>1, <1>2 DEF Edits, Keeps

LEMMA FewerEdits ==
  ASSUME NEW new, Edit(new), Keeps(cart, new), DOMAIN new \subseteq DOMAIN cart, page = "cart"
  PROVE  Edits
BY DEF Edits, Keeps

LEMMA AdjustEdits == TypeOK /\ (Adjust \/ Clear) => Edits
<1> SUFFICES ASSUME TypeOK, Adjust \/ Clear PROVE Edits
  OBVIOUS
<1>1. cart \in Partial(Line)
  BY DEF TypeOK
<1>2. CASE Adjust
  <2>1. PICK m \in DOMAIN cart :
          \/ Edit(RemoveItem(cart, m))
          \/ Edit(SetQuantity(cart, m, cart[m].qty - 1))
          \/ Edit(SetQuantity(cart, m, cart[m].qty + 1))
    BY <1>2 DEF Adjust
  <2>2. cart[m].qty - 1 \in Int /\ cart[m].qty + 1 \in Int
    BY <1>1, LineTyped
  <2>3. page = "cart"
    BY <1>2 DEF Adjust
  <2>4. \A q \in Int : Edit(SetQuantity(cart, m, q)) => Edits
    BY <1>1, <2>3, SetKeeps, FewerEdits
  <2>5. Edit(RemoveItem(cart, m)) => Edits
    BY <1>1, <2>3, RemoveKeeps, FewerEdits
  <2> QED
    BY <2>1, <2>2, <2>4, <2>5
<1>3. CASE Clear
  <2>1. Keeps(cart, Empty)
    BY EmptyTyped DEF Keeps
  <2> QED
    BY <1>3, <2>1, EmptyTyped, FewerEdits DEF Clear
<1> QED
  BY <1>2, <1>3

--------------------------------------------------------------------------------
(* Typing.                                                                        *)

LEMMA InitTyped == Init => TypeOK
BY EmptyTyped, CheckoutAssumption DEF Init, TypeOK

LEMMA EditsTyped == TypeOK /\ Edits => TypeOK'
<1> SUFFICES ASSUME TypeOK, NEW new \in Partial(Line), Edit(new) PROVE TypeOK'
  BY DEF Edits
<1>1. \A m \in Menus : chosen[m] + Qty(new, m) - Qty(cart, m) \in Int
  BY QtyTyped DEF TypeOK
<1>2. chosen' \in [Menus -> Int]
  BY <1>1 DEF Edit
<1> QED
  BY <1>2 DEF Edit, TypeOK

(* An answer leaves requests as they were but for the reply.                      *)
LEMMA AnswerPosts ==
  ASSUME TypeOK, NEW p \in posts, NEW reply \in {"none", "ok", "error"}, Answer(p, reply)
  PROVE  /\ posts' \subseteq Post
         /\ \A q \in posts' : q \in posts \/ (q.lines = p.lines /\ q.at = p.at)
<1> DEFINE new == [p EXCEPT !.reply = reply]
<1>1. p \in Post
  BY DEF TypeOK
<1>2. new \in Post /\ new.lines = p.lines /\ new.at = p.at
  BY <1>1 DEF Post
<1>3. \A q \in posts' : q \in posts \/ q = new
  BY DEF Answer
<1> HIDE DEF new
<1> QED
  BY <1>2, <1>3 DEF TypeOK

LEMMA LeftPosts ==
  ASSUME TypeOK
  PROVE  Left \subseteq Post /\ \A q \in Left : \E p \in posts : q.lines = p.lines
<1>1. ASSUME NEW q \in Left PROVE q \in Post /\ \E p \in posts : q.lines = p.lines
  <2>1. PICK p \in posts : q = IF p.at = "page" THEN [p EXCEPT !.at = "left"] ELSE p
    BY DEF Left
  <2>2. p \in Post
    BY DEF TypeOK
  <2> QED
    BY <2>1, <2>2 DEF Post
<1> QED
  BY <1>1

LEMMA ReloadPosts ==
  ASSUME TypeOK, Reload
  PROVE  posts' \subseteq Post /\ \A q \in posts' : \E p \in posts : q.lines = p.lines
<1>1. ASSUME NEW q \in posts' PROVE q \in Post /\ \E p \in posts : q.lines = p.lines
  <2>1. PICK p \in posts : q = [p EXCEPT !.at = "reloaded"]
    BY DEF Reload
  <2>2. p \in Post
    BY DEF TypeOK
  <2> QED
    BY <2>1, <2>2 DEF Post
<1> QED
  BY <1>1

(* What a confirmed cart is billed at, line by line.                              *)
LEMMA PricedTyped ==
  ASSUME TypeOK, NEW lines \in Partial(Line)
  PROVE  Priced(lines) \in [DOMAIN lines -> Nat]
<1>1. ASSUME NEW m \in DOMAIN lines PROVE menu[m] * lines[m].qty \in Nat
  <2>1. menu[m] \in Nat /\ lines[m].qty \in Nat
    BY LineTyped, CheckoutAssumption DEF TypeOK
  <2>2. \A a, b \in Nat : a * b \in Nat
    OBVIOUS
  <2> QED
    BY <2>1, <2>2
<1> QED
  BY <1>1 DEF Priced

LEMMA ServeTyped ==
  ASSUME TypeOK, NEW p \in posts, Serve(p)
  PROVE  TypeOK'
<1>1. p \in Post /\ p.n \in 1 .. MaxConfirms /\ p.lines \in Partial(Line)
  BY DEF TypeOK, Post
<1>2. posts' \subseteq Post
  BY AnswerPosts DEF Serve
<1>3. CASE UNCHANGED <<placed, ordered, unsure>>
  BY <1>2, <1>3 DEF Serve, TypeOK
<1>4. CASE \A m \in DOMAIN p.lines : menu[m] > 0
  <2> DEFINE o == [n |-> p.n, lines |-> p.lines, total |-> Priced(p.lines)]
  <2>1. o \in [n : 1 .. MaxConfirms, lines : Partial(Line), total : [DOMAIN o.lines -> Nat]]
    BY <1>1, PricedTyped
  <2>2. /\ placed' = placed \cup {o}
        /\ ordered' = [m \in Menus |-> ordered[m] + Qty(p.lines, m)]
        /\ unsure' = [m \in Menus |-> unsure[m] + Qty(p.lines, m)]
    BY <1>4 DEF Serve
  <2> HIDE DEF o
  <2>3. \A m \in Menus : /\ ordered[m] + Qty(p.lines, m) \in Nat
                          /\ unsure[m] + Qty(p.lines, m) \in Int
    BY <1>1, QtyTyped DEF TypeOK
  <2>4. ordered' \in [Menus -> Nat] /\ unsure' \in [Menus -> Int]
    BY <2>2, <2>3
  <2> QED
    BY <1>2, <2>1, <2>2, <2>4 DEF Serve, TypeOK
<1> QED
  BY <1>3, <1>4 DEF Serve

LEMMA ShowsTyped ==
  ASSUME TypeOK, NEW next, Shows(next)
  PROVE  browsed' \in [Menus -> 0 .. MaxPrice]
<1>1. [m \in Menus |-> 0] \in [Menus -> 0 .. MaxPrice]
  BY CheckoutAssumption
<1> QED
  BY <1>1 DEF Shows, TypeOK

LEMMA SeenTyped ==
  ASSUME TypeOK, NEW p \in posts, Seen(p)
  PROVE  unsure' \in [Menus -> Int]
<1>1. p.lines \in Partial(Line)
  BY DEF TypeOK, Post
<1>2. \A m \in Menus : unsure[m] - (IF p.reply = "ok" /\ p.at = "page" THEN Qty(p.lines, m) ELSE 0)
                        \in Int
  BY <1>1, QtyTyped DEF TypeOK
<1> QED
  BY <1>2 DEF Seen

LEMMA TypeStep == TypeOK /\ [Next]_vars => TypeOK'
<1> SUFFICES ASSUME TypeOK, [Next]_vars PROVE TypeOK'
  OBVIOUS
<1>1. CASE UNCHANGED vars
  BY <1>1 DEF vars, TypeOK
<1>2. CASE (\E m \in Menus : Add(m)) \/ Adjust \/ Clear
  BY <1>2, AddEdits, AdjustEdits, EditsTyped
<1>3. ASSUME NEW next \in {"menu", "cart", "confirm"}, Go(next) PROVE TypeOK'
  BY <1>3, LeftPosts, ShowsTyped DEF Go, Shows, TypeOK
<1>4. CASE Confirm
  <2>1. [n |-> confirms + 1, lines |-> cart, at |-> "page", reply |-> "none"] \in Post
        /\ confirms + 1 \in 0 .. MaxConfirms
    BY <1>4, CheckoutAssumption DEF Confirm, TypeOK, Post
  <2> QED
    BY <1>4, <2>1 DEF Confirm, TypeOK
<1>5. CASE Reload
  BY <1>5, ReloadPosts, ShowsTyped DEF Reload, Shows, TypeOK
<1>6. ASSUME NEW p \in posts, Serve(p) PROVE TypeOK'
  BY <1>6, ServeTyped
<1>7. ASSUME NEW p \in posts, Lose(p) PROVE TypeOK'
  BY <1>7, AnswerPosts DEF Lose, TypeOK
<1>8. ASSUME NEW p \in posts, Handle(p) PROVE TypeOK'
  <2>1. unsure' \in [Menus -> Int]
    BY <1>8, SeenTyped DEF Handle
  <2>2. browsed' \in [Menus -> 0 .. MaxPrice] /\ page' \in {"menu", "cart", "confirm", "success"}
    BY <1>8, ShowsTyped DEF Handle, Shows, TypeOK
  <2> QED
    BY <1>8, <2>1, <2>2, LeftPosts, EmptyTyped DEF Handle, TypeOK
<1>9. ASSUME NEW m \in Menus, Reprice(m) PROVE TypeOK'
  BY <1>9, CheckoutAssumption DEF Reprice, TypeOK
<1> QED
  BY <1>1, <1>2, <1>3, <1>4, <1>5, <1>6, <1>7, <1>8, <1>9 DEF Next, Customer, Requests

--------------------------------------------------------------------------------
(* Pieces.  A request whose page is still open was made of the cart as it is; the *)
(* success that empties the cart stands for as many pieces.                       *)

PageInv == \A p \in posts : p.at = "page" => page = "confirm" /\ p.lines = cart
PieceInv == /\ PageInv
            /\ \A m \in Menus : ordered[m] + Qty(cart, m) <= chosen[m] + unsure[m]

LEMMA PieceEdits == TypeOK /\ PieceInv /\ Edits => PieceInv'
<1> SUFFICES ASSUME TypeOK, PieceInv, Edits PROVE PieceInv'
  OBVIOUS
<1>1. PICK new \in Partial(Line) : Edit(new)
  BY DEF Edits
<1>2. cart' = new /\ UNCHANGED <<posts, ordered, unsure>>
  BY <1>1 DEF Edit
<1>3. \A p \in posts' : p.at # "page"
  BY <1>2 DEF Edits, PieceInv, PageInv
<1>4. \A m \in Menus : chosen'[m] = chosen[m] + Qty(new, m) - Qty(cart, m)
  BY <1>1 DEF Edit
<1>5. \A m \in Menus : /\ ordered[m] \in Nat /\ chosen[m] \in Int /\ unsure[m] \in Int
                       /\ Qty(cart, m) \in Nat /\ Qty(new, m) \in Nat
  BY QtyTyped DEF TypeOK
<1>6. \A m \in Menus : ordered'[m] + Qty(new, m) <= chosen'[m] + unsure'[m]
  BY <1>2, <1>4, <1>5 DEF PieceInv
<1>7. \A m : Qty(cart, m)' = Qty(new, m)
  BY <1>2 DEF Qty
<1> QED
  BY <1>3, <1>6, <1>7 DEF PieceInv, PageInv

LEMMA PieceServe ==
  ASSUME TypeOK, PieceInv, NEW p \in posts, Serve(p)
  PROVE  PieceInv'
<1>1. UNCHANGED <<cart, page, chosen>>
  BY DEF Serve
<1>2. \A q \in posts' : q \in posts \/ (q.lines = p.lines /\ q.at = p.at)
  BY AnswerPosts DEF Serve
<1>3. PageInv'
  BY <1>1, <1>2 DEF PieceInv, PageInv
<1>4. p.lines \in Partial(Line)
  BY DEF TypeOK, Post
<1>5. \A m \in Menus : /\ ordered[m] \in Nat /\ chosen[m] \in Int /\ unsure[m] \in Int
                       /\ Qty(cart, m) \in Nat /\ Qty(p.lines, m) \in Nat
  BY <1>4, QtyTyped DEF TypeOK
<1>6. \A m \in Menus : ordered'[m] + Qty(cart, m) <= chosen[m] + unsure'[m]
  <2>1. CASE UNCHANGED <<ordered, unsure>>
    BY <2>1 DEF PieceInv
  <2>2. CASE /\ ordered' = [m \in Menus |-> ordered[m] + Qty(p.lines, m)]
             /\ unsure' = [m \in Menus |-> unsure[m] + Qty(p.lines, m)]
    BY <1>5, <2>2 DEF PieceInv
  <2> QED
    BY <2>1, <2>2 DEF Serve
<1>7. \A m : Qty(cart, m)' = Qty(cart, m)
  BY <1>1 DEF Qty
<1> QED
  BY <1>1, <1>3, <1>6, <1>7 DEF PieceInv

LEMMA PieceHandle ==
  ASSUME TypeOK, PieceInv, NEW p \in posts, Handle(p)
  PROVE  PieceInv'
<1>1. p.lines \in Partial(Line) /\ cart \in Partial(Line) /\ UNCHANGED <<chosen, ordered>>
  BY DEF TypeOK, Post, Handle
<1>2. \A m \in Menus : /\ ordered[m] \in Nat /\ chosen[m] \in Int /\ unsure[m] \in Int
                       /\ Qty(cart, m) \in Nat /\ Qty(p.lines, m) \in Nat
  BY <1>1, QtyTyped DEF TypeOK
<1>3. CASE p.reply = "ok"
  <2>1. cart' = Empty /\ \A q \in posts' : q.at # "page"
    <3>1. \A q \in Left : q.at # "page"
      BY DEF Left, TypeOK, Post
    <3> QED
      BY <1>3, <3>1 DEF Handle
  <2>2. \A m \in Menus : Qty(cart, m)' = 0
    BY <2>1, EmptyTyped DEF Qty
  <2>3. \A m \in Menus : ordered[m] <= chosen[m] + unsure'[m]
    <3>1. CASE p.at = "page"
      <4>1. p.lines = cart /\ \A m \in Menus : unsure'[m] = unsure[m] - Qty(p.lines, m)
        BY <1>3, <3>1 DEF Handle, Seen, PieceInv, PageInv
      <4> QED
        BY <1>2, <4>1 DEF PieceInv
    <3>2. CASE p.at # "page"
      <4>1. \A m \in Menus : unsure'[m] = unsure[m] - 0
        BY <3>2 DEF Handle, Seen
      <4> QED
        BY <1>2, <4>1 DEF PieceInv
    <3> QED
      BY <3>1, <3>2
  <2> QED
    BY <1>1, <1>2, <2>1, <2>2, <2>3 DEF PieceInv, PageInv
<1>4. CASE p.reply # "ok"
  <2>1. UNCHANGED <<cart, page>> /\ posts' \subseteq posts
    BY <1>4 DEF Handle
  <2>2. \A m \in Menus : unsure'[m] = unsure[m] - 0
    BY <1>4 DEF Handle, Seen
  <2>3. \A m : Qty(cart, m)' = Qty(cart, m)
    BY <2>1 DEF Qty
  <2> QED
    BY <1>1, <1>2, <2>1, <2>2, <2>3 DEF PieceInv, PageInv
<1> QED
  BY <1>3, <1>4

LEMMA PieceStep == TypeOK /\ PieceInv /\ [Next]_vars => PieceInv'
<1> SUFFICES ASSUME TypeOK, PieceInv, [Next]_vars PROVE PieceInv'
  OBVIOUS
<1>a. ASSUME UNCHANGED <<cart, chosen, ordered, unsure>>, PageInv' PROVE PieceInv'
  BY <1>a DEF PieceInv, Qty
<1>1. CASE UNCHANGED vars
  BY <1>1, <1>a DEF vars, PieceInv, PageInv
<1>2. CASE (\E m \in Menus : Add(m)) \/ Adjust \/ Clear
  BY <1>2, AddEdits, AdjustEdits, PieceEdits
<1>3. ASSUME NEW next \in {"menu", "cart", "confirm"}, Go(next) PROVE PieceInv'
  <2>1. \A q \in Left : q.at # "page"
    BY DEF Left, TypeOK, Post
  <2>2. PageInv'
    BY <1>3, <2>1 DEF Go, PageInv
  <2> QED
    BY <1>3, <1>a, <2>2 DEF Go
<1>4. CASE Confirm
  <2>1. PageInv'
    BY <1>4 DEF Confirm, PieceInv, PageInv
  <2> QED
    BY <1>4, <1>a, <2>1 DEF Confirm
<1>5. CASE Reload
  <2>1. \A q \in posts' : q.at # "page"
    BY <1>5 DEF Reload, TypeOK, Post
  <2> QED
    BY <1>5, <1>a, <2>1 DEF Reload, PageInv
<1>6. ASSUME NEW p \in posts, Serve(p) \/ Handle(p) PROVE PieceInv'
  BY <1>6, PieceServe, PieceHandle
<1>7. ASSUME NEW p \in posts, Lose(p) PROVE PieceInv'
  <2>1. PageInv'
    BY <1>7, AnswerPosts DEF Lose, PieceInv, PageInv
  <2> QED
    BY <1>7, <1>a, <2>1 DEF Lose
<1>8. ASSUME NEW m \in Menus, Reprice(m) PROVE PieceInv'
  BY <1>8, <1>a DEF Reprice, PieceInv, PageInv
<1> QED
  BY <1>1, <1>2, <1>3, <1>4, <1>5, <1>6, <1>7, <1>8 DEF Next, Customer, Requests

LEMMA InitPieces == Init => PieceInv
<1> SUFFICES ASSUME Init PROVE PieceInv
  OBVIOUS
<1>1. \A m \in Menus : chosen[m] = 0 /\ ordered[m] = 0 /\ unsure[m] = 0 /\ Qty(cart, m) = 0
  BY EmptyTyped DEF Init, Qty
<1> QED
  BY <1>1 DEF Init, PieceInv, PageInv

(* A customer who waits has one request at most.  Its success stands for the      *)
(* pieces in the cart until it is handled.                                        *)

InCart(m) == IF \E p \in posts : p.reply = "ok" THEN 0 ELSE Qty(cart, m)
WaitInv == "stays" \in ideal =>
  /\ \A p \in posts : /\ p.at = "page" /\ page = "confirm" /\ p.lines = cart
                      /\ \A q \in posts : p = q
  /\ \A m \in Menus : chosen[m] <= ordered[m] + InCart(m)

LEMMA WaitEdits == TypeOK /\ WaitInv /\ Edits => WaitInv'
<1> SUFFICES ASSUME TypeOK, WaitInv, Edits, "stays" \in ideal PROVE WaitInv'
  BY DEF WaitInv, Edits, Edit
<1>1. PICK new \in Partial(Line) : Edit(new)
  BY DEF Edits
<1>2. posts = {} /\ posts' = {} /\ cart' = new /\ ordered' = ordered
  BY <1>1 DEF Edits, Edit, WaitInv
<1>3. \A m \in Menus : chosen[m] <= ordered[m] + Qty(cart, m)
  BY <1>2 DEF WaitInv, InCart
<1>4. \A m \in Menus : chosen'[m] = chosen[m] + Qty(new, m) - Qty(cart, m)
  BY <1>1 DEF Edit
<1>5. \A m \in Menus : /\ ordered[m] \in Nat /\ chosen[m] \in Int
                       /\ Qty(cart, m) \in Nat /\ Qty(new, m) \in Nat
  BY QtyTyped DEF TypeOK
<1>6. \A m : InCart(m)' = Qty(new, m)
  BY <1>2 DEF InCart, Qty
<1>7. \A m \in Menus : chosen'[m] <= ordered'[m] + InCart(m)'
  BY <1>2, <1>3, <1>4, <1>5, <1>6
<1> QED
  BY <1>2, <1>7 DEF WaitInv

LEMMA WaitServe ==
  ASSUME TypeOK, WaitInv, NEW p \in posts, Serve(p)
  PROVE  WaitInv'
<1> SUFFICES ASSUME "stays" \in ideal PROVE WaitInv'
  BY DEF WaitInv, Serve
<1>1. /\ UNCHANGED <<cart, page, chosen>> /\ p.reply = "none"
      /\ posts = {p} /\ p.at = "page" /\ page = "confirm" /\ p.lines = cart
  BY DEF Serve, WaitInv
<1>2. p \in Post /\ cart \in Partial(Line)
  BY DEF TypeOK
<1>3. \A m \in Menus : chosen[m] <= ordered[m] + Qty(cart, m)
  BY <1>1 DEF WaitInv, InCart
<1>4. PICK reply \in {"ok", "error"} :
        /\ Answer(p, reply)
        /\ \/ reply = "error" /\ ordered' = ordered
           \/ ordered' = [m \in Menus |-> ordered[m] + Qty(cart, m)]
  BY <1>1 DEF Serve
<1> DEFINE new == [p EXCEPT !.reply = reply]
<1>5. /\ posts' = {new} /\ new.at = "page" /\ new.lines = cart /\ new.reply = reply
  BY <1>1, <1>2, <1>4 DEF Answer, Post
<1> HIDE DEF new
<1>6. \A m : InCart(m)' = IF reply = "ok" THEN 0 ELSE Qty(cart, m)
  BY <1>1, <1>5 DEF InCart, Qty
<1>7. \A m \in Menus : ordered[m] \in Nat /\ chosen[m] \in Int /\ Qty(cart, m) \in Nat
  BY <1>2, QtyTyped DEF TypeOK
<1>8. \A m \in Menus : chosen'[m] <= ordered'[m] + InCart(m)'
  BY <1>1, <1>3, <1>4, <1>6, <1>7
<1> QED
  BY <1>1, <1>5, <1>8 DEF WaitInv

LEMMA WaitHandle ==
  ASSUME TypeOK, WaitInv, NEW p \in posts, Handle(p)
  PROVE  WaitInv'
<1> SUFFICES ASSUME "stays" \in ideal PROVE WaitInv'
  BY DEF WaitInv, Handle
<1>1. posts = {p} /\ p.at = "page" /\ UNCHANGED <<chosen, ordered>>
  BY DEF Handle, WaitInv
<1>2. posts' = {}
  BY <1>1 DEF Handle, Left
<1>3. \A m : InCart(m)' = InCart(m)
  <2>1. CASE p.reply = "ok"
    BY <1>1, <1>2, <2>1, EmptyTyped DEF Handle, InCart, Qty
  <2>2. CASE p.reply # "ok"
    BY <1>1, <1>2, <2>2 DEF Handle, InCart, Qty
  <2> QED
    BY <2>1, <2>2
<1> QED
  BY <1>1, <1>2, <1>3 DEF WaitInv

LEMMA WaitLose ==
  ASSUME TypeOK, WaitInv, NEW p \in posts, Lose(p)
  PROVE  WaitInv'
<1> SUFFICES ASSUME "stays" \in ideal PROVE WaitInv'
  BY DEF WaitInv, Lose
<1>1. /\ UNCHANGED <<cart, page, chosen, ordered>> /\ Answer(p, "error")
      /\ posts = {p} /\ p.at = "page" /\ page = "confirm" /\ p.lines = cart
  BY DEF Lose, WaitInv
<1>2. p \in Post /\ cart \in Partial(Line)
  BY DEF TypeOK
<1> DEFINE new == [p EXCEPT !.reply = "error"]
<1>3. /\ posts' = {new} /\ new.at = "page" /\ new.lines = cart /\ new.reply = "error"
  BY <1>1, <1>2 DEF Answer, Post
<1> HIDE DEF new
<1>4. \A m : InCart(m)' = Qty(cart, m)
  BY <1>1, <1>3 DEF InCart, Qty
<1>5. \A m \in Menus : ordered[m] \in Nat /\ chosen[m] \in Int /\ Qty(cart, m) \in Nat
  BY <1>2, QtyTyped DEF TypeOK
<1>6. \A m \in Menus : chosen[m] <= ordered[m] + Qty(cart, m)
  <2>1. \A m \in Menus : InCart(m) \in {0, Qty(cart, m)} /\ chosen[m] <= ordered[m] + InCart(m)
    BY DEF WaitInv, InCart
  <2> QED
    BY <1>5, <2>1
<1> QED
  BY <1>1, <1>3, <1>4, <1>6 DEF WaitInv

LEMMA WaitStep == TypeOK /\ WaitInv /\ [Next]_vars => WaitInv'
<1> SUFFICES ASSUME TypeOK, WaitInv, [Next]_vars PROVE WaitInv'
  OBVIOUS
<1>a. ASSUME UNCHANGED <<cart, page, posts, chosen, ordered, ideal>> PROVE WaitInv'
  BY <1>a DEF WaitInv, InCart, Qty
<1>b. ASSUME "stays" \in ideal => posts = {} /\ posts' = {},
             UNCHANGED <<cart, chosen, ordered, ideal>>
      PROVE  WaitInv'
  BY <1>b DEF WaitInv, InCart, Qty
<1>1. CASE UNCHANGED vars
  BY <1>1, <1>a DEF vars
<1>2. CASE (\E m \in Menus : Add(m)) \/ Adjust \/ Clear
  BY <1>2, AddEdits, AdjustEdits, WaitEdits
<1>3. ASSUME NEW next \in {"menu", "cart", "confirm"}, Go(next) PROVE WaitInv'
  <2>1. "stays" \in ideal => posts = {} /\ posts' = {}
    BY <1>3 DEF Go, WaitInv, Submitting, Left
  <2> QED
    BY <1>3, <2>1, <1>b DEF Go
<1>4. CASE Confirm
  <2> SUFFICES ASSUME "stays" \in ideal PROVE WaitInv'
    BY <1>4 DEF WaitInv, Confirm
  <2> DEFINE p == [n |-> confirms + 1, lines |-> cart, at |-> "page", reply |-> "none"]
  <2>1. posts = {} /\ posts' = {p} /\ UNCHANGED <<cart, page, chosen, ordered>>
    BY <1>4 DEF Confirm, Submitting, WaitInv
  <2>2. p.at = "page" /\ p.lines = cart /\ p.reply = "none" /\ page = "confirm"
    BY <1>4 DEF Confirm
  <2> HIDE DEF p
  <2>3. \A m : InCart(m)' = InCart(m)
    BY <2>1, <2>2 DEF InCart, Qty
  <2> QED
    BY <2>1, <2>2, <2>3 DEF WaitInv
<1>5. CASE Reload
  <2>1. "stays" \in ideal => posts = {} /\ posts' = {}
    BY <1>5 DEF Reload, WaitInv, Submitting
  <2> QED
    BY <1>5, <2>1, <1>b DEF Reload
<1>6. ASSUME NEW p \in posts, Serve(p) \/ Lose(p) \/ Handle(p) PROVE WaitInv'
  BY <1>6, WaitServe, WaitLose, WaitHandle
<1>7. ASSUME NEW m \in Menus, Reprice(m) PROVE WaitInv'
  BY <1>7, <1>a DEF Reprice
<1> QED
  BY <1>1, <1>2, <1>3, <1>4, <1>5, <1>6, <1>7 DEF Next, Customer, Requests

LEMMA InitWaits == Init => WaitInv
<1> SUFFICES ASSUME Init PROVE WaitInv
  OBVIOUS
<1>1. \A m \in Menus : chosen[m] = 0 /\ ordered[m] = 0 /\ InCart(m) = 0
  BY EmptyTyped DEF Init, InCart, Qty
<1> QED
  BY <1>1 DEF Init, WaitInv

--------------------------------------------------------------------------------
(* Prices.                                                                        *)

AtMenu(lines) == \A m \in DOMAIN lines : lines[m].price = menu[m]
PriceInv == "fixedMenu" \in ideal => /\ page = "menu" => browsed = menu
                                     /\ AtMenu(cart)
                                     /\ \A p \in posts : AtMenu(p.lines)
                                     /\ \A o \in placed : o.total = Total(o.lines)

LEMMA PriceStep == TypeOK /\ PriceInv /\ [Next]_vars => PriceInv'
<1> SUFFICES ASSUME TypeOK, PriceInv, [Next]_vars, "fixedMenu" \in ideal PROVE PriceInv'
  BY DEF PriceInv, Next, Customer, Requests, Add, Go, Adjust, Clear, Confirm, Reload, Edit, Serve,
     Lose, Handle, Reprice, vars
<1>0. /\ page = "menu" => browsed = menu
      /\ AtMenu(cart)
      /\ \A p \in posts : AtMenu(p.lines)
      /\ \A o \in placed : o.total = Total(o.lines)
  BY DEF PriceInv
<1>a. ASSUME menu' = menu, (page' = page /\ browsed' = browsed) \/ Shows(page'),
             cart' \in {cart, Empty}, placed' = placed,
             \A q \in posts' : q.lines = cart \/ \E p \in posts : q.lines = p.lines
      PROVE  PriceInv'
  <2>1. \A lines : AtMenu(lines)' <=> \A m \in DOMAIN lines' : lines'[m].price = menu[m]
    BY <1>a DEF AtMenu
  <2>2. AtMenu(cart)'
    BY <1>0, <1>a, <2>1, EmptyTyped DEF AtMenu
  <2>3. \A q \in posts' : AtMenu(q.lines)'
    BY <1>0, <1>a DEF AtMenu
  <2>4. page' = "menu" => browsed' = menu'
    BY <1>0, <1>a DEF Shows
  <2> QED
    BY <1>0, <1>a, <2>2, <2>3, <2>4 DEF PriceInv
<1>1. CASE UNCHANGED vars
  BY <1>1, <1>a DEF vars
<1>2. CASE (\E m \in Menus : Add(m)) \/ Adjust \/ Clear
  <2>1. Edits
    BY <1>2, AddEdits, AdjustEdits
  <2>2. UNCHANGED <<menu, browsed, page, posts, placed>>
    BY <2>1 DEF Edits, Edit
  <2>3. AtMenu(cart)'
    BY <1>0, <2>1, <2>2 DEF Edits, Edit, AtMenu
  <2> QED
    BY <1>0, <2>2, <2>3 DEF PriceInv, AtMenu
<1>3. ASSUME NEW next \in {"menu", "cart", "confirm"}, Go(next) PROVE PriceInv'
  BY <1>3, <1>a, LeftPosts DEF Go, Shows
<1>4. CASE Confirm
  BY <1>4, <1>a DEF Confirm
<1>5. CASE Reload
  BY <1>5, <1>a, ReloadPosts DEF Reload, Shows
<1>6. ASSUME NEW p \in posts, Serve(p) PROVE PriceInv'
  <2>1. /\ UNCHANGED <<menu, browsed, cart, page>>
        /\ \A q \in posts' : \E r \in posts : q.lines = r.lines
    BY <1>6, AnswerPosts DEF Serve
  <2>2. \A q \in posts' : AtMenu(q.lines)'
    BY <1>0, <2>1 DEF AtMenu
  <2>3. Priced(p.lines) = Total(p.lines)
    BY <1>0 DEF Priced, Total, AtMenu
  <2>4. \A o \in placed' : o \in placed \/ (o.lines = p.lines /\ o.total = Priced(p.lines))
    BY <1>6 DEF Serve
  <2>5. \A o \in placed' : o.total = Total(o.lines)
    BY <1>0, <2>3, <2>4
  <2> QED
    BY <1>0, <2>1, <2>2, <2>5 DEF PriceInv, AtMenu
<1>7. ASSUME NEW p \in posts, Lose(p) PROVE PriceInv'
  BY <1>7, <1>a, AnswerPosts DEF Lose
<1>8. ASSUME NEW p \in posts, Handle(p) PROVE PriceInv'
  <2>1. \A q \in posts' : \E r \in posts : q.lines = r.lines
    BY <1>8, LeftPosts DEF Handle
  <2>2. (page' = page /\ browsed' = browsed) \/ Shows(page')
    <3>1. CASE Shows("success")
      <4>1. page' = "success"
        BY <3>1 DEF Shows
      <4> QED
        BY <3>1, <4>1
    <3> QED
      BY <1>8, <3>1 DEF Handle
  <2>3. UNCHANGED <<menu, placed>> /\ cart' \in {cart, Empty}
    BY <1>8 DEF Handle
  <2> QED
    BY <2>1, <2>2, <2>3, <1>a
<1>9. ASSUME NEW m \in Menus, Reprice(m) PROVE PriceInv'
  BY <1>9 DEF Reprice
<1> QED
  BY <1>1, <1>2, <1>3, <1>4, <1>5, <1>6, <1>7, <1>8, <1>9 DEF Next, Customer, Requests

LEMMA InitPrices == Init => PriceInv
BY EmptyTyped DEF Init, PriceInv, AtMenu

--------------------------------------------------------------------------------
(* Prices, cart, requests and stored orders keep their types.                     *)
THEOREM CheckoutTypeCorrect == Spec => []TypeOK
BY InitTyped, TypeStep, PTL DEF Spec

(* Whatever the customer does and whatever fails, pieces are ordered again, or    *)
(* left in the cart to be, only by as much as is in orders whose success the page *)
(* that confirmed them has not seen: success empties the cart that was confirmed. *)
THEOREM NothingOrderedTwice == Spec => []NothingTwice
<1>1. PieceInv => NothingTwice
  BY DEF PieceInv, NothingTwice
<1> QED
  BY <1>1, InitTyped, TypeStep, InitPieces, PieceStep, PTL DEF Spec

(* A customer who waits for answers loses no piece chosen, whatever fails: it is  *)
(* ordered or still in the cart (an error never empties it).                      *)
THEOREM WaitingNothingWiped == Spec => []NothingWiped
<1>1. TypeOK /\ WaitInv => NothingWiped
  BY DEF WaitInv, InCart, NothingWiped
<1> QED
  BY <1>1, InitTyped, TypeStep, InitWaits, WaitStep, PTL DEF Spec

(* While no menu changes, create_order bills each line of the confirmed cart at   *)
(* the amount the cart shows, however requests are lost, repeated or come late.   *)
THEOREM FixedMenuTotalAgrees == Spec => []TotalAgrees
<1>1. PriceInv => TotalAgrees
  BY DEF PriceInv, TotalAgrees
<1> QED
  BY <1>1, InitTyped, TypeStep, InitPrices, PriceStep, PTL DEF Spec

================================================================================
