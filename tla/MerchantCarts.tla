--------------------------- MODULE MerchantCarts ---------------------------
(***************************************************************************)
(* How a purchase is revalidated at a shop: the requests of the connectors *)
(* purchase/merchants/cultura.py, fuji_store.py and shopify_ucp.py, one    *)
(* action per request and its answer, and the command `payment-setup`      *)
(* (scripts/watch.py), which probes Cultura.                               *)
(*                                                                         *)
(* The threads of the worker share one connector per shop; the command has *)
(* its own.  The shop is at work too: between two requests the price and   *)
(* the stock of the product move, it puts in a cart what it wants of the   *)
(* quantity it is asked for, totals the cart again at any later request,   *)
(* and has served a request whose answer is lost all the same.  Taxes are  *)
(* left out.                                                               *)
(***************************************************************************)
EXTENDS Naturals

CONSTANTS
  Buyer,          \* the threads of the worker
  Probe,          \* the process of `payment-setup`
  CartPrice,      \* prices and costs, numbers above 0
  CartQuantity,   \* max_quantity of the rules
  MaxShelfMoves,  \* bound of the changes of prices and stocks
  MaxCalls,       \* bound of the calls
  NoAmount, NoCall

Shop      == {"cultura", "fuji", "ucp"}
Caller    == Buyer \cup {Probe}
Connector == {"worker", "probe"}
Amount    == CartPrice \cup {NoAmount}

ASSUME MerchantCartsAssumption ==
  /\ CartPrice \subseteq Nat \ {0} /\ CartQuantity \subseteq Nat \ {0}
  /\ Probe \notin Buyer /\ MaxShelfMoves \in Nat /\ MaxCalls \in Nat
  /\ NoAmount \notin Nat /\ NoCall \notin Shop /\ Buyer # {}

VARIABLES
  profile,      \* what the environment has of the local checkout profile
  shelf,        \* the price and the stock of the product at each shop
  cart,         \* the cart of each caller as the shop keeps it
  call,         \* what each caller is at
  confirmed,    \* last_checkout_state of each Cultura connector
  shelfMoves, calls

cartVars == <<profile, shelf, cart, call, confirmed, shelfMoves, calls>>

\* A cart: its units, the price they are at, the shipping that was shown, what has
\* been set on it, and (history) whether it went to another price after the add,
\* which Cultura's later answers do not show.
EmptyCart == [units |-> 0, price |-> NoAmount, shipping |-> NoAmount, set |-> {},
              again |-> FALSE]

NoAnswer == [available |-> FALSE, total |-> 0, shipping |-> NoAmount]

\* row is the total of the items in the last answer that has one, 0 when it shows
\* none; counted says that the quantity in the cart was read back.
Idling == [pc |-> "none", shop |-> NoCall, quantity |-> 0, looked |-> NoAmount,
           row |-> 0, counted |-> FALSE, shipping |-> NoAmount, answer |-> NoAnswer]

ConnectorOf(c) == IF c = Probe THEN "probe" ELSE "worker"

\* The steps of a Cultura cart, and the states that report them.
CheckoutState ==
  [empty_cart |-> {}, cart_unavailable |-> {}, cart_with_product |-> {"item"},
   shipping_address_set |-> {"item", "address"},
   shipping_method_set  |-> {"item", "address", "method"},
   billing_address_set  |-> {"item", "address", "method", "billing"},
   payment_human_required |-> {}]

CartInit ==
  /\ profile \in SUBSET {"postcode", "address", "email"}
  /\ \E p \in CartPrice : shelf = [s \in Shop |-> [price |-> p, stock |-> 2]]
  /\ cart = [c \in Caller |-> EmptyCart]
  /\ call = [c \in Caller |-> Idling]
  /\ confirmed = [k \in Connector |-> "empty_cart"]
  /\ shelfMoves = 0 /\ calls = 0

-----------------------------------------------------------------------------
(* Calls begin and end. *)

Reports(c, state) ==
  confirmed' = IF call[c].shop = "cultura"
               THEN [confirmed EXCEPT ![ConnectorOf(c)] = state] ELSE confirmed

Begins(c, s, q) ==
  /\ call[c].pc \in {"none", "answered", "raised"} /\ calls < MaxCalls
  /\ calls' = calls + 1
  /\ call' = [call EXCEPT ![c] = [Idling EXCEPT !.pc = "lookup", !.shop = s,
                                                !.quantity = q]]
  /\ cart' = [cart EXCEPT ![c] = EmptyCart]
  /\ confirmed' = IF s = "cultura"
                  THEN [confirmed EXCEPT ![ConnectorOf(c)] = "empty_cart"]
                  ELSE confirmed
  /\ UNCHANGED <<profile, shelf, shelfMoves>>

Revalidate(c, s, q) == c \in Buyer /\ Begins(c, s, q)

\* What each shop's address takes of the profile.
Needs == [cultura |-> {"postcode", "address"}, fuji |-> {"postcode"},
          ucp |-> {"postcode", "email"}]

\* `payment-setup` wants a complete address first.
PaymentSetup == Needs["cultura"] \subseteq profile /\ Begins(Probe, "cultura", 1)

\* The total stands for the price times the quantity; quantity_available, when the
\* shop gives it, is the shop's word for the stock and not for the cart.
AnswerOf(available, total, shipping) ==
  [available |-> available, total |-> total, shipping |-> shipping]

Answers(c, answer) ==
  call' = [call EXCEPT ![c].pc = "answered", ![c].answer = answer]

Refuses(c) == Answers(c, AnswerOf(FALSE, call[c].row, NoAmount))

Raises(c) == call' = [call EXCEPT ![c].pc = "raised"]

\* Timeouts, HTTP errors, GraphQL errors, challenges: before the cart is known, or,
\* except at Cultura, at any request.  The shop may have served the request.
RequestFails(c) ==
  /\ \/ call[c].pc \in {"lookup", "open", "add"}
     \/ call[c].pc = "address" /\ call[c].shop # "cultura"
  /\ Raises(c)
  /\ UNCHANGED <<profile, shelf, cart, confirmed, shelfMoves, calls>>

\* StaleListingError, or variants no one can choose from.
ProductGone(c) ==
  /\ call[c].pc = "lookup"
  /\ Raises(c)
  /\ UNCHANGED <<profile, shelf, cart, confirmed, shelfMoves, calls>>

\* Cultura's catalogue is asked for the product only, the others say whether it
\* can be had.
LookUp(c) ==
  LET s == call[c].shop
      on == shelf[s] IN
  /\ call[c].pc = "lookup"
  /\ IF s # "cultura" /\ on.stock = 0
     THEN Refuses(c)
     ELSE call' = [call EXCEPT ![c].pc = IF s = "ucp" THEN "add" ELSE "open",
                               ![c].looked = on.price]
  /\ UNCHANGED <<profile, shelf, cart, confirmed, shelfMoves, calls>>

\* createEmptyCart, or the cart session of Fuji Store
OpenCart(c) ==
  /\ call[c].pc = "open"
  /\ call' = [call EXCEPT ![c].pc = "add"]
  /\ UNCHANGED <<profile, shelf, cart, confirmed, shelfMoves, calls>>

\* The units that the shop puts in the cart, none if it has none or wants none.  A
\* UCP checkout is opened whatever the stock.
Placed(c) ==
  IF call[c].shop = "ucp" THEN CartQuantity ELSE 0..shelf[call[c].shop].stock

\* The total of the items in an answer: the totals of a UCP checkout may have none.
Shown(c, units) ==
  {units * shelf[call[c].shop].price} \cup (IF call[c].shop = "ucp" THEN {0} ELSE {})

NextOf(c) == IF Needs[call[c].shop] \subseteq profile THEN "address" ELSE "quote"

\* The cart once there is something in it: the quantity is compared at Cultura only,
\* by a purchase, when the answer has one, and so is the stock.
ReadsCart(c, units) ==
  LET s == call[c].shop
      compares == s = "cultura" /\ c # Probe IN
  \/ /\ compares /\ units # call[c].quantity
     /\ Raises(c)
     /\ UNCHANGED confirmed
  \/ /\ compares
     /\ Refuses(c)
     /\ Reports(c, "cart_with_product")
  \/ \E counted \in BOOLEAN, total \in Shown(c, units) :
       /\ counted => compares /\ units = call[c].quantity
       /\ call' = [call EXCEPT ![c].pc = NextOf(c), ![c].row = total,
                               ![c].counted = counted]
       /\ Reports(c, "cart_with_product")

\* addSimpleProductsToCart, add-item, create_checkout
AddToCart(c) ==
  /\ call[c].pc = "add"
  /\ \E units \in Placed(c) :
       IF units = 0
       THEN Refuses(c) /\ Reports(c, "cart_unavailable") /\ UNCHANGED cart
       ELSE /\ cart' = [cart EXCEPT ![c].units = units, ![c].set = {"item"},
                                    ![c].price = shelf[call[c].shop].price]
            /\ ReadsCart(c, units)
  /\ UNCHANGED <<profile, shelf, shelfMoves, calls>>

-----------------------------------------------------------------------------
(* Addresses and shipping. *)

\* A request is served; the shop totals the cart at its price of now, or not again.
Serves(c, what) ==
  \E price \in {cart[c].price, shelf["cultura"].price} :
    cart' = [cart EXCEPT ![c].set = @ \cup {what}, ![c].price = price,
                         ![c].again = @ \/ price # cart[c].price]

\* update-customer and update_checkout answer with the whole cart, totalled again.
UpdateAddress(c) ==
  /\ call[c].pc = "address" /\ call[c].shop # "cultura"
  /\ \E units \in Placed(c), cost \in Amount :
       /\ cart' = [cart EXCEPT ![c].units = units, ![c].shipping = cost,
                               ![c].price = shelf[call[c].shop].price,
                               ![c].set = @ \cup {"address"}]
       /\ \E total \in Shown(c, units) :
            call' = [call EXCEPT ![c].pc = "quote", ![c].shipping = cost, ![c].row = total]
  /\ UNCHANGED <<profile, shelf, confirmed, shelfMoves, calls>>

\* (slip) The state is written when the request is sent.
StateWhenSent(c, answered, state) == Reports(c, state)

\* last_checkout_state follows the answer.
StateOnceAnswered(c, answered, state) ==
  IF answered THEN Reports(c, state) ELSE UNCHANGED confirmed

\* A request of _advance_shipping_and_billing: without its answer the quote goes
\* without shipping.
Advances(c, from, what, state, to) ==
  /\ call[c].pc = from /\ call[c].shop = "cultura"
  /\ \E served, answered \in BOOLEAN :
       /\ answered => served
       /\ StateOnceAnswered(c, answered, state)
       /\ IF served THEN Serves(c, what) ELSE UNCHANGED cart
       /\ call' = [call EXCEPT ![c].pc = IF answered THEN to ELSE "quote",
                               ![c].shipping = IF answered THEN @ ELSE NoAmount]
  /\ UNCHANGED <<profile, shelf, shelfMoves, calls>>

SetShippingAddress(c) ==
  Advances(c, "address", "address", "shipping_address_set", "methods")

\* The cheapest method available, if there is one.
ChooseMethod(c) ==
  /\ call[c].pc = "methods"
  /\ \E cost \in Amount :
       /\ call' = [call EXCEPT ![c].shipping = cost,
                               ![c].pc = IF cost = NoAmount THEN "quote" ELSE "method"]
       /\ cart' = [cart EXCEPT ![c].shipping = cost]
  /\ UNCHANGED <<profile, shelf, confirmed, shelfMoves, calls>>

SetShippingMethod(c) ==
  Advances(c, "method", "method", "shipping_method_set", "billing")

SetBillingAddress(c) ==
  Advances(c, "billing", "billing", "billing_address_set", "quote")

-----------------------------------------------------------------------------
(* The quote. *)

\* (slip) The price of the catalogue is quoted.
LookedUp(c) == call[c].quantity * call[c].looked

\* What the price comes to for the quantity.  Cultura and Fuji Store divide the
\* total of the items; the UCP connector takes it as it is, and the price of the
\* catalogue where the checkout shows no total above 0.
QuotedTotal(c) ==
  LET at == call[c] IN
  IF at.shop # "ucp" THEN at.row
  ELSE at.quantity * (IF at.row > 0 THEN at.row ELSE at.looked)

Quote(c) ==
  /\ call[c].pc = "quote"
  /\ Answers(c, AnswerOf(TRUE, QuotedTotal(c), call[c].shipping))
  /\ UNCHANGED <<profile, shelf, cart, confirmed, shelfMoves, calls>>

\* A UCP checkout says that the shop does not deliver there.
NoDelivery(c) ==
  /\ call[c].pc = "quote" /\ call[c].shop = "ucp"
  /\ Refuses(c)
  /\ UNCHANGED <<profile, shelf, cart, confirmed, shelfMoves, calls>>

\* checkout: the payment is a human's.
Checkout(c) ==
  /\ c \in Buyer /\ call[c].pc = "answered" /\ call[c].answer.available
  /\ Raises(c)
  /\ Reports(c, "payment_human_required")
  /\ UNCHANGED <<profile, shelf, cart, shelfMoves, calls>>

ShelfMoves(s, price, left) ==
  /\ shelfMoves < MaxShelfMoves
  /\ shelfMoves' = shelfMoves + 1
  /\ shelf' = [shelf EXCEPT ![s] = [price |-> price, stock |-> left]]
  /\ UNCHANGED <<profile, cart, call, confirmed, calls>>

CallSteps(c) ==
  \/ LookUp(c) \/ RequestFails(c) \/ ProductGone(c) \/ OpenCart(c) \/ AddToCart(c)
  \/ UpdateAddress(c) \/ SetShippingAddress(c) \/ ChooseMethod(c)
  \/ SetShippingMethod(c) \/ SetBillingAddress(c) \/ Quote(c) \/ NoDelivery(c)

CartNext ==
  \/ \E c \in Caller : CallSteps(c)
  \/ \E c \in Buyer : \/ \E s \in Shop, q \in CartQuantity : Revalidate(c, s, q)
                      \/ Checkout(c)
  \/ PaymentSetup
  \/ \E s \in Shop, p \in CartPrice, n \in 0..2 : ShelfMoves(s, p, n)

CartSpec == CartInit /\ [][CartNext]_cartVars

-----------------------------------------------------------------------------
(* Properties *)

CartTypeOK ==
  /\ profile \subseteq {"postcode", "address", "email"}
  /\ \A c \in Caller :
       /\ cart[c].units \in Nat /\ cart[c].price \in Amount
       /\ cart[c].shipping \in Amount /\ cart[c].again \in BOOLEAN
       /\ call[c].shop \in Shop \cup {NoCall}
       /\ call[c].row \in Nat /\ call[c].answer.total \in Nat
       /\ call[c].answer.available \in BOOLEAN
  /\ confirmed \in [Connector -> DOMAIN CheckoutState]

\* A quote that says available comes to no less than the shop would charge for the
\* items in the cart, whatever the shop changed between the requests and whatever
\* quantity it put there, so that the limits of the purchase engine bind what a
\* buyer would pay; but for two carts that no connector reads: Cultura's, when a
\* request after the add totals it again, and a UCP checkout that shows no total.
\* Its shipping is the last that the shop showed.  The quantity in the cart is the
\* one asked for where it was read back, which is at Cultura.
QuotesCoverCarts ==
  \A c \in Buyer :
    LET at == call[c] IN
    (at.pc = "answered" /\ at.answer.available) =>
      /\ \/ at.answer.total >= cart[c].units * cart[c].price
         \/ at.shop = "cultura" /\ cart[c].again
         \/ at.shop = "ucp" /\ at.row = 0
      /\ at.answer.shipping \in {NoAmount, cart[c].shipping}
      /\ at.counted => cart[c].units = at.quantity

\* What last_checkout_state says short of the payment has been done to a cart of
\* one of the connector's callers, as long as none has gone on to another shop,
\* though its threads share the state and answers are lost: `payment-setup` never
\* reports a step as ready that the shop has not taken.
StatesAreConfirmed ==
  \A k \in Connector :
    LET callers == {c \in Caller : ConnectorOf(c) = k} IN
    (\A c \in callers : call[c].shop \in {"cultura", NoCall}) =>
      \E c \in callers : CheckoutState[confirmed[k]] \subseteq cart[c].set

\* Quotes and states together: what the worker and `payment-setup` tell of a
\* merchant's cart is so, however the shop moves and answers are lost meanwhile,
\* but for the two carts named above.
CartsAreToldTruly == QuotesCoverCarts /\ StatesAreConfirmed
=============================================================================
