-------------------------------- MODULE Cart --------------------------------
(***************************************************************************)
(* The cart of a user in the front end and the orders sent from its pages. *)
(* Each open page (tab) is served by a thread of its own. add_to_cart reads*)
(* a row and saves it in separate statements; an order is shown, submitted,*)
(* answered and cleared from the cart in separate steps, with the text of  *)
(* module Request and one reply on the wire in between. The main thread of *)
(* the back end takes one connection at a time.                            *)
(*                                                                         *)
(* Which lines of an order are matched is left to module Ordering, and how *)
(* long the main thread is busy with an order, a purchase or a bind request*)
(* to modules Shipping, Ordering and Binding.                              *)
(***************************************************************************)
EXTENDS Request, FiniteSets

CONSTANTS Products,     \* numbers
          Forms,        \* bound: quantities a customer fills in, per product
          Entries,      \* bound: quantities typed over those the cart shows
          Tabs,
          NoItem, NoId, NoTab,
          ReplySize,    \* bytes of a reply
          MaxPages,     \* bound: pages opened
          MaxFaults     \* bound: messages in part, replies in parts, broken connections

ASSUME SizesAssumption ==
  /\ Products \subseteq Nat /\ IsFiniteSet(Products)
  /\ Forms \subseteq [Products -> Nat] /\ Entries \subseteq Nat
  /\ ReplySize \in Nat \ {0} /\ MaxPages \in Nat /\ MaxFaults \in Nat
  /\ NoId \notin Nat /\ NoTab \notin Tabs
  /\ NoItem \notin [id : Nat \cup {NoId}, product : Products, quantity : Nat]

Rows  == [id : Nat, product : Products, quantity : Nat]
Items == [id : Nat \cup {NoId}, product : Products, quantity : Nat]

VARIABLES
  rows, next_id,  \* amazonSite_cart, the rows of the user
  pc,             \* per tab
  todo, item,     \* add_to_cart: units to add, the row to be saved
  form, clears,   \* quantities of the order; it waits to delete the cart afterwards
  backlog,        \* connections the main thread has not accepted
  main,           \* the main thread
  client,         \* the tab it serves, unless that has closed its end
  msg, numBytes,  \* sendAllData
  wire,           \* per tab: what recv returns
  feedback,       \* what the page tells the customer
  placed,         \* per tab: the lines the back end has placed, by their position
  pages, faults,
  overlapped,     \* history: products whose rows changed inside an addition
  disturbed,      \* history: tabs whose cart changed since it was shown
  edited,         \* history, per tab: products not submitted as shown
  cut,            \* history: tabs whose message was read in part
  skipped,        \* history: tabs an order of which was placed without some lines
  split,          \* history: tabs whose reply was sent in parts
  broken,         \* history: tabs whose connection broke before the reply
  added, removed  \* history: units saved and deleted per product

tableVars == <<rows, next_id, overlapped, disturbed, added, removed>>
addVars   == <<todo, item>>
orderVars == <<form, clears, feedback, edited, broken>>
replyVars == <<msg, numBytes, split>>
mainVars  == <<main, client, replyVars, wire, placed, cut, skipped, faults>>
vars == <<rows, next_id, pc, todo, item, form, clears, backlog, main, client,
          msg, numBytes, wire, feedback, placed, pages, faults, overlapped,
          disturbed, edited, cut, skipped, split, broken, added, removed>>

Of(p)     == {r \in rows : r.product = p}
InCart(p) == SumFunctionOnSet([r \in Of(p) |-> r.quantity], Of(p))

NoLines == [p \in Products |-> 0]

Init ==
  /\ rows = {} /\ next_id = 0
  /\ pc = [t \in Tabs |-> "idle"]
  /\ todo = [t \in Tabs |-> NoLines]
  /\ item = [t \in Tabs |-> NoItem]
  /\ form = [t \in Tabs |-> NoLines]
  /\ clears = [t \in Tabs |-> FALSE]
  /\ backlog = <<>>
  /\ main = "accept" /\ client = NoTab /\ msg = "none" /\ numBytes = 0
  /\ wire = [t \in Tabs |-> "silent"]
  /\ feedback = [t \in Tabs |-> "none"]
  /\ placed = [t \in Tabs |-> NoOrder]
  /\ pages = 0 /\ faults = 0
  /\ overlapped = {} /\ disturbed = {} /\ edited = [t \in Tabs |-> {}]
  /\ cut = {} /\ skipped = {} /\ split = {} /\ broken = {}
  /\ added = [p \in Products |-> 0] /\ removed = [p \in Products |-> 0]

Goto(t, label) == pc' = [pc EXCEPT ![t] = label]

\* The lines of a form f: a field for each product, those above 0 in page order.
Page == CHOOSE s \in [1 .. Cardinality(Products) -> Products] :
          \A i, j \in DOMAIN s : i < j => s[i] < s[j]
FirstOf(f, p) == f[p] > 0 /\ \A q \in Products : f[q] > 0 => p <= q
FormLines(f) ==
  FlattenSeq([i \in DOMAIN Page |->
    LET p == Page[i] IN IF f[p] > 0 THEN <<[product |-> p, quantity |-> f[p]]>> ELSE <<>>])

\* A page that gave up its order leaves its tab unused until the main thread has
\* taken the connection: the customer goes on in another one.
OpenPage(t) ==
  /\ pc[t] = "idle"
  /\ \A i \in DOMAIN backlog : backlog[i] # t
  /\ pages < MaxPages
  /\ pages' = pages + 1

-----------------------------------------------------------------------------
(* Every statement that changes rows of the products in P: the additions   *)
(* that are about to save such a row have read it before, the pages of the *)
(* cart have shown it before.                                              *)

Change(t, P) ==
  /\ overlapped' = overlapped \cup
       {p \in P : \E u \in Tabs \ {t} : pc[u] \in {"update", "insert"} /\ item[u].product = p}
  /\ disturbed' = disturbed \cup
       (IF P = {} THEN {} ELSE {u \in Tabs \ {t} : pc[u] \in {"form", "clear"} \/ clears[u]})

Delete(t, P) ==
  /\ rows' = {r \in rows : r.product \notin P}
  /\ removed' = [p \in Products |-> removed[p] + IF p \in P THEN InCart(p) ELSE 0]
  /\ Change(t, {p \in P : Of(p) # {}})
  /\ UNCHANGED <<next_id, added>>

-----------------------------------------------------------------------------
(* add_to_cart, from the form of the shopping mall                         *)

AddToCart(t, f) ==
  /\ OpenPage(t)
  /\ f # NoLines
  /\ todo' = [todo EXCEPT ![t] = f]
  /\ Goto(t, "get")
  /\ UNCHANGED <<tableVars, item, orderVars, backlog, mainVars>>

\* Mutant: the quantity is replaced.
Replace(r, q) == [r EXCEPT !.quantity = q]
Plus(r, q) == [r EXCEPT !.quantity = @ + q]

NewRow(t, p) == [id |-> NoId, product |-> p, quantity |-> todo[t][p]]

\* Mutant: every line gets a new row.
GetNothing(t) ==
  /\ pc[t] = "get"
  /\ \E p \in Products : FirstOf(todo[t], p) /\ item' = [item EXCEPT ![t] = NewRow(t, p)]
  /\ Goto(t, "insert")
  /\ UNCHANGED <<tableVars, todo, orderVars, backlog, mainVars, pages>>

\* Cart.objects.get: no row, the row, or MultipleObjectsReturned, which ends the
\* request with the lines it has saved.
Get(t) ==
  /\ pc[t] = "get"
  /\ \E p \in Products :
       /\ FirstOf(todo[t], p)
       /\ \/ /\ Of(p) = {}
             /\ item' = [item EXCEPT ![t] = NewRow(t, p)]
             /\ Goto(t, "insert")
             /\ UNCHANGED todo
          \/ /\ \E r \in Of(p) :
                  /\ Of(p) = {r}
                  /\ item' = [item EXCEPT ![t] = Plus(r, todo[t][p])]
             /\ Goto(t, "update")
             /\ UNCHANGED todo
          \/ /\ \E r, s \in Of(p) : r # s
             /\ todo' = [todo EXCEPT ![t] = NoLines]
             /\ Goto(t, "idle")
             /\ UNCHANGED item
  /\ UNCHANGED <<tableVars, orderVars, backlog, mainVars, pages>>

\* Mutant: one line too many is taken.
NextLineTooFar(t) == IF todo[t] = NoLines THEN "idle" ELSE "get"
NextLine(t) == IF todo'[t] = NoLines THEN "idle" ELSE "get"

\* A line is done, and the next one begins.
Saved(t) ==
  LET p == item[t].product IN
  /\ todo' = [todo EXCEPT ![t][p] = 0]
  /\ item' = [item EXCEPT ![t] = NoItem]
  /\ Goto(t, NextLine(t))
  /\ added' = [added EXCEPT ![p] = @ + todo[t][p]]
  /\ Change(t, {p})

\* save of a row that was read: UPDATE, and if the row is gone INSERT with its id.
Update(t) ==
  /\ pc[t] = "update"
  /\ \/ /\ \E r \in rows : r.id = item[t].id
        /\ rows' = {r \in rows : r.id # item[t].id} \cup {item[t]}
        /\ Saved(t)
        /\ UNCHANGED <<next_id, removed>>
     \/ /\ \A r \in rows : r.id # item[t].id
        /\ Goto(t, "insert")
        /\ UNCHANGED <<tableVars, addVars>>
  /\ UNCHANGED <<orderVars, backlog, mainVars, pages>>

\* INSERT of a new row, or of an old one: the second to revive a row gets an
\* IntegrityError, which ends the request.
Insert(t) ==
  /\ pc[t] = "insert"
  /\ LET i == item[t] IN
       \/ /\ i.id = NoId
          /\ rows' = rows \cup {[i EXCEPT !.id = next_id]}
          /\ next_id' = next_id + 1
          /\ Saved(t)
       \/ /\ i.id # NoId /\ \A r \in rows : r.id # i.id
          /\ rows' = rows \cup {i}
          /\ UNCHANGED next_id
          /\ Saved(t)
       \/ /\ \E r \in rows : r.id = i.id
          /\ todo' = [todo EXCEPT ![t] = NoLines]
          /\ item' = [item EXCEPT ![t] = NoItem]
          /\ Goto(t, "idle")
          /\ UNCHANGED <<rows, next_id, overlapped, disturbed, added>>
  /\ UNCHANGED <<removed, orderVars, backlog, mainVars, pages>>

\* Of any page of the cart, also one outside Tabs, as the request is one statement:
\* a product is cancelled, or the cart cleared.
Cancel(p) ==
  /\ Of(p) # {}
  /\ Delete(NoTab, {p})
  /\ UNCHANGED <<pc, addVars, orderVars, backlog, mainVars, pages>>

ClearCart ==
  /\ rows # {}
  /\ Delete(NoTab, Products)
  /\ UNCHANGED <<pc, addVars, orderVars, backlog, mainVars, pages>>

-----------------------------------------------------------------------------
(* An order of the cart: the page shows the rows, one of each product, ... *)

Shown == {f \in [Products -> {0} \cup {r.quantity : r \in rows}] :
            \A p \in Products : IF Of(p) = {} THEN f[p] = 0
                               ELSE \E r \in Of(p) : f[p] = r.quantity}

ShowCart(t) ==
  /\ OpenPage(t)
  /\ \E f \in Shown : form' = [form EXCEPT ![t] = f]
  /\ disturbed' = disturbed \ {t}
  /\ edited' = [edited EXCEPT ![t] = {}]
  /\ placed' = [placed EXCEPT ![t] = NoOrder]
  /\ feedback' = [feedback EXCEPT ![t] = "none"]
  /\ Goto(t, "form")
  /\ UNCHANGED <<rows, next_id, overlapped, added, removed, addVars, clears, broken,
                 backlog, main, client, replyVars, wire, cut, skipped, faults>>

\* ... and is submitted, the quantities as shown or others typed in their place.
\* try_place_order connects and sends, or fails.
try_place_order(t, f, clear) ==
  /\ form' = [form EXCEPT ![t] = f]
  /\ edited' = [edited EXCEPT ![t] = IF clear THEN {p \in Products : f[p] # form[t][p]} ELSE {}]
  /\ placed' = [placed EXCEPT ![t] = NoOrder]
  /\ cut' = cut \ {t} /\ skipped' = skipped \ {t}
  /\ split' = split \ {t} /\ broken' = broken \ {t}
  /\ \/ /\ backlog' = Append(backlog, t)
        /\ feedback' = [feedback EXCEPT ![t] = "none"]
        /\ clears' = [clears EXCEPT ![t] = clear]
        /\ Goto(t, "wait")
     \/ /\ feedback' = [feedback EXCEPT ![t] = "failed"]
        /\ Goto(t, "idle")
        /\ UNCHANGED <<backlog, clears>>
  /\ UNCHANGED <<addVars, main, client, msg, numBytes, wire, faults>>

Submitted(t) ==
  {f \in [Products -> Entries \cup {form[t][p] : p \in Products}] :
     \A p \in Products : f[p] = form[t][p] \/ (form[t][p] > 0 /\ f[p] \in Entries)}

SubmitOrder(t, f) ==
  /\ pc[t] = "form"
  /\ try_place_order(t, f, TRUE)
  /\ UNCHANGED <<tableVars, pages>>

OrderFromMall(t, f) ==
  /\ OpenPage(t)
  /\ try_place_order(t, f, FALSE)
  /\ UNCHANGED tableVars

-----------------------------------------------------------------------------
(* The main thread: listenFrontEndRequest                                  *)

\* Mutant: the connection of a request without an order is left open.
EndForgotten(t) == UNCHANGED wire
End(t) == wire' = IF pc[t] = "wait" THEN [wire EXCEPT ![t] = "closed"] ELSE wire

\* A connection is served, also one whose page is gone.
Serve(t) == client' = IF pc[t] = "wait" THEN t ELSE NoTab

\* handleOrder up to the reply, with the text that was read.
handleOrder(t, text) ==
  LET order == get_products_order(text) IN
  \* No order can be read from it, or none of its lines is matched.
  \/ /\ End(t)
     /\ UNCHANGED <<main, client, msg, placed, skipped>>
  \* Some lines are matched; the others are passed over, as match_inventory failed.
  \/ \E kept \in (SUBSET DOMAIN order) \ {{}} :
       /\ placed' = [placed EXCEPT ![t] = [i \in kept |-> order[i]]]
       /\ skipped' = IF kept = DOMAIN order THEN skipped ELSE skipped \cup {t}
       /\ main' = "send" /\ msg' = "placed" /\ Serve(t)
       /\ UNCHANGED wire
  \* A product is out of stock: more of it is purchased before the reply.
  \/ /\ order # NoOrder
     /\ main' = "buy_more" /\ Serve(t)
     /\ UNCHANGED <<msg, wire, placed, skipped>>

\* tryAccept and recvData: the message, or what has arrived of it.
Accept ==
  /\ main = "accept"
  /\ backlog # <<>>
  /\ backlog' = Tail(backlog)
  /\ LET t == Head(backlog) IN
     \E m \in {construct_order_message(FormLines(form[t]))} :
       \/ handleOrder(t, m) /\ UNCHANGED <<cut, faults>>
       \/ /\ \/ t \in broken /\ UNCHANGED faults
             \/ faults < MaxFaults /\ faults' = faults + 1
          /\ cut' = cut \cup {t}
          /\ \E text \in Cuts(m) : handleOrder(t, text)
  /\ UNCHANGED <<tableVars, pc, addVars, orderVars, numBytes, split, pages>>

\* The connection of a bind request is accepted, and handleBind done with it.
AcceptBind ==
  /\ main = "accept"
  /\ main' = "bind"
  /\ UNCHANGED <<tableVars, pc, addVars, orderVars, backlog, client, replyVars, wire,
                 placed, cut, skipped, faults, pages>>

Bound ==
  /\ main = "bind"
  /\ main' = "accept"
  /\ UNCHANGED <<tableVars, pc, addVars, orderVars, backlog, client, replyVars, wire,
                 placed, cut, skipped, faults, pages>>

\* The purchase for an order out of stock is acknowledged: send_to_user_no_stock.
Purchased ==
  /\ main = "buy_more"
  /\ main' = "send" /\ msg' = "no_stock"
  /\ UNCHANGED <<tableVars, pc, addVars, orderVars, backlog, client, numBytes, split,
                 wire, placed, cut, skipped, faults, pages>>

\* One turn of the loop of sendAllData, when send takes k bytes. The turns send
\* ReplySize bytes each, from msg + numBytes; the loop ends when no more bytes are
\* left than sent. Bytes behind the reply may be sent, and then the number of
\* bytes left wraps around and the loop goes on through the memory: undefined
\* behaviour, which ends the program or, where the memory ends, the loop.
Overrun(n)  == n > ReplySize
LoopEnds(n) == n >= ReplySize - n

Received(n) == IF n = ReplySize THEN msg ELSE "part"

\* After the reply the order is fulfilled or the connection closed.
AfterReply == /\ msg' = "none"
              /\ IF msg = "placed" THEN main' = "fulfil" /\ UNCHANGED client
                                   ELSE main' = "accept" /\ client' = NoTab

sendAllData(k) ==
  /\ main = "send"
  /\ numBytes > 0 \/ k = ReplySize \/ faults < MaxFaults
  /\ faults' = IF numBytes = 0 /\ k < ReplySize THEN faults + 1 ELSE faults
  /\ LET n == numBytes + k IN
       /\ IF client = NoTab THEN UNCHANGED <<wire, split>>
          ELSE /\ wire' = [wire EXCEPT ![client] = Received(n)]
               /\ split' = IF k = ReplySize /\ numBytes = 0 THEN split
                                                            ELSE split \cup {client}
       /\ IF Overrun(n) THEN main' = "undefined" /\ numBytes' = n /\ UNCHANGED <<client, msg>>
          ELSE IF LoopEnds(n) THEN AfterReply /\ numBytes' = 0
          ELSE numBytes' = n /\ UNCHANGED <<main, client, msg>>
  /\ UNCHANGED <<tableVars, pc, addVars, orderVars, backlog, placed, cut, skipped, pages>>

\* send fails when the page has closed its end.
SendFails ==
  /\ main = "send"
  /\ client = NoTab
  /\ AfterReply
  /\ numBytes' = 0
  /\ UNCHANGED <<tableVars, pc, addVars, orderVars, backlog, wire, placed, cut, skipped,
                 split, faults, pages>>

OverrunFails ==
  /\ main = "undefined"
  /\ AfterReply
  /\ numBytes' = 0
  /\ UNCHANGED <<tableVars, pc, addVars, orderVars, backlog, wire, placed, cut, skipped,
                 split, faults, pages>>

\* The packages of the order are fulfilled (module Shipping).
Fulfilled ==
  /\ main = "fulfil"
  /\ main' = "accept"
  /\ client' = NoTab
  /\ UNCHANGED <<tableVars, pc, addVars, orderVars, backlog, replyVars, wire,
                 placed, cut, skipped, faults, pages>>

-----------------------------------------------------------------------------
(* The page again: recv, the comparison of the reply, and the clearing     *)

\* Mutant: any reply counts as success.
AnyReply(t) == wire[t] # "closed"
Success(t) == wire[t] = "placed"

\* Mutant: the cart is deleted whatever the reply is.
ClearAnyway(t) == IF clears[t] THEN "clear" ELSE "idle"
AfterFeedback(t) == IF Success(t) /\ clears[t] THEN "clear" ELSE "idle"

\* The page closes its end of the connection and is done with it.
Close(t) ==
  /\ client' = IF client = t THEN NoTab ELSE client
  /\ wire' = [wire EXCEPT ![t] = "silent"]
  /\ clears' = [clears EXCEPT ![t] = FALSE]

Receive(t) ==
  /\ pc[t] = "wait"
  /\ wire[t] # "silent"
  /\ feedback' = [feedback EXCEPT ![t] = IF Success(t) THEN "placed" ELSE "failed"]
  /\ Goto(t, AfterFeedback(t))
  /\ Close(t)
  /\ UNCHANGED <<tableVars, addVars, form, edited, broken, backlog, main, replyVars,
                 placed, cut, skipped, faults, pages>>

\* A socket error of sendall or recv, with the order on its way, read or placed.
ConnectionBreaks(t) ==
  /\ pc[t] = "wait"
  /\ faults < MaxFaults /\ faults' = faults + 1
  /\ feedback' = [feedback EXCEPT ![t] = "failed"]
  /\ Goto(t, "idle")
  /\ Close(t)
  /\ broken' = broken \cup {t}
  /\ UNCHANGED <<tableVars, addVars, form, edited, backlog, main, replyVars, placed,
                 cut, skipped, pages>>

ClearOrdered(t) ==
  /\ pc[t] = "clear"
  /\ Delete(t, Products)
  /\ Goto(t, "idle")
  /\ UNCHANGED <<addVars, orderVars, backlog, mainVars, pages>>

-----------------------------------------------------------------------------
TabStep(t) == Get(t) \/ Update(t) \/ Insert(t) \/ Receive(t) \/ ClearOrdered(t)
Customer(t) ==
  \/ \E f \in Forms : AddToCart(t, f) \/ OrderFromMall(t, f)
  \/ ShowCart(t)
  \/ \E f \in Submitted(t) : SubmitOrder(t, f)
SendStep == SendFails \/ \E k \in 1 .. ReplySize : sendAllData(k)
MainStep == Accept \/ AcceptBind \/ Bound \/ Purchased \/ SendStep \/ OverrunFails \/ Fulfilled

Next == \/ \E t \in Tabs : TabStep(t) \/ ConnectionBreaks(t) \/ Customer(t)
        \/ (\E p \in Products : Cancel(p)) \/ ClearCart
        \/ MainStep

Spec == Init /\ [][Next]_vars

\* The threads are scheduled, and connections accepted in the order in which they
\* were made: only finitely many bind requests are before an order. Nothing is
\* assumed of customers, nor of the end of a fulfilment, a purchase or a bind (module
\* Shipping shows threads that wait for each other for ever).
FairSpec == /\ Spec
            /\ SF_vars(Accept) /\ WF_vars(SendStep)
            /\ \A t \in Tabs : WF_vars(TabStep(t))

-----------------------------------------------------------------------------
(* Properties                                                              *)

\* Every variable has a value of its type: a tab that saves a row has one, a tab
\* that adds has lines left.
TypeOK ==
  /\ rows \subseteq Rows /\ next_id \in Nat
  /\ pc \in [Tabs -> {"idle", "get", "update", "insert", "form", "wait", "clear"}]
  /\ todo \in [Tabs -> [Products -> Nat]] /\ form \in [Tabs -> [Products -> Nat]]
  /\ item \in [Tabs -> Items \cup {NoItem}]
  /\ \A t \in Tabs :
       /\ todo[t] # NoLines <=> (pc[t] \in {"get", "update", "insert"})
       /\ item[t] # NoItem <=> (pc[t] \in {"update", "insert"})
  /\ clears \in [Tabs -> BOOLEAN]
  /\ backlog \in Seq(Tabs)
  /\ main \in {"accept", "bind", "buy_more", "send", "fulfil", "undefined"}
  /\ client \in Tabs \cup {NoTab}
  /\ msg \in {"none", "placed", "no_stock"} /\ numBytes \in Nat
  /\ wire \in [Tabs -> {"silent", "part", "placed", "no_stock", "closed"}]
  /\ feedback \in [Tabs -> {"none", "placed", "failed"}]
  /\ pages \in 0 .. MaxPages /\ faults \in 0 .. MaxFaults
  /\ overlapped \subseteq Products /\ edited \in [Tabs -> SUBSET Products]
  /\ disturbed \subseteq Tabs /\ cut \subseteq Tabs /\ skipped \subseteq Tabs
  /\ split \subseteq Tabs /\ broken \subseteq Tabs
  /\ added \in [Products -> Nat]

\* Every unit added to the cart is in it or was deleted with its row: no addition
\* is lost, and no deleted unit comes back, unless another statement changed the
\* product between the two steps of an addition.
AddedIsKept ==
  \A p \in Products \ overlapped : InCart(p) + removed[p] = added[p]

\* A product has one row, also after every kind of deletion: a second one, with
\* which each further addition of the product fails, takes two additions that
\* overlap.
OneRowUnlessOverlapped ==
  \A p \in Products \ overlapped : \A r, s \in Of(p) : r = s

\* What the back end places are lines that were submitted: all of them, unless the
\* match of a line failed or the message was cut. After a cut they are the first
\* lines, of the last perhaps fewer units. Never another product and never more.
PlacedAsSubmitted ==
  \A t \in Tabs : placed[t] # NoOrder =>
    LET lines == FormLines(form[t])
        P     == DOMAIN placed[t]
    IN  /\ P \subseteq DOMAIN lines
        /\ t \notin skipped => \E n \in DOMAIN lines : P = 1 .. n
        /\ t \notin skipped \cup cut => P = DOMAIN lines
        /\ \A i \in P :
             \/ placed[t][i] = lines[i]
             \/ /\ t \in cut /\ \A j \in P : j <= i
                /\ placed[t][i].product = lines[i].product
                /\ placed[t][i].quantity \in Shorter(lines[i].quantity) \ {Empty}

\* The page and the back end agree on an order: a customer who reads that it is
\* placed has one, a customer who reads anything else has none, unless the reply
\* was sent in parts or the connection broke before it.
ToldTheTruth ==
  \A t \in Tabs : pc[t] \in {"idle", "clear"} =>
    /\ feedback[t] = "placed" => placed[t] # NoOrder
    /\ feedback[t] = "failed" /\ t \notin split \cup broken => placed[t] = NoOrder

\* What a page clears after its order was ordered: the units of a product are those
\* of a line placed, unless the customer typed another quantity, another page changed
\* the cart since it was shown, the product had two rows, or the order was placed
\* in part.
ClearedWasOrdered ==
  [][\A t \in Tabs : pc[t] = "clear" /\ pc'[t] = "idle" =>
       /\ placed[t] # NoOrder
       /\ t \notin disturbed \cup skipped \cup cut =>
            \A p \in Products \ (overlapped \cup edited[t]) : InCart(p) > 0 =>
              \E i \in DOMAIN placed[t] :
                placed[t][i] = [product |-> p, quantity |-> InCart(p)]
    ]_vars

\* Every page gets an answer, also one whose order cannot be read or is cut,
\* unless the main thread stays for ever with another order, with the purchase for
\* this or another one that is out of stock, or with a bind request.
PageAnswered ==
  \A t \in Tabs :
    (pc[t] = "wait") ~> \/ pc[t] # "wait"
                        \/ [](main \in {"fulfil", "buy_more", "bind", "undefined"})
=============================================================================
