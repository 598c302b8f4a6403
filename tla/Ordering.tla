------------------------------ MODULE Ordering ------------------------------
(***************************************************************************)
(* The stock of the warehouses: the start-up purchases, the orders of the  *)
(* customers that take from it (handleOrder and match_inventory, on the    *)
(* main thread) and the arrivals that add to it (processPurchaseMore, on   *)
(* the thread of the world), through one database connection. What follows *)
(* an order that was placed, package by package, is module Shipping.       *)
(*                                                                         *)
(* Warehouse w is opened with product w, so that both are numbers below    *)
(* NUM_WH. The quantity of a row that is not there yet is written 0.       *)
(***************************************************************************)
EXTENDS Integers, Sequences, Functions

CONSTANTS NUM_WH,
          PRODUCT_INIT_NUM,  \* units of the start-up purchase of a warehouse
          Restock,           \* units of a purchase for want of stock: 10
          Quantities,        \* bound: units of one line of an order
          IntMax,            \* largest int, and largest value of the column
          MaxLines,          \* bound: lines of an order
          MaxOrders,         \* bound: orders accepted
          NoPurchase

ASSUME SizesAssumption ==
  /\ NUM_WH \in Nat /\ PRODUCT_INIT_NUM \in Nat /\ Restock \in Nat
  /\ Quantities \subseteq Nat \ {0} /\ IntMax \in Nat
  /\ MaxLines \in Nat /\ MaxOrders \in Nat

Warehouses == 0 .. NUM_WH - 1
Products   == Warehouses
NotEnough  == -100      \* what match_inventory returns without a matching row
NoThread   == "none"

\* What an int holds of an integer: the integer, or its two's complement (of 2^32
\* values in the code).
ToInt(n) == IF n \in 0 .. IntMax THEN n
            ELSE ((n + IntMax + 1) % (IntMax + 1 + IntMax + 1)) - (IntMax + 1)

\* An order is a list of products and quantities. A form of the front end has one
\* field for each product, so that no product comes twice. The quantities are as
\* typed by the customer, without an upper bound (size_t).
Lines  == [product : Products, quantity : Quantities]
Orders == {o \in UNION {[1 .. n -> Lines] : n \in 1 .. MaxLines} :
             \A i, j \in DOMAIN o : o[i].product = o[j].product => i = j}

\* APurchaseMore, and the arrival that answers it.
Purchases == [seq : Nat, wh : Warehouses \cup {NotEnough}, product : Products,
              count : Nat]

ASSUME NoPurchaseAssumption == NoPurchase \notin Purchases

VARIABLES
  inventory,       \* quantity per warehouse and product
  conn,            \* the thread whose transaction is open
  lost_arrivals,   \* history: arrivals whose statement failed
  pc,              \* the main thread
  wh_next,         \* initProductsAmount: the next warehouse
  order, line,     \* handleOrder: the products and the position in them
  lost_lines,      \* history: lines of this order whose match failed (-200)
  warehouse_products, \* handleOrder: units matched per warehouse and product
  reply,           \* what the customer of the order has been sent
  orders,          \* number of orders accepted
  buying,          \* the purchase in the loop of trySendMsgToWorld
  SeqNum,
  global_finished, \* global_finished_SeqNum_set
  finished,        \* finished_SeqNum_set, as the purchases themselves
  batch, adding,   \* thread of the world: arrivals to handle, and in hand
  world_busy,      \* it handles the rest of a response (module Shipping)
  bought,          \* external: purchases the world has received
  packaged, kept,  \* history: units matched for orders placed, and not placed
  astray           \* history: rows not reduced by what was matched from them

mainVars   == <<pc, wh_next, order, line, lost_lines, warehouse_products,
                reply, orders>>
sendVars   == <<buying, SeqNum>>
worldVars  == <<finished, batch, adding, world_busy>>
countVars  == <<packaged, kept, astray>>
vars == <<inventory, conn, lost_arrivals, pc, wh_next, order, line, lost_lines,
          warehouse_products, reply, orders, buying, SeqNum, global_finished,
          finished, batch, adding, world_busy, bought, packaged, kept,
          astray>>

Cells   == [Warehouses -> [Products -> Nat]]
Columns == [Warehouses -> [Products -> 0 .. IntMax]]
NoUnits == [w \in Warehouses |-> [p \in Products |-> 0]]
Add(a, b) == [w \in Warehouses |-> [p \in Products |-> a[w][p] + b[w][p]]]

Init ==
  /\ inventory = NoUnits
  /\ conn = NoThread
  /\ lost_arrivals = {}
  /\ pc = "init"
  /\ wh_next = 0
  /\ order = <<>>
  /\ line = 1
  /\ lost_lines = {}
  /\ warehouse_products = NoUnits
  /\ reply = "none"
  /\ orders = 0
  /\ buying = NoPurchase
  /\ SeqNum = 0
  /\ global_finished = {}
  /\ finished = {}
  /\ batch = {}
  /\ adding = NoPurchase
  /\ world_busy = FALSE
  /\ bought = {}
  /\ packaged = NoUnits
  /\ kept = NoUnits
  /\ astray = {}

-----------------------------------------------------------------------------
(* purchaseMore and initProductsAmount: a purchase is sent until its number *)
(* is acknowledged (Shipping has the loop in detail).                      *)

StartBuying(wh, product, count) ==
  /\ buying' = [seq |-> SeqNum, wh |-> wh, product |-> product, count |-> count]
  /\ SeqNum' = SeqNum + 1

Bought == buying # NoPurchase /\ buying.seq \in global_finished

InitBuy ==
  /\ pc = "init"
  /\ buying = NoPurchase
  /\ wh_next < NUM_WH
  /\ StartBuying(wh_next, wh_next, PRODUCT_INIT_NUM)
  /\ UNCHANGED <<inventory, conn, lost_arrivals, mainVars, global_finished,
                 worldVars, bought, countVars>>

InitBought ==
  /\ pc = "init"
  /\ Bought
  /\ buying' = NoPurchase
  /\ wh_next' = wh_next + 1
  /\ pc' = IF wh_next' = NUM_WH THEN "listen" ELSE "init"
  /\ UNCHANGED <<inventory, conn, lost_arrivals, order, line, lost_lines,
                 warehouse_products, reply, orders, SeqNum, global_finished,
                 worldVars, bought, countVars>>

-----------------------------------------------------------------------------
(* handleOrder                                                             *)

AcceptOrder(o) ==
  /\ pc = "listen"
  /\ orders < MaxOrders
  /\ orders' = orders + 1
  /\ order' = o
  /\ line' = 1
  /\ lost_lines' = {}
  /\ warehouse_products' = NoUnits
  /\ reply' = "none"
  /\ pc' = "match"
  /\ UNCHANGED <<inventory, conn, lost_arrivals, wh_next, sendVars,
                 global_finished, worldVars, bought, countVars>>

\* work w(*c) of match_inventory: it fails while another transaction is open,
\* and the line is passed over (-200).
BeginMatch ==
  /\ pc = "match"
  /\ line <= Len(order)
  /\ \/ /\ conn = NoThread
        /\ conn' = "main"
        /\ pc' = "select"
        /\ UNCHANGED <<line, lost_lines>>
     \/ /\ conn # NoThread
        /\ lost_lines' = lost_lines \cup {line}
        /\ line' = line + 1
        /\ UNCHANGED <<conn, pc>>
  /\ UNCHANGED <<inventory, lost_arrivals, wh_next, order, warehouse_products,
                 reply, orders, sendVars, global_finished, worldVars, bought,
                 countVars>>

\* A row is inserted by the first arrival that is added to it.
HasRow(w, p) == \E c \in finished \ (lost_arrivals \cup {adding}) :
                  c.wh = w /\ c.product = p

\* The rest of the transaction compares and subtracts with the int of the quantity:
\* a large quantity is a negative number there.
Enough(l)   == {w \in Warehouses : /\ HasRow(w, l.product)
                                   /\ inventory[w][l.product] >= ToInt(l.quantity)}
Left(l, w)  == ToInt(inventory[w][l.product] - ToInt(l.quantity))

\* The column admits no negative number, and no number that is not an int.
\* Mutant: any int.
FitsInt(n)  == n <= IntMax
FitsColumn(n) == n \in 0 .. IntMax

\* Mutant: the map is declared inside the loop over the lines.
CountOnly(l, w) ==
  warehouse_products' = [NoUnits EXCEPT ![w][l.product] = l.quantity]
Count(l, w) ==
  warehouse_products' = [warehouse_products EXCEPT ![w][l.product] = @ + l.quantity]

\* A row with enough stock is found and updated. If the commit fails, that is not
\* noticed: the row keeps its stock.
Take(l, w) ==
  /\ FitsColumn(Left(l, w))
  /\ Count(l, w)
  /\ \/ /\ inventory' = [inventory EXCEPT ![w][l.product] = Left(l, w)]
        /\ astray' = IF ToInt(l.quantity) = l.quantity THEN astray
                     ELSE astray \cup {<<w, l.product>>}
     \/ /\ astray' = astray \cup {<<w, l.product>>}
        /\ UNCHANGED inventory

\* The line is matched; or its UPDATE fails and it is passed over (-200); or no row
\* is found, because there is none or because the SELECT fails, and more is bought.
Match ==
  /\ pc = "select"
  /\ conn' = NoThread
  /\ LET l == order[line] IN
       \/ /\ \E w \in Enough(l) : Take(l, w)
          /\ line' = line + 1
          /\ pc' = "match"
          /\ UNCHANGED <<lost_lines, sendVars>>
       \/ /\ Enough(l) # {}
          /\ lost_lines' = lost_lines \cup {line}
          /\ line' = line + 1
          /\ pc' = "match"
          /\ UNCHANGED <<inventory, warehouse_products, astray, sendVars>>
       \/ /\ StartBuying(NotEnough, l.product, Restock)
          /\ pc' = "buy_more"
          /\ UNCHANGED <<inventory, warehouse_products, astray, line, lost_lines>>
  /\ UNCHANGED <<lost_arrivals, wh_next, order, reply, orders, global_finished,
                 worldVars, bought, packaged, kept>>

\* send_to_user_no_stock, and the end of the order: what its earlier lines have
\* taken from the stock stays taken.

\* Mutant: the customer is not told.
NoStockSilently ==
  /\ pc = "buy_more"
  /\ Bought
  /\ buying' = NoPurchase
  /\ kept' = Add(kept, warehouse_products)
  /\ warehouse_products' = NoUnits
  /\ pc' = "listen"
  /\ UNCHANGED <<inventory, conn, lost_arrivals, wh_next, order, line, lost_lines,
                 reply, orders, SeqNum, global_finished, worldVars, bought,
                 packaged, astray>>
NoStock ==
  /\ pc = "buy_more"
  /\ Bought
  /\ buying' = NoPurchase
  /\ reply' = "no_stock"
  /\ kept' = Add(kept, warehouse_products)
  /\ warehouse_products' = NoUnits
  /\ pc' = "listen"
  /\ UNCHANGED <<inventory, conn, lost_arrivals, wh_next, order, line,
                 lost_lines, orders, SeqNum, global_finished, worldVars,
                 bought, packaged, astray>>

\* After the last line. An order without any matched line gets no reply; another
\* is placed, and its packages are fulfilled.
EndOfOrder ==
  /\ pc = "match"
  /\ line > Len(order)
  /\ pc' = "listen"
  /\ reply' = IF warehouse_products = NoUnits THEN reply ELSE "placed"
  /\ packaged' = Add(packaged, warehouse_products)
  /\ UNCHANGED <<inventory, conn, lost_arrivals, wh_next, order, line,
                 lost_lines, warehouse_products, orders, sendVars,
                 global_finished, worldVars, bought, kept, astray>>

-----------------------------------------------------------------------------
(* The world and the thread that receives from it                          *)

\* External: the world receives the purchase that is being sent.
WorldBuys ==
  /\ buying # NoPurchase
  /\ bought' = bought \cup {buying}
  /\ UNCHANGED <<inventory, conn, lost_arrivals, mainVars, sendVars,
                 global_finished, worldVars, countVars>>

Seqs(commands) == {c.seq : c \in commands}

\* External: what arrives, any number of times. A purchase for a warehouse that
\* the world does not have is answered with an AErr, which nobody reads.
Arrivals == {c \in bought : c.wh \in Warehouses}

Receive(acks, items) ==
  /\ ~world_busy
  /\ batch = {}
  /\ adding = NoPurchase
  /\ items # {} \/ ~(acks \subseteq global_finished)
  /\ global_finished' = global_finished \cup acks
  /\ batch' = items
  /\ UNCHANGED <<inventory, conn, lost_arrivals, mainVars, sendVars, finished,
                 adding, world_busy, bought, countVars>>

\* Mutant: the numbers of handled arrivals are not looked up.
HandleAgain(c) ==
  /\ adding = NoPurchase
  /\ c \in batch
  /\ batch' = batch \ {c}
  /\ finished' = finished \cup {c}
  /\ adding' = c
  /\ UNCHANGED <<inventory, conn, lost_arrivals, mainVars, sendVars,
                 global_finished, world_busy, bought, countVars>>
HandleArrived(c) ==
  /\ adding = NoPurchase
  /\ c \in batch
  /\ batch' = batch \ {c}
  /\ finished' = finished \cup {c}
  /\ adding' = IF c \in finished THEN NoPurchase ELSE c
  /\ UNCHANGED <<inventory, conn, lost_arrivals, mainVars, sendVars,
                 global_finished, world_busy, bought, countVars>>

\* processPurchaseMore and insert_and_update_inventory: the transaction opens ...
BeginAdd ==
  /\ adding # NoPurchase
  /\ conn = NoThread
  /\ conn' = "world"
  /\ UNCHANGED <<inventory, lost_arrivals, mainVars, sendVars, global_finished,
                 worldVars, bought, countVars>>

\* ... and adds the units, or fails (no connection, or more units than an int) and
\* the units are in no row.
AddToInventory ==
  /\ adding # NoPurchase
  /\ \/ LET sum == inventory[adding.wh][adding.product] + adding.count IN
          /\ conn = "world"
          /\ FitsColumn(sum)
          /\ inventory' = [inventory EXCEPT ![adding.wh][adding.product] = sum]
          /\ UNCHANGED lost_arrivals
     \/ /\ conn # NoThread
        /\ lost_arrivals' = lost_arrivals \cup {adding}
        /\ UNCHANGED inventory
  /\ conn' = IF conn = "world" THEN NoThread ELSE conn
  /\ adding' = NoPurchase
  /\ UNCHANGED <<mainVars, sendVars, global_finished, finished, batch, world_busy,
                 bought, countVars>>

\* The rest of a response, or a response without arrivals: the thread comes back,
\* or waits in processLoaded for an acknowledgement of UPS for ever (the circular
\* wait of module Shipping).
OtherResponse ==
  /\ \/ ~world_busy /\ batch = {} /\ adding = NoPurchase /\ world_busy' = TRUE
     \/ world_busy /\ world_busy' = FALSE
  /\ UNCHANGED <<inventory, conn, lost_arrivals, mainVars, sendVars,
                 global_finished, finished, batch, adding, bought, countVars>>

\* Any other statement of the back end, of the third thread or of a package
\* (module Shipping): it holds the connection for a while.
OtherStatement ==
  /\ \/ conn = NoThread /\ conn' = "other"
     \/ conn = "other" /\ conn' = NoThread
  /\ UNCHANGED <<inventory, lost_arrivals, mainVars, sendVars, global_finished,
                 worldVars, bought, countVars>>

-----------------------------------------------------------------------------
MainStep  == InitBuy \/ InitBought \/ BeginMatch \/ Match \/ NoStock \/ EndOfOrder
WorldStep == BeginAdd \/ AddToInventory \/ (\E c \in batch : HandleArrived(c))

\* A response with everything the back end has not heard of yet.
ReceiveNews == Receive(Seqs(bought), Arrivals \ finished)

Next ==
  \/ MainStep
  \/ WorldStep
  \/ WorldBuys
  \/ OtherStatement
  \/ OtherResponse
  \/ \E o \in Orders : AcceptOrder(o)
  \/ \E acks \in SUBSET Seqs(bought), items \in SUBSET Arrivals :
       Receive(acks, items)

Spec == Init /\ [][Next]_vars

\* The threads are scheduled; the world receives what is sent again and again and
\* repeats what it has not been acknowledged, so that the thread hears of it if it
\* comes back to receive again and again. That it comes back is not assumed.
FairSpec == /\ Spec
            /\ WF_vars(MainStep) /\ WF_vars(WorldStep) /\ WF_vars(WorldBuys)
            /\ SF_vars(ReceiveNews)

-----------------------------------------------------------------------------
(* Properties                                                              *)

\* The stock is never negative, whatever the orders and the arrivals do, also where
\* the subtraction overflows.
TypeOK ==
  /\ inventory \in Columns
  /\ warehouse_products \in Cells /\ packaged \in Cells /\ kept \in Cells
  /\ conn \in {"main", "world", "other", NoThread}
  /\ pc \in {"init", "listen", "match", "select", "buy_more"}
  /\ wh_next \in 0 .. NUM_WH
  /\ order \in Orders \cup {<<>>}
  /\ line \in 1 .. MaxLines + 1 /\ lost_lines \subseteq 1 .. MaxLines
  /\ reply \in {"none", "no_stock", "placed"}
  /\ orders \in 0 .. MaxOrders
  /\ astray \subseteq Warehouses \X Products /\ world_busy \in BOOLEAN
  /\ SeqNum \in Nat /\ global_finished \subseteq Nat
  /\ buying = NoPurchase \/ buying \in Purchases
  /\ adding = NoPurchase \/ adding \in Purchases
  /\ finished \subseteq Purchases /\ batch \subseteq Purchases
  /\ bought \subseteq Purchases /\ lost_arrivals \subseteq Purchases

Handling == pc \in {"match", "select", "buy_more"}
Units(purchases) == SumFunctionOnSet([c \in purchases |-> c.count], purchases)

\* Every unit the world has delivered is in the stock, in the order being
\* handled, in a package or with an order that was refused, exactly once: no
\* repeated arrival, concurrent match or failed statement makes or loses a unit.
\* The exceptions are the arrivals whose statement failed, as a whole, and the
\* rows from which a quantity that is no int was matched, or whose new stock was
\* not committed.
Accounting ==
  \A w \in Warehouses, p \in Products : <<w, p>> \notin astray =>
    inventory[w][p] + packaged[w][p] + kept[w][p]
      + (IF Handling THEN warehouse_products[w][p] ELSE 0)
    = Units({c \in finished \ (lost_arrivals \cup {adding}) :
               c.wh = w /\ c.product = p})

\* Units of product p in the lines of the order, and in what was matched.
LinesOf(p) == {i \in DOMAIN order : order[i].product = p}
Ordered(p) == SumFunctionOnSet([i \in LinesOf(p) |-> order[i].quantity], LinesOf(p))
Matched(p) == SumFunctionOnSet([w \in Warehouses |-> warehouse_products[w][p]],
                               Warehouses)
Complete == \A p \in Products : Matched(p) = Ordered(p)

\* "Order placed successfully!" goes to a customer whose packages hold all the
\* units of all the lines, unless the match of a line failed.
PlacedUnlessLost == (reply = "placed" /\ lost_lines = {}) => Complete

\* The same without the exception: what the reply tells the customer.
PlacedMeansComplete == reply = "placed" => Complete

\* A line is taken only from a row with that many units.
MatchedWasThere ==
  [][\A w \in Warehouses, p \in Products :
       pc = "select" => inventory[w][p] >= warehouse_products'[w][p]
                                             - warehouse_products[w][p]]_vars

\* Every order is answered, also the one whose purchase the main thread waits for,
\* unless the match of a line failed or the thread of the world, which would hear
\* of the purchase, never comes back from another response.
AnsweredUnlessLost ==
  (pc = "match") ~> (reply # "none" \/ lost_lines # {} \/ []world_busy)
=============================================================================
