--------------------------- MODULE OrderingProofs ---------------------------
(***************************************************************************)
(* Proofs about the start of the back end and its stock: the back end runs *)
(* in the world UPS named, what follows its start is module Ordering, no   *)
(* stock is ever negative, every unit delivered is in one place unless its *)
(* statement failed or a quantity is no int, and an order is placed        *)
(* complete unless the match of a line failed.                             *)
(***************************************************************************)
EXTENDS Startup, SumProofs

-----------------------------------------------------------------------------
(* The handshake. What is known at each point of the main thread; nothing  *)
(* is on its way but what that point waits for.                            *)

UPSWaits == /\ world_id = ups_world /\ named = NoWorld
            /\ told = "none" /\ ups \in {"wait", "gone"}
Quiet    == asked = NoWorld /\ connected = "none"

HandshakeInv ==
  /\ boot = "init_ups" =>
       /\ Quiet /\ told \in {"none", "failure"} /\ ups # "connected"
       /\ ups = "name" => told = "none"
       /\ named # NoWorld => /\ named = ups_world /\ told = "none"
                             /\ ups \in {"wait", "gone"}
  /\ boot = "init_world" => UPSWaits /\ Quiet
  /\ boot = "connecting" =>
       /\ UPSWaits
       /\ asked # NoWorld => asked = world_id
       /\ connected # "none" => asked = NoWorld
       /\ connected = "connected!" => world_conn = world_id
  /\ boot = "connected_world" =>
       UPSWaits /\ Quiet /\ (hasConnected => world_conn = world_id)
  /\ boot = "running" =>
       /\ world_conn = world_id /\ world_id = ups_world
       /\ Quiet /\ told \in {"none", "success"} /\ ups # "name"
  /\ boot = "ended" => told # "success" /\ ups # "connected"
  /\ boot \in {"init_ups", "init_world", "connecting", "connected_world",
               "running", "ended"}
  /\ bought # {} => boot = "running"

\* At the start nothing is on its way.
LEMMA HandshakeInit == StartInit => HandshakeInv
BY DEF StartInit, Init, HandshakeInv, UPSWaits, Quiet, NoWorld

\* Every step of the handshake, and every step after it, keeps the invariant.
LEMMA HandshakeStep == HandshakeInv /\ [StartNext]_allVars => HandshakeInv'
<1> SUFFICES ASSUME HandshakeInv, [StartNext]_allVars PROVE HandshakeInv'
  OBVIOUS
<1> USE DEF HandshakeInv, UPSWaits, Quiet, NoWorld, bootVars, peerVars
<1>1. CASE Starting(BootStep)
  <2>0. bought' = bought
    BY <1>1 DEF Starting, vars
  <2>1. CASE RecvInitWorld
    BY <2>0, <2>1 DEF RecvInitWorld
  <2>2. CASE SendAConnect
    BY <2>0, <2>2 DEF SendAConnect
  <2>3. CASE RecvAConnected
    BY <2>0, <2>3 DEF RecvAConnected
  <2>4. CASE SendConnectedWorld
    BY <2>0, <2>4 DEF SendConnectedWorld
  <2> QED BY <1>1, <2>1, <2>2, <2>3, <2>4 DEF Starting, BootStep
<1>2. CASE Starting(StartFails)
  BY <1>2 DEF Starting, StartFails, vars
<1>3. CASE Starting(WorldAnswers)
  <2>1. /\ boot \in {"connecting", "ended"} /\ asked # NoWorld
        /\ UNCHANGED <<boot, world_id, hasConnected, named, told, ups, ups_world, bought>>
        /\ asked' = NoWorld
        /\ connected' = "connected!" => world_conn' = asked
    BY <1>3 DEF Starting, WorldAnswers, vars
  <2>2. CASE boot = "connecting"
    <3>1. asked = world_id
      BY <2>1, <2>2
    <3> QED BY <2>1, <2>2, <3>1
  <2>3. CASE boot = "ended"
    BY <2>1, <2>3
  <2> QED BY <2>1, <2>2, <2>3
<1>4. CASE Starting(UPSIsTold)
  BY <1>4 DEF Starting, UPSIsTold, vars
<1>5. CASE Starting(UPSLeaves)
  BY <1>5 DEF Starting, UPSLeaves, vars
<1>6. CASE \E w \in Worlds : Starting(UPSNames(w))
  BY <1>6, WorldsAssumption DEF Starting, UPSNames, vars
<1>7. ASSUME boot = "running", UNCHANGED startVars PROVE HandshakeInv'
  BY <1>7 DEF startVars
<1>8. CASE UNCHANGED allVars
  BY <1>8 DEF allVars, vars, startVars
<1>9. \/ Starting(BootStep) \/ Starting(StartFails) \/ Starting(WorldAnswers)
      \/ Starting(UPSIsTold) \/ Starting(UPSLeaves)
      \/ \E w \in Worlds : Starting(UPSNames(w))
      \/ boot = "running" /\ UNCHANGED startVars
      \/ UNCHANGED allVars
  BY DEF StartNext, Running, Ended
<1> QED BY <1>1, <1>2, <1>3, <1>4, <1>5, <1>6, <1>7, <1>8, <1>9

\* However often a world is refused and whatever fails, UPS and a running back end
\* agree on the world, and the purchases are in it.
THEOREM OneWorldTheorem == StartSpec => []OneWorld
<1>1. HandshakeInv => OneWorld
  BY DEF HandshakeInv, OneWorld, UPSWaits, Quiet
<1> QED BY <1>1, HandshakeInit, HandshakeStep, PTL DEF StartSpec

\* After the handshake the back end is the one of Ordering, with nothing done
\* before: what is shown of Ordering holds of the composition.
THEOREM StartThenOrdering == StartSpec => Spec
<1>1. StartInit => Init
  BY DEF StartInit
<1>2. [StartNext]_allVars => [Next]_vars
  BY DEF StartNext, Starting, Running, Ended, allVars, Next
<1> QED BY <1>1, <1>2, PTL DEF StartSpec, Spec

-----------------------------------------------------------------------------
(* The stock                                                               *)

USE SizesAssumption

\* A line is matched only if the order has it, a purchase of the start is for a
\* warehouse there is, and only arrivals at such a warehouse are handled.
StockInv ==
  /\ TypeOK
  /\ pc = "select" => line <= Len(order)
  /\ pc = "init" /\ buying # NoPurchase => wh_next < NUM_WH
  /\ \A c \in batch : c.wh \in Warehouses
  /\ adding # NoPurchase => adding.wh \in Warehouses

\* An order has at most MaxLines lines, each of a product there is and of at least
\* one unit.
LEMMA OrderLines ==
  ASSUME NEW o \in Orders \cup {<<>>}
  PROVE  Len(o) \in 0 .. MaxLines /\ \A i \in 1 .. Len(o) : o[i] \in Lines
<1>1. CASE o = <<>>
  BY <1>1
<1>2. CASE o \in Orders
  <2>1. PICK n \in 1 .. MaxLines : o \in [1 .. n -> Lines]
    BY <1>2 DEF Orders
  <2>2. Len(o) = n
    BY <2>1
  <2> QED BY <2>1, <2>2
<1> QED BY <1>1, <1>2

\* The cells of a sum, and of a cell changed by a number that is not negative in
\* the end.
LEMMA SumIsCells ==
  ASSUME NEW a \in Cells, NEW b \in Cells PROVE Add(a, b) \in Cells
BY DEF Add, Cells

LEMMA ChangedCells ==
  ASSUME NEW a \in Cells, NEW w \in Warehouses, NEW p \in Products, NEW n \in Nat
  PROVE  [a EXCEPT ![w][p] = n] \in Cells
BY DEF Cells

LEMMA NoUnitsIsCells == NoUnits \in Cells
BY DEF NoUnits, Cells

\* The same of the column of the stock, whose numbers are bounded.
LEMMA ChangedColumns ==
  ASSUME NEW a \in Columns, NEW w \in Warehouses, NEW p \in Products, NEW n \in 0 .. IntMax
  PROVE  [a EXCEPT ![w][p] = n] \in Columns
BY DEF Columns

LEMMA ColumnsAreCells == Columns \subseteq Cells /\ NoUnits \in Columns
BY DEF Columns, Cells, NoUnits

\* An int holds what fits.
LEMMA ToIntFits == ASSUME NEW n \in 0 .. IntMax PROVE ToInt(n) = n
BY DEF ToInt

\* A purchase that is begun is one.
LEMMA StartIsPurchase ==
  ASSUME TypeOK, NEW wh \in Warehouses \cup {NotEnough}, NEW p \in Products,
         NEW n \in Nat, StartBuying(wh, p, n)
  PROVE  buying' \in Purchases /\ SeqNum' \in Nat
BY DEF TypeOK, StartBuying, Purchases

LEMMA StockInit == Init => StockInv
<1> SUFFICES ASSUME Init PROVE StockInv
  OBVIOUS
<1>1. /\ inventory \in Columns /\ warehouse_products \in Cells
      /\ packaged \in Cells /\ kept \in Cells
  BY NoUnitsIsCells, ColumnsAreCells DEF Init
<1>2. astray \subseteq Warehouses \X Products /\ world_busy \in BOOLEAN
  BY DEF Init
<1> QED BY <1>1, <1>2 DEF Init, StockInv, TypeOK, NoThread

\* No step takes more than there is, whichever threads interleave: the row is
\* reduced by what was found in it.
LEMMA StockStep == StockInv /\ [Next]_vars => StockInv'
<1> SUFFICES ASSUME StockInv, [Next]_vars PROVE StockInv'
  OBVIOUS
<1> TypeOK
  BY DEF StockInv
<1> USE DEF NoThread, mainVars, sendVars, worldVars, countVars
<1>1. CASE InitBuy
  <2>1. wh_next \in Warehouses /\ wh_next \in Products
    BY <1>1 DEF InitBuy, TypeOK, Warehouses, Products
  <2>2. buying' \in Purchases /\ SeqNum' \in Nat
    BY <1>1, <2>1, StartIsPurchase DEF InitBuy
  <2> QED BY <1>1, <2>2 DEF InitBuy, StockInv, TypeOK
<1>2. CASE InitBought
  BY <1>2 DEF InitBought, Bought, StockInv, TypeOK
<1>3. CASE \E o \in Orders : AcceptOrder(o)
  BY <1>3, NoUnitsIsCells DEF AcceptOrder, StockInv, TypeOK
<1>4. CASE BeginMatch
  <2>1. line + 1 \in 1 .. MaxLines + 1 /\ line \in 1 .. MaxLines
    BY <1>4, OrderLines DEF BeginMatch, TypeOK
  <2> QED BY <1>4, <2>1 DEF BeginMatch, StockInv, TypeOK
<1>5. CASE Match
  <2> DEFINE l == order[line]
  <2>1. line \in 1 .. Len(order) /\ l \in Lines /\ line + 1 \in 1 .. MaxLines + 1
    BY <1>5, OrderLines DEF Match, StockInv, TypeOK
  <2>2. l.product \in Products /\ l.quantity \in Nat
    BY <2>1 DEF Lines
  <2>3. CASE /\ \E w \in Enough(l) : Take(l, w)
             /\ line' = line + 1 /\ pc' = "match" /\ UNCHANGED <<lost_lines, sendVars>>
    <3>1. PICK w \in Warehouses : Take(l, w)
      BY <2>3 DEF Enough
    <3>2. Left(l, w) \in 0 .. IntMax
      BY <3>1 DEF Take, FitsColumn
    <3>3. warehouse_products[w][l.product] + l.quantity \in Nat
      BY <3>1, <2>2 DEF TypeOK, Cells
    <3>4. inventory' \in Columns
      BY <3>1, <3>2, <2>2, ChangedColumns DEF Take, TypeOK
    <3>5. warehouse_products' \in Cells
      BY <3>1, <3>3, <2>2, ChangedCells DEF Take, Count, TypeOK
    <3>6. astray' \subseteq Warehouses \X Products
      BY <3>1, <2>2 DEF Take, TypeOK
    <3> QED BY <1>5, <2>3, <2>1, <3>4, <3>5, <3>6 DEF Match, StockInv, TypeOK
  <2>4. CASE /\ StartBuying(NotEnough, l.product, Restock) /\ pc' = "buy_more"
             /\ UNCHANGED <<inventory, warehouse_products, astray, line, lost_lines>>
    <3>1. buying' \in Purchases /\ SeqNum' \in Nat
      BY <2>4, <2>2, StartIsPurchase
    <3> QED BY <1>5, <2>4, <3>1 DEF Match, StockInv, TypeOK
  <2>5. CASE /\ lost_lines' = lost_lines \cup {line} /\ line' = line + 1 /\ pc' = "match"
             /\ UNCHANGED <<inventory, warehouse_products, astray, sendVars>>
    BY <1>5, <2>1, <2>5, OrderLines DEF Match, StockInv, TypeOK
  <2> QED BY <1>5, <2>3, <2>4, <2>5 DEF Match
<1>6. CASE NoStock
  <2>1. kept' \in Cells
    BY <1>6, SumIsCells DEF NoStock, TypeOK
  <2> QED BY <1>6, <2>1, NoUnitsIsCells DEF NoStock, StockInv, TypeOK
<1>7. CASE EndOfOrder
  <2>1. packaged' \in Cells
    BY <1>7, SumIsCells DEF EndOfOrder, TypeOK
  <2> QED BY <1>7, <2>1 DEF EndOfOrder, StockInv, TypeOK
<1>8. CASE WorldBuys
  BY <1>8 DEF WorldBuys, StockInv, TypeOK
<1>9. CASE \E acks \in SUBSET Seqs(bought), items \in SUBSET Arrivals :
             Receive(acks, items)
  <2>1. PICK acks \in SUBSET Seqs(bought), items \in SUBSET Arrivals :
          Receive(acks, items)
    BY <1>9
  <2>2. acks \subseteq Nat
    BY DEF Seqs, TypeOK, Purchases
  <2>3. items \subseteq Purchases /\ \A c \in items : c.wh \in Warehouses
    BY DEF Arrivals, TypeOK
  <2> QED BY <2>1, <2>2, <2>3 DEF Receive, StockInv, TypeOK
<1>10. CASE \E c \in batch : HandleArrived(c)
  BY <1>10 DEF HandleArrived, StockInv, TypeOK
<1>11. CASE BeginAdd
  BY <1>11 DEF BeginAdd, StockInv, TypeOK
<1>12. CASE AddToInventory
  <2>1. adding \in Purchases /\ adding.wh \in Warehouses
    BY <1>12 DEF AddToInventory, StockInv, TypeOK
  <2>2. adding.product \in Products /\ adding.count \in Nat
    BY <2>1 DEF Purchases
  <2>4. inventory' \in Columns
    BY <1>12, <2>1, <2>2, ChangedColumns DEF AddToInventory, FitsColumn, TypeOK
  <2> QED BY <1>12, <2>1, <2>4 DEF AddToInventory, StockInv, TypeOK
<1>13. CASE OtherStatement
  BY <1>13 DEF OtherStatement, StockInv, TypeOK
<1>14. CASE OtherResponse
  BY <1>14 DEF OtherResponse, StockInv, TypeOK
<1>15. CASE UNCHANGED vars
  BY <1>15 DEF vars, StockInv, TypeOK
<1> QED BY <1>1, <1>2, <1>3, <1>4, <1>5, <1>6, <1>7, <1>8, <1>9, <1>10, <1>11,
           <1>12, <1>13, <1>14, <1>15 DEF Next, MainStep, WorldStep

\* No stock is negative, for any number of warehouses, orders, lines and units.
THEOREM OrderingTypes == Spec => []TypeOK
<1>1. StockInv => TypeOK
  BY DEF StockInv
<1> QED BY <1>1, StockInit, StockStep, PTL DEF Spec

\* The same of the back end from its start, which the run checks.
COROLLARY StartTypes == StartSpec => []TypeOK
BY StartThenOrdering, OrderingTypes, PTL

-----------------------------------------------------------------------------
(* Every unit is in one place                                              *)

\* What has been delivered and counted: the arrivals that were handled, without
\* the one in hand and those whose statement failed.
Settled(w, p) == {c \in finished \ (lost_arrivals \cup {adding}) :
                    c.wh = w /\ c.product = p}

\* What there is of product p at warehouse w, wherever it is.
OnHand(w, p) == IF Handling THEN warehouse_products[w][p] ELSE 0
Held(w, p)   == inventory[w][p] + packaged[w][p] + kept[w][p] + OnHand(w, p)

\* An arrival in hand, or lost, is one that was handled; none is both.
ArrivalsInv ==
  /\ IsFiniteSet(finished) /\ lost_arrivals \subseteq finished
  /\ adding # NoPurchase => adding \in finished \ lost_arrivals

AccountingInv == StockInv /\ ArrivalsInv /\ Accounting

\* The units of purchases are a number, and one purchase more brings its units.
LEMMA UnitsType ==
  ASSUME NEW S \in SUBSET Purchases, IsFiniteSet(S) PROVE Units(S) \in Nat
BY SumType DEF Units, Purchases

\* One purchase more adds its units to the sum.
LEMMA UnitsAdd ==
  ASSUME NEW S \in SUBSET Purchases, IsFiniteSet(S), NEW c \in Purchases \ S
  PROVE  Units(S \cup {c}) = Units(S) + c.count
<1> DEFINE f == [d \in S |-> d.count]
           g == [d \in S \cup {c} |-> d.count]
<1>1. \A d \in S \cup {c} : g[d] \in Nat
  BY DEF Purchases
<1>2. SumFunctionOnSet(g, S \cup {c}) = SumFunctionOnSet(g, S) + g[c]
  <2> HIDE DEF g
  <2> QED BY <1>1, SumAdd
<1>3. SumFunctionOnSet(g, S) = SumFunctionOnSet(f, S)
  <2>1. \A d \in S : f[d] = g[d]
    OBVIOUS
  <2> HIDE DEF f, g
  <2> QED BY <2>1, SumSame
<1> QED BY <1>2, <1>3 DEF Units

\* A cell holds a number of units.
LEMMA CellType ==
  ASSUME NEW a \in Cells, NEW w \in Warehouses, NEW p \in Products
  PROVE  a[w][p] \in Nat
BY DEF Cells

\* At the start nothing is held and nothing has arrived.
LEMMA AccountingInit == Init => AccountingInv
<1> SUFFICES ASSUME Init PROVE AccountingInv
  OBVIOUS
<1>1. StockInv /\ ArrivalsInv
  BY StockInit, FS_EmptySet DEF Init, ArrivalsInv
<1>2. ASSUME NEW w \in Warehouses, NEW p \in Products
      PROVE  Held(w, p) = Units(Settled(w, p))
  <2>1. Held(w, p) = 0
    BY <1>2 DEF Init, Held, OnHand, Handling, NoUnits
  <2>2. Settled(w, p) = {}
    BY DEF Init, Settled
  <2> QED BY <2>1, <2>2, SumEmpty DEF Units
<1> QED BY <1>1, <1>2 DEF AccountingInv, Accounting, Held, OnHand, Settled

\* The main thread moves units between the stock, the order and what became of it;
\* the thread of the world adds those of the arrival in hand. No step does both.
LEMMA AccountingStep == AccountingInv /\ [Next]_vars => AccountingInv'
<1> SUFFICES ASSUME AccountingInv, [Next]_vars PROVE AccountingInv'
  OBVIOUS
<1> USE DEF NoThread, mainVars, sendVars, worldVars, countVars
<1>1. StockInv /\ StockInv' /\ TypeOK /\ TypeOK'
  BY StockStep DEF AccountingInv, StockInv
<1>2. ArrivalsInv
  BY DEF AccountingInv
<1>3. \A w \in Warehouses, p \in Products :
        <<w, p>> \notin astray => Held(w, p) = Units(Settled(w, p))
  BY DEF AccountingInv, Accounting, Held, OnHand, Settled
<1>4. SUFFICES /\ ArrivalsInv'
               /\ \A w \in Warehouses, p \in Products :
                    <<w, p>> \notin astray' => Held(w, p)' = Units(Settled(w, p))'
  BY <1>1 DEF AccountingInv, Accounting, Held, OnHand, Settled
<1>5. \A w \in Warehouses, p \in Products :
        /\ inventory[w][p] \in Nat /\ warehouse_products[w][p] \in Nat
        /\ packaged[w][p] \in Nat /\ kept[w][p] \in Nat
  BY <1>1, CellType, ColumnsAreCells DEF TypeOK
<1>6. ASSUME UNCHANGED <<finished, lost_arrivals, adding>>, astray \subseteq astray',
             \A w \in Warehouses, p \in Products :
               <<w, p>> \notin astray' => Held(w, p)' = Held(w, p)
      PROVE  /\ ArrivalsInv'
             /\ \A w \in Warehouses, p \in Products :
                  <<w, p>> \notin astray' => Held(w, p)' = Units(Settled(w, p))'
  <2>1. ArrivalsInv'
    BY <1>2, <1>6 DEF ArrivalsInv
  <2>2. ASSUME NEW w \in Warehouses, NEW p \in Products
        PROVE  Units(Settled(w, p))' = Units(Settled(w, p))
    BY <1>6 DEF Settled, Units
  <2> QED BY <1>3, <1>6, <2>1, <2>2
<1>7. ASSUME UNCHANGED <<inventory, packaged, kept, warehouse_products, pc>>,
             UNCHANGED <<finished, lost_arrivals, adding, astray>>
      PROVE  /\ ArrivalsInv'
             /\ \A w \in Warehouses, p \in Products :
                  <<w, p>> \notin astray' => Held(w, p)' = Units(Settled(w, p))'
  BY <1>6, <1>7 DEF Held, OnHand, Handling
<1>8. CASE InitBuy
  BY <1>7, <1>8 DEF InitBuy
<1>9. CASE InitBought
  <2>1. \A w \in Warehouses, p \in Products : Held(w, p)' = Held(w, p)
    BY <1>9 DEF InitBought, Held, OnHand, Handling
  <2> QED BY <1>6, <1>9, <2>1 DEF InitBought
<1>10. CASE \E o \in Orders : AcceptOrder(o)
  <2>1. ASSUME NEW w \in Warehouses, NEW p \in Products
        PROVE  Held(w, p)' = Held(w, p)
    BY <1>10 DEF AcceptOrder, Held, OnHand, Handling, NoUnits
  <2> QED BY <1>6, <1>10, <2>1 DEF AcceptOrder
<1>11. CASE BeginMatch
  <2>1. \A w \in Warehouses, p \in Products : Held(w, p)' = Held(w, p)
    BY <1>11 DEF BeginMatch, Held, OnHand, Handling
  <2> QED BY <1>6, <1>11, <2>1 DEF BeginMatch
<1>12. CASE Match
  <2> DEFINE l == order[line]
  <2>1. l \in Lines
    BY <1>12, <1>1, OrderLines DEF Match, StockInv, TypeOK
  <2>2. l.product \in Products /\ l.quantity \in Nat
    BY <2>1 DEF Lines
  <2>3. CASE /\ \E w \in Enough(l) : Take(l, w)
             /\ line' = line + 1 /\ pc' = "match" /\ UNCHANGED <<lost_lines, sendVars>>
    <3>1. PICK v \in Warehouses : Take(l, v) /\ inventory[v][l.product] >= ToInt(l.quantity)
      BY <2>3 DEF Enough
    <3>2. astray \subseteq astray'
      BY <3>1 DEF Take
    <3>3. ASSUME NEW w \in Warehouses, NEW p \in Products, <<w, p>> \notin astray'
          PROVE  inventory'[w][p] + warehouse_products'[w][p]
                   = inventory[w][p] + warehouse_products[w][p]
      <4>0. inventory \in Columns /\ warehouse_products \in Cells
        BY <1>1 DEF TypeOK
      <4>1. PICK q \in Products, n \in Nat : q = l.product /\ n = l.quantity
        BY <2>2
      <4>2. warehouse_products'[w][p] =
              IF w = v /\ p = q THEN warehouse_products[v][q] + n
                                ELSE warehouse_products[w][p]
        BY <4>0, <3>1, <4>1 DEF Take, Count, Cells
      <4>3. CASE ~(w = v /\ p = q)
        <5>1. inventory'[w][p] = inventory[w][p]
          BY <4>0, <4>1, <4>3, <3>1 DEF Take, Columns
        <5> QED BY <4>2, <4>3, <5>1
      <4>4. CASE w = v /\ p = q
        <5>1. ToInt(n) = n /\ inventory'[v][q] = ToInt(inventory[v][q] - ToInt(n))
          BY <4>0, <4>1, <4>4, <3>1, <3>3 DEF Take, Left, Columns
        <5>2. inventory[v][q] \in 0 .. IntMax /\ inventory[v][q] >= n
          BY <4>0, <4>1, <3>1, <5>1 DEF Columns
        <5>3. inventory[v][q] - n \in 0 .. IntMax
          BY <5>2
        <5>4. inventory'[v][q] = inventory[v][q] - n
          BY <5>1, <5>3, ToIntFits
        <5>5. warehouse_products[v][q] \in Nat
          BY <1>5
        <5> QED BY <4>2, <4>4, <5>2, <5>4, <5>5
      <4> QED BY <4>3, <4>4
    <3>4. ASSUME NEW w \in Warehouses, NEW p \in Products, <<w, p>> \notin astray'
          PROVE  Held(w, p)' = Held(w, p)
      <4>1. Held(w, p)' = inventory'[w][p] + packaged[w][p] + kept[w][p] + warehouse_products'[w][p]
        BY <1>12, <2>3 DEF Match, Held, OnHand, Handling
      <4>2. Held(w, p) = inventory[w][p] + packaged[w][p] + kept[w][p] + warehouse_products[w][p]
        BY <1>12 DEF Match, Held, OnHand, Handling
      <4>3. inventory'[w][p] \in Nat /\ warehouse_products'[w][p] \in Nat
        BY <1>1, CellType, ColumnsAreCells DEF TypeOK
      <4> QED BY <4>1, <4>2, <4>3, <3>3, <3>4, <1>5
    <3> QED BY <1>6, <1>12, <3>2, <3>4 DEF Match
  <2>4. CASE /\ StartBuying(NotEnough, l.product, Restock) /\ pc' = "buy_more"
             /\ UNCHANGED <<inventory, warehouse_products, astray, line, lost_lines>>
    <3>1. \A w \in Warehouses, p \in Products : Held(w, p)' = Held(w, p)
      BY <1>12, <2>4 DEF Match, Held, OnHand, Handling
    <3> QED BY <1>6, <1>12, <2>4, <3>1 DEF Match
  <2>5. CASE /\ lost_lines' = lost_lines \cup {line} /\ line' = line + 1 /\ pc' = "match"
             /\ UNCHANGED <<inventory, warehouse_products, astray, sendVars>>
    <3>1. \A w \in Warehouses, p \in Products : Held(w, p)' = Held(w, p)
      BY <1>12, <2>5 DEF Match, Held, OnHand, Handling
    <3> QED BY <1>6, <1>12, <2>5, <3>1 DEF Match
  <2> QED BY <1>12, <2>3, <2>4, <2>5 DEF Match
<1>13. CASE NoStock
  <2>1. ASSUME NEW w \in Warehouses, NEW p \in Products
        PROVE  Held(w, p)' = Held(w, p)
    <3>1. kept'[w][p] = kept[w][p] + warehouse_products[w][p]
      BY <1>13 DEF NoStock, Add
    <3>2. Held(w, p)' = inventory[w][p] + packaged[w][p] + kept'[w][p] + 0
      BY <1>13 DEF NoStock, Held, OnHand, Handling
    <3>3. Held(w, p) = inventory[w][p] + packaged[w][p] + kept[w][p] + warehouse_products[w][p]
      BY <1>13 DEF NoStock, Held, OnHand, Handling
    <3> QED BY <3>1, <3>2, <3>3, <1>5
  <2> QED BY <1>6, <1>13, <2>1 DEF NoStock
<1>14. CASE EndOfOrder
  <2>1. ASSUME NEW w \in Warehouses, NEW p \in Products
        PROVE  Held(w, p)' = Held(w, p)
    <3>1. packaged'[w][p] = packaged[w][p] + warehouse_products[w][p]
      BY <1>14 DEF EndOfOrder, Add
    <3>2. Held(w, p)' = inventory[w][p] + packaged'[w][p] + kept[w][p] + 0
      BY <1>14 DEF EndOfOrder, Held, OnHand, Handling
    <3>3. Held(w, p) = inventory[w][p] + packaged[w][p] + kept[w][p] + warehouse_products[w][p]
      BY <1>14 DEF EndOfOrder, Held, OnHand, Handling
    <3> QED BY <3>1, <3>2, <3>3, <1>5
  <2> QED BY <1>6, <1>14, <2>1 DEF EndOfOrder
<1>15. CASE WorldBuys
  BY <1>7, <1>15 DEF WorldBuys
<1>16. CASE \E acks \in SUBSET Seqs(bought), items \in SUBSET Arrivals :
              Receive(acks, items)
  BY <1>7, <1>16 DEF Receive
<1>17. CASE \E c \in batch : HandleArrived(c)
  <2>1. PICK c \in batch : HandleArrived(c)
    BY <1>17
  <2>2. c \in Purchases /\ adding = NoPurchase /\ finished \subseteq Purchases
    BY <1>1, <2>1 DEF HandleArrived, TypeOK
  <2>3. ArrivalsInv'
    BY <1>2, <2>1, FS_AddElement DEF HandleArrived, ArrivalsInv
  <2>4. ASSUME NEW w \in Warehouses, NEW p \in Products
        PROVE  /\ Settled(w, p)' = Settled(w, p)
               /\ Held(w, p)' = Held(w, p)
    <3>1. Held(w, p)' = Held(w, p)
      BY <2>1 DEF HandleArrived, Held, OnHand, Handling
    <3>2. finished' \ (lost_arrivals' \cup {adding'}) = finished \ (lost_arrivals \cup {adding})
      BY <1>2, <2>1, <2>2, NoPurchaseAssumption DEF HandleArrived, ArrivalsInv
    <3> QED BY <3>1, <3>2 DEF Settled
  <2>5. ASSUME NEW w \in Warehouses, NEW p \in Products, <<w, p>> \notin astray'
        PROVE  Held(w, p)' = Units(Settled(w, p))'
    <3>1. Units(Settled(w, p))' = Units(Settled(w, p))
      BY <2>4 DEF Units
    <3>2. <<w, p>> \notin astray
      BY <2>1, <2>5 DEF HandleArrived
    <3> QED BY <1>3, <2>4, <3>1, <3>2
  <2> QED BY <2>3, <2>5
<1>18. CASE BeginAdd
  BY <1>7, <1>18 DEF BeginAdd
<1>19. CASE AddToInventory
  <2>1. /\ adding \in Purchases /\ adding.wh \in Warehouses
        /\ adding \in finished \ lost_arrivals /\ finished \subseteq Purchases
    BY <1>1, <1>2, <1>19 DEF AddToInventory, StockInv, TypeOK, ArrivalsInv
  <2>2. adding.product \in Products /\ adding.count \in Nat /\ adding' = NoPurchase
    BY <1>19, <2>1 DEF AddToInventory, Purchases
  <2>3. ArrivalsInv'
    BY <1>2, <1>19, <2>1 DEF AddToInventory, ArrivalsInv
  <2>4. CASE /\ UNCHANGED lost_arrivals
             /\ inventory' = [inventory EXCEPT ![adding.wh][adding.product] =
                                inventory[adding.wh][adding.product] + adding.count]
    <3>1. ASSUME NEW w \in Warehouses, NEW p \in Products, <<w, p>> \notin astray'
          PROVE  Held(w, p)' = Units(Settled(w, p))'
      <4>0. inventory'[w][p] =
              IF w = adding.wh /\ p = adding.product
              THEN inventory[adding.wh][adding.product] + adding.count ELSE inventory[w][p]
        <5>1. inventory \in Cells
          BY <1>1, ColumnsAreCells DEF TypeOK
        <5> QED BY <5>1, <2>1, <2>2, <2>4 DEF Cells
      <4> <<w, p>> \notin astray
        BY <3>1, <1>19 DEF AddToInventory
      <4>1. /\ Held(w, p)' = inventory'[w][p] + packaged[w][p] + kept[w][p] + OnHand(w, p)
            /\ OnHand(w, p) \in Nat
        BY <1>5, <1>19 DEF AddToInventory, Held, OnHand, Handling
      <4>2. finished' \ (lost_arrivals' \cup {adding'}) = finished \ lost_arrivals
        BY <1>19, <2>1, <2>2, <2>4, NoPurchaseAssumption DEF AddToInventory
      <4>3. PICK S \in SUBSET Purchases : S = Settled(w, p)
        BY <2>1 DEF Settled
      <4>4. IsFiniteSet(S) /\ adding \notin S
        <5>1. S \subseteq finished /\ adding \notin S
          BY <4>3 DEF Settled
        <5> QED BY <5>1, <1>2, FS_Subset DEF ArrivalsInv
      <4>5. CASE w = adding.wh /\ p = adding.product
        <5>1. Settled(w, p)' = S \cup {adding}
          BY <2>1, <4>2, <4>3, <4>5 DEF Settled
        <5>2. Units(S \cup {adding}) = Units(S) + adding.count
          BY <2>1, <4>4, UnitsAdd
        <5>3. Held(w, p)' = Held(w, p) + adding.count
          BY <4>0, <4>1, <4>5, <1>5, <2>2 DEF Held
        <5>4. Units(Settled(w, p))' = Units(S \cup {adding})
          BY <5>1 DEF Units
        <5> QED BY <1>3, <4>3, <5>2, <5>3, <5>4
      <4>6. CASE ~(w = adding.wh /\ p = adding.product)
        <5>1. Settled(w, p)' = S
          BY <2>1, <4>2, <4>3, <4>6 DEF Settled
        <5>2. Held(w, p)' = Held(w, p)
          BY <4>0, <4>1, <4>6 DEF Held
        <5>3. Units(Settled(w, p))' = Units(S)
          BY <5>1 DEF Units
        <5> QED BY <1>3, <4>3, <5>2, <5>3
      <4> QED BY <4>5, <4>6
    <3> QED BY <2>3, <3>1
  <2>5. CASE lost_arrivals' = lost_arrivals \cup {adding} /\ UNCHANGED inventory
    <3>1. finished' \ (lost_arrivals' \cup {adding'}) = finished \ (lost_arrivals \cup {adding})
      BY <1>19, <2>1, <2>2, <2>5, NoPurchaseAssumption DEF AddToInventory
    <3>2. ASSUME NEW w \in Warehouses, NEW p \in Products, <<w, p>> \notin astray'
          PROVE  Held(w, p)' = Units(Settled(w, p))'
      <4> <<w, p>> \notin astray
        BY <3>2, <1>19 DEF AddToInventory
      <4>1. Held(w, p)' = Held(w, p)
        BY <1>19, <2>5 DEF AddToInventory, Held, OnHand, Handling
      <4>2. Settled(w, p)' = Settled(w, p)
        BY <3>1 DEF Settled
      <4>3. Units(Settled(w, p))' = Units(Settled(w, p))
        BY <4>2 DEF Units
      <4> QED BY <1>3, <4>1, <4>3
    <3> QED BY <2>3, <3>2
  <2> QED BY <1>19, <2>4, <2>5 DEF AddToInventory
<1>20. CASE OtherStatement
  BY <1>7, <1>20 DEF OtherStatement
<1>21. CASE UNCHANGED vars
  BY <1>7, <1>21 DEF vars
<1>22. CASE OtherResponse
  BY <1>7, <1>22 DEF OtherResponse
<1> QED BY <1>8, <1>9, <1>10, <1>11, <1>12, <1>13, <1>14, <1>15, <1>16, <1>17,
           <1>18, <1>19, <1>20, <1>21, <1>22 DEF Next, MainStep, WorldStep

\* No unit is made or lost, whichever threads interleave and whatever is repeated,
\* except by the statements and conversions that Accounting names: for any number
\* of warehouses and orders, and lines of any quantities.
THEOREM AccountingTheorem == Spec => []Accounting
<1>1. AccountingInv => Accounting
  BY DEF AccountingInv
<1> QED BY <1>1, AccountingInit, AccountingStep, PTL DEF Spec

\* The same of the back end from its start, which the run checks.
COROLLARY StartAccounting == StartSpec => []Accounting
BY StartThenOrdering, AccountingTheorem, PTL

-----------------------------------------------------------------------------
(* An order is placed complete                                             *)

\* The lines of product p before line n, and their units.
Before(n, p) == {i \in LinesOf(p) : i < n}
OrderedBefore(n, p) ==
  SumFunctionOnSet([i \in LinesOf(p) |-> order[i].quantity], Before(n, p))

\* While an order is handled and no line was passed over, what was matched is what
\* the lines up to now ask for.
MatchedInv ==
  /\ Handling \/ pc = "init" => reply # "placed"
  /\ Handling /\ lost_lines = {} =>
       \A p \in Products : Matched(p) = OrderedBefore(line, p)

PlacedInv == StockInv /\ MatchedInv /\ PlacedUnlessLost

\* There are finitely many warehouses.
LEMMA WarehousesFinite == IsFiniteSet(Warehouses)
BY FS_Interval DEF Warehouses

\* When an order begins nothing is matched of it, ...
LEMMA NothingMatched ==
  ASSUME warehouse_products' = NoUnits, NEW p \in Products PROVE Matched(p)' = 0
<1> DEFINE f == [w \in Warehouses |-> warehouse_products'[w][p]]
<1>1. \A w \in Warehouses : f[w] = 0
  BY DEF NoUnits
<1>2. IsFiniteSet(Warehouses)
  BY WarehousesFinite
<1>3. SumFunctionOnSet(f, Warehouses) = 0
  <2> HIDE DEF f
  <2> QED BY <1>1, <1>2, SumZero
<1> QED BY <1>3 DEF Matched

\* ... and nothing is asked for before its first line.
LEMMA NothingBefore ==
  ASSUME order' \in Orders \cup {<<>>}, NEW p \in Products PROVE OrderedBefore(1, p)' = 0
<1>1. Before(1, p)' = {}
  BY OrderLines DEF Before, LinesOf
<1> QED BY <1>1, SumEmpty DEF OrderedBefore

\* What is matched for a line is counted for its product, at whichever warehouse it
\* was found; ...
LEMMA TakeMatches ==
  ASSUME warehouse_products \in Cells, NEW v \in Warehouses, NEW q \in Products,
         NEW n \in Nat, NEW p \in Products,
         warehouse_products' = [warehouse_products EXCEPT ![v][q] = @ + n]
  PROVE  /\ Matched(p) \in Nat
         /\ Matched(p)' = IF p = q THEN Matched(p) + n ELSE Matched(p)
<1> DEFINE f == [w \in Warehouses |-> warehouse_products[w][p]]
           g == [w \in Warehouses |-> warehouse_products'[w][p]]
<1>0. IsFiniteSet(Warehouses)
  BY WarehousesFinite
<1>1. \A w \in Warehouses : f[w] \in Nat /\ g[w] \in Nat
  BY DEF Cells
<1>2. \A w \in Warehouses \ {v} : f[w] = g[w]
  BY DEF Cells
<1>3. g[v] = IF p = q THEN f[v] + n ELSE f[v]
  BY DEF Cells
<1>4. PICK s, t : s = SumFunctionOnSet(f, Warehouses) /\ t = SumFunctionOnSet(g, Warehouses)
  OBVIOUS
<1>5. s \in Nat /\ t = s - f[v] + g[v]
  <2> HIDE DEF f, g
  <2> QED BY <1>0, <1>1, <1>2, <1>4, SumType, SumChanged
<1>6. Matched(p) = s /\ Matched(p)' = t
  BY <1>4 DEF Matched
<1>7. f[v] \in Nat /\ g[v] \in Nat
  BY <1>1
<1> HIDE DEF f, g
<1> QED BY <1>3, <1>5, <1>6, <1>7

\* ... and so is the line among those before the next one.
LEMMA LineBefore ==
  ASSUME order \in Orders \cup {<<>>}, NEW n \in 1 .. Len(order), NEW p \in Products
  PROVE  /\ OrderedBefore(n, p) \in Nat
         /\ OrderedBefore(n + 1, p) =
              IF p = order[n].product THEN OrderedBefore(n, p) + order[n].quantity
                                      ELSE OrderedBefore(n, p)
<1> DEFINE f == [i \in LinesOf(p) |-> order[i].quantity]
<1>0. /\ DOMAIN order = 1 .. Len(order) /\ Len(order) \in Nat
      /\ \A i \in 1 .. Len(order) : order[i] \in Lines
  BY OrderLines DEF Orders
<1>1. \A i \in LinesOf(p) : f[i] \in Nat
  BY <1>0 DEF LinesOf, Lines
<1>2. PICK B \in SUBSET LinesOf(p) : B = Before(n, p)
  BY DEF Before
<1>3. IsFiniteSet(B)
  <2>1. B \subseteq 1 .. Len(order) /\ IsFiniteSet(1 .. Len(order))
    BY <1>0, FS_Interval DEF LinesOf
  <2> QED BY <2>1, FS_Subset
<1>4. SumFunctionOnSet(f, B) \in Nat
  <2> HIDE DEF f
  <2> QED BY <1>1, <1>3, SumType
<1>5. CASE p = order[n].product
  <2>1. n \in LinesOf(p) /\ Before(n + 1, p) = B \cup {n} /\ n \notin B
    BY <1>0, <1>2, <1>5 DEF LinesOf, Before
  <2>2. f[n] = order[n].quantity
    BY <2>1
  <2>3. SumFunctionOnSet(f, B \cup {n}) = SumFunctionOnSet(f, B) + f[n]
    <3> HIDE DEF f
    <3> QED BY <1>1, <1>3, <2>1, SumAdd
  <2> QED BY <1>2, <1>4, <1>5, <2>1, <2>2, <2>3 DEF OrderedBefore
<1>6. CASE p # order[n].product
  <2>1. Before(n + 1, p) = B
    BY <1>0, <1>2, <1>6 DEF LinesOf, Before
  <2> QED BY <1>2, <1>4, <1>6, <2>1 DEF OrderedBefore
<1> QED BY <1>5, <1>6

\* After the last line that is the whole order.
LEMMA AllBefore ==
  ASSUME order \in Orders \cup {<<>>}, NEW n \in Nat, n > Len(order), NEW p \in Products
  PROVE  OrderedBefore(n, p) = Ordered(p)
<1>1. DOMAIN order = 1 .. Len(order) /\ Len(order) \in Nat
  BY OrderLines DEF Orders
<1>2. Before(n, p) = LinesOf(p)
  BY <1>1 DEF Before, LinesOf
<1> QED BY <1>2 DEF OrderedBefore, Ordered

\* At the start no customer has been told anything.
LEMMA PlacedInit == Init => PlacedInv
BY StockInit DEF Init, PlacedInv, MatchedInv, PlacedUnlessLost, Handling

\* A line is matched as a whole, or passed over and noted, or ends the order.
LEMMA PlacedStep == PlacedInv /\ [Next]_vars => PlacedInv'
<1> SUFFICES ASSUME PlacedInv, [Next]_vars PROVE PlacedInv'
  OBVIOUS
<1> USE DEF NoThread, mainVars, sendVars, worldVars, countVars
<1>1. StockInv /\ StockInv' /\ TypeOK /\ TypeOK'
  BY StockStep DEF PlacedInv, StockInv
<1>2. SUFFICES MatchedInv' /\ PlacedUnlessLost'
  BY <1>1 DEF PlacedInv
<1>3. MatchedInv /\ PlacedUnlessLost
  BY DEF PlacedInv
<1>4. \A n : \A p \in Products :
        UNCHANGED <<order, warehouse_products>> =>
          /\ Matched(p)' = Matched(p) /\ Ordered(p)' = Ordered(p)
          /\ OrderedBefore(n, p)' = OrderedBefore(n, p)
  BY DEF Matched, Ordered, OrderedBefore, Before, LinesOf
<1>5. ASSUME UNCHANGED <<order, warehouse_products, line, lost_lines, reply>>,
             Handling' => Handling, pc' = "init" => pc = "init"
      PROVE  MatchedInv' /\ PlacedUnlessLost'
  <2>1. ASSUME Handling', lost_lines' = {}, NEW p \in Products
        PROVE  Matched(p)' = OrderedBefore(line, p)'
    <3>1. Matched(p)' = Matched(p) /\ OrderedBefore(line, p)' = OrderedBefore(line, p)
      BY <1>5 DEF Matched, OrderedBefore, Before, LinesOf
    <3> QED BY <1>3, <1>5, <2>1, <3>1 DEF MatchedInv
  <2>2. PlacedUnlessLost'
    BY <1>3, <1>4, <1>5 DEF PlacedUnlessLost, Complete
  <2> QED BY <1>3, <1>5, <2>1, <2>2 DEF MatchedInv
<1>6. CASE InitBuy
  BY <1>5, <1>6 DEF InitBuy, Handling
<1>7. CASE InitBought
  BY <1>5, <1>7 DEF InitBought, Handling
<1>8. CASE \E o \in Orders : AcceptOrder(o)
  <2>1. /\ warehouse_products' = NoUnits /\ line' = 1 /\ reply' = "none"
        /\ order' \in Orders \cup {<<>>}
    BY <1>8 DEF AcceptOrder
  <2>2. \A p \in Products : Matched(p)' = 0 /\ OrderedBefore(1, p)' = 0
    BY <2>1, NothingMatched, NothingBefore
  <2>3. ASSUME NEW p \in Products PROVE Matched(p)' = OrderedBefore(line, p)'
    <3>1. OrderedBefore(line, p)' = OrderedBefore(1, p)'
      BY <2>1 DEF OrderedBefore, Before, LinesOf
    <3> QED BY <2>2, <3>1
  <2> QED BY <2>1, <2>3 DEF MatchedInv, PlacedUnlessLost
<1>9. CASE BeginMatch
  <2>1. CASE conn = NoThread /\ UNCHANGED <<line, lost_lines>> /\ pc' = "select"
    BY <1>5, <1>9, <2>1 DEF BeginMatch, Handling
  <2>2. CASE lost_lines' = lost_lines \cup {line} /\ UNCHANGED pc
    BY <1>3, <1>9, <2>2 DEF BeginMatch, MatchedInv, PlacedUnlessLost, Handling
  <2> QED BY <1>9, <2>1, <2>2 DEF BeginMatch
<1>10. CASE Match
  <2>1. /\ line \in 1 .. Len(order) /\ order[line] \in Lines
        /\ order \in Orders \cup {<<>>} /\ warehouse_products \in Cells
    BY <1>1, <1>10, OrderLines DEF Match, StockInv, TypeOK
  <2>2. PICK q \in Products, n \in Nat : q = order[line].product /\ n = order[line].quantity
    BY <2>1 DEF Lines
  <2>3. /\ pc = "select" /\ pc' \in {"match", "buy_more"}
        /\ UNCHANGED <<order, reply>>
    BY <1>10 DEF Match
  <2>4. CASE /\ \E w \in Enough(order[line]) : Take(order[line], w)
             /\ line' = line + 1 /\ UNCHANGED lost_lines
    <3>1. PICK v \in Warehouses : Take(order[line], v)
      BY <2>4 DEF Enough
    <3>0. v \in Warehouses
      BY <3>1
    <3>2. warehouse_products' = [warehouse_products EXCEPT ![v][q] = @ + n]
      BY <2>2, <3>1 DEF Take, Count
    <3>3. ASSUME lost_lines = {}, NEW p \in Products
          PROVE  Matched(p)' = OrderedBefore(line, p)'
      <4>1. Matched(p) = OrderedBefore(line, p)
        BY <1>3, <2>3, <3>3 DEF MatchedInv, Handling
      <4>2. Matched(p)' = IF p = q THEN Matched(p) + n ELSE Matched(p)
        <5>1. warehouse_products \in Cells /\ q \in Products /\ n \in Nat
          BY <2>1, <2>2
        <5> QED BY <5>1, <3>0, <3>2, TakeMatches, Zenon
      <4>3. OrderedBefore(line + 1, p) =
              IF p = q THEN OrderedBefore(line, p) + n ELSE OrderedBefore(line, p)
        BY <2>1, <2>2, LineBefore
      <4>4. OrderedBefore(line, p)' = OrderedBefore(line + 1, p)
        BY <2>3, <2>4 DEF OrderedBefore, Before, LinesOf
      <4> QED BY <4>1, <4>2, <4>3, <4>4
    <3>4. reply # "placed"
      BY <1>3, <2>3 DEF MatchedInv, Handling
    <3> QED BY <2>3, <2>4, <3>3, <3>4 DEF MatchedInv, PlacedUnlessLost
  <2>5. CASE UNCHANGED <<warehouse_products, line, lost_lines>>
    BY <1>5, <2>3, <2>5 DEF Handling
  <2>6. CASE lost_lines' = lost_lines \cup {line}
    BY <1>3, <2>3, <2>6 DEF MatchedInv, PlacedUnlessLost, Handling
  <2> QED BY <1>10, <2>4, <2>5, <2>6 DEF Match
<1>11. CASE NoStock
  BY <1>11 DEF NoStock, MatchedInv, PlacedUnlessLost, Handling
<1>12. CASE EndOfOrder
  <2>1. ASSUME lost_lines = {}, NEW p \in Products PROVE Matched(p)' = Ordered(p)'
    <3>1. Matched(p) = OrderedBefore(line, p)
      BY <1>3, <1>12, <2>1 DEF EndOfOrder, MatchedInv, Handling
    <3>2. OrderedBefore(line, p) = Ordered(p)
      BY <1>1, <1>12, AllBefore DEF EndOfOrder, TypeOK
    <3> QED BY <1>4, <1>12, <3>1, <3>2 DEF EndOfOrder
  <2> QED BY <1>12, <2>1 DEF EndOfOrder, MatchedInv, PlacedUnlessLost, Complete, Handling
<1>13. CASE WorldBuys
  BY <1>5, <1>13 DEF WorldBuys, Handling
<1>14. CASE \E acks \in SUBSET Seqs(bought), items \in SUBSET Arrivals :
              Receive(acks, items)
  BY <1>5, <1>14 DEF Receive, Handling
<1>15. CASE WorldStep
  BY <1>5, <1>15 DEF WorldStep, HandleArrived, BeginAdd, AddToInventory, Handling
<1>16. CASE OtherStatement
  BY <1>5, <1>16 DEF OtherStatement, Handling
<1>17. CASE UNCHANGED vars
  BY <1>5, <1>17 DEF vars, Handling
<1>18. CASE OtherResponse
  BY <1>5, <1>18 DEF OtherResponse, Handling
<1> QED BY <1>6, <1>7, <1>8, <1>9, <1>10, <1>11, <1>12, <1>13, <1>14, <1>15, <1>16,
           <1>17, <1>18 DEF Next, MainStep

\* A customer who reads that an order was placed has all its units in packages,
\* unless the match of a line failed: for any number of warehouses, lines
\* and units, and whatever the other threads do to the stock in between.
THEOREM PlacedTheorem == Spec => []PlacedUnlessLost
<1>1. PlacedInv => PlacedUnlessLost
  BY DEF PlacedInv
<1> QED BY <1>1, PlacedInit, PlacedStep, PTL DEF Spec

\* The same of the back end from its start, which the run checks.
COROLLARY StartPlaced == StartSpec => []PlacedUnlessLost
BY StartThenOrdering, PlacedTheorem, PTL
=============================================================================
