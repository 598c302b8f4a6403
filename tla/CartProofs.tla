----------------------------- MODULE CartProofs -----------------------------
(***************************************************************************)
(* Proofs about the cart, for any number of tabs, pages, products and      *)
(* faults and any size of the reply. What a text is parsed to they take from      *)
(* RequestProofs (WholeMessage, PartOfMessage).                            *)
(***************************************************************************)
EXTENDS Cart, RequestProofs

\* A row that was read has a number; there is a reply to be sent.
ReadInv == /\ \A t \in Tabs : pc[t] = "update" => item[t] \in Rows
           /\ main = "send" => msg \in {"placed", "no_stock"}

USE SizesAssumption DEF Rows, Items

\* The types, of one tab.
LEMMA Typed ==
  ASSUME TypeOK, NEW t \in Tabs
  PROVE  /\ todo[t] \in [Products -> Nat]
         /\ form[t] \in [Products -> Nat]
         /\ pc[t] \in {"update", "insert"} => item[t] \in Items
         /\ NoLines \in [Products -> Nat]
  BY DEF TypeOK, NoLines

\* A deletion keeps the types of what it changes.
LEMMA DeleteTypes ==
  ASSUME TypeOK, NEW t, NEW P \in SUBSET Products, Delete(t, P)
  PROVE  /\ rows' \subseteq rows /\ next_id' \in Nat /\ added' \in [Products -> Nat]
         /\ overlapped' \subseteq Products /\ disturbed' \subseteq Tabs
  BY DEF TypeOK, Delete, Change

\* The save of an addition keeps the types of what it changes.
LEMMA SavedTypes ==
  ASSUME TypeOK, NEW t \in Tabs, pc[t] \in {"update", "insert"}, Saved(t)
  PROVE  /\ todo' \in [Tabs -> [Products -> Nat]]
         /\ pc' \in [Tabs -> {"idle", "get", "update", "insert", "form", "wait", "clear"}]
         /\ pc'[t] \in {"idle", "get"}
         /\ \A u \in Tabs : u # t => pc'[u] = pc[u] /\ todo'[u] = todo[u] /\ item'[u] = item[u]
         /\ todo'[t] # NoLines <=> pc'[t] = "get"
         /\ item'[t] = NoItem
         /\ added' \in [Products -> Nat]
         /\ overlapped' \subseteq Products /\ disturbed' \subseteq Tabs
<1>1. item[t] \in Items
  BY Typed
<1> DEFINE p == item[t].product
<1>2. p \in Products
  BY <1>1
<1>3. /\ todo' = [todo EXCEPT ![t][p] = 0] /\ Goto(t, NextLine(t))
      /\ item' = [item EXCEPT ![t] = NoItem]
      /\ added' = [added EXCEPT ![p] = @ + todo[t][p]]
      /\ Change(t, {p})
  BY DEF Saved
<1> HIDE DEF p
<1>4. todo' \in [Tabs -> [Products -> Nat]]
  <2>1. [todo[t] EXCEPT ![p] = 0] \in [Products -> Nat]
    BY <1>2, Typed
  <2> QED
    BY <1>3, <2>1 DEF TypeOK
<1>10. added' \in [Products -> Nat]
  <2>1. added \in [Products -> Nat]
    BY DEF TypeOK
  <2>2. added[p] \in Nat /\ todo[t][p] \in Nat
    BY <1>2, <2>1, Typed
  <2>3. added[p] + todo[t][p] \in Nat
    BY <2>2
  <2> QED
    BY <1>2, <1>3, <2>1, <2>3
<1>5. \A u \in Tabs : u # t => pc'[u] = pc[u] /\ todo'[u] = todo[u] /\ item'[u] = item[u]
  BY <1>3 DEF Goto, TypeOK
<1>6. pc'[t] = NextLine(t) /\ item'[t] = NoItem
  BY <1>3 DEF Goto, TypeOK
<1>7. pc' \in [Tabs -> {"idle", "get", "update", "insert", "form", "wait", "clear"}]
  BY <1>3 DEF NextLine, Goto, TypeOK
<1>8. (todo'[t] # NoLines <=> pc'[t] = "get") /\ pc'[t] \in {"idle", "get"}
  BY <1>6 DEF NextLine
<1>9. overlapped' \subseteq Products /\ disturbed' \subseteq Tabs
  BY <1>2, <1>3 DEF Change, TypeOK
<1> QED
  BY <1>4, <1>5, <1>6, <1>7, <1>8, <1>9, <1>10

USE DEF tableVars, addVars, orderVars, replyVars, mainVars

\* Every step keeps the types.
LEMMA TypeStep == TypeOK /\ ReadInv /\ [Next]_vars => (TypeOK /\ ReadInv)'
<1> SUFFICES ASSUME TypeOK, ReadInv, [Next]_vars PROVE (TypeOK /\ ReadInv)'
  OBVIOUS
<1>1. ASSUME NEW t \in Tabs, NEW f \in Forms, AddToCart(t, f) PROVE (TypeOK /\ ReadInv)'
  <2>1. f \in [Products -> Nat]
    OBVIOUS
  <2> QED
    BY <1>1, <2>1 DEF AddToCart, OpenPage, Goto, TypeOK, ReadInv
<1>2. ASSUME NEW t \in Tabs, NEW f \in [Products -> Nat], NEW clear \in BOOLEAN,
             try_place_order(t, f, clear), pc[t] \in {"idle", "form"}, UNCHANGED tableVars,
             pages' \in 0 .. MaxPages
      PROVE  (TypeOK /\ ReadInv)'
  <2>1. Append(backlog, t) \in Seq(Tabs) /\ backlog \in Seq(Tabs)
    BY DEF TypeOK
  <2>2. form' \in [Tabs -> [Products -> Nat]]
    BY <1>2 DEF try_place_order, TypeOK
  <2>6. clears' \in [Tabs -> BOOLEAN]
    <3>1. clears \in [Tabs -> BOOLEAN]
      BY DEF TypeOK
    <3> QED BY <1>2, <3>1 DEF try_place_order
  <2>4. edited' \in [Tabs -> SUBSET Products]
    <3>1. (IF clear THEN {p \in Products : f[p] # form[t][p]} ELSE {}) \in SUBSET Products
      OBVIOUS
    <3>2. edited \in [Tabs -> SUBSET Products]
      BY DEF TypeOK
    <3> QED BY <1>2, <3>1, <3>2 DEF try_place_order
  <2>5. /\ disturbed' \subseteq Tabs /\ cut' \subseteq Tabs /\ skipped' \subseteq Tabs
        /\ split' \subseteq Tabs /\ broken' \subseteq Tabs
    BY <1>2 DEF try_place_order, TypeOK
  <2>3. /\ backlog' \in Seq(Tabs) /\ feedback' \in [Tabs -> {"none", "placed", "failed"}]
        /\ pc' \in [Tabs -> {"idle", "get", "update", "insert", "form", "wait", "clear"}]
        /\ \A u \in Tabs : pc'[u] = pc[u] \/ (u = t /\ pc'[u] \in {"idle", "wait"})
    BY <1>2, <2>1 DEF try_place_order, Goto, TypeOK
  <2> QED
    BY <1>2, <2>2, <2>3, <2>4, <2>5, <2>6 DEF try_place_order, TypeOK, ReadInv
<1>3. ASSUME NEW t \in Tabs, NEW f \in Forms, OrderFromMall(t, f) PROVE (TypeOK /\ ReadInv)'
  <2>1. f \in [Products -> Nat]
    OBVIOUS
  <2>2. pages' \in 0 .. MaxPages
    BY <1>3 DEF OrderFromMall, OpenPage, TypeOK
  <2> QED
    BY <1>2, <1>3, <2>1, <2>2 DEF OrderFromMall, OpenPage
<1>4. ASSUME NEW t \in Tabs, NEW f \in Submitted(t), SubmitOrder(t, f) PROVE (TypeOK /\ ReadInv)'
  <2>1. f \in [Products -> Nat]
    BY Typed DEF Submitted
  <2>2. pages' \in 0 .. MaxPages
    BY <1>4 DEF SubmitOrder, TypeOK
  <2> QED
    BY <1>2, <1>4, <2>1, <2>2 DEF SubmitOrder
<1>5. ASSUME NEW t \in Tabs, ShowCart(t) PROVE (TypeOK /\ ReadInv)'
  <2>1. PICK f \in Shown : form' = [form EXCEPT ![t] = f]
    BY <1>5 DEF ShowCart
  <2>2. f \in [Products -> Nat]
    <3>1. rows \subseteq Rows
      BY DEF TypeOK
    <3>2. {r.quantity : r \in rows} \subseteq Nat
      BY <3>1
    <3> QED BY <2>1, <3>2 DEF Shown
  <2>3. form' \in [Tabs -> [Products -> Nat]]
    BY <2>1, <2>2 DEF TypeOK
  <2> QED
    BY <1>5, <2>3 DEF ShowCart, OpenPage, Goto, TypeOK, ReadInv
<1>6. ASSUME NEW t \in Tabs, Get(t) PROVE (TypeOK /\ ReadInv)'
  <2>1. PICK p \in Products :
          \/ /\ item' = [item EXCEPT ![t] = NewRow(t, p)]
             /\ Goto(t, "insert")
             /\ UNCHANGED todo
          \/ /\ \E r \in Of(p) : item' = [item EXCEPT ![t] = Plus(r, todo[t][p])]
             /\ Goto(t, "update")
             /\ UNCHANGED todo
          \/ /\ todo' = [todo EXCEPT ![t] = NoLines]
             /\ Goto(t, "idle")
             /\ UNCHANGED item
    BY <1>6 DEF Get
  <2>2. todo[t][p] \in Nat
    BY Typed
  <2>3. NewRow(t, p) \in Items
    BY <2>2 DEF NewRow
  <2>4. ASSUME NEW r \in Of(p) PROVE Plus(r, todo[t][p]) \in Rows
    <3>1. r \in Rows
      BY DEF Of, TypeOK
    <3>2. r.quantity + todo[t][p] \in Nat
      BY <2>2, <3>1
    <3> QED
      BY <3>1, <3>2 DEF Plus
  <2>5. CASE /\ item' = [item EXCEPT ![t] = NewRow(t, p)]
             /\ Goto(t, "insert") /\ UNCHANGED todo
    <3>1. item' \in [Tabs -> Items \cup {NoItem}] /\ item'[t] # NoItem
      BY <2>3, <2>5 DEF TypeOK
    <3>2. \A u \in Tabs : u # t => item'[u] = item[u] /\ pc'[u] = pc[u]
      BY <2>5 DEF Goto, TypeOK
    <3>3. pc[t] = "get" /\ pc'[t] = "insert" /\ UNCHANGED <<tableVars, orderVars, backlog, mainVars, pages>>
      BY <1>6, <2>5 DEF Get, Goto, TypeOK
    <3>4. pc' \in [Tabs -> {"idle", "get", "update", "insert", "form", "wait", "clear"}]
      BY <2>5 DEF Goto, TypeOK
    <3> HIDE DEF Rows, Items
    <3>5. ReadInv'
      BY <3>2, <3>3 DEF ReadInv
    <3>6. \A u \in Tabs : /\ todo'[u] # NoLines <=> (pc'[u] \in {"get", "update", "insert"})
                          /\ item'[u] # NoItem <=> (pc'[u] \in {"update", "insert"})
      BY <2>5, <3>1, <3>2, <3>3 DEF TypeOK
    <3> QED BY <2>5, <3>1, <3>3, <3>4, <3>5, <3>6 DEF TypeOK
  <2>6. ASSUME NEW r \in Of(p), item' = [item EXCEPT ![t] = Plus(r, todo[t][p])],
               Goto(t, "update"), UNCHANGED todo
        PROVE  (TypeOK /\ ReadInv)'
    <3>1. Plus(r, todo[t][p]) \in Items /\ Plus(r, todo[t][p]) \in Rows
      BY <2>4
    <3>2. item' \in [Tabs -> Items \cup {NoItem}] /\ item'[t] \in Rows /\ item'[t] # NoItem
      BY <2>6, <3>1 DEF TypeOK
    <3>3. \A u \in Tabs : u # t => item'[u] = item[u] /\ pc'[u] = pc[u]
      BY <2>6 DEF Goto, TypeOK
    <3>4. pc[t] = "get" /\ pc'[t] = "update" /\ UNCHANGED <<tableVars, orderVars, backlog, mainVars, pages>>
      BY <1>6, <2>6 DEF Get, Goto, TypeOK
    <3>5. pc' \in [Tabs -> {"idle", "get", "update", "insert", "form", "wait", "clear"}]
      BY <2>6 DEF Goto, TypeOK
    <3> HIDE DEF Rows, Items
    <3>6. ReadInv'
      BY <3>2, <3>3, <3>4 DEF ReadInv
    <3>7. \A u \in Tabs : /\ todo'[u] # NoLines <=> (pc'[u] \in {"get", "update", "insert"})
                          /\ item'[u] # NoItem <=> (pc'[u] \in {"update", "insert"})
      BY <2>6, <3>2, <3>3, <3>4 DEF TypeOK
    <3> QED
      BY <2>6, <3>2, <3>4, <3>5, <3>6, <3>7 DEF TypeOK
  <2>7. CASE /\ todo' = [todo EXCEPT ![t] = NoLines]
             /\ Goto(t, "idle") /\ UNCHANGED item
    <3>1. todo' \in [Tabs -> [Products -> Nat]] /\ todo'[t] = NoLines
      BY <2>7, Typed DEF TypeOK
    <3>2. \A u \in Tabs : u # t => todo'[u] = todo[u] /\ pc'[u] = pc[u]
      BY <2>7 DEF Goto, TypeOK
    <3>3. pc[t] = "get" /\ pc'[t] = "idle" /\ UNCHANGED <<tableVars, orderVars, backlog, mainVars, pages>>
      BY <1>6, <2>7 DEF Get, Goto, TypeOK
    <3>4. pc' \in [Tabs -> {"idle", "get", "update", "insert", "form", "wait", "clear"}]
      BY <2>7 DEF Goto, TypeOK
    <3> HIDE DEF Rows, Items
    <3>5. ReadInv'
      BY <2>7, <3>2, <3>3 DEF ReadInv
    <3>6. \A u \in Tabs : /\ todo'[u] # NoLines <=> (pc'[u] \in {"get", "update", "insert"})
                          /\ item'[u] # NoItem <=> (pc'[u] \in {"update", "insert"})
      BY <2>7, <3>1, <3>2, <3>3 DEF TypeOK
    <3> QED BY <2>7, <3>1, <3>3, <3>4, <3>5, <3>6 DEF TypeOK
  <2> QED
    BY <2>1, <2>5, <2>6, <2>7
<1>20. ASSUME NEW t \in Tabs, pc[t] \in {"update", "insert"}, Saved(t), rows' \subseteq Rows,
              next_id' \in Nat, item' \in [Tabs -> Items \cup {NoItem}],
              \A u \in Tabs : u # t => pc'[u] = pc[u] /\ todo'[u] = todo[u] /\ item'[u] = item[u],
              UNCHANGED <<orderVars, backlog, mainVars, pages>>
       PROVE  (TypeOK /\ ReadInv)'
  <2>1. /\ todo' \in [Tabs -> [Products -> Nat]]
        /\ pc' \in [Tabs -> {"idle", "get", "update", "insert", "form", "wait", "clear"}]
        /\ pc'[t] \in {"idle", "get"}
        /\ todo'[t] # NoLines <=> pc'[t] = "get"
        /\ item'[t] = NoItem
        /\ added' \in [Products -> Nat]
        /\ overlapped' \subseteq Products /\ disturbed' \subseteq Tabs
    BY <1>20, SavedTypes
  <2> HIDE DEF Rows, Items
  <2>2. ReadInv'
    BY <1>20, <2>1 DEF ReadInv
  <2>3. \A u \in Tabs : /\ todo'[u] # NoLines <=> (pc'[u] \in {"get", "update", "insert"})
                        /\ item'[u] # NoItem <=> (pc'[u] \in {"update", "insert"})
    BY <1>20, <2>1 DEF TypeOK
  <2> QED
    BY <1>20, <2>1, <2>2, <2>3 DEF TypeOK
<1>7. ASSUME NEW t \in Tabs, Update(t) PROVE (TypeOK /\ ReadInv)'
  <2>1. pc[t] = "update" /\ item[t] \in Rows
    BY <1>7 DEF Update, ReadInv
  <2>2. CASE /\ rows' = {r \in rows : r.id # item[t].id} \cup {item[t]}
             /\ Saved(t) /\ UNCHANGED <<next_id, removed>>
    <3>1. rows' \subseteq Rows
      BY <2>1, <2>2 DEF TypeOK
    <3>2. item' \in [Tabs -> Items \cup {NoItem}]
      BY <2>2 DEF Saved, TypeOK
    <3>3. \A u \in Tabs : u # t => pc'[u] = pc[u] /\ todo'[u] = todo[u] /\ item'[u] = item[u]
      BY <2>1, <2>2, SavedTypes
    <3>4. UNCHANGED <<orderVars, backlog, mainVars, pages>>
      BY <1>7 DEF Update
    <3>5. (TypeOK /\ ReadInv)'
      BY <1>20, <2>1, <2>2, <3>1, <3>2, <3>3, <3>4 DEF TypeOK
    <3> QED
      BY <3>5
  <2>3. CASE Goto(t, "insert") /\ UNCHANGED <<tableVars, addVars>>
    BY <1>7, <2>1, <2>3 DEF Update, Goto, TypeOK, ReadInv
  <2> QED
    BY <1>7, <2>2, <2>3 DEF Update
<1>8. ASSUME NEW t \in Tabs, Insert(t) PROVE (TypeOK /\ ReadInv)'
  <2>1. pc[t] = "insert" /\ item[t] \in Items
    BY <1>8, Typed DEF Insert
  <2>2. CASE rows' \subseteq Rows /\ next_id' \in Nat /\ Saved(t)
    <3>1. item' \in [Tabs -> Items \cup {NoItem}]
      BY <2>2 DEF Saved, TypeOK
    <3>2. \A u \in Tabs : u # t => pc'[u] = pc[u] /\ todo'[u] = todo[u] /\ item'[u] = item[u]
      BY <2>1, <2>2, SavedTypes
    <3>3. UNCHANGED <<removed, orderVars, backlog, mainVars, pages>>
      BY <1>8 DEF Insert
    <3> QED
      BY <1>20, <2>1, <2>2, <3>1, <3>2, <3>3
  <2>3. CASE /\ todo' = [todo EXCEPT ![t] = NoLines]
             /\ item' = [item EXCEPT ![t] = NoItem]
             /\ Goto(t, "idle")
             /\ UNCHANGED <<rows, next_id, overlapped, disturbed, added>>
    <3>1. UNCHANGED <<removed, orderVars, backlog, mainVars, pages>>
      BY <1>8 DEF Insert
    <3>2. NoLines \in [Products -> Nat]
      BY Typed
    <3> QED
      BY <2>1, <2>3, <3>1, <3>2 DEF Goto, TypeOK, ReadInv
  <2>4. [item[t] EXCEPT !.id = next_id] \in Rows /\ next_id + 1 \in Nat
    <3>1. next_id \in Nat
      BY DEF TypeOK
    <3> QED
      BY <2>1, <3>1
  <2>5. item[t].id # NoId => item[t] \in Rows
    BY <2>1
  <2> QED
    <3>1. rows \subseteq Rows /\ next_id \in Nat
      BY DEF TypeOK
    <3>2. \/ rows' = rows \cup {[item[t] EXCEPT !.id = next_id]} /\ next_id' = next_id + 1 /\ Saved(t)
          \/ item[t].id # NoId /\ rows' = rows \cup {item[t]} /\ next_id' = next_id /\ Saved(t)
          \/ /\ todo' = [todo EXCEPT ![t] = NoLines]
             /\ item' = [item EXCEPT ![t] = NoItem]
             /\ Goto(t, "idle")
             /\ UNCHANGED <<rows, next_id, overlapped, disturbed, added>>
      BY <1>8 DEF Insert
    <3> HIDE DEF Rows, Items
    <3> QED BY <2>2, <2>3, <2>4, <2>5, <3>1, <3>2
<1>9. ASSUME NEW t, NEW P \in SUBSET Products, Delete(t, P),
             UNCHANGED <<addVars, orderVars, backlog, mainVars, pages>>,
             pc' \in [Tabs -> {"idle", "get", "update", "insert", "form", "wait", "clear"}],
             \A u \in Tabs : pc'[u] = pc[u] \/ (pc[u] = "clear" /\ pc'[u] = "idle")
      PROVE  (TypeOK /\ ReadInv)'
  BY <1>9, DeleteTypes DEF TypeOK, ReadInv
<1>10. ASSUME NEW t \in Tabs, ClearOrdered(t) PROVE (TypeOK /\ ReadInv)'
  BY <1>9, <1>10 DEF ClearOrdered, Goto, TypeOK
<1>11. ASSUME NEW p \in Products, Cancel(p) PROVE (TypeOK /\ ReadInv)'
  <2>1. {p} \in SUBSET Products /\ pc' = pc
    BY <1>11 DEF Cancel
  <2>2. pc' \in [Tabs -> {"idle", "get", "update", "insert", "form", "wait", "clear"}]
    BY <2>1 DEF TypeOK
  <2> QED BY <1>9, <1>11, <2>1, <2>2 DEF Cancel
<1>12. CASE ClearCart
  BY <1>9, <1>12 DEF ClearCart, TypeOK
<1>13. ASSUME NEW t \in Tabs, Receive(t) PROVE (TypeOK /\ ReadInv)'
  BY <1>13 DEF Receive, Close, AfterFeedback, Goto, TypeOK, ReadInv
<1>21. ASSUME NEW t \in Tabs, ConnectionBreaks(t) PROVE (TypeOK /\ ReadInv)'
  BY <1>21 DEF ConnectionBreaks, Close, Goto, TypeOK, ReadInv
<1>14. CASE Accept
  <2>1. Head(backlog) \in Tabs /\ Tail(backlog) \in Seq(Tabs)
    BY <1>14 DEF Accept, TypeOK
  <2>2. faults' \in 0 .. MaxFaults /\ cut' \subseteq Tabs
    BY <1>14, <2>1 DEF Accept, TypeOK
  <2>3. PICK text : handleOrder(Head(backlog), text)
    BY <1>14 DEF Accept
  <2>4. /\ main' \in {"accept", "bind", "buy_more", "send", "fulfil", "undefined"}
        /\ client' \in Tabs \cup {NoTab}
        /\ msg' \in {"none", "placed", "no_stock"}
        /\ wire' \in [Tabs -> {"silent", "part", "placed", "no_stock", "closed"}]
        /\ skipped' \subseteq Tabs
    BY <2>1, <2>3 DEF handleOrder, End, Serve, TypeOK
  <2>5. main' = "send" => msg' \in {"placed", "no_stock"}
    BY <2>3 DEF handleOrder, ReadInv
  <2> QED
    BY <1>14, <2>1, <2>2, <2>4, <2>5 DEF Accept, TypeOK, ReadInv
<1>22. CASE AcceptBind \/ Bound \/ Purchased
  BY <1>22 DEF AcceptBind, Bound, Purchased, TypeOK, ReadInv
<1>15. ASSUME NEW k \in 1 .. ReplySize, sendAllData(k) PROVE (TypeOK /\ ReadInv)'
  <2>1. faults' \in 0 .. MaxFaults /\ numBytes + k \in Nat
    BY <1>15 DEF sendAllData, TypeOK
  <2>2. msg \in {"none", "placed", "no_stock"}
    BY DEF TypeOK
  <2>3. wire' \in [Tabs -> {"silent", "part", "placed", "no_stock", "closed"}]
    <3>1. wire \in [Tabs -> {"silent", "part", "placed", "no_stock", "closed"}]
      BY DEF TypeOK
    <3>2. msg \in {"placed", "no_stock"}
      BY <1>15 DEF sendAllData, ReadInv
    <3> QED
      BY <1>15, <3>1, <3>2 DEF sendAllData, Received
  <2> QED
    BY <1>15, <2>1, <2>3 DEF sendAllData, AfterReply, TypeOK, ReadInv
<1>16. CASE SendFails
  BY <1>16 DEF SendFails, AfterReply, TypeOK, ReadInv
<1>19. CASE OverrunFails
  BY <1>19 DEF OverrunFails, AfterReply, TypeOK, ReadInv
<1>17. CASE Fulfilled
  BY <1>17 DEF Fulfilled, TypeOK, ReadInv
<1>18. CASE UNCHANGED vars
  BY <1>18 DEF vars, TypeOK, ReadInv
<1> QED
  BY <1>1, <1>3, <1>4, <1>5, <1>6, <1>7, <1>8, <1>10, <1>11, <1>12, <1>13, <1>14,
     <1>15, <1>16, <1>17, <1>18, <1>19, <1>21, <1>22
     DEF Next, TabStep, Customer, MainStep, SendStep

\* The main thread touches neither the table nor a page.
LEMMA MainAlone == ASSUME MainStep PROVE UNCHANGED <<tableVars, pc, addVars, orderVars>>
<1>1. CASE Accept
  BY <1>1 DEF Accept
<1>2. CASE AcceptBind \/ Bound \/ Purchased \/ OverrunFails \/ Fulfilled
  BY <1>2 DEF AcceptBind, Bound, Purchased, OverrunFails, Fulfilled
<1>3. CASE SendStep
  BY <1>3 DEF SendStep, SendFails, sendAllData
<1> QED BY <1>1, <1>2, <1>3 DEF MainStep

\* The types hold at first.
LEMMA TypeInit == Init => TypeOK /\ ReadInv
  BY DEF Init, TypeOK, ReadInv, NoLines

\* Every variable keeps its type, and a tab that saves a row has one.
THEOREM CartTypes == Spec => []TypeOK
<1>1. Spec => [](TypeOK /\ ReadInv)
  BY TypeInit, TypeStep, PTL DEF Spec
<1> QED
  BY <1>1, PTL

-----------------------------------------------------------------------------
(* One row per product. A number, once given, stays with its product (the   *)
(* rows that were read may be saved again after their deletion); and unless*)
(* another statement came in between, what an addition has read is still so*)
(* when it saves.                                                          *)

Saves(t)  == pc[t] \in {"update", "insert"}
Known     == rows \cup {item[t] : t \in {u \in Tabs : Saves(u) /\ item[u].id # NoId}}
NumberInv == /\ \A r \in Known : r.id < next_id
             /\ \A r, s \in Known : r.id = s.id => r.product = s.product
ReadStillHolds ==
  \A t \in Tabs : Saves(t) /\ item[t].product \notin overlapped =>
    \/ pc[t] = "update" /\ \E r \in rows : r.id = item[t].id
    \/ pc[t] = "insert" /\ item[t].id = NoId /\ Of(item[t].product) = {}
RowInv == NumberInv /\ ReadStillHolds /\ OneRowUnlessOverlapped

\* No row and no row to be saved changes.
LEMMA RowKept ==
  ASSUME TypeOK, RowInv, UNCHANGED <<rows, next_id, overlapped>>,
         \A t \in Tabs : /\ Saves(t) <=> Saves(t)'
                         /\ Saves(t) => item'[t] = item[t] /\ pc'[t] = pc[t]
  PROVE  RowInv'
<1>1. Known' = Known
  BY DEF Known, Saves
<1>2. NumberInv'
  BY <1>1 DEF RowInv, NumberInv
<1>3. ReadStillHolds'
  BY DEF RowInv, ReadStillHolds, Of, Saves
<1>4. OneRowUnlessOverlapped'
  BY DEF RowInv, OneRowUnlessOverlapped, Of
<1> QED
  BY <1>2, <1>3, <1>4 DEF RowInv

\* A statement deletes rows: a tab that is about to save one of their products
\* notices.
LEMMA RowDelete ==
  ASSUME TypeOK, RowInv, NEW t, NEW P \in SUBSET Products, Delete(t, P), item' = item,
         \A u \in Tabs : Saves(u) => u # t,
         \A u \in Tabs : /\ Saves(u) <=> Saves(u)'
                         /\ Saves(u) => pc'[u] = pc[u]
  PROVE  RowInv'
<1>1. /\ rows' = {r \in rows : r.product \notin P} /\ next_id' = next_id
      /\ overlapped \subseteq overlapped'
      /\ \A u \in Tabs : Saves(u) /\ item[u].product \in P /\ Of(item[u].product) # {} =>
           item[u].product \in overlapped'
  BY DEF Delete, Change, Saves
<1>2. Known' \subseteq Known
  BY <1>1 DEF Known, Saves
<1>3. NumberInv'
  BY <1>1, <1>2 DEF RowInv, NumberInv
<1>4. ReadStillHolds'
  <2> SUFFICES ASSUME NEW u \in Tabs, Saves(u), item[u].product \notin overlapped'
               PROVE  \/ pc[u] = "update" /\ \E r \in rows' : r.id = item[u].id
                      \/ pc[u] = "insert" /\ item[u].id = NoId /\ Of(item[u].product)' = {}
    BY DEF ReadStillHolds, Saves, Of
  <2>1. CASE pc[u] = "update" /\ \E r \in rows : r.id = item[u].id
    <3>1. PICK r \in rows : r.id = item[u].id
      BY <2>1
    <3>2. r.id # NoId
      BY DEF TypeOK
    <3>3. r \in Known /\ item[u] \in Known
      BY <3>1, <3>2 DEF Known
    <3>4. r.product = item[u].product
      BY <3>1, <3>3 DEF RowInv, NumberInv
    <3>5. r \in rows'
      BY <1>1, <3>4 DEF Of
    <3> QED
      BY <2>1, <3>1, <3>5
  <2>2. CASE pc[u] = "insert" /\ item[u].id = NoId /\ Of(item[u].product) = {}
    BY <1>1, <2>2 DEF Of
  <2> QED
    BY <1>1, <2>1, <2>2 DEF RowInv, ReadStillHolds
<1>5. OneRowUnlessOverlapped'
  BY <1>1 DEF RowInv, OneRowUnlessOverlapped, Of
<1> QED
  BY <1>3, <1>4, <1>5 DEF RowInv

\* A row is saved, with a number it had or a new one.
LEMMA RowSaved ==
  ASSUME TypeOK, RowInv, NEW t \in Tabs, Saves(t), Saved(t),
         NEW i \in Rows, i.product = item[t].product,
         rows' = {r \in rows : r.id # i.id} \cup {i},
         \/ i = item[t] /\ next_id' = next_id
         \/ item[t].id = NoId /\ i.id = next_id /\ next_id' = next_id + 1
  PROVE  RowInv'
<1> DEFINE p == i.product
<1>1. item[t] \in Items /\ p \in Products /\ pc[t] \in {"update", "insert"}
  BY Typed DEF Saves
<1>2. /\ \A u \in Tabs : u # t => pc'[u] = pc[u] /\ item'[u] = item[u]
      /\ pc'[t] \in {"idle", "get"}
  BY <1>1, SavedTypes
<1>3. /\ overlapped \subseteq overlapped'
      /\ \A u \in Tabs : u # t /\ Saves(u) /\ item[u].product = p => p \in overlapped'
  BY <1>1 DEF Saved, Change, Saves
<1>4. ~Saves(t)' /\ \A u \in Tabs : u # t => (Saves(u) <=> Saves(u)')
  BY <1>2 DEF Saves
<1>5. Known' \subseteq Known \cup {i}
  BY <1>2, <1>4 DEF Known
<1>6. i.id # NoId
  OBVIOUS
<1>7. /\ next_id \in Nat /\ next_id' \in Nat /\ next_id <= next_id'
      /\ \A r \in Known : r.id \in Nat
  <2>1. \A r \in Known : r \in Items /\ r.id # NoId
    BY Typed DEF Known, Saves, TypeOK
  <2> QED
    BY <2>1 DEF TypeOK
<1>8. NumberInv'
  <2>1. \A r \in Known : r.id < next_id'
    <3>1. \A r \in Known : r.id < next_id
      BY DEF RowInv, NumberInv
    <3> QED
      BY <1>7, <3>1
  <2>2. i.id < next_id'
    <3>1. CASE i = item[t]
      <4>1. item[t] \in Known
        BY <1>6, <3>1 DEF Known
      <4> QED
        BY <2>1, <3>1, <4>1
    <3>2. CASE i.id = next_id /\ next_id' = next_id + 1
      BY <1>7, <3>2
    <3> QED
      BY <3>1, <3>2
  <2>3. \A r \in Known : r.id = i.id => r.product = i.product
    <3>1. CASE i = item[t]
      <4>1. item[t] \in Known
        BY <1>6, <3>1 DEF Known
      <4> QED
        BY <3>1, <4>1 DEF RowInv, NumberInv
    <3>2. CASE i.id = next_id
      <4>1. \A r \in Known : r.id < next_id
        BY DEF RowInv, NumberInv
      <4> QED
        BY <1>7, <3>2, <4>1
    <3> QED
      BY <3>1, <3>2
  <2>4. \A r, s \in Known : r.id = s.id => r.product = s.product
    BY DEF RowInv, NumberInv
  <2> QED
    BY <1>5, <2>1, <2>2, <2>3, <2>4 DEF NumberInv
<1>9. ReadStillHolds'
  <2> SUFFICES ASSUME NEW u \in Tabs, u # t, Saves(u), item[u].product \notin overlapped'
               PROVE  \/ pc[u] = "update" /\ \E r \in rows' : r.id = item[u].id
                      \/ pc[u] = "insert" /\ item[u].id = NoId /\ Of(item[u].product)' = {}
    BY <1>2, <1>4 DEF ReadStillHolds
  <2>1. item[u].product # p
    BY <1>3
  <2>2. CASE pc[u] = "update" /\ \E r \in rows : r.id = item[u].id
    <3>1. PICK r \in rows : r.id = item[u].id
      BY <2>2
    <3>2. r \in Known /\ item[u] \in Known
      BY <3>1 DEF Known, TypeOK
    <3>3. r.product # p
      BY <2>1, <3>1, <3>2 DEF RowInv, NumberInv
    <3>4. r.id # i.id
      <4>1. CASE i = item[t]
        BY <1>6, <3>2, <3>3, <4>1 DEF RowInv, NumberInv, Known
      <4>2. CASE i.id = next_id
        <5>1. r.id < next_id
          BY <3>2 DEF RowInv, NumberInv
        <5> QED
          BY <1>7, <3>2, <4>2, <5>1
      <4> QED
        BY <4>1, <4>2
    <3> QED
      BY <2>2, <3>1, <3>4
  <2>3. CASE pc[u] = "insert" /\ item[u].id = NoId /\ Of(item[u].product) = {}
    BY <1>2, <2>1, <2>3 DEF Of
  <2> QED
    BY <1>3, <2>2, <2>3 DEF RowInv, ReadStillHolds
<1>10. OneRowUnlessOverlapped'
  <2> SUFFICES ASSUME NEW q \in Products, q \notin overlapped'
               PROVE  \A r, s \in Of(q)' : r = s
    BY DEF OneRowUnlessOverlapped
  <2>1. q \notin overlapped /\ \A r, s \in Of(q) : r = s
    BY <1>3 DEF RowInv, OneRowUnlessOverlapped
  <2>2. CASE q # p
    BY <2>1, <2>2 DEF Of
  <2>3. CASE q = p
    <3>1. \/ pc[t] = "update" /\ \E r \in rows : r.id = item[t].id
          \/ pc[t] = "insert" /\ item[t].id = NoId /\ Of(p) = {}
      BY <2>1, <2>3 DEF RowInv, ReadStillHolds
    <3>2. CASE Of(p) = {}
      BY <2>3, <3>2 DEF Of
    <3>3. CASE \E r \in rows : r.id = item[t].id
      <4>1. PICK r \in rows : r.id = item[t].id
        BY <3>3
      <4>2. item[t].id # NoId /\ i = item[t] /\ r \in Known /\ item[t] \in Known
        BY <4>1 DEF Known, TypeOK
      <4>3. r \in Of(q)
        BY <2>3, <4>1, <4>2 DEF RowInv, NumberInv, Of
      <4>4. \A s \in Of(q) : s.id = i.id
        BY <2>1, <4>1, <4>2, <4>3
      <4> QED
        BY <4>4 DEF Of
    <3> QED
      BY <3>1, <3>2, <3>3
  <2> QED
    BY <2>2, <2>3
<1> QED
  BY <1>8, <1>9, <1>10 DEF RowInv

\* Every step keeps the rows apart, and what additions have read of them.
LEMMA RowStep == TypeOK /\ ReadInv /\ RowInv /\ [Next]_vars => RowInv'
<1> SUFFICES ASSUME TypeOK, ReadInv, RowInv, [Next]_vars PROVE RowInv'
  OBVIOUS
<1> USE DEF TypeOK
<1>1. ASSUME NEW t \in Tabs, NEW f, AddToCart(t, f) PROVE RowInv'
  BY <1>1, RowKept DEF AddToCart, OpenPage, Goto, Saves
<1>2. ASSUME NEW t \in Tabs, NEW f, OrderFromMall(t, f) PROVE RowInv'
  BY <1>2, RowKept DEF OrderFromMall, OpenPage, try_place_order, Goto, Saves
<1>3. ASSUME NEW t \in Tabs, NEW f, SubmitOrder(t, f) PROVE RowInv'
  BY <1>3, RowKept DEF SubmitOrder, try_place_order, Goto, Saves
<1>4. ASSUME NEW t \in Tabs, ShowCart(t) PROVE RowInv'
  BY <1>4, RowKept DEF ShowCart, OpenPage, Goto, Saves
<1>5. ASSUME NEW t \in Tabs, Get(t) PROVE RowInv'
  <2>1. PICK p \in Products :
          \/ /\ Of(p) = {}
             /\ item' = [item EXCEPT ![t] = NewRow(t, p)]
             /\ Goto(t, "insert")
          \/ /\ \E r \in Of(p) : item' = [item EXCEPT ![t] = Plus(r, todo[t][p])]
             /\ Goto(t, "update")
          \/ /\ Goto(t, "idle")
             /\ UNCHANGED item
    BY <1>5 DEF Get
  <2>2. ~Saves(t) /\ UNCHANGED <<rows, next_id, overlapped>>
    BY <1>5 DEF Get, Saves
  <2>3. \A u \in Tabs : u # t => pc'[u] = pc[u] /\ item'[u] = item[u]
    BY <2>1 DEF Goto
  <2>4. OneRowUnlessOverlapped'
    BY <2>2 DEF RowInv, OneRowUnlessOverlapped, Of
  <2>5. CASE /\ Of(p) = {}
             /\ item' = [item EXCEPT ![t] = NewRow(t, p)]
             /\ Goto(t, "insert")
    <3>1. item'[t].id = NoId /\ item'[t].product = p /\ pc'[t] = "insert"
      BY <2>5 DEF NewRow, Goto
    <3> HIDE DEF TypeOK, Rows, Items
    <3>2. Known' \subseteq Known
      BY <2>2, <2>3, <3>1 DEF Known, Saves
    <3>3. NumberInv'
      BY <2>2, <3>2 DEF RowInv, NumberInv
    <3>4. ReadStillHolds'
      BY <2>2, <2>3, <2>5, <3>1 DEF RowInv, ReadStillHolds, Saves, Of
    <3> QED
      BY <2>4, <3>3, <3>4 DEF RowInv
  <2>6. ASSUME NEW r \in Of(p), item' = [item EXCEPT ![t] = Plus(r, todo[t][p])],
               Goto(t, "update")
        PROVE  RowInv'
    <3>1. r \in rows /\ r \in Known /\ r \in Rows
      BY DEF Known, Of
    <3>2. item'[t].id = r.id /\ item'[t].product = r.product /\ pc'[t] = "update"
      BY <2>6, <3>1 DEF Plus, Goto
    <3> HIDE DEF TypeOK, Rows, Items
    <3>3. Known' \subseteq Known \cup {item'[t]}
      BY <2>2, <2>3 DEF Known, Saves
    <3>4. NumberInv'
      BY <2>2, <3>1, <3>2, <3>3 DEF RowInv, NumberInv
    <3>5. ReadStillHolds'
      BY <2>2, <2>3, <3>1, <3>2 DEF RowInv, ReadStillHolds, Saves, Of
    <3> QED
      BY <2>4, <3>4, <3>5 DEF RowInv
  <2>7. CASE Goto(t, "idle") /\ UNCHANGED item
    BY <2>2, <2>7, RowKept DEF Goto, Saves
  <2> QED
    BY <2>1, <2>5, <2>6, <2>7
<1>6. ASSUME NEW t \in Tabs, Update(t) PROVE RowInv'
  <2>1. Saves(t) /\ pc[t] = "update" /\ item[t] \in Rows
    BY <1>6 DEF Update, Saves, ReadInv
  <2>2. CASE /\ rows' = {r \in rows : r.id # item[t].id} \cup {item[t]}
             /\ Saved(t) /\ UNCHANGED next_id
    BY <2>1, <2>2, RowSaved
  <2>3. CASE /\ \A r \in rows : r.id # item[t].id
             /\ Goto(t, "insert") /\ UNCHANGED <<tableVars, addVars>>
    <3>1. item[t].product \in overlapped
      BY <2>1, <2>3 DEF RowInv, ReadStillHolds
    <3>2. Known' = Known
      BY <2>1, <2>3 DEF Known, Goto, Saves
    <3>3. NumberInv'
      BY <2>3, <3>2 DEF RowInv, NumberInv
    <3>4. ReadStillHolds'
      BY <2>3, <3>1 DEF RowInv, ReadStillHolds, Goto, Saves, Of
    <3>5. OneRowUnlessOverlapped'
      BY <2>3 DEF RowInv, OneRowUnlessOverlapped, Of
    <3> QED
      BY <3>3, <3>4, <3>5 DEF RowInv
  <2> QED
    BY <1>6, <2>2, <2>3 DEF Update
<1>7. ASSUME NEW t \in Tabs, Insert(t) PROVE RowInv'
  <2>1. Saves(t) /\ item[t] \in Items
    BY <1>7, Typed DEF Insert, Saves
  <2>2. CASE /\ item[t].id = NoId
             /\ rows' = rows \cup {[item[t] EXCEPT !.id = next_id]}
             /\ next_id' = next_id + 1
             /\ Saved(t)
    <3> DEFINE i == [item[t] EXCEPT !.id = next_id]
    <3>1. i \in Rows /\ i.product = item[t].product /\ i.id = next_id
      BY <2>1
    <3>2. \A r \in rows : r.id # next_id
      <4>1. \A r \in rows : r.id < next_id /\ r.id \in Nat
        BY DEF RowInv, NumberInv, Known
      <4> QED
        BY <4>1
    <3>3. rows' = {r \in rows : r.id # i.id} \cup {i}
      BY <2>2, <3>1, <3>2
    <3> QED
      BY <2>1, <2>2, <3>1, <3>3, RowSaved
  <2>3. CASE /\ item[t].id # NoId /\ \A r \in rows : r.id # item[t].id
             /\ rows' = rows \cup {item[t]}
             /\ UNCHANGED next_id
             /\ Saved(t)
    <3>1. item[t] \in Rows /\ rows' = {r \in rows : r.id # item[t].id} \cup {item[t]}
      BY <2>1, <2>3
    <3> QED
      BY <2>1, <2>3, <3>1, RowSaved
  <2>4. CASE /\ item' = [item EXCEPT ![t] = NoItem]
             /\ Goto(t, "idle")
             /\ UNCHANGED <<rows, next_id, overlapped>>
    <3>1. ~Saves(t)' /\ \A u \in Tabs : u # t => pc'[u] = pc[u] /\ item'[u] = item[u]
      BY <2>4 DEF Goto, Saves
    <3>2. Known' \subseteq Known
      BY <2>4, <3>1 DEF Known, Saves
    <3>3. NumberInv'
      BY <2>4, <3>2 DEF RowInv, NumberInv
    <3>4. ReadStillHolds'
      BY <2>4, <3>1 DEF RowInv, ReadStillHolds, Saves, Of
    <3>5. OneRowUnlessOverlapped'
      BY <2>4 DEF RowInv, OneRowUnlessOverlapped, Of
    <3> QED
      BY <3>3, <3>4, <3>5 DEF RowInv
  <2> QED
    BY <1>7, <2>2, <2>3, <2>4 DEF Insert
<1>8. ASSUME NEW p \in Products, Cancel(p) PROVE RowInv'
  <2>1. {p} \in SUBSET Products /\ \A u \in Tabs : u # NoTab
    OBVIOUS
  <2> QED
    BY <1>8, <2>1, RowDelete DEF Cancel, Saves
<1>9. CASE ClearCart
  <2>1. Products \in SUBSET Products /\ \A u \in Tabs : u # NoTab
    OBVIOUS
  <2> QED
    BY <1>9, <2>1, RowDelete DEF ClearCart, Saves
<1>10. ASSUME NEW t \in Tabs, ClearOrdered(t) PROVE RowInv'
  <2>1. Products \in SUBSET Products /\ \A u \in Tabs : Saves(u) => u # t
    BY <1>10 DEF ClearOrdered, Saves
  <2> QED
    BY <1>10, <2>1, RowDelete DEF ClearOrdered, Goto, Saves
<1>11. ASSUME NEW t \in Tabs, Receive(t) PROVE RowInv'
  BY <1>11, RowKept DEF Receive, AfterFeedback, Goto, Saves
<1>14. ASSUME NEW t \in Tabs, ConnectionBreaks(t) PROVE RowInv'
  BY <1>14, RowKept DEF ConnectionBreaks, Goto, Saves
<1>12. CASE MainStep
  BY <1>12, MainAlone, RowKept DEF Saves
<1>13. CASE UNCHANGED vars
  BY <1>13, RowKept DEF vars, Saves
<1> QED
  BY <1>1, <1>2, <1>3, <1>4, <1>5, <1>6, <1>7, <1>8, <1>9, <1>10, <1>11, <1>12, <1>13, <1>14
     DEF Next, TabStep, Customer

\* A product has one row unless two additions of it overlapped, for any number of
\* tabs and pages.
THEOREM OneRow == Spec => []OneRowUnlessOverlapped
<1>1. Init => RowInv
  BY DEF Init, RowInv, NumberInv, ReadStillHolds, OneRowUnlessOverlapped, Known, Saves, Of
<1>2. RowInv => OneRowUnlessOverlapped
  BY DEF RowInv
<1> QED
  BY <1>1, <1>2, TypeInit, TypeStep, RowStep, PTL DEF Spec

-----------------------------------------------------------------------------
(* No unit is lost. An addition that is about to save has the units of the *)
(* row that is there, and its own, unless another statement came between.  *)

\* The rows of a product, and their units (Of and InCart).
RowsOf(R, p)  == {r \in R : r.product = p}
Units(R)      == SumFunctionOnSet([r \in R |-> r.quantity], R)
UnitsOf(R, p) == Units(RowsOf(R, p))

SaveInv(t) == Saves(t) /\ item[t].product \notin overlapped =>
                item[t].quantity = UnitsOf(rows, item[t].product) + todo[t][item[t].product]
SumInv(p)  == removed[p] \in Nat /\ UnitsOf(rows, p) + removed[p] = added[p]
KeptInv    == /\ DOMAIN removed = Products
              /\ \A p \in Products \ overlapped : SumInv(p)
              /\ \A t \in Tabs : SaveInv(t)

\* The units of no row, and of one.
LEMMA UnitsNone == Units({}) = 0
BY SumEmpty DEF Units

\* One row has the units it says.
LEMMA UnitsOne == ASSUME NEW r, r.quantity \in Nat PROVE Units({r}) = r.quantity
<1> DEFINE f == [s \in {r} |-> s.quantity]
<1>1. f[r] = r.quantity /\ r \in {r} /\ \A s \in {r} : f[s] \in Nat
  OBVIOUS
<1>2. IsFiniteSet({r}) /\ {r} \ {r} = {}
  BY FS_Singleton
<1>3. SumFunctionOnSet(f, {r}) = f[r] + SumFunctionOnSet(f, {r} \ {r})
  <2> HIDE DEF f
  <2> QED BY <1>1, <1>2, SumSplit
<1>4. SumFunctionOnSet(f, {r} \ {r}) = 0
  BY <1>2, SumEmpty
<1>5. Units({r}) = SumFunctionOnSet(f, {r})
  BY DEF Units
<1> QED BY <1>1, <1>3, <1>4, <1>5

\* A product that is not overlapped has no row or one.
LEMMA InCartType ==
  ASSUME TypeOK, RowInv, NEW p \in Products, p \notin overlapped
  PROVE  /\ UnitsOf(rows, p) \in Nat
         /\ \A r \in Of(p) : Of(p) = {r} /\ UnitsOf(rows, p) = r.quantity
         /\ Of(p) = {} => UnitsOf(rows, p) = 0
<1>1. \A r \in Of(p) : Of(p) = {r} /\ r.quantity \in Nat
  BY DEF RowInv, OneRowUnlessOverlapped, Of, TypeOK
<1>2. UnitsOf(rows, p) = Units(Of(p))
  BY DEF UnitsOf, RowsOf, Of
<1>3. \A r \in Of(p) : Units(Of(p)) = r.quantity
  BY <1>1, UnitsOne
<1>4. Of(p) = {} => UnitsOf(rows, p) = 0
  BY <1>2, UnitsNone
<1> QED BY <1>1, <1>2, <1>3, <1>4

\* No row, and nothing of an addition under way, changes.
LEMMA KeptSame ==
  ASSUME KeptInv, UNCHANGED <<rows, added, removed, overlapped>>,
         \A t \in Tabs : Saves(t)' => Saves(t) /\ item'[t] = item[t] /\ todo'[t] = todo[t]
  PROVE  KeptInv'
<1>1. \A p \in Products \ overlapped : SumInv(p)'
  BY DEF KeptInv, SumInv
<1>2. \A t \in Tabs : SaveInv(t)'
  <2> SUFFICES ASSUME NEW t \in Tabs, Saves(t)', (item[t].product \notin overlapped)'
               PROVE  (item[t].quantity = UnitsOf(rows, item[t].product) + todo[t][item[t].product])'
    BY DEF SaveInv
  <2>1. Saves(t) /\ item'[t] = item[t] /\ todo'[t] = todo[t] /\ item[t].product \notin overlapped
    OBVIOUS
  <2>2. item[t].quantity = UnitsOf(rows, item[t].product) + todo[t][item[t].product]
    BY <2>1 DEF KeptInv, SaveInv
  <2> QED BY <2>1, <2>2
<1> QED BY <1>1, <1>2 DEF KeptInv

\* Rows are deleted: their units are counted as removed.
LEMMA KeptDelete ==
  ASSUME TypeOK, RowInv, KeptInv, NEW t, NEW P \in SUBSET Products, Delete(t, P),
         UNCHANGED <<todo, item>>,
         \A u \in Tabs : Saves(u)' => Saves(u) /\ u # t
  PROVE  KeptInv'
<1>1. /\ rows' = {r \in rows : r.product \notin P} /\ added' = added
      /\ removed' = [p \in Products |-> removed[p] + IF p \in P THEN InCart(p) ELSE 0]
      /\ overlapped \subseteq overlapped'
      /\ \A u \in Tabs : u # t /\ Saves(u) /\ item[u].product \in P /\ Of(item[u].product) # {} =>
           item[u].product \in overlapped'
  BY DEF Delete, Change, Saves
<1>2. \A p : p \notin P => UnitsOf(rows', p) = UnitsOf(rows, p)
  <2>1. \A p : p \notin P => RowsOf(rows', p) = RowsOf(rows, p)
    BY <1>1 DEF RowsOf
  <2> QED BY <2>1 DEF UnitsOf
<1>3. \A p \in P : UnitsOf(rows', p) = 0
  <2>1. \A p \in P : RowsOf(rows', p) = {}
    BY <1>1 DEF RowsOf
  <2> QED BY <2>1, UnitsNone DEF UnitsOf
<1>4. ASSUME NEW p \in Products, p \notin overlapped' PROVE SumInv(p)'
  <2>1. p \notin overlapped /\ removed[p] \in Nat /\ UnitsOf(rows, p) + removed[p] = added[p]
    BY <1>1, <1>4 DEF KeptInv, SumInv
  <2>2. UnitsOf(rows, p) \in Nat /\ UnitsOf(rows, p) = InCart(p)
    BY <2>1, InCartType DEF UnitsOf, RowsOf, Units, InCart, Of
  <2>3. CASE p \in P
    <3>1. removed'[p] = removed[p] + UnitsOf(rows, p) /\ UnitsOf(rows', p) = 0
      BY <1>1, <1>3, <2>2, <2>3
    <3>2. removed'[p] \in Nat /\ UnitsOf(rows', p) + removed'[p] = added[p]
      BY <2>1, <2>2, <3>1
    <3> QED BY <1>1, <3>2 DEF SumInv
  <2>4. CASE p \notin P
    BY <1>1, <1>2, <2>1, <2>2, <2>4 DEF SumInv
  <2> QED BY <2>3, <2>4
<1>5. ASSUME NEW u \in Tabs PROVE SaveInv(u)'
  <2> SUFFICES ASSUME Saves(u)', (item[u].product \notin overlapped)'
               PROVE  (item[u].quantity = UnitsOf(rows, item[u].product) + todo[u][item[u].product])'
    BY DEF SaveInv
  <2> DEFINE p == item[u].product
  <2>1. Saves(u) /\ u # t /\ item'[u] = item[u] /\ todo'[u] = todo[u] /\ p \notin overlapped'
    OBVIOUS
  <2>2. item[u].quantity = UnitsOf(rows, p) + todo[u][p]
    BY <1>1, <2>1 DEF KeptInv, SaveInv
  <2>3. p \in Products
    BY <2>1, Typed DEF Saves
  <2>4. UnitsOf(rows', p) = UnitsOf(rows, p)
    <3>1. CASE p \notin P
      BY <1>2, <3>1
    <3>2. CASE p \in P
      <4>1. Of(p) = {} /\ p \notin overlapped
        BY <1>1, <2>1, <3>2
      <4>2. UnitsOf(rows, p) = 0
        BY <2>3, <4>1, InCartType
      <4> QED BY <1>3, <3>2, <4>2
    <3> QED BY <3>1, <3>2
  <2> HIDE DEF p
  <2>5. item'[u].quantity = UnitsOf(rows', p) + todo'[u][p] /\ item'[u].product = p
    BY <2>1, <2>2, <2>4 DEF p
  <2> QED BY <2>5
<1> QED BY <1>1, <1>4, <1>5 DEF KeptInv

\* A row is saved: its units and those of the addition are the cart's.
LEMMA KeptSaved ==
  ASSUME TypeOK, RowInv, KeptInv, TypeOK', RowInv',
         NEW t \in Tabs, Saves(t), Saved(t), UNCHANGED removed,
         NEW i \in Rows, i.product = item[t].product, i.quantity = item[t].quantity,
         rows' = {r \in rows : r.id # i.id} \cup {i},
         \A r \in rows : r.id = i.id => r.product = i.product
  PROVE  KeptInv'
<1> DEFINE p == i.product
<1>1. item[t] \in Items /\ p \in Products /\ pc[t] \in {"update", "insert"}
  BY Typed DEF Saves
<1>2. /\ \A u \in Tabs : u # t => pc'[u] = pc[u] /\ item'[u] = item[u] /\ todo'[u] = todo[u]
      /\ ~Saves(t)'
  BY <1>1, SavedTypes DEF Saves
<1>3. /\ overlapped \subseteq overlapped'
      /\ \A u \in Tabs : u # t /\ Saves(u) /\ item[u].product = p => p \in overlapped'
      /\ added' = [added EXCEPT ![p] = @ + todo[t][p]]
  BY <1>1 DEF Saved, Change, Saves
<1>4. \A q : q # p => UnitsOf(rows', q) = UnitsOf(rows, q)
  <2>1. \A q : q # p => RowsOf(rows', q) = RowsOf(rows, q)
    BY DEF RowsOf
  <2> QED BY <2>1 DEF UnitsOf
<1>5. added[p] \in Nat /\ todo[t][p] \in Nat /\ DOMAIN added = Products
  <2>1. added \in [Products -> Nat] /\ todo[t] \in [Products -> Nat]
    BY Typed DEF TypeOK
  <2> QED BY <1>1, <2>1
<1>6. ASSUME NEW q \in Products, q \notin overlapped' PROVE SumInv(q)'
  <2>1. q \notin overlapped /\ removed[q] \in Nat /\ UnitsOf(rows, q) + removed[q] = added[q]
    BY <1>3, <1>6 DEF KeptInv, SumInv
  <2>2. CASE q # p
    <3>1. added'[q] = added[q] /\ UnitsOf(rows', q) = UnitsOf(rows, q)
      BY <1>3, <1>4, <1>5, <2>2
    <3> QED BY <2>1, <3>1 DEF SumInv
  <2>3. CASE q = p
    <3>1. i \in RowsOf(rows', p) /\ RowsOf(rows', p) = Of(p)'
      BY DEF RowsOf, Of
    <3>2. \A r \in RowsOf(rows', p) : r = i
      BY <1>1, <1>6, <2>3, <3>1 DEF RowInv, OneRowUnlessOverlapped
    <3>3. RowsOf(rows', p) = {i}
      BY <3>1, <3>2
    <3>4. UnitsOf(rows', p) = i.quantity
      BY <3>3, UnitsOne DEF UnitsOf
    <3>5. i.quantity = UnitsOf(rows, p) + todo[t][p]
      BY <2>1, <2>3 DEF KeptInv, SaveInv
    <3>6. added'[p] = added[p] + todo[t][p]
      BY <1>1, <1>3, <1>5
    <3>7. UnitsOf(rows, p) \in Nat
      BY <1>1, <2>1, <2>3, InCartType
    <3> HIDE DEF p
    <3> QED BY <1>5, <2>1, <2>3, <3>4, <3>5, <3>6, <3>7 DEF SumInv
  <2> QED BY <2>2, <2>3
<1>7. ASSUME NEW u \in Tabs PROVE SaveInv(u)'
  <2> SUFFICES ASSUME Saves(u)', (item[u].product \notin overlapped)'
               PROVE  (item[u].quantity = UnitsOf(rows, item[u].product) + todo[u][item[u].product])'
    BY DEF SaveInv
  <2>1. u # t /\ Saves(u) /\ item'[u] = item[u] /\ todo'[u] = todo[u]
    BY <1>2 DEF Saves
  <2> DEFINE q == item[u].product
  <2>2. q # p /\ q \notin overlapped
    BY <1>3, <2>1
  <2>3. item[u].quantity = UnitsOf(rows, q) + todo[u][q]
    BY <2>1, <2>2 DEF KeptInv, SaveInv
  <2>4. UnitsOf(rows', q) = UnitsOf(rows, q)
    BY <1>4, <2>2
  <2> HIDE DEF q, p
  <2>5. item'[u].quantity = UnitsOf(rows', q) + todo'[u][q] /\ item'[u].product = q
    BY <2>1, <2>3, <2>4 DEF q
  <2> QED BY <2>5
<1> QED BY <1>6, <1>7 DEF KeptInv

\* Every step keeps the account of the units; only Update and Insert write rows
\* that another statement can have changed.
LEMMA KeptStep ==
  TypeOK /\ TypeOK' /\ ReadInv /\ RowInv /\ RowInv' /\ KeptInv /\ [Next]_vars => KeptInv'
<1> SUFFICES ASSUME TypeOK, TypeOK', ReadInv, RowInv, RowInv', KeptInv, [Next]_vars PROVE KeptInv'
  OBVIOUS
<1>1. ASSUME NEW t \in Tabs, NEW f, AddToCart(t, f) PROVE KeptInv'
  BY <1>1, KeptSame DEF AddToCart, Goto, Saves, TypeOK
<1>2. ASSUME NEW t \in Tabs, NEW f, OrderFromMall(t, f) PROVE KeptInv'
  BY <1>2, KeptSame DEF OrderFromMall, try_place_order, Goto, Saves, TypeOK
<1>3. ASSUME NEW t \in Tabs, NEW f, SubmitOrder(t, f) PROVE KeptInv'
  BY <1>3, KeptSame DEF SubmitOrder, try_place_order, Goto, Saves, TypeOK
<1>4. ASSUME NEW t \in Tabs, ShowCart(t) PROVE KeptInv'
  BY <1>4, KeptSame DEF ShowCart, Goto, Saves, TypeOK
<1>5. ASSUME NEW t \in Tabs, Get(t) PROVE KeptInv'
  <2>1. PICK p \in Products :
          \/ /\ Of(p) = {}
             /\ item' = [item EXCEPT ![t] = NewRow(t, p)]
             /\ Goto(t, "insert") /\ UNCHANGED todo
          \/ /\ \E r \in Of(p) : item' = [item EXCEPT ![t] = Plus(r, todo[t][p])]
             /\ Goto(t, "update") /\ UNCHANGED todo
          \/ /\ todo' = [todo EXCEPT ![t] = NoLines]
             /\ Goto(t, "idle") /\ UNCHANGED item
    BY <1>5 DEF Get
  <2>2. ~Saves(t) /\ UNCHANGED <<rows, added, removed, overlapped>>
    BY <1>5 DEF Get, Saves
  <2>3. \A u \in Tabs : u # t => pc'[u] = pc[u] /\ item'[u] = item[u] /\ todo'[u] = todo[u]
    BY <2>1 DEF Goto, TypeOK
  <2>4. ASSUME SaveInv(t)' PROVE KeptInv'
    <3>1. \A p1 \in Products \ overlapped : SumInv(p1)'
      BY <2>2 DEF KeptInv, SumInv
    <3>2. \A u \in Tabs : u # t => SaveInv(u)'
      BY <2>2, <2>3 DEF KeptInv, SaveInv, Saves
    <3> QED BY <2>2, <2>4, <3>1, <3>2 DEF KeptInv
  <2>5. CASE /\ Of(p) = {}
             /\ item' = [item EXCEPT ![t] = NewRow(t, p)]
             /\ Goto(t, "insert") /\ UNCHANGED todo
    <3>1. item'[t].quantity = todo[t][p] /\ item'[t].product = p
      BY <2>5 DEF NewRow, TypeOK
    <3>2. p \notin overlapped => UnitsOf(rows, p) = 0
      BY <2>5, InCartType
    <3>3. todo[t][p] \in Nat
      BY Typed
    <3>4. SaveInv(t)'
      BY <2>2, <2>5, <3>1, <3>2, <3>3 DEF SaveInv
    <3> QED BY <2>4, <3>4
  <2>6. ASSUME NEW r \in Of(p), item' = [item EXCEPT ![t] = Plus(r, todo[t][p])],
               Goto(t, "update"), UNCHANGED todo
        PROVE  KeptInv'
    <3>0. r \in Rows /\ r.product = p
      BY DEF Of, TypeOK
    <3>1. item'[t].quantity = r.quantity + todo[t][p] /\ item'[t].product = p
      BY <2>6, <3>0 DEF Plus, TypeOK
    <3>2. p \notin overlapped => UnitsOf(rows, p) = r.quantity
      BY InCartType
    <3>3. SaveInv(t)'
      BY <2>2, <2>6, <3>1, <3>2 DEF SaveInv
    <3> QED BY <2>4, <3>3
  <2>7. CASE Goto(t, "idle")
    BY <2>4, <2>7 DEF Goto, SaveInv, Saves, TypeOK
  <2> QED
    BY <2>1, <2>5, <2>6, <2>7
<1>6. ASSUME NEW t \in Tabs, Update(t) PROVE KeptInv'
  <2>1. Saves(t) /\ pc[t] = "update" /\ item[t] \in Rows
    BY <1>6 DEF Update, Saves, ReadInv
  <2>2. CASE /\ rows' = {r \in rows : r.id # item[t].id} \cup {item[t]}
             /\ Saved(t) /\ UNCHANGED removed
    <3>1. \A r \in rows : r.id = item[t].id => r.product = item[t].product
      <4>1. item[t] \in Known /\ rows \subseteq Known
        BY <2>1 DEF Known
      <4> QED BY <4>1 DEF RowInv, NumberInv
    <3> QED BY <2>1, <2>2, <3>1, KeptSaved
  <2>3. CASE Goto(t, "insert") /\ UNCHANGED <<tableVars, addVars>>
    BY <2>1, <2>3, KeptSame DEF Goto, Saves, TypeOK
  <2> QED
    BY <1>6, <2>2, <2>3 DEF Update
<1>7. ASSUME NEW t \in Tabs, Insert(t) PROVE KeptInv'
  <2>1. Saves(t) /\ item[t] \in Items /\ UNCHANGED removed
    BY <1>7, Typed DEF Insert, Saves
  <2>2. CASE /\ item[t].id = NoId
             /\ rows' = rows \cup {[item[t] EXCEPT !.id = next_id]}
             /\ Saved(t)
    <3> DEFINE i == [item[t] EXCEPT !.id = next_id]
    <3>0. next_id \in Nat
      BY DEF TypeOK
    <3>1. i \in Rows /\ i.product = item[t].product /\ i.id = next_id /\ i.quantity = item[t].quantity
      BY <2>1, <3>0
    <3>2. \A r \in rows : r.id # next_id
      <4>1. \A r \in rows : r.id < next_id /\ r.id \in Nat
        BY DEF RowInv, NumberInv, Known, TypeOK
      <4> QED
        BY <3>0, <4>1
    <3> HIDE DEF i
    <3>3. rows' = {r \in rows : r.id # i.id} \cup {i}
      BY <2>2, <3>1, <3>2 DEF i
    <3> QED
      BY <2>1, <2>2, <3>1, <3>2, <3>3, KeptSaved
  <2>3. CASE /\ item[t].id # NoId /\ \A r \in rows : r.id # item[t].id
             /\ rows' = rows \cup {item[t]}
             /\ Saved(t)
    <3>1. item[t] \in Rows /\ rows' = {r \in rows : r.id # item[t].id} \cup {item[t]}
      BY <2>1, <2>3
    <3> QED
      BY <2>1, <2>3, <3>1, KeptSaved
  <2>4. CASE /\ todo' = [todo EXCEPT ![t] = NoLines]
             /\ item' = [item EXCEPT ![t] = NoItem]
             /\ Goto(t, "idle")
             /\ UNCHANGED <<rows, next_id, overlapped, disturbed, added>>
    BY <2>1, <2>4, KeptSame DEF Goto, Saves, TypeOK
  <2> QED
    BY <1>7, <2>2, <2>3, <2>4 DEF Insert
<1>8. ASSUME NEW p \in Products, Cancel(p) PROVE KeptInv'
  <2>1. {p} \in SUBSET Products /\ \A u \in Tabs : u # NoTab
    OBVIOUS
  <2> QED
    BY <1>8, <2>1, KeptDelete DEF Cancel, Saves
<1>9. CASE ClearCart
  <2>1. Products \in SUBSET Products /\ \A u \in Tabs : u # NoTab
    OBVIOUS
  <2> QED
    BY <1>9, <2>1, KeptDelete DEF ClearCart, Saves
<1>10. ASSUME NEW t \in Tabs, ClearOrdered(t) PROVE KeptInv'
  <2>1. Products \in SUBSET Products /\ \A u \in Tabs : Saves(u)' => Saves(u) /\ u # t
    BY <1>10 DEF ClearOrdered, Goto, Saves, TypeOK
  <2> QED
    BY <1>10, <2>1, KeptDelete DEF ClearOrdered
<1>11. ASSUME NEW t \in Tabs, Receive(t) PROVE KeptInv'
  BY <1>11, KeptSame DEF Receive, AfterFeedback, Goto, Saves, TypeOK
<1>14. ASSUME NEW t \in Tabs, ConnectionBreaks(t) PROVE KeptInv'
  BY <1>14, KeptSame DEF ConnectionBreaks, Goto, Saves, TypeOK
<1>12. CASE MainStep
  BY <1>12, MainAlone, KeptSame DEF Saves
<1>13. CASE UNCHANGED vars
  BY <1>13, KeptSame DEF vars, Saves
<1> QED
  BY <1>1, <1>2, <1>3, <1>4, <1>5, <1>6, <1>7, <1>8, <1>9, <1>10, <1>11, <1>12, <1>13, <1>14
     DEF Next, TabStep, Customer

\* An empty cart has no units and no addition under way.
LEMMA KeptInit == Init => KeptInv
<1> SUFFICES ASSUME Init PROVE KeptInv
  OBVIOUS
<1>1. \A p : UnitsOf(rows, p) = 0
  <2>1. \A p : RowsOf(rows, p) = {}
    BY DEF Init, RowsOf
  <2> QED BY <2>1, UnitsNone DEF UnitsOf
<1>2. \A t \in Tabs : ~Saves(t)
  BY DEF Init, Saves
<1> QED BY <1>1, <1>2 DEF Init, KeptInv, SumInv, SaveInv

\* No unit added to the cart is lost and no deleted one comes back, unless a
\* statement came between the two of an addition, for any number of tabs and pages.
THEOREM Kept == Spec => []AddedIsKept
<1>1. KeptInv => AddedIsKept
  <2>1. \A p : InCart(p) = UnitsOf(rows, p)
    BY DEF InCart, Of, UnitsOf, RowsOf, Units
  <2> QED BY <2>1 DEF KeptInv, SumInv, AddedIsKept
<1>2. Init => RowInv
  BY DEF Init, RowInv, NumberInv, ReadStillHolds, OneRowUnlessOverlapped, Known, Saves, Of
<1>3. Spec => [](TypeOK /\ ReadInv /\ RowInv)
  BY <1>2, TypeInit, TypeStep, RowStep, PTL DEF Spec
<1> QED
  BY <1>1, <1>3, KeptInit, KeptStep, PTL DEF Spec

-----------------------------------------------------------------------------
(* The page and the back end agree on an order. The reply under way is that*)
(* of the tab served, which waits; the connections in the backlog are those*)
(* of other tabs, which wait or have given up, one of each, without an     *)
(* answer or an order.                                                     *)

Gone(t)    == pc[t] = "idle" /\ t \in broken /\ feedback[t] = "failed"
Queued(t)  == (pc[t] = "wait" \/ Gone(t)) /\ wire[t] = "silent" /\ placed[t] = NoOrder
BacklogInv == \A i, j \in DOMAIN backlog :
                /\ Queued(backlog[i]) /\ client # backlog[i]
                /\ backlog[i] = backlog[j] => i = j
ServedInv  == /\ client # NoTab =>
                   /\ pc[client] = "wait" /\ main \notin {"accept", "bind"}
                   /\ main = "buy_more" => Queued(client)
                   /\ main = "send" => /\ msg = "placed" <=> (placed[client] # NoOrder)
                                       /\ numBytes > 0 => client \in split
              /\ main \in {"accept", "bind", "buy_more", "fulfil"} => numBytes = 0
PageTruth(t) ==
  /\ wire[t] = "part" => t \in split
  /\ pc[t] = "wait" =>
       /\ wire[t] = "placed" => placed[t] # NoOrder
       /\ wire[t] \in {"no_stock", "closed"} /\ t \notin split => placed[t] = NoOrder
  /\ pc[t] # "wait" =>
       /\ wire[t] = "silent"
       /\ feedback[t] = "placed" => placed[t] # NoOrder
       /\ feedback[t] = "failed" /\ t \notin split \cup broken => placed[t] = NoOrder
AnswerInv == /\ DOMAIN placed = Tabs
             /\ BacklogInv /\ ServedInv /\ \A t \in Tabs : PageTruth(t)

\* Some lines are an order.
LEMMA SomeOrder ==
  /\ \A order : \A kept \in (SUBSET DOMAIN order) \ {{}} : [i \in kept |-> order[i]] # NoOrder
  /\ DOMAIN NoOrder = {}
<1>1. DOMAIN NoOrder = {}
  BY DEF NoOrder
<1>2. ASSUME NEW order, NEW kept \in (SUBSET DOMAIN order) \ {{}}
      PROVE  [i \in kept |-> order[i]] # NoOrder
  <2>1. DOMAIN [i \in kept |-> order[i]] = kept /\ kept # {}
    OBVIOUS
  <2> HIDE DEF NoOrder
  <2> QED BY <1>1, <2>1
<1> QED BY <1>1, <1>2

\* Nothing of an order changes.
LEMMA AnswerKept ==
  ASSUME AnswerInv, TypeOK,
         UNCHANGED <<backlog, main, client, msg, numBytes, wire, placed, split, broken, feedback>>,
         \A t \in Tabs : \/ pc'[t] = pc[t]
                         \/ /\ pc[t] # "wait" /\ pc'[t] # "wait"
                            /\ pc[t] # "idle" \/ \A i \in DOMAIN backlog : backlog[i] # t
  PROVE  AnswerInv'
<1>1. \A i \in DOMAIN backlog : backlog[i] \in Tabs
  BY DEF TypeOK
<1>2. client # NoTab => client \in Tabs
  BY DEF TypeOK
<1>3. \A i \in DOMAIN backlog : pc'[backlog[i]] = pc[backlog[i]]
  BY <1>1 DEF AnswerInv, BacklogInv, Queued, Gone
<1>4. BacklogInv'
  BY <1>1, <1>3 DEF AnswerInv, BacklogInv, Queued, Gone
<1>5. client # NoTab => pc'[client] = "wait"
  BY <1>2 DEF AnswerInv, ServedInv
<1>6. ServedInv'
  BY <1>2, <1>5 DEF AnswerInv, ServedInv, Queued
<1>7. (\A t \in Tabs : PageTruth(t))'
  BY DEF AnswerInv, PageTruth
<1> QED
  BY <1>4, <1>6, <1>7 DEF AnswerInv

\* A page that sends an order has no reply, and no order placed for it.
LEMMA AnswerSent ==
  ASSUME TypeOK, AnswerInv, NEW t \in Tabs, NEW f, NEW clear, try_place_order(t, f, clear),
         pc[t] # "wait", \A i \in DOMAIN backlog : backlog[i] # t
  PROVE  AnswerInv'
<1>1. \A u \in Tabs : u # t => /\ pc'[u] = pc[u] /\ wire'[u] = wire[u] /\ placed'[u] = placed[u]
                               /\ feedback'[u] = feedback[u] /\ (u \in split' <=> u \in split)
                               /\ (u \in broken' <=> u \in broken)
  BY DEF try_place_order, Goto, AnswerInv, TypeOK
<1>2. /\ wire'[t] = "silent" /\ placed'[t] = NoOrder /\ t \notin split' /\ client # t
      /\ UNCHANGED <<main, client, msg, numBytes>>
  BY DEF try_place_order, AnswerInv, PageTruth, ServedInv
<1>3. \/ /\ backlog' = Append(backlog, t) /\ pc'[t] = "wait"
      \/ /\ backlog' = backlog /\ feedback'[t] = "failed" /\ pc'[t] = "idle"
  BY DEF try_place_order, Goto, TypeOK
<1>4. \A i \in DOMAIN backlog : backlog[i] \in Tabs /\ backlog[i] # t
  BY DEF TypeOK
<1>5. BacklogInv'
  <2>1. \A i \in DOMAIN backlog : LET u == backlog[i] IN
          /\ pc'[u] = "wait" \/ (pc'[u] = "idle" /\ u \in broken' /\ feedback'[u] = "failed")
          /\ wire'[u] = "silent" /\ placed'[u] = NoOrder /\ client # u
    BY <1>1, <1>4 DEF AnswerInv, BacklogInv, Queued, Gone
  <2>2. CASE backlog' = backlog
    BY <1>2, <2>1, <2>2 DEF AnswerInv, BacklogInv, Queued, Gone
  <2>3. CASE backlog' = Append(backlog, t) /\ pc'[t] = "wait"
    <3>1. /\ DOMAIN backlog' = DOMAIN backlog \cup {Len(backlog) + 1}
          /\ \A i \in DOMAIN backlog : backlog'[i] = backlog[i]
          /\ backlog'[Len(backlog) + 1] = t
      <4>1. backlog \in Seq(Tabs)
        BY DEF TypeOK
      <4> QED
        BY <2>3, <4>1
    <3>2. Queued(t)' /\ client' # t
      BY <1>2, <2>3 DEF Queued
    <3>3. \A i \in DOMAIN backlog' :
            /\ pc'[backlog'[i]] = "wait"
                 \/ (pc'[backlog'[i]] = "idle" /\ backlog'[i] \in broken' /\ feedback'[backlog'[i]] = "failed")
            /\ wire'[backlog'[i]] = "silent"
            /\ placed'[backlog'[i]] = NoOrder /\ client' # backlog'[i]
      BY <1>2, <2>1, <3>1, <3>2 DEF Queued, Gone
    <3>4. \A i, j \in DOMAIN backlog' : backlog'[i] = backlog'[j] => i = j
      BY <1>4, <3>1 DEF AnswerInv, BacklogInv
    <3> QED
      BY <3>3, <3>4 DEF BacklogInv, Queued, Gone
  <2> QED
    BY <1>3, <2>2, <2>3
<1>6. ServedInv'
  <2>1. client # NoTab => client \in Tabs /\ client # t
    BY <1>2 DEF TypeOK
  <2> QED
    BY <1>1, <1>2, <2>1 DEF AnswerInv, ServedInv, Queued, Gone
<1>7. ASSUME NEW u \in Tabs PROVE PageTruth(u)'
  <2>1. CASE u # t
    BY <1>1, <2>1 DEF AnswerInv, PageTruth
  <2>2. CASE u = t
    BY <1>2, <1>3, <2>2 DEF PageTruth
  <2> QED
    BY <2>1, <2>2
<1>8. DOMAIN placed' = Tabs
  BY DEF try_place_order, AnswerInv
<1> QED
  BY <1>5, <1>6, <1>7, <1>8 DEF AnswerInv

\* Every step keeps what main thread, wire and page say of an order in agreement.
LEMMA AnswerStep == TypeOK /\ ReadInv /\ AnswerInv /\ [Next]_vars => AnswerInv'
<1> SUFFICES ASSUME TypeOK, ReadInv, AnswerInv, [Next]_vars PROVE AnswerInv'
  OBVIOUS
<1>0. /\ \A i \in DOMAIN backlog : backlog[i] \in Tabs
      /\ client # NoTab => client \in Tabs
  BY DEF TypeOK
<1>1. ASSUME NEW t \in Tabs, NEW f, AddToCart(t, f) PROVE AnswerInv'
  BY <1>1, AnswerKept DEF AddToCart, OpenPage, Goto, TypeOK
<1>2. ASSUME NEW t \in Tabs, NEW f, OrderFromMall(t, f) PROVE AnswerInv'
  BY <1>2, AnswerSent DEF OrderFromMall, OpenPage
<1>3. ASSUME NEW t \in Tabs, NEW f, SubmitOrder(t, f) PROVE AnswerInv'
  <2>1. pc[t] = "form" /\ \A i \in DOMAIN backlog : backlog[i] # t
    BY <1>3 DEF SubmitOrder, AnswerInv, BacklogInv, Queued, Gone
  <2> QED
    BY <1>3, <2>1, AnswerSent DEF SubmitOrder
<1>4. ASSUME NEW t \in Tabs, Get(t) PROVE AnswerInv'
  <2>1. pc[t] = "get" /\ \E l \in {"insert", "update", "idle"} : Goto(t, l)
    BY <1>4 DEF Get
  <2> QED
    BY <1>4, <2>1, AnswerKept DEF Get, Goto, TypeOK
<1>5. ASSUME NEW t \in Tabs, Update(t) \/ Insert(t) PROVE AnswerInv'
  <2>1. pc[t] \in {"update", "insert"} /\ \E l \in {"insert", "get", "idle"} : Goto(t, l)
    BY <1>5 DEF Update, Insert, Saved, NextLine
  <2>2. UNCHANGED <<orderVars, backlog, mainVars, pages>>
    BY <1>5 DEF Update, Insert
  <2> QED
    BY <2>1, <2>2, AnswerKept DEF Goto, TypeOK
<1>6. ASSUME NEW p \in Products, Cancel(p) PROVE AnswerInv'
  BY <1>6, AnswerKept DEF Cancel
<1>7. CASE ClearCart
  BY <1>7, AnswerKept DEF ClearCart
<1>8. ASSUME NEW t \in Tabs, ClearOrdered(t) PROVE AnswerInv'
  BY <1>8, AnswerKept DEF ClearOrdered, Goto, TypeOK
<1>9. ASSUME NEW t \in Tabs, ShowCart(t) PROVE AnswerInv'
  <2>1. \A u \in Tabs : u # t => pc'[u] = pc[u] /\ placed'[u] = placed[u] /\ feedback'[u] = feedback[u]
    BY <1>9 DEF ShowCart, Goto, AnswerInv, TypeOK
  <2>2. /\ pc[t] = "idle" /\ pc'[t] = "form" /\ feedback'[t] = "none"
        /\ UNCHANGED <<backlog, main, client, msg, numBytes, wire, split, broken>>
    BY <1>9 DEF ShowCart, OpenPage, Goto, TypeOK
  <2>3. client # t /\ \A i \in DOMAIN backlog : backlog[i] # t
    BY <1>9, <2>2 DEF ShowCart, OpenPage, AnswerInv, ServedInv
  <2>4. BacklogInv'
    BY <1>0, <2>1, <2>2, <2>3 DEF AnswerInv, BacklogInv, Queued, Gone
  <2>5. ServedInv'
    BY <1>0, <2>1, <2>2, <2>3 DEF AnswerInv, ServedInv, Queued, Gone
  <2>6. ASSUME NEW u \in Tabs PROVE PageTruth(u)'
    BY <2>1, <2>2 DEF AnswerInv, PageTruth
  <2>7. DOMAIN placed' = Tabs
    BY <1>9 DEF ShowCart, AnswerInv
  <2> QED
    BY <2>4, <2>5, <2>6, <2>7 DEF AnswerInv
<1>10. ASSUME NEW t \in Tabs, Receive(t) PROVE AnswerInv'
  <2>1. /\ \A u \in Tabs : u # t => pc'[u] = pc[u] /\ wire'[u] = wire[u] /\ feedback'[u] = feedback[u]
        /\ pc'[t] # "wait" /\ wire'[t] = "silent"
        /\ feedback'[t] = IF wire[t] = "placed" THEN "placed" ELSE "failed"
    BY <1>10 DEF Receive, Close, AfterFeedback, Success, Goto, TypeOK
  <2>2. /\ pc[t] = "wait" /\ wire[t] # "silent"
        /\ client' = IF client = t THEN NoTab ELSE client
        /\ UNCHANGED <<backlog, main, msg, numBytes, placed, split, broken>>
    BY <1>10 DEF Receive, Close
  <2>3. wire[t] \in {"part", "placed", "no_stock", "closed"}
    BY <2>2 DEF TypeOK
  <2>4. \A i \in DOMAIN backlog : backlog[i] # t
    BY <2>2 DEF AnswerInv, BacklogInv, Queued
  <2>5. BacklogInv'
    <3>1. NoTab \notin Tabs
      OBVIOUS
    <3> QED
      BY <1>0, <2>1, <2>2, <2>4, <3>1 DEF AnswerInv, BacklogInv, Queued, Gone
  <2>6. ServedInv'
    BY <1>0, <2>1, <2>2 DEF AnswerInv, ServedInv, Queued, Gone
  <2>7. ASSUME NEW u \in Tabs PROVE PageTruth(u)'
    <3>1. CASE u # t
      BY <2>1, <2>2, <3>1 DEF AnswerInv, PageTruth
    <3>2. CASE u = t
      BY <2>1, <2>2, <2>3, <3>2 DEF AnswerInv, PageTruth
    <3> QED
      BY <3>1, <3>2
  <2> QED
    BY <2>2, <2>5, <2>6, <2>7 DEF AnswerInv
<1>15. ASSUME NEW t \in Tabs, ConnectionBreaks(t) PROVE AnswerInv'
  <2>1. /\ \A u \in Tabs : u # t => /\ pc'[u] = pc[u] /\ wire'[u] = wire[u]
                                    /\ feedback'[u] = feedback[u] /\ (u \in broken' <=> u \in broken)
        /\ pc'[t] = "idle" /\ wire'[t] = "silent" /\ feedback'[t] = "failed" /\ t \in broken'
    BY <1>15 DEF ConnectionBreaks, Close, Goto, TypeOK
  <2>2. /\ pc[t] = "wait"
        /\ client' = IF client = t THEN NoTab ELSE client
        /\ UNCHANGED <<backlog, main, msg, numBytes, placed, split>>
    BY <1>15 DEF ConnectionBreaks, Close
  <2>5. BacklogInv'
    <3>1. NoTab \notin Tabs
      OBVIOUS
    <3>2. \A i \in DOMAIN backlog : Queued(backlog[i])'
      BY <1>0, <2>1, <2>2 DEF AnswerInv, BacklogInv, Queued, Gone
    <3>3. \A i \in DOMAIN backlog : client' # backlog[i]
      BY <1>0, <2>2, <3>1 DEF AnswerInv, BacklogInv
    <3> QED
      BY <2>2, <3>2, <3>3 DEF AnswerInv, BacklogInv, Queued, Gone
  <2>6. ServedInv'
    BY <1>0, <2>1, <2>2 DEF AnswerInv, ServedInv, Queued, Gone
  <2>7. ASSUME NEW u \in Tabs PROVE PageTruth(u)'
    BY <2>1, <2>2 DEF AnswerInv, PageTruth
  <2> QED
    BY <2>2, <2>5, <2>6, <2>7 DEF AnswerInv
<1>11. CASE Accept
  <2> DEFINE t == Head(backlog)
  <2>1. /\ backlog \in Seq(Tabs) /\ backlog # <<>> /\ backlog' = Tail(backlog) /\ main = "accept"
        /\ UNCHANGED <<pc, feedback, numBytes, split, broken>>
    BY <1>11 DEF Accept, TypeOK
  <2>2. PICK text : handleOrder(t, text)
    BY <1>11 DEF Accept
  <2>3. /\ t \in Tabs /\ t = backlog[1] /\ 1 \in DOMAIN backlog
        /\ \A i \in DOMAIN backlog' : i + 1 \in DOMAIN backlog /\ backlog'[i] = backlog[i + 1] /\ i \in Nat
    BY <2>1
  <2> HIDE DEF t
  <2>4. Queued(t)
    BY <2>3 DEF AnswerInv, BacklogInv
  <2>5. client = NoTab /\ numBytes = 0
    BY <2>1 DEF AnswerInv, ServedInv
  <2>6. /\ DOMAIN placed' = Tabs
        /\ \A u \in Tabs : u # t => placed'[u] = placed[u] /\ wire'[u] = wire[u]
        /\ client' \in {NoTab, t} /\ (client' = t => pc[t] = "wait")
        /\ pc[t] # "wait" => wire'[t] = "silent"
        /\ \/ main' = "accept" /\ client' = NoTab /\ placed'[t] = NoOrder
           \/ /\ main' = "send" /\ wire'[t] = "silent"
              /\ msg' = "placed" /\ placed'[t] # NoOrder
           \/ main' = "buy_more" /\ wire'[t] = "silent" /\ placed'[t] = NoOrder
        /\ wire'[t] \in {"silent", "closed"}
    <3>1. placed[t] = NoOrder /\ wire[t] = "silent"
      BY <2>4 DEF Queued
    <3>2. DOMAIN placed = Tabs /\ DOMAIN wire = Tabs
      BY DEF AnswerInv, TypeOK
    <3> DEFINE order == get_products_order(text)
    <3>3. CASE /\ End(t) /\ UNCHANGED <<main, client, msg, placed>>
      BY <2>1, <2>3, <2>5, <3>1, <3>2, <3>3 DEF End
    <3>4. ASSUME NEW kept \in (SUBSET DOMAIN order) \ {{}},
                 placed' = [placed EXCEPT ![t] = [i \in kept |-> order[i]]],
                 main' = "send", msg' = "placed", Serve(t), UNCHANGED wire
          PROVE  /\ DOMAIN placed' = Tabs
                 /\ \A u \in Tabs : u # t => placed'[u] = placed[u] /\ wire'[u] = wire[u]
                 /\ client' \in {NoTab, t} /\ (client' = t => pc[t] = "wait")
                 /\ main' = "send" /\ wire'[t] = "silent"
                 /\ msg' = "placed" /\ placed'[t] # NoOrder
      <4>1. [i \in kept |-> order[i]] # NoOrder
        <5> HIDE DEF order
        <5> QED BY <3>4, SomeOrder
      <4>2. client' \in {NoTab, t} /\ (client' = t => pc[t] = "wait")
        BY <2>3, <3>4 DEF Serve
      <4> HIDE DEF order, NoOrder
      <4>3. placed'[t] = [i \in kept |-> order[i]] /\ \A u \in Tabs : u # t => placed'[u] = placed[u]
        BY <2>3, <3>2, <3>4
      <4> QED BY <3>1, <3>2, <3>4, <4>1, <4>2, <4>3
    <3>5. CASE main' = "buy_more" /\ Serve(t) /\ UNCHANGED <<msg, wire, placed>>
      BY <2>3, <3>1, <3>2, <3>5 DEF Serve
    <3> HIDE DEF order
    <3>6. \/ End(t) /\ UNCHANGED <<main, client, msg, placed>>
          \/ \E kept \in (SUBSET DOMAIN order) \ {{}} :
               /\ placed' = [placed EXCEPT ![t] = [i \in kept |-> order[i]]]
               /\ main' = "send" /\ msg' = "placed" /\ Serve(t) /\ UNCHANGED wire
          \/ main' = "buy_more" /\ Serve(t) /\ UNCHANGED <<msg, wire, placed>>
      BY <2>2 DEF handleOrder, order
    <3> QED
      BY <3>1, <3>3, <3>4, <3>5, <3>6
  <2>7. BacklogInv'
    <3>1. \A i \in DOMAIN backlog' : backlog'[i] # t /\ backlog'[i] \in Tabs
      <4>1. \A i \in Nat : i + 1 = 1 => i = 0
        OBVIOUS
      <4>2. \A i \in DOMAIN backlog' : i # 0
        BY <2>1
      <4> QED
        BY <1>0, <2>3, <4>1, <4>2 DEF AnswerInv, BacklogInv
    <3>2. client' = t \/ client' = NoTab
      BY <2>6
    <3>3. \A i \in DOMAIN backlog' : Queued(backlog'[i]) /\ client' # backlog'[i]
      BY <2>3, <3>1, <3>2 DEF AnswerInv, BacklogInv
    <3>4. \A i \in DOMAIN backlog' : /\ \/ pc'[backlog'[i]] = "wait"
                                        \/ /\ pc'[backlog'[i]] = "idle" /\ backlog'[i] \in broken'
                                           /\ feedback'[backlog'[i]] = "failed"
                                     /\ wire'[backlog'[i]] = "silent"
                                     /\ placed'[backlog'[i]] = NoOrder
      BY <2>1, <2>6, <3>1, <3>3 DEF Queued, Gone
    <3>5. ASSUME NEW i \in DOMAIN backlog', NEW j \in DOMAIN backlog', backlog'[i] = backlog'[j]
          PROVE  i = j
      <4>1. i + 1 = j + 1
        BY <2>3, <3>5 DEF AnswerInv, BacklogInv
      <4>2. i \in Nat /\ j \in Nat
        BY <2>3
      <4> QED
        BY <4>1, <4>2
    <3> QED
      BY <3>3, <3>4, <3>5 DEF BacklogInv, Queued, Gone
  <2>8. ServedInv'
    BY <2>1, <2>5, <2>6 DEF ServedInv, Queued
  <2>9. ASSUME NEW u \in Tabs PROVE PageTruth(u)'
    <3>1. CASE u # t
      BY <2>1, <2>6, <3>1 DEF AnswerInv, PageTruth
    <3>2. CASE u = t
      BY <2>1, <2>4, <2>6, <3>2 DEF PageTruth, Queued, Gone
    <3> QED
      BY <3>1, <3>2
  <2> QED
    BY <2>6, <2>7, <2>8, <2>9 DEF AnswerInv
<1>16. CASE AcceptBind \/ Bound
  <2>1. /\ UNCHANGED <<pc, feedback, broken, backlog, client, numBytes, split, wire, placed>>
        /\ main \in {"accept", "bind"} /\ main' \in {"accept", "bind"}
    BY <1>16 DEF AcceptBind, Bound
  <2>2. client = NoTab
    BY <2>1 DEF AnswerInv, ServedInv
  <2>3. BacklogInv'
    BY <1>0, <2>1 DEF AnswerInv, BacklogInv, Queued, Gone
  <2>4. ServedInv'
    BY <2>1, <2>2 DEF AnswerInv, ServedInv
  <2>5. ASSUME NEW u \in Tabs PROVE PageTruth(u)'
    BY <2>1 DEF AnswerInv, PageTruth
  <2> QED BY <2>1, <2>3, <2>4, <2>5 DEF AnswerInv
<1>17. CASE Purchased
  <2>1. /\ UNCHANGED <<pc, feedback, broken, backlog, client, numBytes, split, wire, placed>>
        /\ main = "buy_more" /\ main' = "send" /\ msg' = "no_stock"
    BY <1>17 DEF Purchased
  <2>2. numBytes = 0 /\ (client # NoTab => pc[client] = "wait" /\ placed[client] = NoOrder)
    BY <2>1 DEF AnswerInv, ServedInv, Queued
  <2>3. BacklogInv'
    BY <1>0, <2>1 DEF AnswerInv, BacklogInv, Queued, Gone
  <2>4. ServedInv'
    BY <2>1, <2>2 DEF ServedInv
  <2>5. ASSUME NEW u \in Tabs PROVE PageTruth(u)'
    BY <2>1 DEF AnswerInv, PageTruth
  <2> QED BY <2>1, <2>3, <2>4, <2>5 DEF AnswerInv
<1>12. ASSUME NEW k \in 1 .. ReplySize, sendAllData(k) PROVE AnswerInv'
  <2> DEFINE n == numBytes + k
  <2>1. /\ main = "send" /\ UNCHANGED <<pc, feedback, broken, backlog, placed>>
        /\ msg \in {"placed", "no_stock"}
    BY <1>12 DEF sendAllData, ReadInv
  <2>2. n \in Nat /\ n > 0
    <3>1. numBytes \in Nat
      BY DEF TypeOK
    <3> QED
      BY <3>1
  <2> HIDE DEF n
  <2>3. \A u \in Tabs : u # client => wire'[u] = wire[u] /\ (u \in split' <=> u \in split)
    BY <1>12 DEF sendAllData, TypeOK
  <2>4. client # NoTab =>
          \/ client \in split' /\ wire'[client] \in {"part", msg}
          \/ wire'[client] = msg /\ split' = split /\ n = ReplySize
    <3> SUFFICES ASSUME client # NoTab
                 PROVE  \/ client \in split' /\ wire'[client] \in {"part", msg}
                        \/ wire'[client] = msg /\ split' = split /\ n = ReplySize
      OBVIOUS
    <3>1. /\ wire' = [wire EXCEPT ![client] = Received(n)]
          /\ split' = IF k = ReplySize /\ numBytes = 0 THEN split ELSE split \cup {client}
      BY <1>12 DEF sendAllData, n
    <3>2. wire'[client] = Received(n)
      BY <1>0, <3>1 DEF TypeOK
    <3>3. CASE k = ReplySize /\ numBytes = 0
      <4>1. n = ReplySize
        BY <3>3 DEF n
      <4> QED
        BY <3>1, <3>2, <3>3, <4>1 DEF Received
    <3>4. CASE ~(k = ReplySize /\ numBytes = 0)
      BY <2>1, <3>1, <3>2, <3>4 DEF Received
    <3> QED
      BY <3>3, <3>4
  <2>5. \/ main' = "undefined" /\ client' = client /\ msg' = msg
        \/ main' = "send" /\ client' = client /\ msg' = msg /\ numBytes' = n /\ ~LoopEnds(n)
        \/ main' = "fulfil" /\ client' = client /\ numBytes' = 0
        \/ main' = "accept" /\ client' = NoTab /\ numBytes' = 0
    BY <1>12, <2>1 DEF sendAllData, AfterReply, n
  <2>6. BacklogInv'
    BY <1>0, <2>1, <2>3, <2>5 DEF AnswerInv, BacklogInv, Queued, Gone
  <2>7. ServedInv'
    <3>1. n = ReplySize => LoopEnds(n)
      BY DEF LoopEnds
    <3> QED
      BY <1>0, <2>1, <2>2, <2>4, <2>5, <3>1 DEF AnswerInv, ServedInv
  <2>8. ASSUME NEW u \in Tabs PROVE PageTruth(u)'
    <3>1. CASE u # client
      BY <2>1, <2>3, <3>1 DEF AnswerInv, PageTruth
    <3>2. CASE u = client
      <4>1. pc[u] = "wait" /\ (msg = "placed" <=> placed[u] # NoOrder) /\ u # NoTab
        BY <2>1, <3>2 DEF AnswerInv, ServedInv
      <4> QED
        BY <2>1, <2>4, <3>2, <4>1 DEF PageTruth
    <3> QED
      BY <3>1, <3>2
  <2> QED
    BY <2>1, <2>6, <2>7, <2>8 DEF AnswerInv
<1>13. ASSUME SendFails \/ OverrunFails \/ Fulfilled PROVE AnswerInv'
  <2>1. /\ UNCHANGED <<backlog, pc, wire, placed, split, broken, feedback>>
        /\ main' \in {"accept", "fulfil"} /\ client' \in {client, NoTab} /\ numBytes' = 0
        /\ main' = "accept" => client' = NoTab
    BY <1>13 DEF SendFails, OverrunFails, Fulfilled, AfterReply, AnswerInv, ServedInv
  <2>2. BacklogInv'
    <3>1. NoTab \notin Tabs
      OBVIOUS
    <3> QED
      BY <1>0, <2>1, <3>1 DEF AnswerInv, BacklogInv, Queued, Gone
  <2>3. ServedInv'
    BY <2>1 DEF AnswerInv, ServedInv
  <2>4. ASSUME NEW u \in Tabs PROVE PageTruth(u)'
    BY <2>1 DEF AnswerInv, PageTruth
  <2> QED
    BY <2>1, <2>2, <2>3, <2>4 DEF AnswerInv
<1>14. CASE UNCHANGED vars
  BY <1>14, AnswerKept DEF vars
<1> QED
  BY <1>1, <1>2, <1>3, <1>4, <1>5, <1>6, <1>7, <1>8, <1>9, <1>10, <1>11, <1>12, <1>13, <1>14,
     <1>15, <1>16, <1>17
     DEF Next, TabStep, Customer, MainStep, SendStep

\* Whatever the size of the reply, and however often messages are cut and connections
\* break: a page that says so has an order placed, and one that denies it has none if
\* its reply was sent in one piece over a connection that lasted.
THEOREM Truth == Spec => []ToldTheTruth
<1>1. Init => AnswerInv
  BY DEF Init, AnswerInv, BacklogInv, ServedInv, PageTruth
<1>2. AnswerInv => ToldTheTruth
  BY DEF AnswerInv, PageTruth, ToldTheTruth
<1> QED
  BY <1>1, <1>2, TypeInit, TypeStep, AnswerStep, PTL DEF Spec

-----------------------------------------------------------------------------
(* What is placed is what was submitted, or its first lines.               *)

Ascending(S) == {s \in [1 .. Cardinality(S) -> S] :
                   \A i, j \in DOMAIN s : i < j => s[i] < s[j]}

\* A finite set of numbers has a greatest.
LEMMA Greatest ==
  ASSUME NEW S \in SUBSET Nat, IsFiniteSet(S), S # {}
  PROVE  \E x \in S : \A y \in S : y <= x
<1> DEFINE P == {R \in SUBSET S : R = {} \/ \E x \in R : \A y \in R : y <= x}
<1>1. {} \in P
  OBVIOUS
<1>2. ASSUME NEW R \in SUBSET S, R # {}, \A x \in R : R \ {x} \in P PROVE R \in P
  <2>1. PICK x \in R : TRUE
    BY <1>2
  <2>2. CASE R \ {x} = {}
    <3>1. \A y \in R : y = x
      BY <2>2
    <3> QED BY <3>1
  <2>3. CASE R \ {x} # {}
    <3>1. PICK z \in R \ {x} : \A y \in R \ {x} : y <= z
      BY <1>2, <2>3
    <3>2. x \in Nat /\ z \in Nat /\ \A y \in R : y \in Nat
      OBVIOUS
    <3>3. CASE x <= z
      BY <3>1, <3>3
    <3>4. CASE z <= x
      BY <3>1, <3>2, <3>4
    <3> QED BY <3>2, <3>3, <3>4
  <2> QED BY <2>2, <2>3
<1>3. S \in P
  <2> HIDE DEF P
  <2> QED BY <1>1, <1>2, Sizes
<1> QED BY <1>3

\* Its numbers can be put in ascending order.
LEMMA AscendingExists ==
  ASSUME NEW S \in SUBSET Nat, IsFiniteSet(S) PROVE Ascending(S) # {}
<1> DEFINE P == {R \in SUBSET S : Ascending(R) # {}}
<1>1. {} \in P
  <2>1. [i \in 1 .. 0 |-> 0] \in Ascending({})
    BY FS_EmptySet DEF Ascending
  <2> QED BY <2>1
<1>2. ASSUME NEW R \in SUBSET S, R # {}, \A x \in R : R \ {x} \in P PROVE R \in P
  <2>1. IsFiniteSet(R) /\ R \in SUBSET Nat
    BY FS_Subset
  <2>2. PICK x \in R : \A y \in R : y <= x
    BY <1>2, <2>1, Greatest
  <2>3. PICK n \in Nat : n = Cardinality(R \ {x}) /\ Cardinality(R) = n + 1
    <3>1. /\ IsFiniteSet(R \ {x}) /\ Cardinality(R \ {x}) = Cardinality(R) - 1
          /\ Cardinality(R \ {x}) \in Nat /\ Cardinality(R) \in Nat
      BY <2>1, FS_RemoveElement, FS_CardinalityType
    <3> QED BY <3>1
  <2>4. PICK s \in [1 .. n -> R \ {x}] : \A i, j \in 1 .. n : i < j => s[i] < s[j]
    <3>1. PICK s \in Ascending(R \ {x}) : TRUE
      BY <1>2
    <3> QED BY <2>3, <3>1 DEF Ascending
  <2> DEFINE t == [i \in 1 .. n + 1 |-> IF i = n + 1 THEN x ELSE s[i]]
  <2>5. t \in [1 .. n + 1 -> R]
    OBVIOUS
  <2>6. \A i, j \in 1 .. n + 1 : i < j => t[i] < t[j]
    <3> SUFFICES ASSUME NEW i \in 1 .. n + 1, NEW j \in 1 .. n + 1, i < j PROVE t[i] < t[j]
      OBVIOUS
    <3>1. i \in 1 .. n /\ t[i] = s[i] /\ s[i] \in R /\ s[i] # x
      OBVIOUS
    <3>2. CASE j = n + 1
      <4>1. s[i] <= x /\ s[i] \in Nat /\ x \in Nat
        BY <2>1, <2>2, <3>1
      <4> QED BY <3>1, <3>2, <4>1
    <3>3. CASE j # n + 1
      <4>1. j \in 1 .. n /\ t[j] = s[j]
        BY <3>3
      <4> QED BY <2>4, <3>1, <4>1
    <3> QED BY <3>2, <3>3
  <2>7. t \in Ascending(R)
    BY <2>3, <2>5, <2>6 DEF Ascending
  <2> QED BY <2>7
<1>3. S \in P
  <2> HIDE DEF P
  <2> QED BY <1>1, <1>2, Sizes
<1> QED BY <1>3

\* So the page has an order: each product has one place in it.
LEMMA PageType ==
  /\ Page \in [1 .. Cardinality(Products) -> Products] /\ Cardinality(Products) \in Nat
  /\ \A p \in Products : \E i \in DOMAIN Page : Page[i] = p
<1> DEFINE n == Cardinality(Products)
<1>1. \E s \in [1 .. n -> Products] : \A i, j \in DOMAIN s : i < j => s[i] < s[j]
  BY AscendingExists DEF Ascending
<1>2. Page \in [1 .. n -> Products] /\ \A i, j \in DOMAIN Page : i < j => Page[i] < Page[j]
  BY <1>1 DEF Page
<1>3. n \in Nat
  BY FS_CardinalityType
<1> HIDE DEF n
<1>4. \A i, j \in 1 .. n : Page[i] = Page[j] => i = j
  <2> SUFFICES ASSUME NEW i \in 1 .. n, NEW j \in 1 .. n, Page[i] = Page[j], i < j PROVE FALSE
    BY <1>3
  <2>1. Page[i] < Page[j] /\ Page[i] \in Nat
    BY <1>2
  <2> QED BY <2>1
<1>5. Page \in Injection(1 .. n, Products)
  BY <1>2, <1>4 DEF Injection, IsInjective
<1>6. Cardinality(1 .. n) = n
  BY <1>3, FS_Interval
<1>7. Page \in Surjection(1 .. n, Products)
  BY <1>5, <1>6, FS_Injection DEF n
<1>8. \A p \in Products : \E i \in DOMAIN Page : Page[i] = p
  BY <1>2, <1>7 DEF Surjection
<1> QED BY <1>2, <1>3, <1>8 DEF n

\* A form is submitted as lines of an order.
LEMMA FormLinesType ==
  ASSUME NEW f \in [Products -> Nat]
  PROVE  /\ FormLines(f) \in Seq(OrderLines)
         /\ \A p \in Products : f[p] > 0 =>
              \E i \in DOMAIN FormLines(f) : FormLines(f)[i] = [product |-> p, quantity |-> f[p]]
<1> DEFINE L(p) == IF f[p] > 0 THEN <<[product |-> p, quantity |-> f[p]]>> ELSE <<>>
           h == [i \in DOMAIN Page |-> L(Page[i])]
<1>1. \A p \in Products : L(p) \in Seq(OrderLines)
  <2>1. \A p \in Products : [product |-> p, quantity |-> f[p]] \in OrderLines
    BY DEF OrderLines
  <2> QED BY <2>1
<1>2. h \in [1 .. Cardinality(Products) -> Seq(OrderLines)]
  <2> HIDE DEF L
  <2> QED BY <1>1, PageType
<1>3. FormLines(f) = FlattenSeq(h)
  BY DEF FormLines
<1>4. h \in Seq(Seq(OrderLines))
  <2> HIDE DEF h
  <2> QED BY <1>2, PageType, FunctionIsSeq
<1>5. ASSUME NEW p \in Products, f[p] > 0
      PROVE  \E i \in DOMAIN FlattenSeq(h) : FlattenSeq(h)[i] = [product |-> p, quantity |-> f[p]]
  <2>1. PICK i \in DOMAIN Page : Page[i] = p
    BY PageType
  <2>2. i \in DOMAIN h /\ h[i] = <<[product |-> p, quantity |-> f[p]]>>
    BY <1>5, <2>1
  <2>3. 1 \in DOMAIN h[i] /\ h[i][1] = [product |-> p, quantity |-> f[p]]
    BY <2>2
  <2> HIDE DEF h
  <2> QED BY <1>4, <2>2, <2>3, FlattenHas
<1> HIDE DEF h
<1> QED BY <1>3, <1>4, <1>5, FlattenType

\* The lines o are some of those submitted: all of them unless the message was cut
\* (c) or a line passed over (s).
PlacedFrom(o, lines, c, s) ==
  /\ DOMAIN o \subseteq DOMAIN lines
  /\ ~s => \E n \in DOMAIN lines : DOMAIN o = 1 .. n
  /\ ~s /\ ~c => DOMAIN o = DOMAIN lines
  /\ \A i \in DOMAIN o :
       \/ o[i] = lines[i]
       \/ /\ c /\ \A j \in DOMAIN o : j <= i
          /\ o[i].product = lines[i].product
          /\ o[i].quantity \in Shorter(lines[i].quantity) \ {Empty}
PlacedInv == /\ DOMAIN placed = Tabs
             /\ \A t \in Tabs : placed[t] # NoOrder =>
                  PlacedFrom(placed[t], FormLines(form[t]), t \in cut, t \in skipped)

SomeOf(order) == (SUBSET DOMAIN order) \ {{}}

\* What is left of an order that was read, when some lines of it are passed over.
LEMMA PlacedSome ==
  ASSUME NEW lines \in Seq(OrderLines), NEW order, NEW c \in BOOLEAN, NEW s \in BOOLEAN,
         order = lines \/ (c /\ FirstLines(order, lines)),
         NEW kept \in SomeOf(order), s \/ kept = DOMAIN order
  PROVE  PlacedFrom([i \in kept |-> order[i]], lines, c, s)
<1> USE DEF SomeOf
<1> DEFINE o == [i \in kept |-> order[i]]
           n == Len(order)
<1>1. /\ order \in Seq(OrderLines) /\ n \in Nat /\ DOMAIN order = 1 .. n /\ DOMAIN lines = 1 .. Len(lines)
      /\ n \in 1 .. Len(lines)
  <2>1. CASE order = lines
    <3>1. PICK i \in kept : i \in DOMAIN order
      OBVIOUS
    <3> QED BY <2>1, <3>1
  <2>2. CASE FirstLines(order, lines)
    BY <2>2 DEF FirstLines
  <2> QED BY <2>1, <2>2
<1>2. \A i \in 1 .. n : \/ order[i] = lines[i]
                        \/ /\ c /\ i = n /\ order[i].product = lines[i].product
                           /\ order[i].quantity \in Shorter(lines[i].quantity) \ {Empty}
  <2>1. CASE order = lines
    BY <2>1
  <2>2. CASE c /\ FirstLines(order, lines)
    <3>1. /\ SubSeq(order, 1, n - 1) = SubSeq(lines, 1, n - 1)
          /\ order[n].product = lines[n].product
          /\ order[n].quantity \in {lines[n].quantity} \cup (Shorter(lines[n].quantity) \ {Empty})
      BY <2>2 DEF FirstLines
    <3>2. \A i \in 1 .. n - 1 : order[i] = lines[i]
      <4>1. \A i \in 1 .. n - 1 : /\ SubSeq(order, 1, n - 1)[i] = order[i]
                                  /\ SubSeq(lines, 1, n - 1)[i] = lines[i]
        BY <1>1
      <4> QED BY <3>1, <4>1
    <3>3. order[n].quantity = lines[n].quantity => order[n] = lines[n]
      <4>1. order[n] \in OrderLines /\ lines[n] \in OrderLines
        BY <1>1
      <4>2. \A k, l \in OrderLines : k.product = l.product /\ k.quantity = l.quantity => k = l
        BY DEF OrderLines
      <4> HIDE DEF n
      <4> QED BY <3>1, <4>1, <4>2
    <3>4. \A i \in 1 .. n : i \in 1 .. n - 1 \/ i = n
      <4>1. \A m \in Nat : \A i \in 1 .. m : i \in 1 .. m - 1 \/ i = m
        OBVIOUS
      <4> HIDE DEF n
      <4> QED BY <1>1, <4>1
    <3> QED BY <2>2, <3>1, <3>2, <3>3, <3>4
  <2> QED BY <2>1, <2>2
<1>3. DOMAIN o = kept /\ \A i \in kept : o[i] = order[i] /\ i \in 1 .. n
  BY <1>1
<1> HIDE DEF o, n
<1>4. \A i \in kept : i = n => \A j \in kept : j <= i
  BY <1>1, <1>3
<1>5. ~s => DOMAIN o = 1 .. n
  BY <1>1, <1>3
<1>6. ~s /\ ~c => DOMAIN o = DOMAIN lines
  BY <1>1, <1>5 DEF n
<1>7. DOMAIN o \subseteq DOMAIN lines
  BY <1>1, <1>3
<1>8. PlacedFrom(o, lines, c, s)
  BY <1>1, <1>2, <1>3, <1>4, <1>5, <1>6, <1>7 DEF PlacedFrom
<1> QED BY <1>8 DEF o

\* A tab sends an order: it has none placed.
LEMMA PlacedSent ==
  ASSUME TypeOK, PlacedInv, NEW t \in Tabs, NEW f,
         placed' = [placed EXCEPT ![t] = NoOrder], form' = [form EXCEPT ![t] = f],
         cut' \in {cut, cut \ {t}}, skipped' \in {skipped, skipped \ {t}}
  PROVE  PlacedInv'
<1>1. \A u \in Tabs : u # t => /\ placed'[u] = placed[u] /\ form'[u] = form[u]
                               /\ (u \in cut' <=> u \in cut) /\ (u \in skipped' <=> u \in skipped)
  BY DEF PlacedInv, TypeOK
<1>2. placed'[t] = NoOrder /\ DOMAIN placed' = Tabs
  BY DEF PlacedInv
<1> QED BY <1>1, <1>2 DEF PlacedInv, PlacedFrom

\* Nothing that was submitted or placed changes.
LEMMA PlacedSame ==
  ASSUME PlacedInv, UNCHANGED <<placed, form, cut, skipped>>
  PROVE  PlacedInv'
BY DEF PlacedInv, PlacedFrom

\* Every step keeps PlacedInv: the only one that places anything is Accept, and
\* what it reads is the message of the form or a part of it.
LEMMA PlacedStep == TypeOK /\ PlacedInv /\ [Next]_vars => PlacedInv'
<1> SUFFICES ASSUME TypeOK, PlacedInv, [Next]_vars PROVE PlacedInv'
  OBVIOUS
<1>1. ASSUME NEW t \in Tabs, NEW f, AddToCart(t, f) PROVE PlacedInv'
  BY <1>1, PlacedSame DEF AddToCart
<1>2. ASSUME NEW t \in Tabs, NEW f, OrderFromMall(t, f) PROVE PlacedInv'
  BY <1>2, PlacedSent DEF OrderFromMall, try_place_order
<1>3. ASSUME NEW t \in Tabs, NEW f, SubmitOrder(t, f) PROVE PlacedInv'
  BY <1>3, PlacedSent DEF SubmitOrder, try_place_order
<1>4. ASSUME NEW t \in Tabs, ShowCart(t) PROVE PlacedInv'
  BY <1>4, PlacedSent DEF ShowCart
<1>5. ASSUME NEW t \in Tabs, TabStep(t) \/ ConnectionBreaks(t) PROVE PlacedInv'
  <2>1. UNCHANGED <<placed, form, cut, skipped>>
    BY <1>5 DEF TabStep, Get, Update, Insert, Receive, ConnectionBreaks, ClearOrdered
  <2> QED BY <2>1, PlacedSame
<1>6. CASE (\E p \in Products : Cancel(p)) \/ ClearCart
  <2>1. UNCHANGED <<placed, form, cut, skipped>>
    BY <1>6 DEF Cancel, ClearCart
  <2> QED BY <2>1, PlacedSame
<1>7. CASE Accept
  <2>1. PICK t \in Tabs : t = Head(backlog)
    BY <1>7 DEF Accept, TypeOK
  <2> DEFINE lines == FormLines(form[t])
  <2>2. lines \in Seq(OrderLines) /\ form' = form
    BY <1>7, Typed, FormLinesType DEF Accept
  <2>3. \/ handleOrder(t, construct_order_message(lines)) /\ cut' = cut
        \/ /\ cut' = cut \cup {t}
           /\ \E text \in Cuts(construct_order_message(lines)) : handleOrder(t, text)
    BY <1>7, <2>1 DEF Accept
  <2> HIDE DEF lines
  <2>4. PICK order : /\ \/ UNCHANGED <<placed, skipped>>
                        \/ \E kept \in (SUBSET DOMAIN order) \ {{}} :
                             /\ placed' = [placed EXCEPT ![t] = [i \in kept |-> order[i]]]
                             /\ skipped' = IF kept = DOMAIN order THEN skipped ELSE skipped \cup {t}
                     /\ \/ order = lines
                        \/ order = NoOrder
                        \/ t \in cut' /\ FirstLines(order, lines)
    <3>1. CASE handleOrder(t, construct_order_message(lines))
      BY <2>2, <3>1, WholeMessage DEF handleOrder
    <3>2. ASSUME NEW text \in Cuts(construct_order_message(lines)), handleOrder(t, text),
                 cut' = cut \cup {t}
          PROVE  \E order :
                     /\ \/ UNCHANGED <<placed, skipped>>
                        \/ \E kept \in (SUBSET DOMAIN order) \ {{}} :
                             /\ placed' = [placed EXCEPT ![t] = [i \in kept |-> order[i]]]
                             /\ skipped' = IF kept = DOMAIN order THEN skipped ELSE skipped \cup {t}
                     /\ order = NoOrder \/ (t \in cut' /\ FirstLines(order, lines))
      BY <2>2, <3>2, PartOfMessage DEF handleOrder
    <3> QED BY <2>3, <3>1, <3>2
  <2>5. \A u \in Tabs : u # t => (u \in cut' <=> u \in cut)
    BY <2>3
  <2>6. CASE UNCHANGED <<placed, skipped>>
    <3>1. \A u \in Tabs : u \in cut => u \in cut'
      BY <2>3
    <3> QED BY <2>2, <2>6, <3>1 DEF PlacedInv, PlacedFrom
  <2>7. ASSUME NEW kept \in (SUBSET DOMAIN order) \ {{}},
               placed' = [placed EXCEPT ![t] = [i \in kept |-> order[i]]],
               skipped' = IF kept = DOMAIN order THEN skipped ELSE skipped \cup {t}
        PROVE  PlacedInv'
    <3>1. /\ placed'[t] = [i \in kept |-> order[i]] /\ DOMAIN placed' = Tabs
          /\ \A u \in Tabs : u # t => placed'[u] = placed[u] /\ (u \in skipped' <=> u \in skipped)
      BY <2>7 DEF PlacedInv
    <3>2. order # NoOrder
      BY SomeOrder
    <3>3. (t \in cut') \in BOOLEAN /\ (t \in skipped') \in BOOLEAN
      OBVIOUS
    <3>4. t \in skipped' \/ kept = DOMAIN order
      BY <2>7
    <3>5. order = lines \/ (t \in cut' /\ FirstLines(order, lines))
      BY <2>4, <3>2
    <3> DEFINE c == t \in cut'
               s == t \in skipped'
    <3>6. PlacedFrom([i \in kept |-> order[i]], lines, c, s)
      <4>1. c \in BOOLEAN /\ s \in BOOLEAN /\ (s \/ kept = DOMAIN order)
            /\ (order = lines \/ (c /\ FirstLines(order, lines)))
        BY <3>3, <3>4, <3>5
      <4>2. lines \in Seq(OrderLines)
        BY <2>2
      <4>3. kept \in SomeOf(order)
        BY <2>7 DEF SomeOf
      <4> HIDE DEF c, s
      <4> QED BY <4>1, <4>2, <4>3, PlacedSome, SMT
    <3>7. PlacedFrom(placed'[t], FormLines(form'[t]), t \in cut', t \in skipped')
      BY <2>2, <3>1, <3>6 DEF lines
    <3> QED BY <2>2, <2>5, <3>1, <3>7 DEF PlacedInv, PlacedFrom
  <2> QED BY <2>4, <2>6, <2>7
<1>8. CASE AcceptBind \/ Bound \/ Purchased \/ SendStep \/ OverrunFails \/ Fulfilled \/ UNCHANGED vars
  <2>1. UNCHANGED <<placed, form, cut, skipped>>
    BY <1>8 DEF AcceptBind, Bound, Purchased, SendStep, sendAllData, SendFails, OverrunFails,
                Fulfilled, vars
  <2> QED BY <2>1, PlacedSame
<1> QED
  BY <1>1, <1>2, <1>3, <1>4, <1>5, <1>6, <1>7, <1>8 DEF Next, Customer, MainStep

\* The back end places lines that were submitted: all of them, unless a match failed
\* or the message was cut, and after a cut the first, of the last perhaps fewer units:
\* for any products, quantities, pages and faults.
THEOREM Placed == Spec => []PlacedAsSubmitted
<1>1. Init => PlacedInv
  BY DEF Init, PlacedInv
<1>2. PlacedInv => PlacedAsSubmitted
  BY DEF PlacedInv, PlacedFrom, PlacedAsSubmitted
<1> QED
  BY <1>1, <1>2, TypeInit, TypeStep, PlacedStep, PTL DEF Spec

-----------------------------------------------------------------------------
(* What is cleared was ordered: a reply "placed" that is under way, or was *)
(* read by a page that clears, is that of an order placed; and until the   *)
(* cart changes under it, the form of a page has the units of the cart,    *)
(* where they were not edited.                                             *)

Orders(t)  == pc[t] \in {"form", "clear"} \/ clears[t]
ClearInv   == \A t \in Tabs :
                /\ clears[t] => pc[t] = "wait"
                /\ (pc[t] = "wait" /\ wire[t] = "placed") \/ pc[t] = "clear" => placed[t] # NoOrder
FormInv(t) == /\ pc[t] = "form" => edited[t] = {}
              /\ t \notin disturbed /\ Orders(t) =>
                   \A p \in Products \ (overlapped \cup edited[t]) : form[t][p] = UnitsOf(rows, p)

\* Nothing that a page knows of its order changes.
LEMMA ClearSame ==
  ASSUME ClearInv, UNCHANGED <<wire, placed, clears>>,
         \A t \in Tabs : /\ pc[t] = "wait" <=> pc'[t] = "wait"
                         /\ pc'[t] = "clear" => pc[t] = "clear"
  PROVE  ClearInv'
BY DEF ClearInv

\* A page that sends an order waits, and nothing was told or placed yet.
LEMMA ClearSent ==
  ASSUME TypeOK, AnswerInv, ClearInv, NEW t \in Tabs, NEW f, NEW clear \in BOOLEAN,
         try_place_order(t, f, clear), pc[t] # "wait"
  PROVE  ClearInv'
<1>1. \A u \in Tabs : u # t => /\ pc'[u] = pc[u] /\ wire'[u] = wire[u] /\ placed'[u] = placed[u]
                               /\ clears'[u] = clears[u]
  BY DEF try_place_order, Goto, AnswerInv, TypeOK
<1>2. wire'[t] = "silent" /\ pc'[t] \in {"wait", "idle"}
  BY DEF try_place_order, Goto, AnswerInv, PageTruth, TypeOK
<1>3. clears'[t] => pc'[t] = "wait"
  <2>1. ~clears[t]
    BY DEF ClearInv
  <2> QED BY <2>1 DEF try_place_order, Goto, TypeOK
<1> QED BY <1>1, <1>2, <1>3 DEF ClearInv

\* Every step keeps ClearInv: only a page that was told of success clears.
LEMMA ClearStep == TypeOK /\ ReadInv /\ AnswerInv /\ ClearInv /\ [Next]_vars => ClearInv'
<1> SUFFICES ASSUME TypeOK, ReadInv, AnswerInv, ClearInv, [Next]_vars PROVE ClearInv'
  OBVIOUS
<1>1. ASSUME NEW t \in Tabs, NEW f, AddToCart(t, f) PROVE ClearInv'
  BY <1>1, ClearSame DEF AddToCart, OpenPage, Goto, TypeOK
<1>2. ASSUME NEW t \in Tabs, NEW f, OrderFromMall(t, f) PROVE ClearInv'
  BY <1>2, ClearSent DEF OrderFromMall, OpenPage
<1>3. ASSUME NEW t \in Tabs, NEW f, SubmitOrder(t, f) PROVE ClearInv'
  BY <1>3, ClearSent DEF SubmitOrder
<1>4. ASSUME NEW t \in Tabs, ShowCart(t) PROVE ClearInv'
  <2>1. \A u \in Tabs : u # t => pc'[u] = pc[u] /\ placed'[u] = placed[u]
    BY <1>4 DEF ShowCart, Goto, AnswerInv, TypeOK
  <2>2. pc[t] = "idle" /\ pc'[t] = "form" /\ UNCHANGED <<wire, clears>>
    BY <1>4 DEF ShowCart, OpenPage, Goto, TypeOK
  <2> QED BY <2>1, <2>2 DEF ClearInv
<1>5. ASSUME NEW t \in Tabs, Get(t) \/ Update(t) \/ Insert(t) \/ ClearOrdered(t) PROVE ClearInv'
  <2>1. pc[t] # "wait" /\ \E l \in {"get", "insert", "update", "idle"} : Goto(t, l)
    BY <1>5 DEF Get, Update, Insert, Saved, NextLine, ClearOrdered
  <2>2. UNCHANGED <<wire, placed, clears>>
    BY <1>5 DEF Get, Update, Insert, ClearOrdered
  <2> QED BY <2>1, <2>2, ClearSame DEF Goto, TypeOK
<1>6. ASSUME NEW t \in Tabs, Receive(t) PROVE ClearInv'
  <2>1. /\ \A u \in Tabs : u # t => pc'[u] = pc[u] /\ wire'[u] = wire[u] /\ clears'[u] = clears[u]
        /\ pc[t] = "wait" /\ pc'[t] = AfterFeedback(t) /\ ~clears'[t] /\ placed' = placed
    BY <1>6 DEF Receive, Close, Goto, TypeOK
  <2>2. pc'[t] # "wait" /\ (pc'[t] = "clear" => placed'[t] # NoOrder)
    BY <2>1 DEF AfterFeedback, Success, ClearInv
  <2> QED BY <2>1, <2>2 DEF ClearInv
<1>11. ASSUME NEW t \in Tabs, ConnectionBreaks(t) PROVE ClearInv'
  <2>1. /\ \A u \in Tabs : u # t => pc'[u] = pc[u] /\ wire'[u] = wire[u] /\ clears'[u] = clears[u]
        /\ pc'[t] = "idle" /\ ~clears'[t] /\ placed' = placed
    BY <1>11 DEF ConnectionBreaks, Close, Goto, TypeOK
  <2> QED BY <2>1 DEF ClearInv
<1>7. CASE (\E p \in Products : Cancel(p)) \/ ClearCart
  <2>1. UNCHANGED <<pc, wire, placed, clears>>
    BY <1>7 DEF Cancel, ClearCart
  <2> QED BY <2>1, ClearSame
<1>8. CASE Accept
  <2>1. PICK t \in Tabs : t = Head(backlog) /\ \E text : handleOrder(t, text)
    BY <1>8 DEF Accept, TypeOK
  <2>2. PICK text : handleOrder(t, text)
    BY <2>1
  <2>3. wire[t] = "silent" /\ pc[t] # "clear"
    <3>1. 1 \in DOMAIN backlog /\ backlog[1] = t
      BY <1>8, <2>1 DEF Accept, TypeOK
    <3> QED BY <3>1 DEF AnswerInv, BacklogInv, Queued, Gone
  <2>4. /\ \A u \in Tabs : u # t => wire'[u] = wire[u] /\ placed'[u] = placed[u]
        /\ wire'[t] # "placed" /\ UNCHANGED <<pc, clears>>
    <3>1. UNCHANGED <<pc, clears>>
      BY <1>8 DEF Accept
    <3>2. DOMAIN placed = Tabs /\ DOMAIN wire = Tabs
      BY DEF AnswerInv, TypeOK
    <3>3. \A u \in Tabs : u # t => wire'[u] = wire[u] /\ placed'[u] = placed[u]
      BY <2>2, <3>2 DEF handleOrder, End
    <3>4. wire'[t] # "placed"
      BY <2>2, <2>3, <3>2 DEF handleOrder, End
    <3> QED BY <3>1, <3>3, <3>4
  <2> QED BY <2>3, <2>4 DEF ClearInv
<1>9. ASSUME NEW k \in 1 .. ReplySize, sendAllData(k) PROVE ClearInv'
  <2>1. main = "send" /\ UNCHANGED <<pc, clears, placed>>
    BY <1>9 DEF sendAllData
  <2>2. CASE client = NoTab
    <3>1. wire' = wire
      BY <1>9, <2>2 DEF sendAllData
    <3> QED BY <2>1, <3>1, ClearSame
  <2>3. CASE client # NoTab
    <3>1. client \in Tabs /\ wire' = [wire EXCEPT ![client] = Received(numBytes + k)]
      BY <1>9, <2>3 DEF sendAllData, TypeOK
    <3>2. \A u \in Tabs : u # client => wire'[u] = wire[u]
      BY <3>1 DEF TypeOK
    <3>3. wire'[client] = "placed" => msg = "placed"
      BY <3>1 DEF Received, TypeOK
    <3>4. pc[client] = "wait" /\ (msg = "placed" => placed[client] # NoOrder)
      BY <2>1, <2>3 DEF AnswerInv, ServedInv
    <3> QED BY <2>1, <3>1, <3>2, <3>3, <3>4 DEF ClearInv
  <2> QED BY <2>2, <2>3
<1>10. CASE AcceptBind \/ Bound \/ Purchased \/ SendFails \/ OverrunFails \/ Fulfilled
            \/ UNCHANGED vars
  <2>1. UNCHANGED <<pc, wire, placed, clears>>
    BY <1>10 DEF AcceptBind, Bound, Purchased, SendFails, OverrunFails, Fulfilled, vars
  <2> QED BY <2>1, ClearSame
<1> QED
  BY <1>1, <1>2, <1>3, <1>4, <1>5, <1>6, <1>7, <1>8, <1>9, <1>10, <1>11
     DEF Next, TabStep, Customer, MainStep, SendStep

\* A statement changes the cart: every other page with a form notices.
LEMMA FormChange ==
  ASSUME TypeOK, NEW t, NEW P, Change(t, P), UNCHANGED <<form, edited>>, \A u \in Tabs : FormInv(u),
         \A u \in Tabs : /\ Orders(u)' => Orders(u) /\ u # t
                         /\ pc'[u] = "form" => pc[u] = "form",
         P = {} => rows' = rows
  PROVE  \A u \in Tabs : FormInv(u)'
<1> SUFFICES ASSUME NEW u \in Tabs PROVE FormInv(u)'
  OBVIOUS
<1>1. /\ overlapped \subseteq overlapped' /\ (u \in disturbed => u \in disturbed')
      /\ pc'[u] = "form" => edited'[u] = {}
  BY DEF Change, FormInv
<1>2. CASE P = {}
  BY <1>1, <1>2 DEF FormInv
<1>3. CASE P # {} /\ Orders(u)'
  <2>1. u \in disturbed'
    BY <1>3 DEF Change, Orders
  <2> QED BY <1>1, <2>1 DEF FormInv
<1>4. CASE ~Orders(u)'
  BY <1>1, <1>4 DEF FormInv
<1> QED BY <1>2, <1>3, <1>4

\* Every step keeps the form within the rows, or the tab is disturbed.
LEMMA FormStep ==
  TypeOK /\ RowInv /\ ClearInv /\ (\A t \in Tabs : FormInv(t)) /\ [Next]_vars
    => \A t \in Tabs : FormInv(t)'
<1> SUFFICES ASSUME TypeOK, RowInv, ClearInv, \A t \in Tabs : FormInv(t), [Next]_vars
             PROVE  \A t \in Tabs : FormInv(t)'
  OBVIOUS
<1>0. ASSUME UNCHANGED <<rows, overlapped, disturbed, form, edited>>,
             \A u \in Tabs : /\ Orders(u)' => Orders(u)
                             /\ pc'[u] = "form" => pc[u] = "form"
      PROVE  \A u \in Tabs : FormInv(u)'
  BY <1>0 DEF FormInv
<1>1. ASSUME NEW t \in Tabs, NEW f, AddToCart(t, f) PROVE \A u \in Tabs : FormInv(u)'
  BY <1>0, <1>1 DEF AddToCart, Goto, Orders, TypeOK
<1>20. ASSUME NEW t \in Tabs, NEW f, NEW clear, try_place_order(t, f, clear)
       PROVE  /\ \A u \in Tabs : u # t => /\ pc'[u] = pc[u] /\ clears'[u] = clears[u]
                                          /\ form'[u] = form[u] /\ edited'[u] = edited[u]
              /\ pc'[t] \in {"wait", "idle"}
              /\ form'[t] = f
              /\ edited'[t] = IF clear THEN {p \in Products : f[p] # form[t][p]} ELSE {}
              /\ clears'[t] \in {clear, clears[t]}
  BY <1>20 DEF try_place_order, Goto, TypeOK
<1>2. ASSUME NEW t \in Tabs, NEW f, OrderFromMall(t, f) PROVE \A u \in Tabs : FormInv(u)'
  <2>1. UNCHANGED <<rows, overlapped, disturbed>> /\ pc[t] = "idle" /\ try_place_order(t, f, FALSE)
    BY <1>2 DEF OrderFromMall, OpenPage
  <2>2. ~clears[t]
    BY <2>1 DEF ClearInv
  <2>3. ~Orders(t)' /\ pc'[t] # "form"
    BY <1>20, <2>1, <2>2 DEF Orders
  <2>4. ASSUME NEW u \in Tabs, u # t PROVE FormInv(u)'
    <3>0. \A v \in Tabs : v # t => /\ pc'[v] = pc[v] /\ clears'[v] = clears[v]
                                   /\ form'[v] = form[v] /\ edited'[v] = edited[v]
      BY <1>20, <2>1
    <3>1. /\ pc'[u] = pc[u] /\ clears'[u] = clears[u] /\ form'[u] = form[u] /\ edited'[u] = edited[u]
      BY <3>0, <2>4
    <3> QED BY <2>1, <3>1 DEF FormInv, Orders
  <2>5. FormInv(t)'
    BY <2>3 DEF FormInv
  <2> QED BY <2>4, <2>5
<1>3. ASSUME NEW t \in Tabs, NEW f, SubmitOrder(t, f) PROVE \A u \in Tabs : FormInv(u)'
  <2>1. UNCHANGED <<rows, overlapped, disturbed>> /\ pc[t] = "form" /\ try_place_order(t, f, TRUE)
    BY <1>3 DEF SubmitOrder
  <2>2. /\ form'[t] = f /\ edited'[t] = {p \in Products : f[p] # form[t][p]}
        /\ pc'[t] # "form"
    BY <1>20, <2>1
  <2>3. edited[t] = {} /\ Orders(t)
    BY <2>1 DEF FormInv, Orders
  <2>4. FormInv(t)'
    BY <2>1, <2>2, <2>3 DEF FormInv
  <2>5. ASSUME NEW u \in Tabs, u # t PROVE FormInv(u)'
    <3>0. \A v \in Tabs : v # t => /\ pc'[v] = pc[v] /\ clears'[v] = clears[v]
                                   /\ form'[v] = form[v] /\ edited'[v] = edited[v]
      BY <1>20, <2>1
    <3>1. /\ pc'[u] = pc[u] /\ clears'[u] = clears[u] /\ form'[u] = form[u] /\ edited'[u] = edited[u]
      BY <3>0, <2>5
    <3> QED BY <2>1, <3>1 DEF FormInv, Orders
  <2> QED BY <2>4, <2>5
<1>4. ASSUME NEW t \in Tabs, ShowCart(t) PROVE \A u \in Tabs : FormInv(u)'
  <2>1. PICK f \in Shown : form' = [form EXCEPT ![t] = f]
    BY <1>4 DEF ShowCart
  <2>2. /\ \A u \in Tabs : u # t => /\ pc'[u] = pc[u] /\ form'[u] = form[u] /\ edited'[u] = edited[u]
                                    /\ (u \in disturbed <=> u \in disturbed')
        /\ UNCHANGED <<rows, overlapped, clears>>
    BY <1>4, <2>1 DEF ShowCart, Goto, TypeOK
  <2>3. form'[t] = f /\ edited'[t] = {}
    BY <1>4, <2>1 DEF ShowCart, TypeOK
  <2>4. ASSUME NEW p \in Products, p \notin overlapped PROVE f[p] = UnitsOf(rows, p)
    <3>1. CASE Of(p) = {}
      BY <2>4, <3>1, InCartType DEF Shown
    <3>2. CASE Of(p) # {}
      <4>1. PICK r \in Of(p) : f[p] = r.quantity
        BY <3>2 DEF Shown
      <4>2. UnitsOf(rows, p) = r.quantity
        BY <2>4, InCartType
      <4> QED BY <4>1, <4>2
    <3> QED BY <3>1, <3>2
  <2>5. FormInv(t)'
    BY <2>2, <2>3, <2>4 DEF FormInv
  <2> QED BY <2>2, <2>5 DEF FormInv, Orders
<1>5. ASSUME NEW t \in Tabs, Get(t) PROVE \A u \in Tabs : FormInv(u)'
  <2>1. \E l \in {"insert", "update", "idle"} : Goto(t, l)
    BY <1>5 DEF Get
  <2>2. UNCHANGED <<rows, overlapped, disturbed, form, edited, clears>>
    BY <1>5 DEF Get
  <2> QED BY <1>0, <2>1, <2>2 DEF Goto, Orders, TypeOK
<1>6. ASSUME NEW t \in Tabs, Update(t) \/ Insert(t) PROVE \A u \in Tabs : FormInv(u)'
  <2>1. pc[t] \in {"update", "insert"} /\ UNCHANGED <<form, edited, clears>>
    BY <1>6 DEF Update, Insert
  <2>2. \E l \in {"insert", "get", "idle"} : Goto(t, l)
    BY <1>6 DEF Update, Insert, Saved, NextLine
  <2>3. \A u \in Tabs : /\ Orders(u)' => Orders(u) /\ u # t
                        /\ pc'[u] = "form" => pc[u] = "form"
    <3>1. ~clears[t]
      BY <2>1 DEF ClearInv
    <3> QED BY <2>1, <2>2, <3>1 DEF Goto, Orders, TypeOK
  <2>4. UNCHANGED <<rows, overlapped, disturbed>> \/ Change(t, {item[t].product})
    BY <1>6 DEF Update, Insert, Saved
  <2>5. CASE UNCHANGED <<rows, overlapped, disturbed>>
    BY <1>0, <2>1, <2>3, <2>5
  <2>6. CASE Change(t, {item[t].product})
    BY <2>1, <2>3, <2>6, FormChange
  <2> QED BY <2>4, <2>5, <2>6
<1>7. ASSUME NEW t, NEW P \in SUBSET Products, Delete(t, P), UNCHANGED <<form, edited>>,
             \A u \in Tabs : /\ Orders(u)' => Orders(u) /\ u # t
                             /\ pc'[u] = "form" => pc[u] = "form"
      PROVE  \A u \in Tabs : FormInv(u)'
  <2> DEFINE R == {p \in P : Of(p) # {}}
  <2>1. Change(t, R) /\ rows' = {r \in rows : r.product \notin P}
    BY <1>7 DEF Delete
  <2>2. R = {} => rows' = rows
    BY <2>1 DEF Of
  <2> HIDE DEF R
  <2> QED BY <1>7, <2>1, <2>2, FormChange
<1>8. ASSUME NEW p \in Products, Cancel(p) PROVE \A u \in Tabs : FormInv(u)'
  <2>1. {p} \in SUBSET Products /\ \A u \in Tabs : u # NoTab
    OBVIOUS
  <2> QED BY <1>7, <1>8, <2>1 DEF Cancel, Orders
<1>9. CASE ClearCart
  <2>1. Products \in SUBSET Products /\ \A u \in Tabs : u # NoTab
    OBVIOUS
  <2> QED BY <1>7, <1>9, <2>1 DEF ClearCart, Orders
<1>10. ASSUME NEW t \in Tabs, ClearOrdered(t) PROVE \A u \in Tabs : FormInv(u)'
  <2>1. Delete(t, Products) /\ UNCHANGED <<form, edited, clears>> /\ Goto(t, "idle") /\ pc[t] = "clear"
    BY <1>10 DEF ClearOrdered
  <2>2. \A u \in Tabs : /\ Orders(u)' => Orders(u) /\ u # t
                        /\ pc'[u] = "form" => pc[u] = "form"
    <3>1. ~clears[t]
      BY <2>1 DEF ClearInv
    <3> QED BY <2>1, <3>1 DEF Goto, Orders, TypeOK
  <2>3. Products \in SUBSET Products
    OBVIOUS
  <2> QED BY <1>7, <2>1, <2>2, <2>3
<1>11. ASSUME NEW t \in Tabs, Receive(t) \/ ConnectionBreaks(t) PROVE \A u \in Tabs : FormInv(u)'
  <2>1. UNCHANGED <<rows, overlapped, disturbed, form, edited>>
    BY <1>11 DEF Receive, ConnectionBreaks
  <2>2. \A u \in Tabs : /\ Orders(u)' => Orders(u)
                        /\ pc'[u] = "form" => pc[u] = "form"
    BY <1>11 DEF Receive, ConnectionBreaks, Close, AfterFeedback, Goto, Orders, TypeOK
  <2> QED BY <1>0, <2>1, <2>2
<1>12. CASE MainStep
  BY <1>0, <1>12, MainAlone DEF Orders
<1>13. CASE UNCHANGED vars
  BY <1>0, <1>13 DEF vars, Orders
<1> QED
  BY <1>1, <1>2, <1>3, <1>4, <1>5, <1>6, <1>8, <1>9, <1>10, <1>11, <1>12, <1>13
     DEF Next, TabStep, Customer

\* A page that clears the cart has had its order placed, and clears the units of lines
\* that were placed, unless another page changed the cart, the customer typed other
\* quantities, or the order was placed in part; for any number of pages.
THEOREM Cleared == Spec => ClearedWasOrdered
<1> DEFINE Safe == ClearInv /\ \A t \in Tabs : FormInv(t)
<1>1. Init => RowInv /\ AnswerInv /\ PlacedInv /\ Safe
  <2>1. Init => RowInv
    BY DEF Init, RowInv, NumberInv, ReadStillHolds, OneRowUnlessOverlapped, Known, Saves, Of
  <2>2. Init => AnswerInv
    BY DEF Init, AnswerInv, BacklogInv, ServedInv, PageTruth
  <2>3. Init => Safe
    BY DEF Init, ClearInv, FormInv, Orders
  <2>4. Init => PlacedInv
    BY DEF Init, PlacedInv
  <2> QED BY <2>1, <2>2, <2>3, <2>4
<1>2. TypeOK /\ ReadInv /\ RowInv /\ AnswerInv /\ Safe /\ [Next]_vars => Safe'
  BY ClearStep, FormStep
<1>3. TypeOK /\ PlacedInv /\ Safe /\ [Next]_vars =>
        [\A t \in Tabs : pc[t] = "clear" /\ pc'[t] = "idle" =>
           /\ placed[t] # NoOrder
           /\ t \notin disturbed \cup skipped \cup cut =>
                \A p \in Products \ (overlapped \cup edited[t]) : InCart(p) > 0 =>
                  \E i \in DOMAIN placed[t] :
                    placed[t][i] = [product |-> p, quantity |-> InCart(p)]]_vars
  <2> SUFFICES ASSUME TypeOK, PlacedInv, Safe, NEW t \in Tabs, pc[t] = "clear"
               PROVE  /\ placed[t] # NoOrder
                      /\ t \notin disturbed \cup skipped \cup cut =>
                           \A p \in Products \ (overlapped \cup edited[t]) : InCart(p) > 0 =>
                             \E i \in DOMAIN placed[t] :
                               placed[t][i] = [product |-> p, quantity |-> InCart(p)]
    OBVIOUS
  <2>1. \A p : InCart(p) = UnitsOf(rows, p)
    BY DEF InCart, Of, UnitsOf, RowsOf, Units
  <2>2. placed[t] # NoOrder
    BY DEF ClearInv
  <2>3. ASSUME t \notin disturbed, t \notin skipped, t \notin cut,
               NEW p \in Products, p \notin overlapped, p \notin edited[t], InCart(p) > 0
        PROVE  \E i \in DOMAIN placed[t] : placed[t][i] = [product |-> p, quantity |-> InCart(p)]
    <3>1. form[t][p] = InCart(p)
      BY <2>1, <2>3 DEF FormInv, Orders
    <3>2. form[t] \in [Products -> Nat]
      BY Typed
    <3>3. PICK i \in DOMAIN FormLines(form[t]) :
            FormLines(form[t])[i] = [product |-> p, quantity |-> form[t][p]]
      BY <2>3, <3>1, <3>2, FormLinesType
    <3>4. i \in DOMAIN placed[t] /\ placed[t][i] = FormLines(form[t])[i]
      BY <2>2, <2>3, <3>3 DEF PlacedInv, PlacedFrom
    <3> QED BY <3>1, <3>3, <3>4
  <2> QED BY <2>2, <2>3
<1> HIDE DEF Safe
<1> QED
  BY <1>1, <1>2, <1>3, TypeInit, TypeStep, RowStep, AnswerStep, PlacedStep, PTL
     DEF Spec, ClearedWasOrdered
=============================================================================
