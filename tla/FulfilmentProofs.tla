--------------------------- MODULE FulfilmentProofs ---------------------------
(***************************************************************************)
(* What the fulfilment promises. The server keeps the promise of           *)
(* Fulfilment while no statement is dropped, for any number of packages    *)
(* and warehouses: every step of its threads issues one command that is    *)
(* due, handles one response that was asked for, or changes neither. And   *)
(* the row of a package keeps up with the two threads that write it,       *)
(* however many statements were dropped for other packages.                *)
(***************************************************************************)
EXTENDS ShippingProofs, FiniteSetTheorems

USE MaxPackagesAssumption, MaxLostAssumption, WarehousesAssumption,
    NoPackageAssumption
    DEF Packages, Threads, Peers, NoThread

\* The commands issued are those received and those being retried: what is left in
\* a queue is a copy of one of them.
Got      == got["world"] \cup got["ups"]
Retrying == {t \in Threads : pc[t] \in CommandKinds}
Retried  == {CommandOf(t) : t \in Retrying}
QueueInv == Sent \subseteq Got \cup Retried

Received(kind, p) == \E c \in Got : c.kind = kind /\ c.ship = p

\* A pickup is asked for after a pack was received, ...
PackInv ==
  pc["main"] \in {"draw_pickup", "check_ups_id"} => Received("pack", ship["main"])

\* ... and a peer responds to what it has received.
Caused(r) == CASE r.kind = "ready"     -> Received("pack", r.ship)
               [] r.kind = "loaded"    -> Received("load", r.ship)
               [] r.kind = "truckArr"  -> Received("pickup", r.ship)
               [] r.kind = "delivered" -> Received("delivery", r.ship)
DeliveringInv ==
  \A p \in Packages :
    site["ups"][p] \in {"delivering", "delivered"} => Received("delivery", p)
CauseInv == /\ \A r \in batch["world"] \cup batch["ups"] : Caused(r)
            /\ DeliveringInv

PromiseInv == ReadyInv /\ lost = {} /\ QueueInv /\ PackInv /\ CauseInv

-----------------------------------------------------------------------------
(* The commands issued                                                     *)

LEMMA IssuedSets == QueueInv => AllCommands = Got \cup Retried
<1>1. UNION {send_queue[peer] \cup got[peer] : peer \in Peers} = Sent
  BY DEF Sent
<1>2. AllCommands = Sent \cup Retried
  BY <1>1 DEF AllCommands, Retried, Retrying
<1> QED
  BY <1>2 DEF QueueInv, Sent, Got

\* A thread that goes on as it is, ...
Same(t) == /\ pc[t] \in CommandKinds => UNCHANGED <<pc[t], ship[t], seq_num[t]>>
           /\ pc'[t] \in CommandKinds => pc[t] \in CommandKinds

LEMMA SameRetried ==
  ASSUME \A t \in Threads : Same(t) PROVE Retried' = Retried
<1>1. ASSUME NEW t \in Threads, pc[t] \in CommandKinds
      PROVE  pc'[t] \in CommandKinds /\ CommandOf(t)' = CommandOf(t)
  BY <1>1 DEF Same, CommandOf
<1>2. \A t \in Threads : t \in Retrying' <=> t \in Retrying
  BY <1>1 DEF Same, Retrying
<1> QED
  BY <1>1, <1>2 DEF Retried, Retrying

\* ... begins a command, ...
LEMMA BeginRetried ==
  ASSUME NEW a \in Threads, \A t \in Threads \ {a} : Same(t),
         pc[a] \notin CommandKinds, pc'[a] \in CommandKinds
  PROVE  Retried' = Retried \cup {CommandOf(a)'}
<1>1. ASSUME NEW t \in Threads, pc[t] \in CommandKinds
      PROVE  t # a /\ pc'[t] \in CommandKinds /\ CommandOf(t)' = CommandOf(t)
  BY <1>1 DEF Same, CommandOf
<1>2. \A t \in Threads : t \in Retrying' <=> t \in Retrying \/ t = a
  BY <1>1 DEF Same, Retrying
<1> QED
  BY <1>1, <1>2 DEF Retried, Retrying

\* ... or ends one.
LEMMA EndRetried ==
  ASSUME NEW a \in Threads, \A t \in Threads \ {a} : Same(t),
         pc[a] \in CommandKinds, pc'[a] \notin CommandKinds
  PROVE  Retried = Retried' \cup {CommandOf(a)}
<1>1. ASSUME NEW t \in Threads \ {a}, pc[t] \in CommandKinds
      PROVE  pc'[t] \in CommandKinds /\ CommandOf(t)' = CommandOf(t)
  BY <1>1 DEF Same, CommandOf
<1>2. \A t \in Threads : t \in Retrying <=> t \in Retrying' \/ t = a
  BY <1>1 DEF Same, Retrying
<1> QED
  BY <1>1, <1>2 DEF Retried, Retrying

\* The points at which a command is issued.
Issues(a, kind) ==
  /\ a = Sender(kind)
  /\ pc[a] = CASE kind = "pack"     -> "send_pack"
               [] kind = "pickup"   -> "check_ups_id"
               [] kind = "delivery" -> "send_delivery"
               [] kind = "load"     -> "send_load"
  /\ pc'[a] = kind /\ ship'[a] = ship[a]
  /\ Got' \cup Retried' = Got \cup Retried \cup {CommandOf(a)'}

Issued == Got \cup Retried

\* One step of the commands: nothing is issued, or one command.
CommandStep ==
  /\ Got \subseteq Got'
  /\ Sent' \subseteq Sent \cup Issued'
  /\ \/ Issued' = Issued
     \/ \E a \in Threads, kind \in CommandKinds : Issues(a, kind)

LEMMA NothingIssued ==
  ASSUME TypeOK, \A t \in Threads : Same(t), UNCHANGED got,
         \A c \in Sent' : c \in Sent \/ c \in Retried
  PROVE  CommandStep
<1>1. Retried' = Retried /\ Got' = Got
  BY SameRetried DEF Got
<1> QED
  BY <1>1 DEF CommandStep, Issued

LEMMA OneIssued ==
  ASSUME TypeOK, NEW a \in Threads, NEW kind \in CommandKinds, a = Sender(kind),
         pc[a] = CASE kind = "pack"     -> "send_pack"
                   [] kind = "pickup"   -> "check_ups_id"
                   [] kind = "delivery" -> "send_delivery"
                   [] kind = "load"     -> "send_load",
         pc' = [pc EXCEPT ![a] = kind], UNCHANGED <<ship, got>>,
         \A t \in Threads \ {a} : seq_num'[t] = seq_num[t],
         Push([kind |-> kind, ship |-> ship[a], seq |-> seq_num'[a]])
  PROVE  CommandStep
<1>1. pc[a] \notin CommandKinds /\ pc'[a] = kind
  BY DEF CommandKinds, TypeOK
<1>2. \A t \in Threads \ {a} : Same(t)
  BY DEF Same, TypeOK
<1>3. Retried' = Retried \cup {CommandOf(a)'} /\ Got' = Got
  BY <1>1, <1>2, BeginRetried DEF Got
<1>4. CommandOf(a)' = [kind |-> kind, ship |-> ship[a], seq |-> seq_num'[a]]
  BY <1>1 DEF CommandOf
<1>5. \A c \in Sent' : c \in Sent \/ c = CommandOf(a)'
  BY <1>4, SentPush
<1>6. Issues(a, kind)
  BY <1>1, <1>3 DEF Issues
<1> QED
  BY <1>3, <1>5, <1>6 DEF CommandStep, Issued

LEMMA OneAcknowledged ==
  ASSUME IInv, NEW a \in Threads, pc[a] \in CommandKinds, seq_num[a] \in global_finished,
         NEW label, label \notin CommandKinds, pc' = [pc EXCEPT ![a] = label],
         \A t \in Threads \ {a} : ship'[t] = ship[t] /\ seq_num'[t] = seq_num[t],
         UNCHANGED <<got, send_queue>>
  PROVE  CommandStep
<1>1. CommandOf(a) \in Got
  BY AckIsOwn DEF AckMeansReceived, Got, PeerOf
<1>2. pc'[a] \notin CommandKinds /\ (\A t \in Threads \ {a} : Same(t))
  BY DEF Same, IInv, TypeOK
<1>3. Retried = Retried' \cup {CommandOf(a)} /\ Got' = Got
  BY <1>2, EndRetried DEF Got
<1> QED
  BY <1>1, <1>3 DEF CommandStep, Issued, Sent

\* The label of a thread alone decides while it has no command.
LEMMA Elsewhere ==
  ASSUME TypeOK, NEW a \in Threads, pc[a] \notin CommandKinds, pc'[a] \notin CommandKinds,
         \A t \in Threads \ {a} : UNCHANGED <<pc[t], ship[t], seq_num[t]>>,
         UNCHANGED <<got, send_queue>>
  PROVE  CommandStep
<1>1. \A t \in Threads : Same(t)
  BY DEF Same
<1> QED
  BY <1>1, NothingIssued DEF Sent

LEMMA CommandsStep == JInv /\ QueueInv /\ [Next]_vars => CommandStep
<1> SUFFICES ASSUME JInv, QueueInv, [Next]_vars PROVE CommandStep
  OBVIOUS
<1>0. IInv /\ TypeOK
  BY DEF JInv, IInv
<1>1. ASSUME UNCHANGED threadVars, UNCHANGED got, \A c \in Sent' : c \in Sent \/ c \in Retried
      PROVE  CommandStep
  BY <1>0, <1>1, NothingIssued DEF Same, threadVars
<1>2. ASSUME NEW t \in Threads, BeginWork(t) PROVE CommandStep
  BY <1>1, <1>2 DEF BeginWork, threadVars, Sent
<1>3. ASSUME NEW t \in Threads, PushAgain(t) PROVE CommandStep
  <2>1. UNCHANGED threadVars /\ UNCHANGED got /\ Push(CommandOf(t)) /\ CommandOf(t) \in Retried
    BY <1>3 DEF PushAgain, peerVars, Retried, Retrying
  <2>2. \A c \in Sent' : c \in Sent \/ c = CommandOf(t)
    BY <1>0, <2>1, SentPush
  <2> QED
    BY <1>1, <2>1, <2>2
<1>4. CASE PlaceOrder \/ InsertPackage \/ InsertOrder \/ DrawPickup
  <2>1. pc["main"] \notin CommandKinds /\ pc'["main"] \notin CommandKinds
    BY <1>0, <1>4 DEF PlaceOrder, InsertPackage, InsertOrder, DrawPickup, Goto, TypeOK,
       CommandKinds
  <2>2. \A t \in Threads \ {"main"} : UNCHANGED <<pc[t], ship[t], seq_num[t]>>
    BY <1>0, <1>4 DEF PlaceOrder, InsertPackage, InsertOrder, DrawPickup, Goto, TypeOK,
       getSeqNum
  <2>3. UNCHANGED <<got, send_queue>>
    BY <1>4 DEF PlaceOrder, InsertPackage, InsertOrder, DrawPickup, peerVars
  <2> QED
    BY <1>0, <2>1, <2>2, <2>3, Elsewhere
<1>5. CASE SendToWorldPack
  BY <1>0, <1>5, OneIssued DEF SendToWorldPack, StartSending, getSeqNum, Goto, TypeOK,
     peerVars, CommandKinds, Sender
<1>6. CASE PackAcknowledged
  BY <1>0, <1>6, OneAcknowledged DEF PackAcknowledged, Acknowledged, Goto, TypeOK, peerVars,
     CommandKinds
<1>7. CASE SendToUPSPack
  BY <1>0, <1>7, OneIssued DEF SendToUPSPack, Goto, TypeOK, peerVars, CommandKinds, Sender
<1>8. CASE PickupAcknowledged
  BY <1>0, <1>8, OneAcknowledged DEF PickupAcknowledged, Acknowledged, Goto, Return, TypeOK,
     peerVars, CommandKinds
<1>9. ASSUME NEW peer \in Peers, NEW r \in Responses, Dispatch(peer, r) PROVE CommandStep
  <2>1. pc[peer] \notin CommandKinds /\ pc'[peer] \notin CommandKinds
    BY <1>0, <1>9 DEF Dispatch, Goto, TypeOK, CommandKinds, Handler, Responses
  <2>2. \A t \in Threads \ {peer} : UNCHANGED <<pc[t], ship[t], seq_num[t]>>
    BY <1>0, <1>9 DEF Dispatch, Goto, TypeOK
  <2>3. UNCHANGED <<got, send_queue>>
    BY <1>9 DEF Dispatch, peerVars
  <2> QED
    BY <1>0, <2>1, <2>2, <2>3, Elsewhere
<1>10. ASSUME NEW peer \in Peers, FinishHandler(peer) PROVE CommandStep
  <2>1. pc[peer] \notin CommandKinds /\ pc'[peer] \notin CommandKinds
    BY <1>0, <1>10 DEF FinishHandler, Return, Goto, TypeOK, CommandKinds, LastStatements
  <2>2. \A t \in Threads \ {peer} : UNCHANGED <<pc[t], ship[t], seq_num[t]>>
    BY <1>0, <1>10 DEF FinishHandler, Return, Goto, TypeOK
  <2>3. UNCHANGED <<got, send_queue>>
    BY <1>10 DEF FinishHandler, peerVars
  <2> QED
    BY <1>0, <2>1, <2>2, <2>3, Elsewhere
<1>11. CASE SetLoadeded
  <2>1. pc["world"] \notin CommandKinds /\ pc'["world"] \notin CommandKinds
    BY <1>0, <1>11 DEF SetLoadeded, Goto, TypeOK, CommandKinds
  <2>2. \A t \in Threads \ {"world"} : UNCHANGED <<pc[t], ship[t], seq_num[t]>>
    BY <1>0, <1>11 DEF SetLoadeded, Goto, TypeOK
  <2> QED
    BY <1>0, <1>11, <2>1, <2>2, Elsewhere DEF SetLoadeded, peerVars
<1>12. CASE SendUPSReqDelivery
  BY <1>0, <1>12, OneIssued DEF SendUPSReqDelivery, StartSending, getSeqNum, Goto, TypeOK,
     peerVars, CommandKinds, Sender
<1>13. CASE DeliveryAcknowledged
  BY <1>0, <1>13, OneAcknowledged DEF DeliveryAcknowledged, Acknowledged, Goto, TypeOK,
     peerVars, CommandKinds
<1>14. CASE CheckPackageIsPacked
  <2>1. pc["ups"] \notin CommandKinds /\ pc'["ups"] \notin CommandKinds
    BY <1>0, <1>14 DEF CheckPackageIsPacked, Goto, TypeOK, CommandKinds
  <2>2. \A t \in Threads \ {"ups"} : UNCHANGED <<pc[t], ship[t], seq_num[t]>>
    BY <1>0, <1>14 DEF CheckPackageIsPacked, Goto, TypeOK
  <2> QED
    BY <1>0, <1>14, <2>1, <2>2, Elsewhere DEF CheckPackageIsPacked, peerVars
<1>15. CASE SendLoad
  BY <1>0, <1>15, OneIssued DEF SendLoad, StartSending, getSeqNum, Goto, TypeOK,
     peerVars, CommandKinds, Sender
<1>16. CASE LoadAcknowledged
  BY <1>0, <1>16, OneAcknowledged DEF LoadAcknowledged, Acknowledged, Goto, TypeOK,
     peerVars, CommandKinds
<1>17. ASSUME NEW peer \in Peers, NEW c \in send_queue[peer], SendMsgTo(peer, c)
       PROVE  CommandStep
  <2>1. \A t \in Threads : Same(t)
    BY <1>17 DEF SendMsgTo, threadVars, Same
  <2>2. Retried' = Retried
    BY <2>1, SameRetried
  <2>3. c \in Got \cup Retried
    BY DEF QueueInv, Sent
  <2>4. Got' = Got \/ Got' = Got \cup {c}
    BY <1>0, <1>17 DEF SendMsgTo, Deliver, Got, TypeOK, peerVars
  <2>5. Sent' \subseteq Sent
    BY <1>0, <1>17 DEF SendMsgTo, Deliver, Sent, TypeOK, peerVars
  <2> QED
    BY <2>2, <2>3, <2>4, <2>5 DEF CommandStep, Issued
<1>18. ASSUME NEW peer \in Peers, Receive(peer) PROVE CommandStep
  BY <1>1, <1>18 DEF Receive, Handle, peerVars, threadVars, Sent
<1>19. ASSUME NEW peer \in Peers, NEW p \in Packages, Progress(peer, p) PROVE CommandStep
  BY <1>1, <1>19 DEF Progress, threadVars, Sent
<1>20. CASE UNCHANGED vars
  BY <1>1, <1>20 DEF vars, threadVars, Sent
<1> QED
  BY <1>2, <1>3, <1>4, <1>5, <1>6, <1>7, <1>8, <1>9, <1>10, <1>11, <1>12, <1>13, <1>14,
     <1>15, <1>16, <1>17, <1>18, <1>19, <1>20
     DEF Next, MainStep, OrderStep, WorldStep, UPSStep, ReceiverStep, SendStep

LEMMA QueueStep == JInv /\ QueueInv /\ [Next]_vars => QueueInv'
<1> SUFFICES ASSUME JInv, QueueInv, [Next]_vars PROVE QueueInv'
  OBVIOUS
<1>1. CommandStep
  BY CommandsStep
<1>2. Issued \subseteq Issued'
  BY <1>1 DEF CommandStep, Issues, Issued
<1> QED
  BY <1>1, <1>2 DEF CommandStep, QueueInv, Issued

-----------------------------------------------------------------------------
(* What holds along the way                                                *)

LEMMA NeverLost == MaxLost = 0 /\ lost = {} /\ [Next]_vars => lost' = {}
<1>1. Cardinality({}) = 0
  BY FS_EmptySet
<1>2. [Next]_vars => (lost' = lost \/ Cardinality(lost) < MaxLost)
  BY DEF Next, vars, PlaceOrder, MainStep, OrderStep, InsertPackage, InsertOrder,
         SendToWorldPack, PackAcknowledged, DrawPickup, SendToUPSPack,
         PickupAcknowledged, WorldStep, UPSStep, ReceiverStep, BeginWork, PushAgain,
         FinishHandler, Dispatch, SetLoadeded, SendUPSReqDelivery,
         DeliveryAcknowledged, CheckPackageIsPacked, SendLoad, LoadAcknowledged,
         SendStep, SendMsgTo, Receive, Handle, Progress, executeSQL, dbVars
<1>3. MaxLost = 0 /\ lost = {} => ~(Cardinality(lost) < MaxLost)
  BY <1>1
<1> QED
  BY <1>2, <1>3

LEMMA ReceivedStays ==
  ASSUME Got \subseteq Got' PROVE \A kind, p : Received(kind, p) => Received(kind, p)'
  BY DEF Received

LEMMA CausedStays ==
  ASSUME Got \subseteq Got', NEW r \in Responses, Caused(r) PROVE Caused(r)'
  BY ReceivedStays DEF Caused, Responses

LEMMA PackStep == JInv /\ QueueInv /\ PackInv /\ [Next]_vars => PackInv'
<1> SUFFICES ASSUME JInv, QueueInv, PackInv, [Next]_vars PROVE PackInv'
  OBVIOUS
<1>0. IInv /\ TypeOK /\ LabelInv /\ Got \subseteq Got'
  BY CommandsStep DEF JInv, IInv, CommandInv, CommandStep
<1>1. CASE pc'["main"] \notin {"draw_pickup", "check_ups_id"}
  BY <1>1 DEF PackInv
<1>2. ASSUME pc["main"] \in {"draw_pickup", "check_ups_id"}, ship'["main"] = ship["main"]
      PROVE  PackInv'
  <2>1. Received("pack", ship["main"])
    BY <1>2 DEF PackInv
  <2> QED
    BY <1>0, <1>2, <2>1 DEF PackInv, Received
<1>3. CASE PackAcknowledged
  <2>1. CommandOf("main") \in Got /\ CommandOf("main").kind = "pack"
    BY <1>0, <1>3, AckIsOwn DEF AckMeansReceived, PackAcknowledged, Acknowledged, Got, PeerOf,
       CommandKinds, CommandOf
  <2>2. Received("pack", ship["main"]) /\ ship'["main"] = ship["main"]
    BY <1>3, <2>1 DEF Received, CommandOf, PackAcknowledged
  <2> QED
    BY <1>0, <2>2 DEF PackInv, Received
<1>4. CASE DrawPickup
  BY <1>0, <1>2, <1>4 DEF DrawPickup
<1>5. CASE PlaceOrder \/ InsertPackage \/ InsertOrder \/ SendToWorldPack \/ SendToUPSPack
           \/ PickupAcknowledged
  BY <1>0, <1>1, <1>5 DEF PlaceOrder, InsertPackage, InsertOrder, SendToWorldPack,
     SendToUPSPack, PickupAcknowledged, StartSending, Goto, Return, TypeOK
<1>6. ASSUME pc'["main"] = pc["main"], ship'["main"] = ship["main"] PROVE PackInv'
  BY <1>1, <1>2, <1>6
<1>7. ASSUME NEW t \in Threads, BeginWork(t) \/ PushAgain(t) PROVE PackInv'
  BY <1>6, <1>7 DEF BeginWork, PushAgain, threadVars
<1>8. ASSUME NEW peer \in Peers, FinishHandler(peer) PROVE PackInv'
  BY <1>0, <1>6, <1>8 DEF FinishHandler, Return, Goto, TypeOK
<1>9. ASSUME NEW peer \in Peers, NEW r \in Responses, Dispatch(peer, r) PROVE PackInv'
  BY <1>0, <1>6, <1>9 DEF Dispatch, Goto, TypeOK
<1>10. CASE SetLoadeded \/ SendUPSReqDelivery \/ DeliveryAcknowledged
  BY <1>0, <1>6, <1>10 DEF SetLoadeded, SendUPSReqDelivery, DeliveryAcknowledged, Goto,
     StartSending, TypeOK
<1>11. CASE CheckPackageIsPacked \/ SendLoad \/ LoadAcknowledged
  BY <1>0, <1>6, <1>11 DEF CheckPackageIsPacked, SendLoad, LoadAcknowledged, Goto,
     StartSending, TypeOK
<1>12. CASE UNCHANGED threadVars
  BY <1>6, <1>12 DEF threadVars
<1> QED
  BY <1>3, <1>4, <1>5, <1>7, <1>8, <1>9, <1>10, <1>11, <1>12
     DEF Next, MainStep, OrderStep, WorldStep, UPSStep, ReceiverStep, SendStep, SendMsgTo,
         Receive, Handle, Progress, threadVars, vars

LEMMA CauseStep ==
  ReadyInv /\ QueueInv /\ CauseInv /\ [Next]_vars => CauseInv'
<1> SUFFICES ASSUME ReadyInv, QueueInv, CauseInv, [Next]_vars PROVE CauseInv'
  OBVIOUS
<1>0. /\ TypeOK /\ IInv /\ JInv /\ PickupInv /\ ResponseInv
      /\ Got \subseteq Got'
  BY CommandsStep DEF ReadyInv, JInv, IInv, CommandInv, CommandStep
<1>1. ASSUME \A r \in batch'["world"] \cup batch'["ups"] :
               r \in batch["world"] \cup batch["ups"] \/ Caused(r),
             \A p \in Packages : site'["ups"][p] \in {"delivering", "delivered"} =>
               site["ups"][p] \in {"delivering", "delivered"} \/ Received("delivery", p)'
      PROVE  CauseInv'
  <2>1. \A r \in batch'["world"] \cup batch'["ups"] : Caused(r)'
    <3>1. \A r \in batch'["world"] \cup batch'["ups"] : r \in Responses
      BY TypeStep, <1>0 DEF TypeOK, IInv
    <3> QED
      BY <1>0, <1>1, <3>1, CausedStays DEF CauseInv
  <2>2. DeliveringInv'
    BY <1>0, <1>1 DEF CauseInv, DeliveringInv, Received
  <2> QED
    BY <2>1, <2>2 DEF CauseInv, Caused, Received
<1>2. ASSUME NEW peer \in Peers, Receive(peer) PROVE CauseInv'
  <2>1. PICK acks \in SUBSET NewAcks(peer), items \in SUBSET Emitted(peer) :
          Handle(peer, acks, items)
    BY <1>2 DEF Receive
  <2>2. /\ batch' = [batch EXCEPT ![peer] = items] /\ UNCHANGED site
        /\ peer = "world" => InOrder(acks, items)
    BY <2>1 DEF Handle, peerVars
  <2>3. ASSUME NEW r \in items PROVE Caused(r)
    <3>1. r \in Responses
      BY EmittedTypes
    <3>2. CASE peer = "world"
      <4>1. r.kind \in {"ready", "loaded"}
        BY <3>2 DEF Emitted, Resp
      <4>2. \E c \in Got : c.kind = CausedBy(r.kind) /\ c.ship = r.ship
        BY <2>2, <3>2 DEF InOrder, Got
      <4> QED
        BY <4>1, <4>2 DEF Caused, CausedBy, Received
    <3>3. CASE peer = "ups"
      <4>1. \/ /\ r.kind = "truckArr" /\ r.ship \in Packages
               /\ site["ups"][r.ship] # "none"
            \/ /\ r.kind = "delivered" /\ r.ship \in Packages
               /\ site["ups"][r.ship] = "delivered"
        BY <3>3 DEF Emitted, Resp
      <4>2. r.kind = "truckArr" => Received("pickup", r.ship)
        BY <1>0, <4>1 DEF PickupInv, Asked, Received, Got
      <4>3. r.kind = "delivered" => Received("delivery", r.ship)
        BY <4>1 DEF CauseInv, DeliveringInv
      <4> QED
        BY <4>1, <4>2, <4>3 DEF Caused
    <3> QED
      BY <3>2, <3>3
  <2>4. batch'["world"] \cup batch'["ups"] \subseteq batch["world"] \cup batch["ups"] \cup items
    BY <1>0, <2>2 DEF TypeOK
  <2> QED
    BY <1>1, <2>2, <2>3, <2>4
<1>3. ASSUME NEW peer \in Peers, NEW r \in Responses, Dispatch(peer, r) PROVE CauseInv'
  <2>1. batch'["world"] \cup batch'["ups"] \subseteq batch["world"] \cup batch["ups"]
    BY <1>0, <1>3 DEF Dispatch, TypeOK
  <2> QED
    BY <1>1, <1>3, <2>1 DEF Dispatch, peerVars
<1>4. ASSUME NEW peer \in Peers, NEW c \in send_queue[peer], SendMsgTo(peer, c)
      PROVE  CauseInv'
  <2>1. batch' = batch
    BY <1>4 DEF SendMsgTo, recvVars
  <2>2. CASE UNCHANGED site
    BY <1>1, <2>1, <2>2
  <2>3. CASE Deliver(peer, c)
    <3>1. c.ship \in Packages /\ c.kind \in CommandKinds
      BY <1>0 DEF TypeOK, Commands
    <3>2. ASSUME NEW p \in Packages, site'["ups"][p] \in {"delivering", "delivered"},
                 site["ups"][p] \notin {"delivering", "delivered"}
          PROVE  Received("delivery", p)'
      <4>1. /\ peer = "ups" /\ p = c.ship
            /\ Started(site["ups"][p], c.kind) \in {"delivering", "delivered"}
        <5>1. CASE peer = "ups"
          BY <1>0, <2>3, <3>1, <3>2, <5>1 DEF Deliver, TypeOK
        <5>2. CASE peer = "world"
          <6>1. site'["ups"] = site["ups"]
            BY <1>0, <2>3, <5>2 DEF Deliver, TypeOK
          <6> QED
            BY <3>2, <6>1
        <5> QED
          BY <5>1, <5>2
      <4>2. c.kind = "delivery"
        BY <3>1, <3>2, <4>1 DEF Started, CommandKinds
      <4>3. c \in Got'
        BY <1>0, <2>3, <4>1 DEF Deliver, TypeOK, Got
      <4> QED
        BY <4>1, <4>2, <4>3 DEF Received
    <3> QED
      BY <1>1, <2>1, <3>2
  <2> QED
    BY <1>4, <2>2, <2>3 DEF SendMsgTo, peerVars
<1>5. ASSUME NEW peer \in Peers, NEW p \in Packages, Progress(peer, p) PROVE CauseInv'
  <2>1. /\ \A q \in Packages : site'["ups"][q] \in {"delivering", "delivered"} =>
             site["ups"][q] \in {"delivering", "delivered"}
        /\ UNCHANGED batch
    BY <1>0, <1>5 DEF Progress, TypeOK, recvVars
  <2> QED
    BY <1>1, <2>1
<1>6. CASE UNCHANGED <<batch, site>>
  BY <1>1, <1>6
<1> QED
  BY <1>2, <1>3, <1>4, <1>5, <1>6
     DEF Next, vars, PlaceOrder, MainStep, OrderStep, InsertPackage, InsertOrder,
         SendToWorldPack, PackAcknowledged, DrawPickup, SendToUPSPack,
         PickupAcknowledged, WorldStep, UPSStep, ReceiverStep, BeginWork, PushAgain,
         FinishHandler, SetLoadeded, SendUPSReqDelivery, DeliveryAcknowledged,
         CheckPackageIsPacked, SendLoad, LoadAcknowledged, SendStep, recvVars, peerVars

-----------------------------------------------------------------------------
(* The steps seen from the peers                                           *)

Finished == finished["world"] \cup finished["ups"]

\* A command is issued once, and only when it is due.
LEMMA IssueIsDue ==
  ASSUME PromiseInv, NEW a \in Threads, NEW kind \in CommandKinds, Issues(a, kind)
  PROVE  LET p == ship[a] IN
         /\ p \in Packages
         /\ \A c \in Issued : ~(c.kind = kind /\ c.ship = p)
         /\ kind = "pickup" => \E c \in Issued : c.kind = "pack" /\ c.ship = p
         /\ kind = "load" => Resp("ready", p) \in Finished /\ Resp("truckArr", p) \in Finished
         /\ kind = "delivery" => Resp("loaded", p) \in Finished
<1> DEFINE p == ship[a]
<1>0. /\ TypeOK /\ ShipInv /\ LabelInv /\ Once(kind) /\ GoodInv /\ PackInv
      /\ QueueInv /\ lost = {}
  BY DEF PromiseInv, ReadyInv, JInv, IInv, CommandInv, OnceInv
<1>1. p \in Packages /\ pc[a] \in Before(kind) /\ pc[a] \notin CommandKinds
  BY <1>0 DEF Issues, ShipInv, Before, CommandKinds
<1>2. \A c \in Sent : ~(c.kind = kind /\ c.ship = p)
  BY <1>0, <1>1 DEF Once, Issues
<1>3. \A t \in Threads : pc[t] = kind => t = a
  BY <1>0 DEF Issues, LabelInv, Sender, CommandKinds
<1>4. \A c \in Retried : c.kind # kind
  BY <1>1, <1>3 DEF Retried, Retrying, CommandOf
<1>5. \A c \in Issued : ~(c.kind = kind /\ c.ship = p)
  BY <1>2, <1>4 DEF Issued, Sent, Got
<1>6. kind = "pickup" => \E c \in Issued : c.kind = "pack" /\ c.ship = p
  BY <1>0 DEF Issues, Sender, PackInv, Received, Issued
<1>7. Due(kind, p)
  BY <1>0, <1>1 DEF Once, Issues
<1>8. kind = "load" => Resp("ready", p) \in Finished /\ Resp("truckArr", p) \in Finished
  <2>1. kind = "load" => Good(p)
    BY <1>0 DEF Issues, Sender, GoodInv
  <2> QED
    BY <1>0, <1>7, <2>1 DEF Due, Good, Finished
<1>9. kind = "delivery" => Resp("loaded", p) \in Finished
  BY <1>7 DEF Due, Finished
<1> QED
  BY <1>1, <1>5, <1>6, <1>8, <1>9

\* A response is handled once, and only when it was asked for.
Handles(r) == /\ r \in Responses /\ r \notin Finished /\ Caused(r)
              /\ Finished' = Finished \cup {r}
              /\ Issued' = Issued

LEMMA HandlesStep ==
  PromiseInv /\ [Next]_vars => (Finished' = Finished \/ \E r \in Responses : Handles(r))
<1> SUFFICES ASSUME PromiseInv, [Next]_vars
             PROVE  Finished' = Finished \/ \E r \in Responses : Handles(r)
  OBVIOUS
<1>0. TypeOK /\ ResponseInv /\ CauseInv
  BY DEF PromiseInv, ReadyInv, JInv, IInv, CommandInv
<1>1. ASSUME NEW peer \in Peers, NEW r \in Responses, Dispatch(peer, r)
      PROVE  Finished' = Finished \/ Handles(r)
  <2>1. CASE finished' = finished
    BY <2>1 DEF Finished
  <2>2. CASE r \notin finished[peer] /\ finished' = [finished EXCEPT ![peer] = @ \cup {r}]
    <3>1. r \in batch[peer] /\ Caused(r)
      BY <1>0, <1>1 DEF Dispatch, CauseInv
    <3>2. r \notin Finished
      BY <1>0, <2>2, <3>1 DEF Finished, ResponseInv
    <3>3. Finished' = Finished \cup {r}
      BY <1>0, <2>2 DEF Finished, TypeOK
    <3>4. \A t \in Threads : Same(t)
      <4>1. pc[peer] \notin CommandKinds /\ pc'[peer] \notin CommandKinds
        BY <1>0, <1>1 DEF Dispatch, Goto, TypeOK, CommandKinds, Handler, Responses
      <4>2. \A t \in Threads \ {peer} : UNCHANGED <<pc[t], ship[t], seq_num[t]>>
        BY <1>0, <1>1 DEF Dispatch, Goto, TypeOK
      <4> QED
        BY <4>1, <4>2 DEF Same
    <3>5. Issued' = Issued
      BY <1>1, <3>4, SameRetried DEF Dispatch, peerVars, Issued, Got
    <3> QED
      BY <3>1, <3>2, <3>3, <3>5 DEF Handles
  <2> QED
    BY <1>1, <2>1, <2>2 DEF Dispatch
<1>2. CASE UNCHANGED finished
  BY <1>2 DEF Finished
<1> QED
  BY <1>1, <1>2
     DEF Next, vars, PlaceOrder, MainStep, OrderStep, InsertPackage, InsertOrder,
         SendToWorldPack, PackAcknowledged, DrawPickup, SendToUPSPack,
         PickupAcknowledged, WorldStep, UPSStep, ReceiverStep, BeginWork, PushAgain,
         FinishHandler, SetLoadeded, SendUPSReqDelivery, DeliveryAcknowledged,
         CheckPackageIsPacked, SendLoad, LoadAcknowledged, SendStep, SendMsgTo,
         Receive, Handle, Progress, recvVars

-----------------------------------------------------------------------------
(* The refinement                                                          *)

PromiseIssued  == [p \in Packages |-> {c.kind : c \in {d \in AllCommands : d.ship = p}}]
PromiseHandled == [p \in Packages |-> {r.kind : r \in {q \in Finished : q.ship = p}}]

IssuedOf       == [p \in Packages |-> {c.kind : c \in {d \in Issued : d.ship = p}}]

SameIssued     == PromiseIssued = IssuedOf

\* In this state and in the next.
LEMMA PromiseMeans == QueueInv => SameIssued
  BY IssuedSets DEF SameIssued, PromiseIssued, IssuedOf, Issued

LEMMA PromiseMeansNext == QueueInv' => SameIssued'
  BY PromiseMeans, PTL

LEMMA IssueImplements ==
  ASSUME PromiseInv, QueueInv', UNCHANGED Finished,
         NEW a \in Threads, NEW kind \in CommandKinds, Issues(a, kind),
         NEW p, p = ship[a]
  PROVE  Promise!Issue(p, kind) /\ p \in Packages
<1>1. /\ p \in Packages
      /\ \A c \in Issued : ~(c.kind = kind /\ c.ship = p)
      /\ kind = "pickup" => \E c \in Issued : c.kind = "pack" /\ c.ship = p
      /\ kind = "load" => Resp("ready", p) \in Finished /\ Resp("truckArr", p) \in Finished
      /\ kind = "delivery" => Resp("loaded", p) \in Finished
  BY IssueIsDue
<1>2. /\ PromiseIssued = [q \in Packages |-> {c.kind : c \in {d \in Issued : d.ship = q}}]
      /\ PromiseIssued' = [q \in Packages |-> {c.kind : c \in {d \in Issued' : d.ship = q}}]
  BY PromiseMeans, PromiseMeansNext DEF PromiseInv, SameIssued, IssuedOf
<1>3. PICK new : new = CommandOf(a)'
  OBVIOUS
<1>4. Issued' = Issued \cup {new} /\ new.kind = kind /\ new.ship = p
  BY <1>3 DEF Issues, Issued, CommandOf
<1>5. kind \notin PromiseIssued[p]
  BY <1>1, <1>2
<1>6. PromiseIssued' = [PromiseIssued EXCEPT ![p] = @ \cup {kind}]
  <2>1. {c.kind : c \in {d \in Issued' : d.ship = p}} =
          {c.kind : c \in {d \in Issued : d.ship = p}} \cup {kind}
    BY <1>4
  <2>2. ASSUME NEW q \in Packages, q # p
        PROVE  {c.kind : c \in {d \in Issued' : d.ship = q}} =
                 {c.kind : c \in {d \in Issued : d.ship = q}}
    BY <1>4, <2>2
  <2>3. /\ PromiseIssued = [q \in Packages |-> PromiseIssued[q]]
        /\ PromiseIssued' = [q \in Packages |-> PromiseIssued'[q]]
    BY DEF PromiseIssued
  <2>4. PromiseIssued'[p] = PromiseIssued[p] \cup {kind}
    BY <1>1, <1>2, <2>1
  <2>5. \A q \in Packages : q # p => PromiseIssued'[q] = PromiseIssued[q]
    BY <1>2, <2>2
  <2>6. PICK f, g : f = PromiseIssued /\ g = PromiseIssued'
    OBVIOUS
  <2>7. g = [f EXCEPT ![p] = f[p] \cup {kind}]
    BY <1>1, <2>3, <2>4, <2>5, <2>6
  <2> QED
    BY <2>6, <2>7
<1>7. UNCHANGED PromiseHandled
  BY DEF PromiseHandled
<1>8. Promise!Needs(kind) \subseteq PromiseIssued[p] \cup PromiseHandled[p]
  <2>1. CASE kind = "pack"
    BY <2>1 DEF Promise!Needs
  <2>2. CASE kind = "pickup"
    BY <1>1, <1>2, <2>2 DEF Promise!Needs
  <2>3. CASE kind = "load"
    <3>1. Resp("ready", p) \in Finished /\ Resp("truckArr", p) \in Finished
      BY <1>1, <2>3
    <3>2. "ready" \in PromiseHandled[p] /\ "truckArr" \in PromiseHandled[p]
      BY <1>1, <3>1 DEF PromiseHandled, Resp
    <3> QED
      BY <2>3, <3>2 DEF Promise!Needs
  <2>4. CASE kind = "delivery"
    <3>1. "loaded" \in PromiseHandled[p]
      BY <1>1, <2>4 DEF PromiseHandled, Resp
    <3> QED
      BY <2>4, <3>1 DEF Promise!Needs
  <2> QED
    BY <2>1, <2>2, <2>3, <2>4 DEF CommandKinds
<1> QED
  BY <1>1, <1>5, <1>6, <1>7, <1>8 DEF Promise!Issue, PromiseIssued, PromiseHandled, Finished

LEMMA HandleImplements ==
  ASSUME PromiseInv, QueueInv', NEW r \in Responses, Handles(r)
  PROVE  Promise!HandleResponse(r.ship, r.kind) /\ r.ship \in Packages
<1> DEFINE p == r.ship
<1>1. p \in Packages /\ r.kind \in {"ready", "loaded", "truckArr", "delivered"}
  BY DEF Responses
<1>2. /\ PromiseIssued = [q \in Packages |-> {c.kind : c \in {d \in Issued : d.ship = q}}]
      /\ PromiseIssued' = [q \in Packages |-> {c.kind : c \in {d \in Issued' : d.ship = q}}]
  BY PromiseMeans, PromiseMeansNext DEF PromiseInv, SameIssued, IssuedOf
<1>3. UNCHANGED PromiseIssued
  BY <1>2 DEF Handles
<1>4. r.kind \notin PromiseHandled[p]
  <2>1. \A q \in Finished : q.kind = r.kind /\ q.ship = p => q = r
    <3>1. Finished \subseteq Responses
      BY DEF PromiseInv, ReadyInv, JInv, IInv, TypeOK, Finished
    <3> QED
      BY <3>1 DEF Responses
  <2> QED
    BY <1>1, <2>1 DEF PromiseHandled, Handles
<1>5. PromiseHandled' = [PromiseHandled EXCEPT ![p] = @ \cup {r.kind}]
  <2>1. ASSUME NEW q \in Packages
        PROVE  {c.kind : c \in {d \in Finished' : d.ship = q}} =
                 {c.kind : c \in {d \in Finished : d.ship = q}}
                   \cup (IF q = p THEN {r.kind} ELSE {})
    BY DEF Handles
  <2> QED
    BY <1>1, <2>1 DEF PromiseHandled
<1>6. Promise!Cause(r.kind) \in PromiseIssued[p]
  <2>1. \E c \in Issued : c.kind = Promise!Cause(r.kind) /\ c.ship = p
    BY <1>1 DEF Handles, Caused, Received, Promise!Cause, Issued
  <2> QED
    BY <1>1, <1>2, <2>1
<1> QED
  BY <1>1, <1>3, <1>4, <1>5, <1>6
     DEF Promise!HandleResponse, PromiseIssued, PromiseHandled, Finished

LEMMA PromiseInductive ==
  MaxLost = 0 /\ PromiseInv /\ [Next]_vars => PromiseInv'
<1>1. ReadyInv /\ [Next]_vars => ReadyInv'
  BY CommandInductive, PickupStep, InsertedStep, GoodStep
     DEF ReadyInv, JInv, CommandInv
<1>2. ReadyInv => JInv
  BY DEF ReadyInv
<1> QED
  BY <1>1, <1>2, NeverLost, QueueStep, PackStep, CauseStep DEF PromiseInv

LEMMA PromiseInitially == Init => ReadyInv /\ PromiseInv
<1> SUFFICES ASSUME Init PROVE ReadyInv /\ PromiseInv
  OBVIOUS
<1>1. JInv
  BY SeqInitially, CommandInitially DEF JInv, IInv
<1>2. PickupInv /\ InsertedInv /\ GoodInv
  BY DEF Init, PickupInv, InsertedInv, GoodInv, Sent
<1>3. lost = {} /\ QueueInv /\ PackInv /\ CauseInv
  BY DEF Init, QueueInv, Sent, PackInv, CauseInv, DeliveringInv
<1> QED
  BY <1>1, <1>2, <1>3 DEF ReadyInv, PromiseInv

LEMMA PromiseStep ==
  PromiseInv /\ PromiseInv' /\ [Next]_vars => [Promise!Next]_<<PromiseIssued, PromiseHandled>>
<1> SUFFICES ASSUME PromiseInv, PromiseInv', [Next]_vars
             PROVE  Promise!Next \/ UNCHANGED <<PromiseIssued, PromiseHandled>>
  OBVIOUS
<1>1. JInv /\ QueueInv /\ QueueInv'
  BY DEF PromiseInv, ReadyInv
<1>2. CASE \E r \in Responses : Handles(r)
  <2>1. PICK r \in Responses : Handles(r)
    BY <1>2
  <2>2. r.kind \in {"ready", "truckArr", "loaded", "delivered"}
    BY DEF Responses
  <2> QED
    BY <1>1, <2>1, <2>2, HandleImplements DEF Promise!Next
<1>3. CASE UNCHANGED Finished
  <2>1. CASE \E a \in Threads, kind \in CommandKinds : Issues(a, kind)
    <3>1. PICK a \in Threads, kind \in CommandKinds : Issues(a, kind)
      BY <2>1
    <3>2. kind \in {"pack", "pickup", "load", "delivery"}
      BY DEF CommandKinds
    <3>3. PICK p : p = ship[a]
      OBVIOUS
    <3>4. Promise!Issue(p, kind) /\ p \in Packages
      BY <1>1, <1>3, <3>1, <3>3, IssueImplements
    <3> QED
      BY <3>2, <3>4 DEF Promise!Next
  <2>2. CASE Issued' = Issued
    <3>1. UNCHANGED PromiseHandled
      BY <1>3 DEF PromiseHandled
    <3>2. /\ PromiseIssued = [q \in Packages |-> {c.kind : c \in {d \in Issued : d.ship = q}}]
          /\ PromiseIssued' = [q \in Packages |-> {c.kind : c \in {d \in Issued' : d.ship = q}}]
      BY <1>1, PromiseMeans, PromiseMeansNext DEF SameIssued, IssuedOf
    <3> QED
      BY <2>2, <3>1, <3>2
  <2> QED
    BY <1>1, <2>1, <2>2, CommandsStep DEF CommandStep
<1> QED
  BY <1>2, <1>3, HandlesStep

\* While no statement is dropped the server, with any number of packages and
\* warehouses and whatever the peers drop and repeat, goes through the steps of
\* Fulfilment: no command too early, none twice, no response that nobody asked for.
THEOREM PromiseTheorem == MaxLost = 0 /\ Spec => AsPromised
<1> SUFFICES ASSUME MaxLost = 0 PROVE Spec => AsPromised
  OBVIOUS
<1>1. Init => Promise!Init
  <2> SUFFICES ASSUME Init PROVE Promise!Init
    OBVIOUS
  <2>1. AllCommands = {} /\ finished["world"] \cup finished["ups"] = {}
    BY DEF Init, AllCommands, CommandKinds
  <2> QED
    BY <2>1 DEF Promise!Init
<1>2. PromiseInv /\ [Next]_vars => PromiseInv'
  BY PromiseInductive
<1>3. PromiseInv /\ PromiseInv' /\ [Next]_vars => [Promise!Next]_Promise!fulfilmentVars
  BY PromiseStep DEF Promise!fulfilmentVars, PromiseIssued, PromiseHandled, Finished
<1> QED
  BY <1>1, <1>2, <1>3, PromiseInitially, PTL DEF Spec, AsPromised, Promise!Spec

-----------------------------------------------------------------------------
(* The row: what the two receiving threads may still write                 *)

\* The thread of UPS works for a truck that has arrived.
LoadLabels == {"check_packing", "send_load", "load", "set_loading"}

\* While it does, UPS acknowledges no delivery of that package, as only it receives
\* from UPS: the thread of the world cannot write "delivering" yet.
BothAtWork == /\ pc["ups"] \in LoadLabels
              /\ pc["world"] \in {"delivery", "set_delivering"}
              /\ ship["ups"] = ship["world"]
AwaitInv == BothAtWork => pc["world"] = "delivery" /\ seq_num["world"] \notin global_finished

\* A package is handled as ready before it is as loaded.
ReadyFirst ==
  \A p \in Packages :
    /\ Resp("loaded", p) \in batch["world"] =>
         Resp("ready", p) \in batch["world"] \cup finished["world"]
    /\ Resp("loaded", p) \in finished["world"] =>
         /\ Resp("ready", p) \in finished["world"]
         /\ ~(pc["world"] = "set_packed" /\ ship["world"] = p)

\* What the handlers have been called for.
HandlerInv ==
  /\ pc["world"] \in {"set_loadeded", "send_delivery", "delivery", "set_delivering"} =>
       Resp("loaded", ship["world"]) \in finished["world"]
  /\ pc["ups"] = "set_delivered" => Received("delivery", ship["ups"])

\* Of a package on its way nothing is left to be written but that.
OnItsWay == {"delivering", "delivered"}
WayInv ==
  \A p \in Packages : package_status[p] \in OnItsWay =>
    /\ Resp("loaded", p) \in finished["world"]
    /\ ~(pc["world"] \in {"set_loadeded", "send_delivery"} /\ ship["world"] = p)
    /\ ~(pc["ups"] \in LoadLabels /\ ship["ups"] = p)

\* A step that leaves the receiving threads alone.
Quiet == UNCHANGED <<pc["world"], pc["ups"], ship["world"], ship["ups"], seq_num["world"],
                     finished, global_finished, batch, acks_sent>>

LEMMA StepCases ==
  ASSUME TypeOK, [Next]_vars
  PROVE  \/ Quiet
         \/ \E peer \in Peers : Receive(peer) \/ FinishHandler(peer)
         \/ \E peer \in Peers, r \in Responses : Dispatch(peer, r)
         \/ SetLoadeded \/ SendUPSReqDelivery \/ DeliveryAcknowledged
         \/ CheckPackageIsPacked \/ SendLoad \/ LoadAcknowledged
<1>1. CASE PlaceOrder \/ OrderStep
  BY <1>1 DEF PlaceOrder, OrderStep, InsertPackage, InsertOrder, SendToWorldPack,
     PackAcknowledged, DrawPickup, SendToUPSPack, PickupAcknowledged, Goto, Return,
     StartSending, getSeqNum, recvVars, TypeOK, Quiet
<1>2. ASSUME NEW t \in Threads, BeginWork(t) \/ PushAgain(t) PROVE Quiet
  BY <1>2 DEF BeginWork, PushAgain, threadVars, recvVars, Quiet
<1>3. CASE SendStep \/ UNCHANGED vars \/ \E peer \in Peers, p \in Packages : Progress(peer, p)
  BY <1>3 DEF SendStep, SendMsgTo, Progress, vars, threadVars, recvVars, Quiet
<1> QED
  BY <1>1, <1>2, <1>3 DEF Next, MainStep, WorldStep, UPSStep, ReceiverStep

\* What came before a package was loaded.
LEMMA BeforeLoaded ==
  ASSUME JInv, PickupInv, NEW p \in Packages,
         Resp("loaded", p) \in batch["world"] \cup finished["world"]
  PROVE  /\ Resp("truckArr", p) \in finished["ups"]
         /\ ~(pc["main"] = "insert_package" /\ ship["main"] = p)
<1>0. Once("load") /\ Once("pickup") /\ ResponseInv
  BY DEF JInv, CommandInv, OnceInv, CommandKinds
<1>1. PICK c \in got["world"] : c.kind = "load" /\ c.ship = p
  BY <1>0 DEF ResponseInv, Resp
<1>2. Resp("truckArr", p) \in finished["ups"]
  BY <1>0, <1>1 DEF Once, Sent, Due
<1>3. PICK d \in got["ups"] : d.kind = "pickup" /\ d.ship = p
  BY <1>2 DEF PickupInv, Asked, Resp
<1> QED
  BY <1>0, <1>2, <1>3 DEF Once, Sent, Before, Sender

LEMMA FirstStep ==
  JInv /\ AcknowledgedIsKept /\ ReadyFirst /\ [Next]_vars => ReadyFirst'
<1> SUFFICES ASSUME JInv, AcknowledgedIsKept, ReadyFirst, [Next]_vars PROVE ReadyFirst'
  OBVIOUS
<1>0. TypeOK
  BY DEF JInv, IInv
<1>1. ASSUME UNCHANGED <<batch, finished>>,
             pc'["world"] = "set_packed" => UNCHANGED <<pc["world"], ship["world"]>>
      PROVE  ReadyFirst'
  BY <1>1 DEF ReadyFirst
<1>2. CASE Quiet
  BY <1>1, <1>2 DEF Quiet
<1>3. ASSUME NEW peer \in Peers, FinishHandler(peer) PROVE ReadyFirst'
  BY <1>0, <1>1, <1>3 DEF FinishHandler, Return, Goto, TypeOK, recvVars
<1>4. CASE \/ SetLoadeded \/ SendUPSReqDelivery \/ DeliveryAcknowledged
           \/ CheckPackageIsPacked \/ SendLoad \/ LoadAcknowledged
  BY <1>0, <1>1, <1>4 DEF SetLoadeded, SendUPSReqDelivery, DeliveryAcknowledged,
     CheckPackageIsPacked, SendLoad, LoadAcknowledged, StartSending, Goto, TypeOK, recvVars
<1>5. ASSUME NEW peer \in Peers, Receive(peer) PROVE ReadyFirst'
  <2>1. PICK acks \in SUBSET NewAcks(peer), items \in SUBSET Emitted(peer) :
          Handle(peer, acks, items)
    BY <1>5 DEF Receive
  <2>2. /\ batch' = [batch EXCEPT ![peer] = items] /\ UNCHANGED <<pc, ship, finished>>
        /\ batch[peer] = {} /\ (peer = "world" => InOrder(acks, items))
    BY <2>1 DEF Handle, threadVars
  <2>3. CASE peer = "ups"
    BY <1>0, <2>2, <2>3 DEF ReadyFirst, TypeOK
  <2>4. CASE peer = "world"
    <3>1. acks_sent["world"] \subseteq finished["world"]
      BY <2>2, <2>4 DEF AcknowledgedIsKept
    <3>2. \A p \in Packages : Resp("loaded", p) \in items =>
            Resp("ready", p) \in items \cup finished["world"]
      BY <2>2, <2>4, <3>1 DEF InOrder, Resp
    <3> QED
      BY <1>0, <2>2, <2>4, <3>2 DEF ReadyFirst, TypeOK
  <2> QED
    BY <2>3, <2>4
<1>6. ASSUME NEW peer \in Peers, NEW r \in Responses, Dispatch(peer, r) PROVE ReadyFirst'
  <2>1. CASE peer = "ups"
    <3>1. /\ batch'["world"] = batch["world"] /\ finished'["world"] = finished["world"]
          /\ pc'["world"] = pc["world"] /\ ship'["world"] = ship["world"]
      BY <1>0, <1>6, <2>1 DEF Dispatch, Goto, TypeOK
    <3> QED
      BY <3>1 DEF ReadyFirst
  <2>2. CASE peer = "world"
    <3>1. /\ batch'["world"] = batch["world"] \ {r} /\ r \in batch["world"]
          /\ pc["world"] = "idle"
          /\ r.kind = "loaded" => \A p \in Packages : Resp("ready", p) \notin batch["world"]
      BY <1>0, <1>6, <2>2 DEF Dispatch, TypeOK, Resp, Earlier
    <3>2. CASE r \in finished["world"] /\ UNCHANGED <<finished, pc, ship>>
      BY <3>1, <3>2 DEF ReadyFirst
    <3>3. CASE /\ r \notin finished["world"]
               /\ finished' = [finished EXCEPT !["world"] = @ \cup {r}]
               /\ ship' = [ship EXCEPT !["world"] = r.ship] /\ Goto("world", Handler(r.kind))
      <4>1. /\ finished'["world"] = finished["world"] \cup {r}
            /\ ship'["world"] = r.ship /\ pc'["world"] = Handler(r.kind)
        BY <1>0, <3>3 DEF Goto, TypeOK
      <4>2. r = Resp(r.kind, r.ship)
        BY DEF Responses, Resp
      <4>3. ASSUME NEW p \in Packages, Resp("loaded", p) \in finished'["world"]
            PROVE  /\ Resp("ready", p) \in finished'["world"]
                   /\ ~(pc'["world"] = "set_packed" /\ ship'["world"] = p)
        <5>1. CASE Resp("loaded", p) \in finished["world"]
          <6>1. Resp("ready", p) \in finished["world"]
            BY <5>1 DEF ReadyFirst
          <6>2. r # Resp("ready", p)
            BY <3>3, <6>1
          <6>3. r.kind # "ready" => Handler(r.kind) # "set_packed"
            BY DEF Responses, Handler
          <6> QED
            BY <4>1, <4>2, <6>1, <6>2, <6>3
        <5>2. CASE r = Resp("loaded", p)
          <6>1. r.kind = "loaded"
            BY <5>2 DEF Resp
          <6>2. Resp("ready", p) \in finished["world"]
            BY <3>1, <5>2, <6>1 DEF ReadyFirst
          <6> QED
            BY <4>1, <6>1, <6>2 DEF Handler
        <5> QED
          BY <4>1, <4>3, <5>1, <5>2
      <4> QED
        BY <3>1, <4>1, <4>3 DEF ReadyFirst
    <3> QED
      BY <1>6, <2>2, <3>2, <3>3 DEF Dispatch
  <2> QED
    BY <2>1, <2>2
<1> QED
  BY <1>0, <1>2, <1>3, <1>4, <1>5, <1>6, StepCases

\* The thread of the world at one package, told from that of UPS at it.
LEMMA AwaitStep ==
  ReadyInv /\ HandlerInv /\ AwaitInv /\ [Next]_vars => AwaitInv'
<1> SUFFICES ASSUME ReadyInv, HandlerInv, AwaitInv, [Next]_vars PROVE AwaitInv'
  OBVIOUS
<1>0. /\ JInv /\ IInv /\ TypeOK /\ ShipInv /\ SeqInv /\ PickupInv /\ LabelInv
  BY DEF ReadyInv, JInv, IInv, CommandInv
<1>1. CASE Quiet
  BY <1>1 DEF Quiet, AwaitInv, BothAtWork
<1>2. ASSUME NEW peer \in Peers, FinishHandler(peer) PROVE AwaitInv'
  <2>1. pc'[peer] = "idle" /\ UNCHANGED global_finished
    BY <1>0, <1>2 DEF FinishHandler, Return, Goto, TypeOK
  <2>2. ASSUME NEW u \in Peers, u # peer PROVE UNCHANGED <<pc[u], ship[u], seq_num[u]>>
    BY <1>0, <1>2, <2>2 DEF FinishHandler, Return, Goto, TypeOK
  <2>3. CASE peer = "ups"
    BY <2>1, <2>3 DEF AwaitInv, BothAtWork, LoadLabels
  <2>4. CASE peer = "world"
    BY <2>1, <2>4 DEF AwaitInv, BothAtWork
  <2> QED
    BY <2>3, <2>4
<1>3. CASE SetLoadeded
  BY <1>0, <1>3 DEF SetLoadeded, Goto, TypeOK, AwaitInv, BothAtWork
<1>4. CASE SendUPSReqDelivery
  BY <1>0, <1>4, Fresh DEF SendUPSReqDelivery, StartSending, getSeqNum, Goto, TypeOK,
     AwaitInv
<1>5. CASE DeliveryAcknowledged
  <2>1. ~BothAtWork
    BY <1>5 DEF DeliveryAcknowledged, Acknowledged, AwaitInv
  <2>2. ~BothAtWork'
    BY <1>0, <1>5, <2>1 DEF DeliveryAcknowledged, Acknowledged, Goto, TypeOK, BothAtWork
  <2> QED
    BY <2>2 DEF AwaitInv
<1>6. CASE CheckPackageIsPacked \/ SendLoad \/ LoadAcknowledged
  <2>1. pc["ups"] \in LoadLabels /\ UNCHANGED <<ship, global_finished>>
    BY <1>6 DEF CheckPackageIsPacked, SendLoad, LoadAcknowledged, Acknowledged, LoadLabels
  <2>2. UNCHANGED <<pc["world"], seq_num["world"]>>
    BY <1>0, <1>6 DEF CheckPackageIsPacked, SendLoad, LoadAcknowledged, StartSending,
       getSeqNum, Goto, TypeOK
  <2> QED
    BY <2>1, <2>2 DEF AwaitInv, BothAtWork
<1>7. ASSUME NEW peer \in Peers, Receive(peer) PROVE AwaitInv'
  <2>1. PICK acks \in SUBSET NewAcks(peer), items \in SUBSET Emitted(peer) :
          Handle(peer, acks, items)
    BY <1>7 DEF Receive
  <2>2. /\ UNCHANGED <<pc, ship, seq_num>> /\ pc[peer] = "idle"
        /\ global_finished' = global_finished \cup acks
    BY <2>1 DEF Handle, threadVars
  <2>3. ~BothAtWork
    BY <2>2 DEF BothAtWork, LoadLabels
  <2> QED
    BY <2>2, <2>3 DEF AwaitInv, BothAtWork
<1>8. ASSUME NEW peer \in Peers, NEW r \in Responses, Dispatch(peer, r) PROVE AwaitInv'
  <2>1. pc[peer] = "idle" /\ UNCHANGED <<seq_num, global_finished>>
    BY <1>8 DEF Dispatch
  <2>2. CASE UNCHANGED <<pc, ship>>
    BY <2>1, <2>2 DEF AwaitInv, BothAtWork
  <2>3. CASE /\ r \notin finished[peer]
             /\ ship' = [ship EXCEPT ![peer] = r.ship] /\ Goto(peer, Handler(r.kind))
    <3>1. pc'[peer] = Handler(r.kind) /\ ship'[peer] = r.ship
      BY <1>0, <2>3 DEF Goto, TypeOK
    <3>2. CASE peer = "world"
      BY <3>1, <3>2 DEF Handler, Responses, AwaitInv, BothAtWork
    <3>3. CASE peer = "ups"
      <4>1. UNCHANGED <<pc["world"], ship["world"]>>
        BY <1>0, <2>3, <3>3 DEF Goto, TypeOK
      <4>2. ASSUME BothAtWork' PROVE FALSE
        <5>1. pc["world"] \in {"delivery", "set_delivering"} /\ ship["world"] = r.ship
          BY <3>1, <3>3, <4>1, <4>2 DEF BothAtWork
        <5>2. r.ship \in Packages /\ Resp("loaded", r.ship) \in finished["world"]
          BY <5>1 DEF HandlerInv, Responses
        <5>3. Resp("truckArr", r.ship) \in finished["ups"]
          BY <1>0, <5>2, BeforeLoaded
        <5>4. Handler(r.kind) \in LoadLabels
          BY <3>1, <3>3, <4>2 DEF BothAtWork
        <5>5. r.kind = "truckArr"
          BY <5>4 DEF Responses, Handler, LoadLabels
        <5> QED
          BY <2>3, <3>3, <5>3, <5>5 DEF Responses, Resp
      <4> QED
        BY <4>2 DEF AwaitInv
    <3> QED
      BY <3>2, <3>3
  <2> QED
    BY <1>8, <2>2, <2>3 DEF Dispatch
<1> QED
  BY <1>0, <1>1, <1>2, <1>3, <1>4, <1>5, <1>6, <1>7, <1>8, StepCases

\* What a handler was called for stays handled, and received.
LEMMA HandlerStep ==
  ReadyInv /\ QueueInv /\ CauseInv /\ HandlerInv /\ [Next]_vars => HandlerInv'
<1> SUFFICES ASSUME ReadyInv, QueueInv, CauseInv, HandlerInv, [Next]_vars PROVE HandlerInv'
  OBVIOUS
<1>0. /\ JInv /\ TypeOK /\ finished["world"] \subseteq finished'["world"]
      /\ Got \subseteq Got'
  BY CommandsStep, Grows DEF ReadyInv, JInv, IInv, CommandStep
<1>1. ASSUME pc'["world"] \in {"set_loadeded", "send_delivery", "delivery", "set_delivering"} =>
               /\ pc["world"] \in {"set_loadeded", "send_delivery", "delivery", "set_delivering"}
               /\ ship'["world"] = ship["world"],
             pc'["ups"] = "set_delivered" => UNCHANGED <<pc["ups"], ship["ups"]>>
      PROVE  HandlerInv'
  <2>1. pc'["ups"] = "set_delivered" => Received("delivery", ship["ups"])'
    BY <1>0, <1>1 DEF HandlerInv, Received
  <2>2. pc'["world"] \in {"set_loadeded", "send_delivery", "delivery", "set_delivering"} =>
          Resp("loaded", ship'["world"]) \in finished'["world"]
    BY <1>0, <1>1 DEF HandlerInv
  <2> QED
    BY <2>1, <2>2 DEF HandlerInv, Received
<1>2. CASE Quiet
  BY <1>1, <1>2 DEF Quiet
<1>3. ASSUME NEW peer \in Peers, FinishHandler(peer) PROVE HandlerInv'
  BY <1>0, <1>1, <1>3 DEF FinishHandler, Return, Goto, TypeOK
<1>4. CASE \/ SetLoadeded \/ SendUPSReqDelivery \/ DeliveryAcknowledged
           \/ CheckPackageIsPacked \/ SendLoad \/ LoadAcknowledged
  BY <1>0, <1>1, <1>4 DEF SetLoadeded, SendUPSReqDelivery, DeliveryAcknowledged,
     CheckPackageIsPacked, SendLoad, LoadAcknowledged, StartSending, Acknowledged, Goto, TypeOK
<1>5. ASSUME NEW peer \in Peers, Receive(peer) PROVE HandlerInv'
  BY <1>1, <1>5 DEF Receive, Handle, threadVars
<1>6. ASSUME NEW peer \in Peers, NEW r \in Responses, Dispatch(peer, r) PROVE HandlerInv'
  <2>1. CASE UNCHANGED <<pc, ship>>
    BY <1>1, <2>1
  <2>2. CASE /\ finished' = [finished EXCEPT ![peer] = @ \cup {r}]
             /\ ship' = [ship EXCEPT ![peer] = r.ship] /\ Goto(peer, Handler(r.kind))
    <3>1. pc'[peer] = Handler(r.kind) /\ ship'[peer] = r.ship /\ r \in finished'[peer]
      BY <1>0, <2>2 DEF Goto, TypeOK
    <3>2. r = Resp(r.kind, r.ship) /\ r.kind \in {"ready", "loaded", "truckArr", "delivered"}
      BY DEF Responses, Resp
    <3>3. UNCHANGED got /\ Caused(r)
      BY <1>6 DEF Dispatch, peerVars, CauseInv
    <3>4. CASE peer = "world"
      <4>1. UNCHANGED <<pc["ups"], ship["ups"]>>
        BY <1>0, <2>2, <3>4 DEF Goto, TypeOK
      <4>2. pc'["world"] \in {"set_loadeded", "send_delivery", "delivery", "set_delivering"} =>
              r.kind = "loaded"
        BY <3>1, <3>2, <3>4 DEF Handler
      <4>3. pc'["ups"] = "set_delivered" => Received("delivery", ship["ups"])'
        BY <1>0, <4>1 DEF HandlerInv, Received
      <4> QED
        BY <3>1, <3>2, <3>4, <4>2, <4>3 DEF HandlerInv, Received
    <3>5. CASE peer = "ups"
      <4>1. UNCHANGED <<pc["world"], ship["world"]>>
        BY <1>0, <2>2, <3>5 DEF Goto, TypeOK
      <4>2. pc'["ups"] = "set_delivered" => r.kind = "delivered"
        BY <3>1, <3>2, <3>5 DEF Handler
      <4>3. r.kind = "delivered" => Received("delivery", r.ship)
        BY <3>3 DEF Caused
      <4>4. pc'["ups"] = "set_delivered" => Received("delivery", ship["ups"])'
        BY <1>0, <3>1, <3>5, <4>2, <4>3 DEF Received
      <4>5. pc'["world"] \in {"set_loadeded", "send_delivery", "delivery", "set_delivering"} =>
              Resp("loaded", ship'["world"]) \in finished'["world"]
        BY <1>0, <4>1 DEF HandlerInv
      <4> QED
        BY <4>4, <4>5 DEF HandlerInv, Received
    <3> QED
      BY <3>4, <3>5
  <2> QED
    BY <1>6, <2>1, <2>2 DEF Dispatch
<1> QED
  BY <1>0, <1>2, <1>3, <1>4, <1>5, <1>6, StepCases

\* The four places that write the row.
LEMMA RowWriters ==
  ASSUME TypeOK, [Next]_vars, NEW p \in Packages, package_status'[p] # package_status[p]
  PROVE  \/ /\ InsertPackage /\ ship["main"] = p /\ package_status'[p] = "packing"
            /\ pc["main"] = "insert_package"
         \/ /\ SetLoadeded /\ ship["world"] = p /\ package_status'[p] = "loadeded"
            /\ pc["world"] = "set_loadeded"
         \/ \E peer \in Peers :
              /\ FinishHandler(peer) /\ ship[peer] = p /\ pc[peer] \in LastStatements
              /\ package_status'[p] = Written(pc[peer])
<1>1. CASE InsertPackage
  BY <1>1 DEF InsertPackage, executeSQL, TypeOK
<1>2. CASE SetLoadeded
  BY <1>2 DEF SetLoadeded, executeSQL, update_package_status, TypeOK
<1>3. ASSUME NEW peer \in Peers, FinishHandler(peer)
      PROVE  /\ ship[peer] = p /\ pc[peer] \in LastStatements
             /\ package_status'[p] = Written(pc[peer])
  <2>1. package_status' = update_package_status(ship[peer], Written(pc[peer]))
    BY <1>3 DEF FinishHandler, executeSQL
  <2> QED
    BY <1>3, <2>1 DEF FinishHandler, update_package_status, TypeOK
<1>4. CASE CheckPackageIsPacked \/ InsertOrder \/ SendToUPSPack
  BY <1>4 DEF CheckPackageIsPacked, InsertOrder, SendToUPSPack, executeSQL
<1>5. CASE UNCHANGED package_status
  BY <1>5
<1> QED
  BY <1>1, <1>2, <1>3, <1>4, <1>5
     DEF Next, vars, PlaceOrder, MainStep, OrderStep, SendToWorldPack, PackAcknowledged,
         DrawPickup, PickupAcknowledged, WorldStep, UPSStep, ReceiverStep, BeginWork,
         PushAgain, Dispatch, SendUPSReqDelivery, DeliveryAcknowledged, SendLoad,
         LoadAcknowledged, SendStep, SendMsgTo, Receive, Handle, Progress, dbVars

\* What was asked of UPS.
LEMMA DeliveryAsked ==
  ASSUME JInv, NEW p \in Packages, Received("delivery", p)
  PROVE  /\ Resp("loaded", p) \in finished["world"]
         /\ ~(pc["world"] \in {"set_loadeded", "send_delivery"} /\ ship["world"] = p)
<1>1. Once("delivery")
  BY DEF JInv, CommandInv, OnceInv, CommandKinds
<1>2. PICK c \in Sent : c.kind = "delivery" /\ c.ship = p
  BY DEF Received, Got, Sent
<1> QED
  BY <1>1, <1>2 DEF Once, Due, Before, Sender

\* The row says that a package has left when the thread that asked UPS for it says
\* so, or UPS.
LEMMA Leaves ==
  ASSUME JInv, AwaitInv, HandlerInv, [Next]_vars, NEW p \in Packages,
         package_status'[p] \in OnItsWay, package_status[p] \notin OnItsWay
  PROVE  /\ Resp("loaded", p) \in finished["world"]
         /\ ~(pc'["world"] \in {"set_loadeded", "send_delivery"} /\ ship'["world"] = p)
         /\ ~(pc'["ups"] \in LoadLabels /\ ship'["ups"] = p)
<1>0. TypeOK /\ LabelInv
  BY DEF JInv, IInv, CommandInv
<1>1. PICK peer \in Peers :
        /\ FinishHandler(peer) /\ ship[peer] = p /\ pc[peer] \in LastStatements
        /\ package_status'[p] = Written(pc[peer])
  BY <1>0, RowWriters DEF OnItsWay
<1>2. pc[peer] \in {"set_delivering", "set_delivered"}
  BY <1>1 DEF LastStatements, Written, OnItsWay
<1>3. /\ pc'[peer] = "idle"
      /\ \A u \in Peers \ {peer} : UNCHANGED <<pc[u], ship[u]>>
  BY <1>0, <1>1 DEF FinishHandler, Return, Goto, TypeOK
<1>4. CASE peer = "world"
  <2>1. pc["world"] = "set_delivering"
    BY <1>0, <1>2, <1>4 DEF LabelInv
  <2> QED
    BY <1>1, <1>3, <1>4, <2>1 DEF HandlerInv, AwaitInv, BothAtWork
<1>5. CASE peer = "ups"
  <2>1. pc["ups"] = "set_delivered"
    BY <1>0, <1>2, <1>5 DEF LabelInv
  <2>2. Received("delivery", p)
    BY <1>1, <1>5, <2>1 DEF HandlerInv
  <2> QED
    BY <1>3, <1>5, <2>2, DeliveryAsked DEF LoadLabels
<1> QED
  BY <1>4, <1>5

LEMMA WayStep ==
  ReadyInv /\ HandlerInv /\ AwaitInv /\ WayInv /\ [Next]_vars => WayInv'
<1> SUFFICES ASSUME ReadyInv, HandlerInv, AwaitInv, WayInv, [Next]_vars,
                    NEW p \in Packages, package_status'[p] \in OnItsWay
             PROVE  /\ Resp("loaded", p) \in finished'["world"]
                    /\ ~(pc'["world"] \in {"set_loadeded", "send_delivery"} /\ ship'["world"] = p)
                    /\ ~(pc'["ups"] \in LoadLabels /\ ship'["ups"] = p)
  BY DEF WayInv
<1>0. /\ JInv /\ TypeOK /\ PickupInv /\ LabelInv
      /\ finished["world"] \subseteq finished'["world"]
  BY Grows DEF ReadyInv, JInv, IInv, CommandInv
<1>1. CASE package_status[p] \notin OnItsWay
  BY <1>0, <1>1, Leaves
<1>2. CASE package_status[p] \in OnItsWay
  <2>0. /\ Resp("loaded", p) \in finished["world"]
        /\ ~(pc["world"] \in {"set_loadeded", "send_delivery"} /\ ship["world"] = p)
        /\ ~(pc["ups"] \in LoadLabels /\ ship["ups"] = p)
    BY <1>2 DEF WayInv
  <2>1. ASSUME pc'["world"] \in {"set_loadeded", "send_delivery"} =>
                 /\ pc["world"] \in {"set_loadeded", "send_delivery"}
                 /\ ship'["world"] = ship["world"],
               pc'["ups"] \in LoadLabels => pc["ups"] \in LoadLabels /\ ship'["ups"] = ship["ups"]
        PROVE  /\ ~(pc'["world"] \in {"set_loadeded", "send_delivery"} /\ ship'["world"] = p)
               /\ ~(pc'["ups"] \in LoadLabels /\ ship'["ups"] = p)
    BY <2>0, <2>1
  <2>2. CASE Quiet
    BY <1>0, <2>0, <2>1, <2>2 DEF Quiet
  <2>3. ASSUME NEW peer \in Peers, FinishHandler(peer)
        PROVE  /\ ~(pc'["world"] \in {"set_loadeded", "send_delivery"} /\ ship'["world"] = p)
               /\ ~(pc'["ups"] \in LoadLabels /\ ship'["ups"] = p)
    <3>1. /\ pc'[peer] = "idle"
          /\ \A u \in Peers \ {peer} : UNCHANGED <<pc[u], ship[u]>>
      BY <1>0, <2>3 DEF FinishHandler, Return, Goto, TypeOK
    <3> QED
      BY <2>1, <3>1 DEF LoadLabels
  <2>4. CASE SetLoadeded \/ SendUPSReqDelivery \/ DeliveryAcknowledged
    <3>1. /\ UNCHANGED <<pc["ups"], ship>>
          /\ pc'["world"] \in {"set_loadeded", "send_delivery"} => pc["world"] = "set_loadeded"
      BY <1>0, <2>4 DEF SetLoadeded, SendUPSReqDelivery, DeliveryAcknowledged, StartSending,
         Goto, TypeOK
    <3> QED
      BY <1>0, <2>0, <2>1, <3>1
  <2>5. CASE CheckPackageIsPacked \/ SendLoad \/ LoadAcknowledged
    <3>1. pc["ups"] \in LoadLabels /\ UNCHANGED <<pc["world"], ship>>
      BY <1>0, <2>5 DEF CheckPackageIsPacked, SendLoad, LoadAcknowledged, Acknowledged,
         StartSending, Goto, TypeOK, LoadLabels
    <3> QED
      BY <1>0, <2>0, <2>1, <3>1
  <2>6. ASSUME NEW peer \in Peers, Receive(peer) PROVE UNCHANGED <<pc, ship>>
    BY <2>6 DEF Receive, Handle, threadVars
  <2>7. ASSUME NEW peer \in Peers, NEW r \in Responses, Dispatch(peer, r)
        PROVE  /\ ~(pc'["world"] \in {"set_loadeded", "send_delivery"} /\ ship'["world"] = p)
               /\ ~(pc'["ups"] \in LoadLabels /\ ship'["ups"] = p)
    <3>1. CASE UNCHANGED <<pc, ship>>
      BY <2>1, <3>1
    <3>2. CASE /\ r \notin finished[peer]
               /\ ship' = [ship EXCEPT ![peer] = r.ship] /\ Goto(peer, Handler(r.kind))
      <4>1. /\ pc'[peer] = Handler(r.kind) /\ ship'[peer] = r.ship
            /\ \A u \in Peers \ {peer} : UNCHANGED <<pc[u], ship[u]>>
        BY <1>0, <3>2 DEF Goto, TypeOK
      <4>2. r = Resp(r.kind, r.ship) /\ r.kind \in {"ready", "loaded", "truckArr", "delivered"}
        BY DEF Responses, Resp
      <4>3. Resp("truckArr", p) \in finished["ups"]
        BY <1>0, <2>0, BeforeLoaded
      <4>4. CASE peer = "world"
        <5>1. pc'["world"] \in {"set_loadeded", "send_delivery"} => r.kind = "loaded"
          BY <4>1, <4>2, <4>4 DEF Handler
        <5>2. r.kind = "loaded" => r.ship # p
          BY <2>0, <3>2, <4>2, <4>4
        <5> QED
          BY <2>0, <4>1, <4>4, <5>1, <5>2
      <4>5. CASE peer = "ups"
        <5>1. pc'["ups"] \in LoadLabels => r.kind = "truckArr"
          BY <4>1, <4>2, <4>5 DEF Handler, LoadLabels
        <5>2. r.kind = "truckArr" => r.ship # p
          BY <3>2, <4>2, <4>3, <4>5
        <5> QED
          BY <2>0, <4>1, <4>5, <5>1, <5>2
      <4> QED
        BY <4>4, <4>5
    <3> QED
      BY <2>7, <3>1, <3>2 DEF Dispatch
  <2> QED
    BY <1>0, <2>0, <2>1, <2>2, <2>3, <2>4, <2>5, <2>6, <2>7, StepCases
<1> QED
  BY <1>1, <1>2

RowInv == /\ ReadyInv /\ QueueInv /\ CauseInv
          /\ ReadyFirst /\ HandlerInv /\ AwaitInv /\ WayInv

LEMMA RowAlways == Spec => []RowInv
<1>1. Init => RowInv
  <2>1. Init => ReadyFirst /\ HandlerInv /\ AwaitInv /\ WayInv
    BY DEF Init, ReadyFirst, HandlerInv, AwaitInv, BothAtWork, LoadLabels, WayInv, OnItsWay
  <2> QED
    BY <2>1, PromiseInitially DEF RowInv, PromiseInv
<1>2. RowInv /\ AcknowledgedIsKept /\ [Next]_vars => RowInv'
  <2>1. ReadyInv /\ [Next]_vars => ReadyInv'
    BY CommandInductive, PickupStep, InsertedStep, GoodStep
       DEF ReadyInv, JInv, CommandInv
  <2>2. ReadyInv => JInv
    BY DEF ReadyInv
  <2> QED
    BY <2>1, <2>2, QueueStep, CauseStep, FirstStep, HandlerStep, AwaitStep, WayStep
       DEF RowInv
<1> QED
  BY <1>1, <1>2, KeptTheorem, PTL DEF Spec

\* A package that has left is never in the warehouse again, whatever the other
\* thread still has to write and whatever was dropped.
THEOREM NeverBackTheorem == Spec => NeverBackInWarehouse
<1>1. RowInv /\ [Next]_vars =>
        [\A p \in Packages : package_status[p] \in {"delivering", "delivered"} =>
           package_status'[p] \in {"delivering", "delivered"}]_vars
  <2> SUFFICES ASSUME RowInv, [Next]_vars, NEW p \in Packages, package_status[p] \in OnItsWay,
                      package_status'[p] \notin OnItsWay
               PROVE  FALSE
    BY DEF OnItsWay
  <2>0. /\ TypeOK /\ LabelInv /\ JInv /\ PickupInv /\ WayInv /\ ReadyFirst
    BY DEF RowInv, ReadyInv, JInv, IInv, CommandInv
  <2>1. /\ Resp("loaded", p) \in finished["world"]
        /\ ~(pc["world"] \in {"set_loadeded", "send_delivery"} /\ ship["world"] = p)
        /\ ~(pc["ups"] \in LoadLabels /\ ship["ups"] = p)
    BY <2>0 DEF WayInv
  <2>2. /\ ~(pc["main"] = "insert_package" /\ ship["main"] = p)
        /\ ~(pc["world"] = "set_packed" /\ ship["world"] = p)
    BY <2>0, <2>1, BeforeLoaded DEF ReadyFirst
  <2>3. PICK peer \in Peers :
          /\ ship[peer] = p /\ pc[peer] \in LastStatements
          /\ package_status'[p] = Written(pc[peer])
    BY <2>0, <2>1, <2>2, RowWriters
  <2>4. pc[peer] \in {"set_packed", "set_loading"}
    BY <2>3 DEF LastStatements, Written, OnItsWay
  <2> QED
    BY <2>0, <2>1, <2>2, <2>3, <2>4 DEF LabelInv, LoadLabels
<1> QED
  BY <1>1, RowAlways, PTL DEF Spec, NeverBackInWarehouse

-----------------------------------------------------------------------------
(* The row and the responses                                               *)

\* What was handled was asked for.
AnsweredInv ==
  \A p \in Packages :
    /\ Resp("ready", p) \in finished["world"] => Received("pack", p)
    /\ Resp("delivered", p) \in finished["ups"] => Received("delivery", p)

LEMMA AnsweredStep ==
  JInv /\ QueueInv /\ CauseInv /\ AnsweredInv /\ [Next]_vars => AnsweredInv'
<1> SUFFICES ASSUME JInv, QueueInv, CauseInv, AnsweredInv, [Next]_vars PROVE AnsweredInv'
  OBVIOUS
<1>0. TypeOK /\ Got \subseteq Got'
  BY CommandsStep DEF JInv, IInv, CommandStep
<1>1. ASSUME UNCHANGED finished PROVE AnsweredInv'
  BY <1>0, <1>1 DEF AnsweredInv, Received
<1>2. ASSUME NEW peer \in Peers, NEW r \in Responses, Dispatch(peer, r) PROVE AnsweredInv'
  <2>1. Caused(r)
    BY <1>2 DEF Dispatch, CauseInv
  <2>2. finished' = finished \/ finished' = [finished EXCEPT ![peer] = @ \cup {r}]
    BY <1>2 DEF Dispatch
  <2>3. \A p \in Packages :
          /\ r = Resp("ready", p) => Received("pack", p)
          /\ r = Resp("delivered", p) => Received("delivery", p)
    <3>1. /\ r.kind = "ready" => Received("pack", r.ship)
          /\ r.kind = "delivered" => Received("delivery", r.ship)
      BY <2>1 DEF Caused
    <3>2. ASSUME NEW p, r = Resp("ready", p) PROVE r.kind = "ready" /\ r.ship = p
      BY <3>2 DEF Resp
    <3>3. ASSUME NEW p, r = Resp("delivered", p) PROVE r.kind = "delivered" /\ r.ship = p
      BY <3>3 DEF Resp
    <3> QED
      BY <3>1, <3>2, <3>3
  <2>4. \A p \in Packages :
          /\ Resp("ready", p) \in finished'["world"] =>
               Resp("ready", p) \in finished["world"] \/ r = Resp("ready", p)
          /\ Resp("delivered", p) \in finished'["ups"] =>
               Resp("delivered", p) \in finished["ups"] \/ r = Resp("delivered", p)
    BY <1>0, <2>2 DEF TypeOK
  <2>5. \A p \in Packages :
          /\ Resp("ready", p) \in finished'["world"] => Received("pack", p)
          /\ Resp("delivered", p) \in finished'["ups"] => Received("delivery", p)
    BY <2>3, <2>4 DEF AnsweredInv
  <2> QED
    BY <1>0, <2>5 DEF AnsweredInv, Received
<1> QED
  BY <1>0, <1>1, <1>2, StepCases
     DEF Quiet, FinishHandler, Receive, Handle, SetLoadeded, SendUPSReqDelivery,
         DeliveryAcknowledged, CheckPackageIsPacked, SendLoad, LoadAcknowledged, recvVars

\* A package the world has packed has its row, unless the INSERT was dropped.
LEMMA HasRow ==
  ASSUME JInv, InsertedInv, NEW p \in Packages, NothingLost(p), Received("pack", p)
  PROVE  package_status[p] # "absent" /\ ~(pc["main"] = "insert_package" /\ ship["main"] = p)
<1>1. Once("pack")
  BY DEF JInv, CommandInv, OnceInv, CommandKinds
<1>2. PICK c \in Sent : c.kind = "pack" /\ c.ship = p
  BY DEF Received, Got, Sent
<1>3. p < package_id /\ ~(pc["main"] = "insert_package" /\ ship["main"] = p)
  BY <1>1, <1>2 DEF Once, Due, Before, Sender
<1> QED
  BY <1>3 DEF InsertedInv, NothingLost, Statements

\* A handler that ends has written its status, or its statement was dropped.
LEMMA WritesOrLoses ==
  ASSUME TypeOK, NEW peer \in Peers, FinishHandler(peer), NEW p \in Packages, ship[peer] = p,
         package_status[p] # "absent", NothingLost(p)'
  PROVE  package_status'[p] = Written(pc[peer])
<1>1. pc[peer] \in Statements /\ ship[peer] = p
  BY DEF FinishHandler, LastStatements, Statements
<1>2. <<pc[peer], p>> \notin lost'
  BY <1>1 DEF NothingLost
<1>3. package_status' = update_package_status(p, Written(pc[peer]))
  BY <1>1, <1>2 DEF FinishHandler, executeSQL
<1> QED
  BY <1>3 DEF update_package_status, TypeOK

FollowsReady(p) ==
  Resp("ready", p) \in finished["world"] =>
    \/ package_status[p] \notin {"absent", "packing"}
    \/ pc["world"] = "set_packed" /\ ship["world"] = p
FollowsDelivered(p) ==
  Resp("delivered", p) \in finished["ups"] =>
    \/ package_status[p] \in OnItsWay
    \/ pc["ups"] = "set_delivered" /\ ship["ups"] = p

LEMMA FollowsReadyStep ==
  ASSUME RowInv, AnsweredInv, [Next]_vars, NEW p \in Packages, NothingLost(p), NothingLost(p)',
         FollowsReady(p)
  PROVE  FollowsReady(p)'
<1>0. /\ TypeOK /\ JInv /\ InsertedInv /\ LabelInv
  BY DEF RowInv, ReadyInv, JInv, IInv, CommandInv
<1>1. CASE Resp("ready", p) \notin finished["world"]
  <2>1. ASSUME NEW peer \in Peers, NEW r \in Responses, Dispatch(peer, r),
               Resp("ready", p) \in finished'["world"]
        PROVE  pc'["world"] = "set_packed" /\ ship'["world"] = p
    <3>1. peer = "world" /\ r = Resp("ready", p) /\ r \notin finished["world"]
      BY <1>0, <1>1, <2>1 DEF Dispatch, TypeOK
    <3>2. ship' = [ship EXCEPT !["world"] = p] /\ Goto("world", "set_packed")
      BY <2>1, <3>1 DEF Dispatch, Resp, Handler
    <3> QED
      BY <1>0, <3>2 DEF Goto, TypeOK
  <2> QED
    BY <1>0, <1>1, <2>1, StepCases
       DEF FollowsReady, Quiet, FinishHandler, Receive, Handle, SetLoadeded,
           SendUPSReqDelivery, DeliveryAcknowledged, CheckPackageIsPacked, SendLoad,
           LoadAcknowledged, recvVars
<1>2. CASE Resp("ready", p) \in finished["world"]
  <2>0. /\ package_status[p] # "absent"
        /\ ~(pc["main"] = "insert_package" /\ ship["main"] = p)
    BY <1>0, <1>2, HasRow DEF AnsweredInv
  <2>1. CASE package_status[p] \notin {"absent", "packing"}
    <3>1. package_status'[p] = package_status[p] \/ package_status'[p] \notin {"absent", "packing"}
      BY <1>0, <2>0, RowWriters DEF LastStatements, Written
    <3> QED
      BY <2>1, <3>1 DEF FollowsReady
  <2>2. CASE pc["world"] = "set_packed" /\ ship["world"] = p
    <3>1. ASSUME UNCHANGED <<pc["world"], ship["world"]>> PROVE FollowsReady(p)'
      BY <2>2, <3>1 DEF FollowsReady
    <3>2. CASE FinishHandler("world")
      BY <1>0, <2>0, <2>2, <3>2, WritesOrLoses DEF FollowsReady, Written
    <3>3. CASE FinishHandler("ups") \/ CheckPackageIsPacked \/ SendLoad \/ LoadAcknowledged
      BY <1>0, <3>1, <3>3 DEF FinishHandler, CheckPackageIsPacked, SendLoad, LoadAcknowledged,
         StartSending, Return, Goto, TypeOK
    <3>4. CASE SetLoadeded \/ SendUPSReqDelivery \/ DeliveryAcknowledged
      BY <2>2, <3>4 DEF SetLoadeded, SendUPSReqDelivery, DeliveryAcknowledged, Acknowledged
    <3>5. ASSUME NEW peer \in Peers, Receive(peer) PROVE FollowsReady(p)'
      BY <3>1, <3>5 DEF Receive, Handle, threadVars
    <3>6. ASSUME NEW peer \in Peers, NEW r \in Responses, Dispatch(peer, r)
          PROVE  FollowsReady(p)'
      BY <1>0, <2>2, <3>1, <3>6 DEF Dispatch, Goto, TypeOK
    <3> QED
      BY <1>0, <3>1, <3>2, <3>3, <3>4, <3>5, <3>6, StepCases DEF Quiet
  <2> QED
    BY <1>2, <2>1, <2>2 DEF FollowsReady
<1> QED
  BY <1>1, <1>2

LEMMA FollowsDeliveredStep ==
  ASSUME RowInv, AnsweredInv, [Next]_vars, NEW p \in Packages, NothingLost(p), NothingLost(p)',
         FollowsReady(p), FollowsDelivered(p),
         package_status[p] \in OnItsWay => package_status'[p] \in OnItsWay
  PROVE  FollowsDelivered(p)'
<1>0. /\ TypeOK /\ JInv /\ InsertedInv /\ LabelInv /\ ReadyFirst
  BY DEF RowInv, ReadyInv, JInv, IInv, CommandInv
<1>1. CASE Resp("delivered", p) \notin finished["ups"]
  <2>1. ASSUME NEW peer \in Peers, NEW r \in Responses, Dispatch(peer, r),
               Resp("delivered", p) \in finished'["ups"]
        PROVE  pc'["ups"] = "set_delivered" /\ ship'["ups"] = p
    <3>1. peer = "ups" /\ r = Resp("delivered", p) /\ r \notin finished["ups"]
      BY <1>0, <1>1, <2>1 DEF Dispatch, TypeOK
    <3>2. ship' = [ship EXCEPT !["ups"] = p] /\ Goto("ups", "set_delivered")
      BY <2>1, <3>1 DEF Dispatch, Resp, Handler
    <3> QED
      BY <1>0, <3>2 DEF Goto, TypeOK
  <2> QED
    BY <1>0, <1>1, <2>1, StepCases
       DEF FollowsDelivered, Quiet, FinishHandler, Receive, Handle, SetLoadeded,
           SendUPSReqDelivery, DeliveryAcknowledged, CheckPackageIsPacked, SendLoad,
           LoadAcknowledged, recvVars
<1>2. CASE Resp("delivered", p) \in finished["ups"]
  <2>0. package_status[p] # "absent"
    <3>1. Resp("ready", p) \in finished["world"]
      BY <1>0, <1>2, DeliveryAsked DEF AnsweredInv, ReadyFirst
    <3> QED
      BY <1>0, <3>1, HasRow DEF AnsweredInv
  <2>1. CASE package_status[p] \in OnItsWay
    BY <2>1 DEF FollowsDelivered
  <2>2. CASE pc["ups"] = "set_delivered" /\ ship["ups"] = p
    <3>1. ASSUME UNCHANGED <<pc["ups"], ship["ups"]>> PROVE FollowsDelivered(p)'
      BY <2>2, <3>1 DEF FollowsDelivered
    <3>2. CASE FinishHandler("ups")
      BY <1>0, <2>0, <2>2, <3>2, WritesOrLoses DEF FollowsDelivered, Written, OnItsWay
    <3>3. CASE FinishHandler("world") \/ SetLoadeded \/ SendUPSReqDelivery \/ DeliveryAcknowledged
      BY <1>0, <3>1, <3>3 DEF FinishHandler, SetLoadeded, SendUPSReqDelivery,
         DeliveryAcknowledged, StartSending, Return, Goto, TypeOK
    <3>4. CASE CheckPackageIsPacked \/ SendLoad \/ LoadAcknowledged
      BY <2>2, <3>4 DEF CheckPackageIsPacked, SendLoad, LoadAcknowledged, Acknowledged
    <3>5. ASSUME NEW peer \in Peers, Receive(peer) PROVE FollowsDelivered(p)'
      BY <3>1, <3>5 DEF Receive, Handle, threadVars
    <3>6. ASSUME NEW peer \in Peers, NEW r \in Responses, Dispatch(peer, r)
          PROVE  FollowsDelivered(p)'
      BY <1>0, <2>2, <3>1, <3>6 DEF Dispatch, Goto, TypeOK
    <3> QED
      BY <1>0, <3>1, <3>2, <3>3, <3>4, <3>5, <3>6, StepCases DEF Quiet
  <2> QED
    BY <1>2, <2>1, <2>2 DEF FollowsDelivered
<1> QED
  BY <1>1, <1>2

FollowsInv ==
  /\ AnsweredInv
  /\ \A p \in Packages : NothingLost(p) => FollowsReady(p) /\ FollowsDelivered(p)

\* The row is not behind the responses processed, for every package of which no
\* statement was dropped, whatever else was.
THEOREM RowTheorem == Spec => []RowFollowsResponses
<1>1. Init => FollowsInv
  BY DEF Init, FollowsInv, AnsweredInv, FollowsReady, FollowsDelivered
<1>2. ASSUME RowInv, FollowsInv, [Next]_vars,
             \A p \in Packages : package_status[p] \in OnItsWay => package_status'[p] \in OnItsWay
      PROVE  FollowsInv'
  <2>0. TypeOK /\ JInv /\ QueueInv /\ CauseInv /\ AnsweredInv
    BY <1>2 DEF RowInv, ReadyInv, JInv, IInv, FollowsInv
  <2>1. AnsweredInv'
    BY <1>2, <2>0, AnsweredStep
  <2>2. ASSUME NEW p \in Packages, NothingLost(p)' PROVE FollowsReady(p)' /\ FollowsDelivered(p)'
    <3>1. NothingLost(p)
      BY <1>2, <2>0, <2>2, Grows DEF NothingLost
    <3>2. FollowsReady(p) /\ FollowsDelivered(p)
      BY <1>2, <3>1 DEF FollowsInv
    <3> QED
      BY <1>2, <2>0, <2>2, <3>1, <3>2, FollowsReadyStep, FollowsDeliveredStep
  <2> QED
    BY <2>1, <2>2 DEF FollowsInv
<1>3. FollowsInv => RowFollowsResponses
  BY DEF FollowsInv, RowFollowsResponses, FollowsReady, FollowsDelivered, OnItsWay
<1>4. RowInv /\ FollowsInv /\ [Next]_vars
        /\ [\A p \in Packages : package_status[p] \in {"delivering", "delivered"} =>
              package_status'[p] \in {"delivering", "delivered"}]_vars
      => FollowsInv'
  <2>1. UNCHANGED vars =>
          \A p \in Packages : package_status[p] \in OnItsWay => package_status'[p] \in OnItsWay
    BY DEF vars
  <2> QED
    BY <1>2, <2>1 DEF OnItsWay
<1> QED
  BY <1>1, <1>3, <1>4, RowAlways, NeverBackTheorem, PTL DEF Spec, NeverBackInWarehouse
=============================================================================
