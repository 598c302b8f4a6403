--------------------------- MODULE ShippingProofs ---------------------------
(***************************************************************************)
(* Proofs about the fulfilment of packages, for any number of packages,    *)
(* warehouses and dropped statements: what the acknowledgements mean, that *)
(* a circular wait is for ever and takes two packages, that no command is  *)
(* sent twice, no delivery asked for before the world has loaded, and no   *)
(* load before the world's "ready".                                        *)
(***************************************************************************)
EXTENDS Shipping, TLAPS

\* A thread that is at work has a package.
ShipInv == \A t \in Threads : pc[t] # "idle" => ship[t] \in Packages

USE MaxPackagesAssumption, MaxLostAssumption, WarehousesAssumption,
    NoPackageAssumption
    DEF Packages, Threads, Peers, NoThread

\* The types of what executeSQL writes.
LEMMA SQLTypes ==
  ASSUME TypeOK, ShipInv, NEW t \in Threads, pc[t] \in Statements,
         NEW rows \in [Packages -> Statuses], executeSQL(t, rows)
  PROVE  /\ package_status' \in [Packages -> Statuses]
         /\ conn' \in Threads \cup {NoThread}
         /\ lost' \subseteq Statements \X Packages
<1>1. ship[t] \in Packages
  BY DEF ShipInv, Statements
<1> QED
  BY <1>1 DEF executeSQL, TypeOK

LEMMA RowTypes ==
  ASSUME TypeOK, NEW p \in Packages, NEW s \in Statuses
  PROVE  /\ update_package_status(p, s) \in [Packages -> Statuses]
         /\ [package_status EXCEPT ![p] = s] \in [Packages -> Statuses]
  BY DEF TypeOK, update_package_status, Statuses

LEMMA PushTypes ==
  ASSUME TypeOK, NEW c \in Commands, Push(c)
  PROVE  send_queue' \in [Peers -> SUBSET Commands]
  BY DEF TypeOK, Push, PeerOf

LEMMA PushQueue ==
  ASSUME TypeOK, NEW c, Push(c)
  PROVE  \A peer \in Peers : \A d \in send_queue'[peer] :
           d \in send_queue[peer] \/ (d = c /\ peer = PeerOf(c.kind))
  BY DEF TypeOK, Push, PeerOf

LEMMA EmittedTypes ==
  ASSUME NEW peer \in Peers PROVE Emitted(peer) \subseteq Responses
  BY DEF Emitted, Responses, Resp

USE DEF Labels

LEMMA TypeStep == TypeOK /\ ShipInv /\ [Next]_vars => (TypeOK /\ ShipInv)'
<1> SUFFICES ASSUME TypeOK, ShipInv, [Next]_vars PROVE (TypeOK /\ ShipInv)'
  OBVIOUS
<1> USE DEF Statements, CommandKinds
<1>1. CASE PlaceOrder
  BY <1>1 DEF PlaceOrder, Goto, TypeOK, ShipInv, dbVars, recvVars, peerVars
<1>2. ASSUME NEW t \in Threads, BeginWork(t) PROVE (TypeOK /\ ShipInv)'
  BY <1>2 DEF BeginWork, TypeOK, ShipInv
<1>3. ASSUME NEW t \in Threads, PushAgain(t) PROVE (TypeOK /\ ShipInv)'
  <2>1. CommandOf(t) \in Commands
    BY <1>3 DEF PushAgain, CommandOf, Commands, TypeOK, ShipInv
  <2>2. send_queue' \in [Peers -> SUBSET Commands]
    BY <1>3, <2>1, PushTypes DEF PushAgain
  <2> QED
    BY <1>3, <2>2
       DEF PushAgain, TypeOK, ShipInv, dbVars, threadVars, recvVars, peerVars
<1>4. CASE InsertPackage
  <2>1. ship["main"] \in Packages /\ pc["main"] \in Statements
    BY <1>4 DEF InsertPackage, ShipInv
  <2>2. [package_status EXCEPT ![ship["main"]] = "packing"] \in [Packages -> Statuses]
    BY <2>1, RowTypes DEF Statuses
  <2>3. /\ package_status' \in [Packages -> Statuses]
        /\ conn' \in Threads \cup {NoThread}
        /\ lost' \subseteq Statements \X Packages
    BY <1>4, <2>1, <2>2, SQLTypes DEF InsertPackage
  <2> QED
    BY <1>4, <2>1, <2>3 DEF InsertPackage, Goto, TypeOK, ShipInv, recvVars, peerVars
<1>5. CASE InsertOrder
  <2>1. /\ package_status' \in [Packages -> Statuses]
        /\ conn' \in Threads \cup {NoThread}
        /\ lost' \subseteq Statements \X Packages
    BY <1>5, SQLTypes DEF InsertOrder, TypeOK
  <2> QED
    BY <1>5, <2>1 DEF InsertOrder, Goto, TypeOK, ShipInv, recvVars, peerVars
<1>6. ASSUME NEW t \in Threads, NEW kind \in CommandKinds, pc[t] # "idle",
             StartSending(t, kind),
             UNCHANGED <<package_id, dbVars, ship, global_finished, recvVars, peerVars>>
      PROVE  (TypeOK /\ ShipInv)'
  <2>1. [kind |-> kind, ship |-> ship[t], seq |-> SeqNum] \in Commands
    BY <1>6 DEF Commands, TypeOK, ShipInv
  <2>2. send_queue' \in [Peers -> SUBSET Commands]
    BY <1>6, <2>1, PushTypes DEF StartSending
  <2> QED
    BY <1>6, <2>2 DEF StartSending, getSeqNum, Goto, TypeOK, ShipInv, dbVars,
                      recvVars, peerVars
<1>7. CASE PackAcknowledged
  BY <1>7 DEF PackAcknowledged, Acknowledged, Goto, TypeOK, ShipInv, dbVars,
              recvVars, peerVars
<1>8. CASE DrawPickup
  BY <1>8 DEF DrawPickup, getSeqNum, Goto, TypeOK, ShipInv, dbVars, recvVars,
              peerVars
<1>9. CASE SendToUPSPack
  <2>1. /\ package_status' \in [Packages -> Statuses]
        /\ conn' \in Threads \cup {NoThread}
        /\ lost' \subseteq Statements \X Packages
    BY <1>9, SQLTypes DEF SendToUPSPack, TypeOK
  <2>2. [kind |-> "pickup", ship |-> ship["main"], seq |-> seq_num["main"]] \in Commands
    BY <1>9 DEF SendToUPSPack, Commands, TypeOK, ShipInv
  <2>3. send_queue' \in [Peers -> SUBSET Commands]
    BY <1>9, <2>2, PushTypes DEF SendToUPSPack
  <2> QED
    BY <1>9, <2>1, <2>3 DEF SendToUPSPack, Goto, TypeOK, ShipInv, recvVars, peerVars
<1>10. CASE PickupAcknowledged
  BY <1>10 DEF PickupAcknowledged, Return, Goto, TypeOK, ShipInv, dbVars, recvVars,
               peerVars
<1>11. ASSUME NEW peer \in Peers, Receive(peer) PROVE (TypeOK /\ ShipInv)'
  <2>1. PICK acks \in SUBSET NewAcks(peer), items \in SUBSET Emitted(peer) :
          Handle(peer, acks, items)
    BY <1>11 DEF Receive
  <2>2. acks \subseteq Nat
    BY DEF NewAcks, Seqs, TypeOK, Commands
  <2>3. items \subseteq Responses
    BY EmittedTypes
  <2> QED
    BY <2>1, <2>2, <2>3 DEF Handle, TypeOK, ShipInv, dbVars, threadVars, peerVars
<1>12. ASSUME NEW peer \in Peers, NEW r \in Responses, Dispatch(peer, r)
       PROVE  (TypeOK /\ ShipInv)'
  <2>1. Handler(r.kind) \in Labels /\ r.ship \in Packages
    BY DEF Handler, Responses
  <2> QED
    BY <1>12, <2>1 DEF Dispatch, Goto, TypeOK, ShipInv, dbVars, peerVars
<1>13. ASSUME NEW peer \in Peers, FinishHandler(peer) PROVE (TypeOK /\ ShipInv)'
  <2>1. Written(pc[peer]) \in Statuses /\ pc[peer] \in Statements
    BY <1>13 DEF FinishHandler, LastStatements, Written, Statuses
  <2>2. update_package_status(ship[peer], Written(pc[peer])) \in [Packages -> Statuses]
    BY <2>1, RowTypes DEF ShipInv
  <2>3. /\ package_status' \in [Packages -> Statuses]
        /\ conn' \in Threads \cup {NoThread}
        /\ lost' \subseteq Statements \X Packages
    BY <1>13, <2>1, <2>2, SQLTypes DEF FinishHandler
  <2> QED
    BY <1>13, <2>3 DEF FinishHandler, Return, Goto, TypeOK, ShipInv, recvVars, peerVars
<1>14. CASE SetLoadeded
  <2>1. update_package_status(ship["world"], "loadeded") \in [Packages -> Statuses]
    BY <1>14, RowTypes DEF SetLoadeded, ShipInv, Statuses
  <2>2. /\ package_status' \in [Packages -> Statuses]
        /\ conn' \in Threads \cup {NoThread}
        /\ lost' \subseteq Statements \X Packages
    BY <1>14, <2>1, SQLTypes DEF SetLoadeded
  <2> QED
    BY <1>14, <2>2 DEF SetLoadeded, Goto, TypeOK, ShipInv, recvVars, peerVars
<1>15. CASE DeliveryAcknowledged
  BY <1>15 DEF DeliveryAcknowledged, Acknowledged, Goto, TypeOK, ShipInv, dbVars,
               recvVars, peerVars
<1>16. CASE CheckPackageIsPacked
  <2>1. /\ package_status' \in [Packages -> Statuses]
        /\ conn' \in Threads \cup {NoThread}
        /\ lost' \subseteq Statements \X Packages
    BY <1>16, SQLTypes DEF CheckPackageIsPacked, TypeOK
  <2>2. pc' = pc \/ pc' = [pc EXCEPT !["ups"] = "send_load"]
    BY <1>16 DEF CheckPackageIsPacked, Goto
  <2> QED
    BY <1>16, <2>1, <2>2 DEF CheckPackageIsPacked, TypeOK, ShipInv, recvVars, peerVars
<1>17. CASE LoadAcknowledged
  BY <1>17 DEF LoadAcknowledged, Acknowledged, Goto, TypeOK, ShipInv, dbVars,
               recvVars, peerVars
<1>18. ASSUME NEW peer \in Peers, NEW c \in send_queue[peer], SendMsgTo(peer, c)
       PROVE  (TypeOK /\ ShipInv)'
  <2>1. c \in Commands /\ c.ship \in Packages
    BY DEF TypeOK, Commands
  <2>2. send_queue' \in [Peers -> SUBSET Commands]
    BY <1>18 DEF SendMsgTo, TypeOK
  <2>3. CASE Deliver(peer, c)
    <3>1. Started(site[peer][c.ship], c.kind) \in Stages
      BY <2>1 DEF Started, Stages, TypeOK
    <3>2. site' \in [Peers -> [Packages -> Stages]]
      BY <2>1, <2>3, <3>1 DEF Deliver, TypeOK
    <3>3. got' \in [Peers -> SUBSET Commands]
      BY <2>1, <2>3 DEF Deliver, TypeOK
    <3> QED
      BY <1>18, <2>2, <3>2, <3>3
         DEF SendMsgTo, TypeOK, ShipInv, dbVars, threadVars, recvVars
  <2>4. CASE UNCHANGED peerVars
    BY <1>18, <2>2, <2>4
       DEF SendMsgTo, TypeOK, ShipInv, dbVars, threadVars, recvVars, peerVars
  <2> QED
    BY <1>18, <2>3, <2>4 DEF SendMsgTo
<1>19. ASSUME NEW peer \in Peers, NEW p \in Packages, Progress(peer, p)
       PROVE  (TypeOK /\ ShipInv)'
  <2>1. site' \in [Peers -> [Packages -> Stages]]
    BY <1>19 DEF Progress, TypeOK, Stages
  <2> QED
    BY <1>19, <2>1 DEF Progress, TypeOK, ShipInv, dbVars, threadVars, recvVars
<1>20. CASE UNCHANGED vars
  BY <1>20 DEF vars, TypeOK, ShipInv
<1>21. SendToWorldPack \/ SendUPSReqDelivery \/ SendLoad => (TypeOK /\ ShipInv)'
  BY <1>6 DEF SendToWorldPack, SendUPSReqDelivery, SendLoad
<1> QED
  BY <1>1, <1>2, <1>3, <1>4, <1>5, <1>7, <1>8, <1>9, <1>10, <1>11, <1>12, <1>13,
     <1>14, <1>15, <1>16, <1>17, <1>18, <1>19, <1>20, <1>21
     DEF Next, MainStep, OrderStep, WorldStep, UPSStep, ReceiverStep, SendStep

-----------------------------------------------------------------------------
(* The numbers of the commands                                             *)

\* The points at which a thread has a number of its own.
Drawn == CommandKinds \cup {"check_ups_id"}

\* Numbers are drawn once: a thread's number is nobody else's, a command that
\* bears it is the thread's own, and what is acknowledged was received.
SeqInv ==
  /\ \A t \in Threads : pc[t] \in Drawn => NUM_WH <= seq_num[t] /\ seq_num[t] < SeqNum
  /\ \A t, u \in Threads :
       t # u /\ pc[t] \in Drawn /\ pc[u] \in Drawn => seq_num[t] # seq_num[u]
  /\ \A peer \in Peers : \A c \in send_queue[peer] \cup got[peer] :
       PeerOf(c.kind) = peer /\ NUM_WH <= c.seq /\ c.seq < SeqNum
  /\ \A t \in Threads, peer \in Peers : \A c \in send_queue[peer] \cup got[peer] :
       pc[t] \in Drawn /\ c.seq = seq_num[t] =>
         pc[t] \in CommandKinds /\ c = CommandOf(t)
  /\ \A n \in global_finished :
       n < NUM_WH \/ \E peer \in Peers : \E c \in got[peer] : c.seq = n
  /\ NUM_WH <= SeqNum

\* A number that is drawn now was never acknowledged, sent or drawn before.
LEMMA Fresh ==
  ASSUME TypeOK, SeqInv
  PROVE  /\ SeqNum \notin global_finished
         /\ \A peer \in Peers : \A c \in send_queue[peer] \cup got[peer] : c.seq # SeqNum
         /\ \A t \in Threads : pc[t] \in Drawn => seq_num[t] # SeqNum
<1> USE DEF SeqInv, TypeOK, Commands
<1>1. \A peer \in Peers : \A c \in send_queue[peer] \cup got[peer] : c.seq # SeqNum
  OBVIOUS
<1>2. SeqNum \notin global_finished
  BY <1>1
<1> QED
  BY <1>1, <1>2

\* What a step leaves as it is when it neither draws nor sends.
LEMMA SeqUnchanged ==
  ASSUME TypeOK, SeqInv,
         \A u \in Threads : pc'[u] \in Drawn =>
           pc'[u] = pc[u] /\ seq_num'[u] = seq_num[u] /\ ship'[u] = ship[u],
         UNCHANGED <<SeqNum, send_queue, global_finished, got>>
  PROVE  SeqInv'
  BY DEF SeqInv, CommandOf, Drawn

\* A command that joins its queue under the number of its own thread.
LEMMA PushOwn ==
  ASSUME TypeOK, SeqInv, NEW t \in Threads, pc[t] \in Drawn, pc'[t] \in CommandKinds,
         \A u \in Threads \ {t} : pc'[u] = pc[u],
         pc[t] \in CommandKinds => pc'[t] = pc[t],
         Push(CommandOf(t)'),
         UNCHANGED <<SeqNum, seq_num, ship, global_finished, got>>
  PROVE  SeqInv'
<1> DEFINE new == [kind |-> pc'[t], ship |-> ship[t], seq |-> seq_num[t]]
<1>1. CommandOf(t)' = new
  BY DEF CommandOf
<1>2. \A peer \in Peers : \A c \in send_queue'[peer] :
        c \in send_queue[peer] \/ (c = new /\ peer = PeerOf(new.kind))
  BY <1>1, PushQueue
<1>3. \A u \in Threads : pc'[u] \in Drawn => pc[u] \in Drawn
  BY DEF Drawn
<1>4. \A peer \in Peers : \A c \in (send_queue[peer] \cup got[peer])' :
        PeerOf(c.kind) = peer /\ NUM_WH <= c.seq /\ c.seq < SeqNum
  BY <1>2 DEF SeqInv
<1>5. ASSUME NEW u \in Threads, NEW peer \in Peers,
             NEW c \in (send_queue[peer] \cup got[peer])',
             pc'[u] \in Drawn, c.seq = seq_num[u]
      PROVE  pc'[u] \in CommandKinds /\ c = CommandOf(u)'
  <2>1. CASE c = new
    <3>1. u = t
      BY <1>3, <1>5, <2>1 DEF SeqInv
    <3> QED
      BY <1>1, <2>1, <3>1
  <2>2. CASE c \in send_queue[peer] \cup got[peer]
    <3>1. pc[u] \in CommandKinds /\ c = CommandOf(u)
      BY <1>3, <1>5, <2>2 DEF SeqInv
    <3>2. pc'[u] = pc[u]
      BY <3>1
    <3> QED
      BY <3>1, <3>2 DEF CommandOf
  <2> QED
    BY <1>2, <2>1, <2>2
<1> QED
  BY <1>3, <1>4, <1>5 DEF SeqInv

\* A thread draws a number, with a command under it in its queue or without.
LEMMA DrawNew ==
  ASSUME TypeOK, SeqInv, NEW t \in Threads, pc'[t] \in Drawn,
         \A u \in Threads \ {t} : pc'[u] = pc[u], getSeqNum(t),
         \/ UNCHANGED send_queue
         \/ pc'[t] \in CommandKinds /\ Push(CommandOf(t)'),
         UNCHANGED <<ship, global_finished, got>>
  PROVE  SeqInv'
<1> DEFINE new == [kind |-> pc'[t], ship |-> ship[t], seq |-> SeqNum]
<1>1. /\ seq_num'[t] = SeqNum /\ SeqNum' = SeqNum + 1
      /\ \A u \in Threads \ {t} : seq_num'[u] = seq_num[u]
  BY DEF getSeqNum, TypeOK
<1>2. CommandOf(t)' = new
  BY <1>1 DEF CommandOf
<1>3. \A peer \in Peers : \A c \in send_queue'[peer] :
        \/ c \in send_queue[peer]
        \/ c = new /\ peer = PeerOf(new.kind) /\ pc'[t] \in CommandKinds
  BY <1>2, PushQueue
<1>4. \A peer \in Peers : \A c \in (send_queue[peer] \cup got[peer])' :
        PeerOf(c.kind) = peer /\ NUM_WH <= c.seq /\ c.seq < SeqNum'
  BY <1>1, <1>3 DEF SeqInv, TypeOK, Commands
<1>5. ASSUME NEW u \in Threads, NEW peer \in Peers,
             NEW c \in (send_queue[peer] \cup got[peer])',
             pc'[u] \in Drawn, c.seq = seq_num'[u]
      PROVE  pc'[u] \in CommandKinds /\ c = CommandOf(u)'
  <2>1. CASE c = new /\ pc'[t] \in CommandKinds
    <3>1. u = t
      BY <1>1, <1>5, <2>1, Fresh
    <3> QED
      BY <1>2, <2>1, <3>1
  <2>2. CASE c \in send_queue[peer] \cup got[peer]
    <3>1. u # t
      BY <1>1, <1>5, <2>2, Fresh
    <3> QED
      BY <1>1, <1>5, <2>2, <3>1 DEF SeqInv, CommandOf
  <2> QED
    BY <1>3, <2>1, <2>2
<1>6. \A u \in Threads : pc'[u] \in Drawn => NUM_WH <= seq_num'[u] /\ seq_num'[u] < SeqNum'
  BY <1>1 DEF SeqInv, TypeOK
<1>7. \A u, v \in Threads :
        u # v /\ pc'[u] \in Drawn /\ pc'[v] \in Drawn => seq_num'[u] # seq_num'[v]
  BY <1>1, Fresh DEF SeqInv
<1> QED
  BY <1>1, <1>4, <1>5, <1>6, <1>7 DEF SeqInv, TypeOK

LEMMA SeqStep == TypeOK /\ SeqInv /\ [Next]_vars => SeqInv'
<1> SUFFICES ASSUME TypeOK, SeqInv, [Next]_vars PROVE SeqInv'
  OBVIOUS
<1> USE DEF TypeOK, Goto, Return, Drawn, CommandKinds, recvVars, peerVars, threadVars
<1>1. ASSUME \/ PlaceOrder \/ InsertPackage \/ InsertOrder \/ PackAcknowledged
             \/ PickupAcknowledged
      PROVE  SeqInv'
  BY <1>1, SeqUnchanged
     DEF PlaceOrder, InsertPackage, InsertOrder, PackAcknowledged, PickupAcknowledged
<1>2. ASSUME \/ SetLoadeded \/ DeliveryAcknowledged \/ CheckPackageIsPacked
             \/ LoadAcknowledged
      PROVE  SeqInv'
  BY <1>2, SeqUnchanged
     DEF SetLoadeded, DeliveryAcknowledged, CheckPackageIsPacked, LoadAcknowledged
<1>3. ASSUME NEW t \in Threads, BeginWork(t) PROVE SeqInv'
  BY <1>3, SeqUnchanged DEF BeginWork
<1>4. ASSUME NEW peer \in Peers, FinishHandler(peer) PROVE SeqInv'
  BY <1>4, SeqUnchanged DEF FinishHandler, LastStatements
<1>5. ASSUME NEW peer \in Peers, NEW r \in Responses, Dispatch(peer, r) PROVE SeqInv'
  <2>1. Handler(r.kind) \notin Drawn
    BY DEF Handler, Responses
  <2>2. \A u \in Threads : pc'[u] \in Drawn => pc'[u] = pc[u] /\ ship'[u] = ship[u]
    BY <1>5, <2>1 DEF Dispatch
  <2> QED
    BY <1>5, <2>2, SeqUnchanged DEF Dispatch
<1>6. ASSUME NEW peer \in Peers, NEW p \in Packages, Progress(peer, p) PROVE SeqInv'
  BY <1>6, SeqUnchanged DEF Progress
<1>7. ASSUME NEW t \in Threads, PushAgain(t) PROVE SeqInv'
  <2>1. CommandOf(t)' = CommandOf(t)
    BY <1>7 DEF PushAgain, CommandOf
  <2> QED
    BY <1>7, <2>1, PushOwn DEF PushAgain
<1>8. CASE SendToUPSPack
  <2>1. CommandOf("main")' =
          [kind |-> "pickup", ship |-> ship["main"], seq |-> seq_num["main"]]
    BY <1>8 DEF SendToUPSPack, CommandOf
  <2> QED
    BY <1>8, <2>1, PushOwn DEF SendToUPSPack
<1>9. CASE DrawPickup
  BY <1>9, DrawNew DEF DrawPickup
<1>10. ASSUME NEW t \in Threads, NEW kind \in CommandKinds, StartSending(t, kind),
              UNCHANGED <<ship, global_finished, peerVars>>
       PROVE  SeqInv'
  <2>1. CommandOf(t)' = [kind |-> kind, ship |-> ship[t], seq |-> SeqNum]
    BY <1>10 DEF StartSending, getSeqNum, CommandOf
  <2> QED
    BY <1>10, <2>1, DrawNew DEF StartSending
<1>11. ASSUME NEW peer \in Peers, Receive(peer) PROVE SeqInv'
  <2>1. PICK acks \in SUBSET NewAcks(peer), items \in SUBSET Emitted(peer) :
          Handle(peer, acks, items)
    BY <1>11 DEF Receive
  <2>2. \A n \in acks : \E c \in got[peer] : c.seq = n
    BY DEF NewAcks, Seqs
  <2>3. /\ global_finished' = global_finished \cup acks
        /\ UNCHANGED <<pc, ship, seq_num, SeqNum, send_queue, got>>
    BY <2>1 DEF Handle
  <2>4. \A n \in global_finished' :
          n < NUM_WH \/ \E q \in Peers : \E c \in got'[q] : c.seq = n
    <3>1. \A n \in acks : \E q \in Peers : \E c \in got[q] : c.seq = n
      BY <2>2
    <3> QED
      BY <2>3, <3>1 DEF SeqInv
  <2>5. \A t \in Threads : CommandOf(t)' = CommandOf(t)
    BY <2>3 DEF CommandOf
  <2> QED
    BY <2>3, <2>4, <2>5 DEF SeqInv
<1>12. ASSUME NEW peer \in Peers, NEW c \in send_queue[peer], SendMsgTo(peer, c)
       PROVE  SeqInv'
  <2>1. /\ \A q \in Peers : (send_queue[q] \cup got[q])' \subseteq send_queue[q] \cup got[q]
        /\ \A q \in Peers : got[q] \subseteq got'[q]
    BY <1>12 DEF SendMsgTo, Deliver
  <2>2. UNCHANGED <<pc, ship, seq_num, SeqNum, global_finished>>
    BY <1>12 DEF SendMsgTo
  <2> QED
    BY <2>1, <2>2 DEF SeqInv, CommandOf
<1>13. CASE UNCHANGED vars
  BY <1>13, SeqUnchanged DEF vars
<1>14. SendToWorldPack \/ SendUPSReqDelivery \/ SendLoad => SeqInv'
  BY <1>10 DEF SendToWorldPack, SendUPSReqDelivery, SendLoad
<1> QED
  BY <1>1, <1>2, <1>3, <1>4, <1>5, <1>6, <1>7, <1>8, <1>9, <1>11, <1>12, <1>13, <1>14
     DEF Next, MainStep, OrderStep, WorldStep, UPSStep, ReceiverStep, SendStep

LEMMA SeqInitially == Init => TypeOK /\ ShipInv /\ SeqInv
<1> SUFFICES ASSUME Init PROVE TypeOK /\ ShipInv /\ SeqInv
  OBVIOUS
<1>1. TypeOK
  BY DEF Init, TypeOK, Statuses, Stages
<1>2. ShipInv
  BY DEF Init, ShipInv
<1>3. SeqInv
  <2>1. \A n \in global_finished : n < NUM_WH
    BY DEF Init
  <2> QED
    BY <2>1 DEF Init, SeqInv, Drawn, CommandKinds
<1> QED
  BY <1>1, <1>2, <1>3

\* The inductive invariant of this module.
IInv == TypeOK /\ ShipInv /\ SeqInv

LEMMA Inductive == IInv /\ [Next]_vars => IInv'
  BY TypeStep, SeqStep DEF IInv

LEMMA AckIsOwn == IInv => AckMeansReceived
<1> SUFFICES ASSUME IInv, NEW t \in Threads, pc[t] \in CommandKinds,
                    seq_num[t] \in global_finished
             PROVE  CommandOf(t) \in got[PeerOf(pc[t])]
  BY DEF AckMeansReceived
<1>1. NUM_WH <= seq_num[t]
  BY DEF IInv, SeqInv, Drawn
<1>2. PICK peer \in Peers : \E c \in got[peer] : c.seq = seq_num[t]
  BY <1>1 DEF IInv, SeqInv, TypeOK
<1>3. PICK c \in got[peer] : c.seq = seq_num[t]
  BY <1>2
<1>4. c = CommandOf(t) /\ PeerOf(c.kind) = peer
  BY <1>3 DEF IInv, SeqInv, Drawn
<1>5. c.kind = pc[t]
  BY <1>4 DEF CommandOf
<1> QED
  BY <1>3, <1>4, <1>5

-----------------------------------------------------------------------------
(* The circular wait                                                       *)

\* While the receiving threads wait for each other nothing is acknowledged, and
\* each of them stays where its loop ends with an acknowledgement only.
LEMMA WaitStep == IInv /\ [Next]_vars /\ CircularWait => CircularWait'
<1> SUFFICES ASSUME IInv, [Next]_vars, CircularWait PROVE CircularWait'
  OBVIOUS
<1> USE DEF CircularWait, WorldAwaitsUPS, UPSAwaitsWorld
<1>1. SeqNum \notin global_finished
  BY Fresh DEF IInv
<1>2. /\ pc["world"] \in {"set_loadeded", "send_delivery", "delivery"}
      /\ pc["ups"] \in {"check_packing", "send_load", "load"}
  OBVIOUS
<1>3. ASSUME NEW t \in Threads, BeginWork(t) \/ PushAgain(t) PROVE CircularWait'
  BY <1>3 DEF BeginWork, PushAgain, threadVars
<1>4. ASSUME NEW label \in Labels, pc' = [pc EXCEPT !["main"] = label],
             \A peer \in Peers : seq_num'[peer] = seq_num[peer],
             UNCHANGED global_finished
      PROVE  CircularWait'
  BY <1>4 DEF IInv, TypeOK
<1>5. PlaceOrder \/ OrderStep => CircularWait'
  BY <1>4 DEF PlaceOrder, OrderStep, InsertPackage, InsertOrder, SendToWorldPack,
              PackAcknowledged, DrawPickup, SendToUPSPack, PickupAcknowledged,
              StartSending, getSeqNum, Return, Goto, IInv, TypeOK, CommandKinds
<1>6. ASSUME NEW peer \in Peers, FinishHandler(peer) PROVE CircularWait'
  BY <1>2, <1>6 DEF FinishHandler, LastStatements
<1>7. ASSUME NEW peer \in Peers, NEW r \in Responses, Dispatch(peer, r)
      PROVE  CircularWait'
  BY <1>2, <1>7 DEF Dispatch
<1>8. CASE SetLoadeded
  BY <1>8 DEF SetLoadeded, Goto, IInv, TypeOK
<1>9. CASE SendUPSReqDelivery
  BY <1>1, <1>9 DEF SendUPSReqDelivery, StartSending, getSeqNum, Goto, IInv, TypeOK
<1>10. CASE DeliveryAcknowledged
  BY <1>10 DEF DeliveryAcknowledged, Acknowledged
<1>11. CASE CheckPackageIsPacked
  BY <1>11 DEF CheckPackageIsPacked, Goto, IInv, TypeOK
<1>12. CASE SendLoad
  BY <1>1, <1>12 DEF SendLoad, StartSending, getSeqNum, Goto, IInv, TypeOK
<1>13. CASE LoadAcknowledged
  BY <1>13 DEF LoadAcknowledged, Acknowledged
<1>14. ASSUME NEW peer \in Peers, Receive(peer) PROVE CircularWait'
  BY <1>2, <1>14 DEF Receive, Handle
<1>15. ASSUME NEW peer \in Peers, NEW c \in send_queue[peer], SendMsgTo(peer, c)
       PROVE  CircularWait'
  BY <1>15 DEF SendMsgTo, threadVars
<1>16. ASSUME NEW peer \in Peers, NEW p \in Packages, Progress(peer, p)
       PROVE  CircularWait'
  BY <1>16 DEF Progress, threadVars
<1>17. CASE UNCHANGED vars
  BY <1>17 DEF vars
<1> QED
  BY <1>3, <1>5, <1>6, <1>7, <1>8, <1>9, <1>10, <1>11, <1>12, <1>13, <1>14, <1>15,
     <1>16, <1>17
     DEF Next, MainStep, WorldStep, UPSStep, ReceiverStep, SendStep

-----------------------------------------------------------------------------
\* The variables keep their types.
THEOREM ShippingTypes == Spec => []TypeOK
<1>1. IInv => TypeOK
  BY DEF IInv
<1> QED
  BY <1>1, SeqInitially, Inductive, PTL DEF Spec, IInv

\* For any number of packages: a thread that stops sending its command does so
\* because that command was received by the peer it is for.
THEOREM AckTheorem == Spec => []AckMeansReceived
<1>1. Init => IInv
  BY SeqInitially DEF IInv
<1> QED
  BY <1>1, Inductive, AckIsOwn, PTL DEF Spec

\* For any number of packages, however many statements are dropped and whatever
\* the peers send: once the two receiving threads wait for each other, they do so
\* forever.
THEOREM CircularWaitTheorem == Spec => CircularWaitIsForever
<1>1. Init => IInv
  BY SeqInitially DEF IInv
<1>2. IInv /\ [Next]_vars => [CircularWait => CircularWait']_vars
  BY WaitStep
<1> QED
  BY <1>1, <1>2, Inductive, PTL DEF Spec, CircularWaitIsForever

HIDE DEF Labels

-----------------------------------------------------------------------------
(* The commands and the order in which they are sent: none twice, no       *)
(* delivery before the world has loaded.                                   *)

Sent == send_queue["world"] \cup send_queue["ups"] \cup got["world"] \cup got["ups"]

\* The thread that sends the commands of a kind, where it is while it still has to
\* draw one, ...
Sender(kind) == CASE kind \in {"pack", "pickup"} -> "main"
                  [] kind = "delivery" -> "world"
                  [] kind = "load" -> "ups"
Before(kind) ==
  CASE kind = "pack" -> {"insert_package", "insert_order", "send_pack"}
    [] kind = "pickup" -> {"insert_package", "insert_order", "send_pack", "pack",
                           "draw_pickup", "check_ups_id"}
    [] kind = "delivery" -> {"set_loadeded", "send_delivery"}
    [] kind = "load" -> {"check_packing", "send_load"}
\* ... and what has happened to the package, once and for all, by then.
Due(kind, p) ==
  CASE kind \in {"pack", "pickup"} -> p < package_id
    [] kind = "delivery" -> Resp("loaded", p) \in finished["world"]
    [] kind = "load" -> Resp("truckArr", p) \in finished["ups"]

Once(kind) ==
  LET t == Sender(kind) IN
  /\ pc[t] \in Before(kind) \cup {kind} => Due(kind, ship[t])
  /\ \A c \in Sent : c.kind = kind =>
       /\ Due(kind, c.ship)
       /\ ship[t] = c.ship => /\ pc[t] \notin Before(kind)
                              /\ pc[t] = kind => c = CommandOf(t)
       /\ \A d \in Sent : d.kind = kind /\ d.ship = c.ship => c = d

LabelInv ==
  /\ pc["main"] \in {"idle", "insert_package", "insert_order", "send_pack", "pack",
                     "draw_pickup", "check_ups_id", "pickup"}
  /\ pc["world"] \in {"idle", "set_packed", "set_loadeded", "send_delivery", "delivery",
                      "set_delivering"}
  /\ pc["ups"] \in {"idle", "check_packing", "send_load", "load", "set_loading",
                    "set_delivered"}

\* The world reports a package loaded that it has loaded, and had acknowledged the
\* load command before.
ResponseInv ==
  /\ \A r \in batch["ups"] \cup finished["ups"] : r.kind \in {"truckArr", "delivered"}
  /\ \A r \in batch["world"] \cup finished["world"] :
       /\ r.kind \in {"ready", "loaded"}
       /\ r.kind = "loaded" =>
            /\ site["world"][r.ship] = "loaded"
            /\ \E c \in got["world"] :
                 c.kind = "load" /\ c.ship = r.ship /\ c.seq \in global_finished

OnceInv    == \A kind \in CommandKinds : Once(kind)
CommandInv == LabelInv /\ ResponseInv /\ OnceInv

-----------------------------------------------------------------------------
(* The responses                                                           *)

LEMMA ResponseStep == TypeOK /\ ResponseInv /\ [Next]_vars => ResponseInv'
<1> SUFFICES ASSUME TypeOK, ResponseInv, [Next]_vars PROVE ResponseInv'
  OBVIOUS
<1>1. ASSUME UNCHANGED <<batch, finished, global_finished, peerVars>> PROVE ResponseInv'
  BY <1>1 DEF ResponseInv, peerVars
<1>2. ASSUME NEW peer \in Peers, Receive(peer) PROVE ResponseInv'
  <2>1. PICK acks \in SUBSET NewAcks(peer), items \in SUBSET Emitted(peer) :
          Handle(peer, acks, items)
    BY <1>2 DEF Receive
  <2>2. /\ batch' = [batch EXCEPT ![peer] = items] /\ global_finished' = global_finished \cup acks
        /\ UNCHANGED <<finished, got, site>> /\ (peer = "world" => InOrder(acks, items))
    BY <2>1 DEF Handle, peerVars
  <2>3. CASE peer = "ups"
    <3>1. \A r \in items : r.kind \in {"truckArr", "delivered"}
      BY <2>3 DEF Emitted, Resp
    <3> QED
      BY <2>2, <2>3, <3>1 DEF ResponseInv, TypeOK
  <2>4. CASE peer = "world"
    <3>1. \A r \in items : r.kind \in {"ready", "loaded"}
      BY <2>4 DEF Emitted, Resp
    <3>2. \A r \in items : r.kind = "loaded" => site["world"][r.ship] = "loaded"
      BY <2>4 DEF Emitted, Resp
    <3>3. \A r \in items : r.kind = "loaded" =>
            \E c \in got["world"] :
              c.kind = "load" /\ c.ship = r.ship /\ c.seq \in global_finished'
      BY <2>2, <2>4 DEF InOrder, CausedBy
    <3>4. batch'["world"] = items /\ batch'["ups"] = batch["ups"]
      BY <2>2, <2>4 DEF TypeOK
    <3> QED
      BY <2>2, <3>1, <3>2, <3>3, <3>4 DEF ResponseInv
  <2> QED
    BY <2>3, <2>4
<1>3. ASSUME NEW peer \in Peers, NEW r \in Responses, Dispatch(peer, r) PROVE ResponseInv'
  <2>1. /\ \A q \in Peers : batch'[q] \cup finished'[q] \subseteq batch[q] \cup finished[q]
        /\ UNCHANGED <<global_finished, got, site>>
    BY <1>3 DEF Dispatch, TypeOK, peerVars
  <2> QED
    BY <2>1 DEF ResponseInv
<1>4. ASSUME NEW peer \in Peers, NEW c \in send_queue[peer], SendMsgTo(peer, c)
      PROVE  ResponseInv'
  <2>1. \A p \in Packages : site["world"][p] = "loaded" => site'["world"][p] = "loaded"
    <3>1. \/ site' = site
          \/ site' = [site EXCEPT ![peer][c.ship] = Started(site[peer][c.ship], c.kind)]
      BY <1>4 DEF SendMsgTo, Deliver, peerVars
    <3>2. Started("loaded", c.kind) = "loaded"
      BY DEF Started
    <3> QED
      BY <3>1, <3>2 DEF TypeOK
  <2>2. /\ got["world"] \subseteq got'["world"]
        /\ UNCHANGED <<batch, finished, global_finished>>
    BY <1>4 DEF SendMsgTo, Deliver, TypeOK, peerVars, recvVars
  <2>3. \A r \in batch["world"] \cup finished["world"] : r.ship \in Packages
    BY DEF TypeOK, Responses
  <2> QED
    BY <2>1, <2>2, <2>3 DEF ResponseInv
<1>5. ASSUME NEW peer \in Peers, NEW p \in Packages, Progress(peer, p) PROVE ResponseInv'
  <2>1. \A q \in Packages : site["world"][q] = "loaded" => site'["world"][q] = "loaded"
    BY <1>5 DEF Progress, TypeOK
  <2>2. UNCHANGED <<batch, finished, global_finished, got>>
    BY <1>5 DEF Progress, recvVars
  <2>3. \A r \in batch["world"] \cup finished["world"] : r.ship \in Packages
    BY DEF TypeOK, Responses
  <2> QED
    BY <2>1, <2>2, <2>3 DEF ResponseInv
<1>6. ASSUME NEW t \in Threads, BeginWork(t) \/ PushAgain(t) PROVE ResponseInv'
  BY <1>1, <1>6 DEF BeginWork, PushAgain, peerVars, recvVars
<1>7. PlaceOrder \/ OrderStep => ResponseInv'
  BY <1>1 DEF PlaceOrder, OrderStep, InsertPackage, InsertOrder, SendToWorldPack,
              PackAcknowledged, DrawPickup, SendToUPSPack, PickupAcknowledged, recvVars
<1>8. ASSUME NEW peer \in Peers, FinishHandler(peer) PROVE ResponseInv'
  BY <1>1, <1>8 DEF FinishHandler, recvVars
<1>9. ASSUME \/ SetLoadeded \/ SendUPSReqDelivery \/ DeliveryAcknowledged
             \/ CheckPackageIsPacked \/ SendLoad \/ LoadAcknowledged
      PROVE  ResponseInv'
  BY <1>1, <1>9 DEF SetLoadeded, SendUPSReqDelivery, DeliveryAcknowledged,
                    CheckPackageIsPacked, SendLoad, LoadAcknowledged, recvVars
<1>10. CASE UNCHANGED vars
  BY <1>1, <1>10 DEF vars, peerVars
<1> QED
  BY <1>2, <1>3, <1>4, <1>5, <1>6, <1>7, <1>8, <1>9, <1>10
     DEF Next, MainStep, WorldStep, UPSStep, ReceiverStep, SendStep

-----------------------------------------------------------------------------
(* One command of a kind for each package                                  *)

\* What is due once stays due.
LEMMA DueStep ==
  ASSUME TypeOK, [Next]_vars, NEW kind \in CommandKinds, NEW p \in Packages, Due(kind, p)
  PROVE  Due(kind, p)'
<1>1. package_id' \in Nat /\ package_id \in Nat /\ package_id <= package_id'
  <2>1. package_id \in Nat
    BY DEF TypeOK
  <2>2. package_id' = package_id \/ package_id' = package_id + 1
    BY DEF Next, vars, PlaceOrder, MainStep, OrderStep, InsertPackage, InsertOrder,
           SendToWorldPack, PackAcknowledged, DrawPickup, SendToUPSPack,
           PickupAcknowledged, WorldStep, UPSStep, ReceiverStep, BeginWork, PushAgain,
           FinishHandler, Dispatch, SetLoadeded, SendUPSReqDelivery,
           DeliveryAcknowledged, CheckPackageIsPacked, SendLoad, LoadAcknowledged,
           SendStep, SendMsgTo, Receive, Handle, Progress
  <2> QED
    BY <2>1, <2>2
<1>2. \A q \in Peers : finished[q] \subseteq finished'[q]
  <2>1. ASSUME NEW q \in Peers, NEW r \in Responses, Dispatch(q, r)
        PROVE  \A peer \in Peers : finished[peer] \subseteq finished'[peer]
    BY <2>1 DEF Dispatch, TypeOK
  <2>2. \/ finished' = finished
        \/ \E q \in Peers, r \in Responses : Dispatch(q, r)
    BY DEF Next, vars, PlaceOrder, MainStep, OrderStep, InsertPackage, InsertOrder,
           SendToWorldPack, PackAcknowledged, DrawPickup, SendToUPSPack,
           PickupAcknowledged, WorldStep, UPSStep, ReceiverStep, BeginWork, PushAgain,
           FinishHandler, SetLoadeded, SendUPSReqDelivery,
           DeliveryAcknowledged, CheckPackageIsPacked, SendLoad, LoadAcknowledged,
           SendStep, SendMsgTo, Receive, Handle, Progress, recvVars
  <2> QED
    BY <2>1, <2>2
<1>3. CASE kind \in {"pack", "pickup"}
  <2>1. p < package_id
    BY <1>3 DEF Due
  <2>2. p < package_id'
    BY <1>1, <2>1
  <2> QED
    BY <1>3, <2>2 DEF Due
<1>4. CASE kind \in {"delivery", "load"}
  BY <1>2, <1>4 DEF Due
<1> QED
  BY <1>3, <1>4 DEF CommandKinds

LEMMA SentTypes ==
  ASSUME TypeOK, NEW c \in Sent PROVE c.ship \in Packages /\ c.kind \in CommandKinds
  BY DEF Sent, TypeOK, Commands

LEMMA SenderIsThread == \A kind \in CommandKinds : Sender(kind) \in Threads
  BY DEF Sender, CommandKinds

\* Once for a thread t, so that its clauses can be named.
LEMMA OnceClauses ==
  ASSUME NEW kind \in CommandKinds, NEW t, t = Sender(kind)
  PROVE  Once(kind)' <=>
         /\ pc'[t] \in Before(kind) \cup {kind} => Due(kind, ship[t])'
         /\ \A c \in Sent' : c.kind = kind =>
              /\ Due(kind, c.ship)'
              /\ ship'[t] = c.ship => /\ pc'[t] \notin Before(kind)
                                      /\ pc'[t] = kind => c = CommandOf(t)'
              /\ \A d \in Sent' : d.kind = kind /\ d.ship = c.ship => c = d
  BY DEF Once, Due

\* The thread of a kind stays where it is, goes on before its command, or leaves it
\* behind; and no other of the kind is sent.
LEMMA OnceKept ==
  ASSUME TypeOK, [Next]_vars, NEW kind \in CommandKinds, Once(kind), ShipInv',
         \A c \in Sent' : c.kind = kind => c \in Sent,
         NEW t, t = Sender(kind),
         \/ /\ pc'[t] = pc[t] /\ ship'[t] = ship[t]
            /\ pc[t] = kind => seq_num'[t] = seq_num[t]
         \/ /\ pc[t] \in Before(kind) /\ pc'[t] \in Before(kind) /\ pc'[t] # kind
            /\ ship'[t] = ship[t]
         \/ pc'[t] \notin Before(kind) \cup {kind}
  PROVE  Once(kind)'
<1>1. \A c \in Sent : c.kind = kind => Due(kind, c.ship)'
  BY DueStep, SentTypes DEF Once
<1>2. pc'[t] \in Before(kind) \cup {kind} => Due(kind, ship[t])'
  <2> SUFFICES ASSUME pc'[t] \in Before(kind) \cup {kind} PROVE Due(kind, ship[t])'
    OBVIOUS
  <2>1. pc[t] \in Before(kind) \cup {kind} /\ ship'[t] = ship[t]
    OBVIOUS
  <2>2. Due(kind, ship[t])
    BY <2>1 DEF Once
  <2>3. ship[t] \in Packages
    BY <2>1, SenderIsThread DEF ShipInv, Before, CommandKinds
  <2>4. \A p \in Packages : Due(kind, p) => Due(kind, p)'
    BY DueStep
  <2> QED
    BY <2>1, <2>2, <2>3, <2>4 DEF Due
<1>3. ASSUME NEW c \in Sent', c.kind = kind, ship'[t] = c.ship
      PROVE  /\ pc'[t] \notin Before(kind)
             /\ pc'[t] = kind => c = CommandOf(t)'
  BY <1>3 DEF Once, CommandOf
<1>4. \A c, d \in Sent' : c.kind = kind /\ d.kind = kind /\ d.ship = c.ship => c = d
  BY DEF Once
<1>5. \A c \in Sent' : c.kind = kind => Due(kind, c.ship)'
  BY <1>1 DEF Due
<1> QED
  BY <1>2, <1>3, <1>4, <1>5, OnceClauses

\* It begins, with a package for which the command was not due.
LEMMA OnceBegins ==
  ASSUME TypeOK, [Next]_vars, NEW kind \in CommandKinds, Once(kind),
         \A c \in Sent' : c.kind = kind => c \in Sent,
         NEW t, t = Sender(kind), NEW p, ship'[t] = p, pc'[t] # kind,
         ~Due(kind, p), Due(kind, p)'
  PROVE  Once(kind)'
<1>1. \A c \in Sent' : c.kind = kind => Due(kind, c.ship)'
  BY DueStep, SentTypes DEF Once, Due
<1>2. \A c \in Sent' : c.kind = kind => c.ship # p
  BY DEF Once
<1>3. \A c, d \in Sent' : c.kind = kind /\ d.kind = kind /\ d.ship = c.ship => c = d
  BY DEF Once
<1>4. Due(kind, ship[t])'
  BY DEF Due
<1> QED
  BY <1>1, <1>2, <1>3, <1>4, OnceClauses

\* It sends its command, or sends it again.
LEMMA OnceSent ==
  ASSUME TypeOK, ShipInv, [Next]_vars, NEW kind \in CommandKinds, Once(kind),
         NEW t, t = Sender(kind), pc'[t] = kind, ship'[t] = ship[t],
         \A c \in Sent' : c.kind = kind => c \in Sent \/ c = CommandOf(t)',
         \/ pc[t] \in Before(kind)
         \/ pc[t] = kind /\ seq_num'[t] = seq_num[t]
  PROVE  Once(kind)'
<1>1. pc[t] \in Before(kind) \cup {kind} /\ ship[t] \in Packages
  BY SenderIsThread DEF ShipInv, Before, CommandKinds
<1>2. Due(kind, ship[t])
  BY <1>1 DEF Once
<1>3. \A p \in Packages : Due(kind, p) => Due(kind, p)'
  BY DueStep
<1>4. Due(kind, ship[t])'
  BY <1>1, <1>2, <1>3 DEF Due
<1>5. CommandOf(t)' = [kind |-> kind, ship |-> ship[t], seq |-> seq_num'[t]]
  BY DEF CommandOf
<1>6. \A c \in Sent : c.kind = kind /\ c.ship = ship[t] => c = CommandOf(t)'
  BY <1>5 DEF Once, CommandOf
<1>7. \A c \in Sent' : c.kind = kind => Due(kind, c.ship)'
  <2>1. \A c \in Sent : c.kind = kind => Due(kind, c.ship) /\ c.ship \in Packages
    BY SentTypes DEF Once
  <2>2. \A c \in Sent' : c.kind = kind => c.ship \in Packages /\ Due(kind, c.ship)
    BY <1>1, <1>2, <1>5, <2>1
  <2> QED
    BY <1>3, <2>2 DEF Due
<1>8. kind \notin Before(kind)
  BY DEF Before, CommandKinds
<1>9. \A c, d \in Sent' : c.kind = kind /\ d.kind = kind /\ d.ship = c.ship => c = d
  BY <1>5, <1>6 DEF Once
<1>10. \A c \in Sent' : c.kind = kind /\ ship'[t] = c.ship => c = CommandOf(t)'
  BY <1>6
<1> QED
  BY <1>4, <1>7, <1>8, <1>9, <1>10, OnceClauses

LEMMA SentPush ==
  ASSUME TypeOK, NEW c, Push(c), UNCHANGED got
  PROVE  \A d \in Sent' : d \in Sent \/ d = c
  BY PushQueue DEF Sent

\* A step of a thread: only the commands it sends itself are concerned.
LEMMA OnceOthers ==
  ASSUME TypeOK, ShipInv', OnceInv, [Next]_vars, NEW a \in Threads,
         \A u \in Threads \ {a} : pc'[u] = pc[u] /\ ship'[u] = ship[u] /\ seq_num'[u] = seq_num[u],
         \A c \in Sent' : c \in Sent \/ Sender(c.kind) = a,
         \A kind \in CommandKinds : Sender(kind) = a => Once(kind)'
  PROVE  OnceInv'
<1> SUFFICES ASSUME NEW kind \in CommandKinds, Sender(kind) # a PROVE Once(kind)'
  BY DEF OnceInv
<1>1. Once(kind) /\ Sender(kind) \in Threads \ {a}
  BY SenderIsThread DEF OnceInv
<1>2. \A c \in Sent' : c.kind = kind => c \in Sent
  OBVIOUS
<1>3. /\ pc'[Sender(kind)] = pc[Sender(kind)] /\ ship'[Sender(kind)] = ship[Sender(kind)]
      /\ seq_num'[Sender(kind)] = seq_num[Sender(kind)]
  BY <1>1
<1> QED
  BY <1>1, <1>2, <1>3, OnceKept

\* No thread is before another command than it was, and none is sent.
LEMMA OnceSame ==
  ASSUME TypeOK, ShipInv', OnceInv, [Next]_vars, UNCHANGED threadVars, Sent' \subseteq Sent
  PROVE  OnceInv'
<1> SUFFICES ASSUME NEW kind \in CommandKinds PROVE Once(kind)'
  BY DEF OnceInv
<1>1. Once(kind)
  BY DEF OnceInv
<1>2. \A c \in Sent' : c.kind = kind => c \in Sent
  OBVIOUS
<1> QED
  BY <1>1, <1>2, OnceKept DEF threadVars

\* The step of a thread from label l to label m, which sends nothing.
LEMMA OnceMoves ==
  ASSUME TypeOK, ShipInv', OnceInv, [Next]_vars, NEW a \in Threads,
         \A u \in Threads \ {a} : pc'[u] = pc[u] /\ ship'[u] = ship[u] /\ seq_num'[u] = seq_num[u],
         UNCHANGED <<send_queue, got>>,
         \A kind \in CommandKinds : Sender(kind) = a =>
           \/ /\ pc[a] \in Before(kind) /\ pc'[a] \in Before(kind) /\ pc'[a] # kind
              /\ ship'[a] = ship[a]
           \/ pc'[a] \notin Before(kind) \cup {kind}
  PROVE  OnceInv'
<1>1. Sent' = Sent
  BY DEF Sent
<1>2. ASSUME NEW kind \in CommandKinds, Sender(kind) = a PROVE Once(kind)'
  <2>1. \/ /\ pc[a] \in Before(kind) /\ pc'[a] \in Before(kind) /\ pc'[a] # kind
           /\ ship'[a] = ship[a]
        \/ pc'[a] \notin Before(kind) \cup {kind}
    BY <1>2
  <2>2. Once(kind)
    BY DEF OnceInv
  <2> QED
    BY <1>1, <1>2, <2>1, <2>2, OnceKept
<1> QED
  BY <1>1, <1>2, OnceOthers

\* The step of a thread that begins with a package p.
LEMMA OnceStarts ==
  ASSUME TypeOK, ShipInv', OnceInv, [Next]_vars, NEW a \in Threads, NEW p,
         \A u \in Threads \ {a} : pc'[u] = pc[u] /\ ship'[u] = ship[u] /\ seq_num'[u] = seq_num[u],
         UNCHANGED <<send_queue, got>>, ship'[a] = p, pc'[a] \notin CommandKinds,
         \A kind \in CommandKinds : Sender(kind) = a /\ pc'[a] \in Before(kind) =>
           ~Due(kind, p) /\ Due(kind, p)'
  PROVE  OnceInv'
<1>1. Sent' = Sent
  BY DEF Sent
<1>2. ASSUME NEW kind \in CommandKinds, Sender(kind) = a PROVE Once(kind)'
  <2>1. Once(kind) /\ pc'[a] # kind
    BY DEF OnceInv
  <2>2. CASE pc'[a] \notin Before(kind)
    BY <1>1, <1>2, <2>1, <2>2, OnceKept
  <2>3. CASE ~Due(kind, p) /\ Due(kind, p)'
    BY <1>1, <1>2, <2>1, <2>3, OnceBegins
  <2> QED
    BY <1>2, <2>2, <2>3
<1> QED
  BY <1>1, <1>2, OnceOthers

\* The step of a thread that sends its command, for the first time or again.
LEMMA OnceSends ==
  ASSUME TypeOK, ShipInv, ShipInv', OnceInv, [Next]_vars, NEW a \in Threads,
         NEW kind \in CommandKinds, Sender(kind) = a,
         \A u \in Threads \ {a} : pc'[u] = pc[u] /\ ship'[u] = ship[u] /\ seq_num'[u] = seq_num[u],
         pc'[a] = kind, ship'[a] = ship[a], UNCHANGED got,
         Push([kind |-> kind, ship |-> ship[a], seq |-> seq_num'[a]]),
         \/ pc[a] \in Before(kind)
         \/ pc[a] = kind /\ seq_num'[a] = seq_num[a]
  PROVE  OnceInv'
<1>1. CommandOf(a)' = [kind |-> kind, ship |-> ship[a], seq |-> seq_num'[a]]
  BY DEF CommandOf
<1>2. \A c \in Sent' : c \in Sent \/ c = CommandOf(a)'
  BY <1>1, SentPush
<1>3. Once(kind)'
  <2>1. Once(kind)
    BY DEF OnceInv
  <2> QED
    BY <1>2, <2>1, OnceSent
<1>4. ASSUME NEW k \in CommandKinds, Sender(k) = a, k # kind PROVE Once(k)'
  <2>1. \/ pc[a] \in Before(k) /\ pc'[a] \in Before(k) /\ pc'[a] # k
        \/ pc'[a] \notin Before(k) \cup {k}
    BY <1>4 DEF Sender, Before, CommandKinds
  <2>2. Once(k) /\ \A c \in Sent' : c.kind = k => c \in Sent
    BY <1>1, <1>2, <1>4 DEF OnceInv
  <2> QED
    BY <1>4, <2>1, <2>2, OnceKept
<1>5. \A c \in Sent' : c \in Sent \/ Sender(c.kind) = a
  BY <1>1, <1>2
<1> QED
  BY <1>3, <1>4, <1>5, OnceOthers

LEMMA LabelStep == TypeOK /\ LabelInv /\ ResponseInv /\ [Next]_vars => LabelInv'
<1> SUFFICES ASSUME TypeOK, LabelInv, ResponseInv, [Next]_vars PROVE LabelInv'
  OBVIOUS
<1> USE DEF Goto, Return, StartSending, threadVars
<1>1. ASSUME UNCHANGED pc PROVE LabelInv'
  BY <1>1 DEF LabelInv
<1>2. ASSUME NEW peer \in Peers, NEW r \in Responses, Dispatch(peer, r) PROVE LabelInv'
  <2>1. peer = "world" => Handler(r.kind) \in {"set_packed", "set_loadeded"}
    BY <1>2 DEF Dispatch, ResponseInv, Handler
  <2>2. peer = "ups" => Handler(r.kind) \in {"check_packing", "set_delivered"}
    BY <1>2 DEF Dispatch, ResponseInv, Handler
  <2> QED
    BY <1>2, <2>1, <2>2 DEF Dispatch, LabelInv, TypeOK
<1>3. PlaceOrder \/ OrderStep => LabelInv'
  BY DEF PlaceOrder, OrderStep, InsertPackage, InsertOrder, SendToWorldPack,
         PackAcknowledged, DrawPickup, SendToUPSPack, PickupAcknowledged, LabelInv, TypeOK
<1>4. ASSUME NEW peer \in Peers, FinishHandler(peer) PROVE LabelInv'
  BY <1>4 DEF FinishHandler, LabelInv, TypeOK
<1>5. ASSUME \/ SetLoadeded \/ SendUPSReqDelivery \/ DeliveryAcknowledged
             \/ CheckPackageIsPacked \/ SendLoad \/ LoadAcknowledged
      PROVE  LabelInv'
  BY <1>5 DEF SetLoadeded, SendUPSReqDelivery, DeliveryAcknowledged,
              CheckPackageIsPacked, SendLoad, LoadAcknowledged, LabelInv, TypeOK
<1> QED
  BY <1>1, <1>2, <1>3, <1>4, <1>5
     DEF Next, MainStep, WorldStep, UPSStep, ReceiverStep, SendStep, BeginWork, PushAgain,
         Receive, Handle, SendMsgTo, Progress, vars

LEMMA OnceStep ==
  TypeOK /\ ShipInv /\ LabelInv /\ ResponseInv /\ OnceInv /\ [Next]_vars => OnceInv'
<1> SUFFICES ASSUME TypeOK, ShipInv, LabelInv, ResponseInv, OnceInv, [Next]_vars
             PROVE  OnceInv'
  OBVIOUS
<1>1. ShipInv'
  BY TypeStep
<1>2. /\ \A kind \in CommandKinds : Sender(kind) = "main" => kind \in {"pack", "pickup"}
      /\ \A kind \in CommandKinds : Sender(kind) = "world" => kind = "delivery"
      /\ \A kind \in CommandKinds : Sender(kind) = "ups" => kind = "load"
  BY DEF Sender, CommandKinds
<1> USE DEF Goto, Return
<1>3. CASE PlaceOrder
  <2>1. /\ \A u \in Threads \ {"main"} : pc'[u] = pc[u] /\ ship'[u] = ship[u] /\ seq_num'[u] = seq_num[u]
        /\ UNCHANGED <<send_queue, got>> /\ ship'["main"] = package_id
        /\ pc'["main"] = "insert_package" /\ package_id' = package_id + 1
    BY <1>3 DEF PlaceOrder, TypeOK, peerVars
  <2>2. PICK p \in Nat : p = package_id
    BY DEF TypeOK
  <2>3. ~(p < package_id) /\ p < package_id'
    BY <2>1, <2>2
  <2>4. \A kind \in {"pack", "pickup"} : ~Due(kind, p) /\ Due(kind, p)'
    BY <2>3 DEF Due
  <2>5. /\ pc'["main"] \notin CommandKinds /\ ship'["main"] = p
        /\ \A kind \in CommandKinds : Sender(kind) = "main" /\ pc'["main"] \in Before(kind) =>
             ~Due(kind, p) /\ Due(kind, p)'
    BY <1>2, <2>1, <2>2, <2>4 DEF CommandKinds
  <2>6. UNCHANGED <<send_queue, got>> /\ "main" \in Threads
    BY <2>1
  <2> QED
    BY <1>1, <2>1, <2>5, <2>6, OnceStarts
<1>4. CASE InsertPackage \/ InsertOrder
  BY <1>1, <1>2, <1>4, OnceMoves DEF InsertPackage, InsertOrder, Before, TypeOK, peerVars
<1>5. CASE PackAcknowledged
  BY <1>1, <1>2, <1>5, OnceMoves DEF PackAcknowledged, Acknowledged, Before, TypeOK, peerVars
<1>6. CASE DrawPickup
  <2>1. /\ \A u \in Threads \ {"main"} : pc'[u] = pc[u] /\ ship'[u] = ship[u] /\ seq_num'[u] = seq_num[u]
        /\ pc["main"] = "draw_pickup" /\ pc'["main"] = "check_ups_id"
        /\ UNCHANGED <<ship, send_queue, got>> /\ "main" \in Threads
    BY <1>6 DEF DrawPickup, getSeqNum, TypeOK, peerVars
  <2>2. \A kind \in CommandKinds : Sender(kind) = "main" =>
          \/ /\ pc["main"] \in Before(kind) /\ pc'["main"] \in Before(kind) /\ pc'["main"] # kind
             /\ ship'["main"] = ship["main"]
          \/ pc'["main"] \notin Before(kind) \cup {kind}
    BY <1>2, <2>1 DEF Before
  <2> QED
    BY <1>1, <2>1, <2>2, OnceMoves
<1>7. CASE PickupAcknowledged
  <2>1. /\ \A u \in Threads \ {"main"} : pc'[u] = pc[u] /\ ship'[u] = ship[u] /\ seq_num'[u] = seq_num[u]
        /\ pc'["main"] = "idle" /\ UNCHANGED <<send_queue, got>> /\ "main" \in Threads
    BY <1>7 DEF PickupAcknowledged, TypeOK, peerVars
  <2>2. \A kind \in CommandKinds : pc'["main"] \notin Before(kind) \cup {kind}
    BY <2>1 DEF Before, CommandKinds
  <2> QED
    BY <1>1, <2>1, <2>2, OnceMoves
<1>8. CASE SendToWorldPack
  <2>1. seq_num'["main"] = SeqNum
    BY <1>8 DEF SendToWorldPack, StartSending, getSeqNum, TypeOK
  <2>2. Sender("pack") = "main" /\ "pack" \in CommandKinds /\ "send_pack" \in Before("pack")
    BY DEF Sender, CommandKinds, Before
  <2> QED
    BY <1>1, <1>8, <2>1, <2>2, OnceSends
       DEF SendToWorldPack, StartSending, getSeqNum, TypeOK, peerVars
<1>9. CASE SendToUPSPack
  <2>1. Sender("pickup") = "main" /\ "pickup" \in CommandKinds /\ "check_ups_id" \in Before("pickup")
    BY DEF Sender, CommandKinds, Before
  <2> QED
    BY <1>1, <1>9, <2>1, OnceSends DEF SendToUPSPack, TypeOK, peerVars
<1>10. CASE SendUPSReqDelivery
  <2>1. seq_num'["world"] = SeqNum
    BY <1>10 DEF SendUPSReqDelivery, StartSending, getSeqNum, TypeOK
  <2>2. Sender("delivery") = "world" /\ "delivery" \in CommandKinds /\ "send_delivery" \in Before("delivery")
    BY DEF Sender, CommandKinds, Before
  <2> QED
    BY <1>1, <1>10, <2>1, <2>2, OnceSends
       DEF SendUPSReqDelivery, StartSending, getSeqNum, TypeOK, peerVars
<1>11. CASE SendLoad
  <2>1. seq_num'["ups"] = SeqNum
    BY <1>11 DEF SendLoad, StartSending, getSeqNum, TypeOK
  <2>2. Sender("load") = "ups" /\ "load" \in CommandKinds /\ "send_load" \in Before("load")
    BY DEF Sender, CommandKinds, Before
  <2> QED
    BY <1>1, <1>11, <2>1, <2>2, OnceSends
       DEF SendLoad, StartSending, getSeqNum, TypeOK, peerVars
<1>12. ASSUME NEW t \in Threads, PushAgain(t) PROVE OnceInv'
  <2>1. Sender(pc[t]) = t /\ pc[t] \in CommandKinds
    BY <1>12 DEF PushAgain, CommandKinds, LabelInv, Sender
  <2> QED
    BY <1>1, <1>12, <2>1, OnceSends DEF PushAgain, CommandOf, threadVars, peerVars
<1>13. ASSUME NEW t \in Threads, BeginWork(t) PROVE OnceInv'
  BY <1>1, <1>13, OnceSame DEF BeginWork, threadVars, Sent
<1>14. ASSUME NEW peer \in Peers, FinishHandler(peer) PROVE OnceInv'
  BY <1>1, <1>2, <1>14, OnceMoves DEF FinishHandler, Before, TypeOK, peerVars
<1>15. ASSUME NEW peer \in Peers, NEW r \in Responses, Dispatch(peer, r) PROVE OnceInv'
  <2>1. UNCHANGED <<send_queue, got, seq_num>>
    BY <1>15 DEF Dispatch, peerVars
  <2>2. CASE UNCHANGED <<pc, ship>>
    BY <1>1, <2>1, <2>2, OnceSame DEF threadVars, Sent
  <2>3. CASE /\ r \notin finished[peer] /\ ship' = [ship EXCEPT ![peer] = r.ship]
             /\ finished' = [finished EXCEPT ![peer] = @ \cup {r}]
             /\ pc' = [pc EXCEPT ![peer] = Handler(r.kind)]
    <3>1. /\ \A u \in Threads \ {peer} : pc'[u] = pc[u] /\ ship'[u] = ship[u] /\ seq_num'[u] = seq_num[u]
          /\ ship'[peer] = r.ship /\ pc'[peer] = Handler(r.kind) /\ r \in finished'[peer]
      BY <2>1, <2>3 DEF TypeOK
    <3>2. Handler(r.kind) \notin CommandKinds
      BY DEF Handler, CommandKinds, Responses
    <3>3. r = Resp(r.kind, r.ship)
      BY DEF Responses, Resp
    <3>4. r \in batch[peer]
      BY <1>15 DEF Dispatch
    <3>5. peer = "world" /\ Handler(r.kind) \in Before("delivery") => r.kind = "loaded"
      BY <3>4 DEF Handler, Before, ResponseInv
    <3>6. peer = "ups" /\ Handler(r.kind) \in Before("load") => r.kind = "truckArr"
      BY <3>4 DEF Handler, Before, ResponseInv
    <3>7. \A kind \in CommandKinds : Sender(kind) = peer /\ Handler(r.kind) \in Before(kind) =>
            ~Due(kind, r.ship) /\ Due(kind, r.ship)'
      <4>1. CASE peer = "world"
        <5>1. r.kind = "loaded" => ~Due("delivery", r.ship) /\ Due("delivery", r.ship)'
          BY <2>3, <3>1, <3>3, <4>1 DEF Due
        <5> QED
          BY <1>2, <3>5, <4>1, <5>1
      <4>2. CASE peer = "ups"
        <5>1. r.kind = "truckArr" => ~Due("load", r.ship) /\ Due("load", r.ship)'
          BY <2>3, <3>1, <3>3, <4>2 DEF Due
        <5> QED
          BY <1>2, <3>6, <4>2, <5>1
      <4> QED
        BY <4>1, <4>2
    <3> QED
      BY <1>1, <2>1, <3>1, <3>2, <3>7, OnceStarts
  <2> QED
    BY <1>15, <2>2, <2>3 DEF Dispatch
<1>16. CASE SetLoadeded \/ DeliveryAcknowledged
  BY <1>1, <1>2, <1>16, OnceMoves
     DEF SetLoadeded, DeliveryAcknowledged, Acknowledged, Before, TypeOK, peerVars
<1>17. CASE CheckPackageIsPacked \/ LoadAcknowledged
  BY <1>1, <1>2, <1>17, OnceMoves
     DEF CheckPackageIsPacked, LoadAcknowledged, Acknowledged, Before, TypeOK, peerVars
<1>18. ASSUME NEW peer \in Peers, NEW c \in send_queue[peer], SendMsgTo(peer, c)
       PROVE  OnceInv'
  <2>1. Sent' \subseteq Sent
    BY <1>18 DEF SendMsgTo, Deliver, Sent, TypeOK, peerVars
  <2> QED
    BY <1>1, <1>18, <2>1, OnceSame DEF SendMsgTo
<1>19. ASSUME NEW peer \in Peers, Receive(peer) PROVE OnceInv'
  BY <1>1, <1>19, OnceSame DEF Receive, Handle, peerVars, Sent
<1>20. ASSUME NEW peer \in Peers, NEW p \in Packages, Progress(peer, p) PROVE OnceInv'
  BY <1>1, <1>20, OnceSame DEF Progress, Sent
<1>21. CASE UNCHANGED vars
  BY <1>1, <1>21, OnceSame DEF vars, threadVars, Sent
<1> QED
  BY <1>3, <1>4, <1>5, <1>6, <1>7, <1>8, <1>9, <1>10, <1>11, <1>12, <1>13, <1>14, <1>15,
     <1>16, <1>17, <1>18, <1>19, <1>20, <1>21
     DEF Next, MainStep, OrderStep, WorldStep, UPSStep, ReceiverStep, SendStep

LEMMA CommandInitially == Init => CommandInv
  BY DEF Init, CommandInv, LabelInv, ResponseInv, OnceInv, Once, Sent, Sender, Before, Due,
         CommandKinds

\* The inductive invariant of this module.
JInv == IInv /\ CommandInv

LEMMA CommandInductive == JInv /\ [Next]_vars => JInv'
  BY Inductive, ResponseStep, LabelStep, OnceStep DEF JInv, IInv, CommandInv

LEMMA CommandAlways == Spec => []JInv
<1>1. Init => JInv
  BY SeqInitially, CommandInitially DEF JInv, IInv
<1> QED
  BY <1>1, CommandInductive, PTL DEF Spec

LEMMA AllSent ==
  ASSUME NEW e \in AllCommands
  PROVE  e \in Sent \/ \E t \in Threads : pc[t] \in CommandKinds /\ e = CommandOf(t)
<1> DEFINE queued == UNION {send_queue[peer] \cup got[peer] : peer \in Peers}
           tried  == {CommandOf(t) : t \in {u \in Threads : pc[u] \in CommandKinds}}
<1>1. e \in queued \/ e \in tried
  BY DEF AllCommands
<1>2. CASE e \in queued
  <2>1. PICK peer \in Peers : e \in send_queue[peer] \cup got[peer]
    BY <1>2
  <2> QED
    BY <2>1 DEF Sent
<1>3. CASE e \in tried
  BY <1>3
<1> QED
  BY <1>1, <1>2, <1>3

LEMMA OnlyOne == JInv => OneCommandPerStep
<1> SUFFICES ASSUME JInv, NEW c \in AllCommands, NEW d \in AllCommands,
                    c.kind = d.kind, c.ship = d.ship
             PROVE  c = d
  BY DEF OneCommandPerStep
<1>1. \A e \in AllCommands :
        e \in Sent \/ \E t \in Threads : pc[t] \in CommandKinds /\ e = CommandOf(t)
  BY AllSent
<1>2. \A t \in Threads : pc[t] \in CommandKinds => Sender(pc[t]) = t
  BY DEF JInv, CommandInv, LabelInv, Sender, CommandKinds
<1>3. \A t \in Threads : pc[t] \in CommandKinds => Once(pc[t])
  BY DEF JInv, CommandInv, OnceInv
<1>4. \A t \in Threads, e \in Sent :
        pc[t] \in CommandKinds /\ e.kind = pc[t] /\ e.ship = ship[t] => e = CommandOf(t)
  BY <1>2, <1>3 DEF Once
<1>5. CASE c \in Sent /\ d \in Sent
  BY <1>5, SentTypes DEF JInv, IInv, CommandInv, OnceInv, Once
<1>6. ASSUME NEW t \in Threads, pc[t] \in CommandKinds, c = CommandOf(t) PROVE c = d
  <2>1. CASE d \in Sent
    BY <1>4, <1>6, <2>1 DEF CommandOf
  <2>2. ASSUME NEW u \in Threads, pc[u] \in CommandKinds, d = CommandOf(u) PROVE c = d
    <3>1. pc[t] = pc[u]
      BY <1>6, <2>2 DEF CommandOf
    <3>2. t = u
      BY <1>2, <1>6, <2>2, <3>1
    <3> QED
      BY <1>6, <2>2, <3>2
  <2> QED
    BY <1>1, <2>1, <2>2
<1>7. ASSUME NEW t \in Threads, pc[t] \in CommandKinds, d = CommandOf(t), c \in Sent PROVE c = d
  BY <1>4, <1>7 DEF CommandOf
<1> QED
  BY <1>1, <1>5, <1>6, <1>7

\* A delivery is due when the world has reported the package loaded.
LEMMA Loaded == JInv => DeliverOnlyLoaded
<1> SUFFICES ASSUME JInv, NEW c \in AllCommands, c.kind = "delivery"
             PROVE  site["world"][c.ship] = "loaded"
  BY DEF DeliverOnlyLoaded
<1>1. Once("delivery") /\ Sender("delivery") = "world"
  BY DEF JInv, CommandInv, OnceInv, CommandKinds, Sender
<1>2. Due("delivery", c.ship)
  <2>1. CASE c \in Sent
    BY <1>1, <2>1 DEF Once
  <2>2. ASSUME NEW t \in Threads, pc[t] \in CommandKinds, c = CommandOf(t)
        PROVE  Due("delivery", c.ship)
    <3>1. pc[t] = "delivery" /\ c.ship = ship[t]
      BY <2>2 DEF CommandOf
    <3>2. t = "world"
      BY <3>1 DEF JInv, CommandInv, LabelInv
    <3> QED
      BY <1>1, <3>1, <3>2 DEF Once
  <2> QED
    BY <2>1, <2>2, AllSent
<1>3. Resp("loaded", c.ship) \in finished["world"]
  BY <1>2 DEF Due
<1> QED
  BY <1>3 DEF JInv, CommandInv, ResponseInv, Resp

\* If both waited with one package, the world would have acknowledged its load, and
\* the thread of UPS would not wait.
LEMMA TwoPackages == JInv => CircularWaitTakesTwo
<1> SUFFICES ASSUME JInv, WorldAwaitsUPS, UPSAwaitsWorld, ship["world"] = ship["ups"]
             PROVE  FALSE
  BY DEF CircularWaitTakesTwo, CircularWait
<1>1. /\ Once("delivery") /\ Sender("delivery") = "world"
      /\ Once("load") /\ Sender("load") = "ups"
  BY DEF JInv, CommandInv, OnceInv, CommandKinds, Sender
<1>2. Resp("loaded", ship["world"]) \in finished["world"]
  <2>1. pc["world"] \in Before("delivery") \cup {"delivery"}
    BY DEF WorldAwaitsUPS, Before
  <2>2. Due("delivery", ship["world"])
    BY <1>1, <2>1 DEF Once
  <2> QED
    BY <2>2 DEF Due
<1>3. PICK c \in got["world"] :
        c.kind = "load" /\ c.ship = ship["ups"] /\ c.seq \in global_finished
  BY <1>2 DEF JInv, CommandInv, ResponseInv, Resp
<1>4. c \in Sent
  BY <1>3 DEF Sent
<1>5. /\ pc["ups"] \notin Before("load")
      /\ pc["ups"] = "load" => c = CommandOf("ups")
  BY <1>1, <1>3, <1>4 DEF Once
<1>6. pc["ups"] = "load" => seq_num["ups"] \in global_finished
  BY <1>3, <1>5 DEF CommandOf
<1> QED
  BY <1>5, <1>6 DEF UPSAwaitsWorld, Before

-----------------------------------------------------------------------------
\* For any number of packages, however often messages are lost, sent again and
\* repeated: at most one command of a kind for each.
THEOREM OneCommandTheorem == Spec => []OneCommandPerStep
  BY CommandAlways, OnlyOne, PTL

\* UPS is asked to deliver only what the world has loaded, whatever was dropped.
THEOREM DeliverTheorem == Spec => []DeliverOnlyLoaded
  BY CommandAlways, Loaded, PTL

\* The receiving threads never wait for each other over one package.
THEOREM TwoPackagesTheorem == Spec => []CircularWaitTakesTwo
  BY CommandAlways, TwoPackages, PTL

\* No acknowledged response is forgotten.
THEOREM KeptTheorem == Spec => []AcknowledgedIsKept
<1>1. Init => AcknowledgedIsKept
  BY DEF Init, AcknowledgedIsKept
<1>2. IInv /\ AcknowledgedIsKept /\ [Next]_vars => AcknowledgedIsKept'
  <2> SUFFICES ASSUME IInv, AcknowledgedIsKept, [Next]_vars PROVE AcknowledgedIsKept'
    OBVIOUS
  <2> USE DEF IInv, TypeOK, AcknowledgedIsKept
  <2>1. ASSUME NEW peer \in Peers, Receive(peer) PROVE AcknowledgedIsKept'
    BY <2>1 DEF Receive, Handle
  <2>2. ASSUME NEW peer \in Peers, NEW r \in Responses, Dispatch(peer, r)
        PROVE  AcknowledgedIsKept'
    BY <2>2 DEF Dispatch
  <2>3. \/ UNCHANGED recvVars
        \/ \E peer \in Peers : Receive(peer)
        \/ \E peer \in Peers, r \in Responses : Dispatch(peer, r)
    BY DEF Next, vars, PlaceOrder, MainStep, OrderStep, InsertPackage, InsertOrder,
           SendToWorldPack, PackAcknowledged, DrawPickup, SendToUPSPack,
           PickupAcknowledged, WorldStep, UPSStep, ReceiverStep, BeginWork, PushAgain,
           FinishHandler, SetLoadeded, SendUPSReqDelivery,
           DeliveryAcknowledged, CheckPackageIsPacked, SendLoad, LoadAcknowledged,
           SendStep, SendMsgTo, Progress, recvVars
  <2> QED
    BY <2>1, <2>2, <2>3 DEF recvVars
<1>3. Spec => []IInv
  <2>1. Init => IInv
    BY SeqInitially DEF IInv
  <2> QED
    BY <2>1, Inductive, PTL DEF Spec
<1> QED
  BY <1>1, <1>2, <1>3, PTL DEF Spec

-----------------------------------------------------------------------------
(* The load command of a package follows the world's "ready", except where *)
(* a statement was dropped.                                                *)

\* What excuses a load command. It never ceases to hold.
Good(p) == \/ Resp("ready", p) \in finished["world"]
           \/ <<"insert_package", p>> \in lost
           \/ <<"check_packing", p>> \in lost

\* A truck comes to a package after its pickup was asked for ...
Asked(p)  == \E c \in got["ups"] : c.kind = "pickup" /\ c.ship = p
PickupInv ==
  /\ \A p \in Packages : site["ups"][p] # "none" => Asked(p)
  /\ \A r \in batch["ups"] \cup finished["ups"] : r.kind = "truckArr" => Asked(r.ship)

\* ... and so after its row was inserted, or the INSERT dropped.
InsertedInv ==
  \A p \in Packages :
    p < package_id /\ package_status[p] = "absent" =>
      \/ <<"insert_package", p>> \in lost
      \/ pc["main"] = "insert_package" /\ ship["main"] = p

\* The row goes past "packing", and the threads past the poll, only with reason.
GoodInv ==
  /\ \A p \in Packages : package_status[p] \notin {"absent", "packing"} => Good(p)
  /\ \A c \in Sent : c.kind = "load" => Good(c.ship)
  /\ pc["world"] # "idle" => Good(ship["world"])
  /\ pc["ups"] \notin {"idle", "check_packing"} => Good(ship["ups"])
  /\ \A p \in Packages : site["ups"][p] \in {"delivering", "delivered"} => Good(p)
  /\ \A r \in batch["ups"] : r.kind = "delivered" => Good(r.ship)

ReadyInv == JInv /\ PickupInv /\ InsertedInv /\ GoodInv


-----------------------------------------------------------------------------
\* What has been handled, dropped or received stays so.
LEMMA Grows ==
  ASSUME TypeOK, [Next]_vars
  PROVE  /\ finished["world"] \subseteq finished'["world"]
         /\ lost \subseteq lost'
         /\ got["ups"] \subseteq got'["ups"]
<1>1. \A peer \in Peers : finished[peer] \subseteq finished'[peer]
  <2>1. ASSUME NEW q \in Peers, NEW r \in Responses, Dispatch(q, r)
        PROVE  \A peer \in Peers : finished[peer] \subseteq finished'[peer]
    BY <2>1 DEF Dispatch, TypeOK
  <2>2. \/ finished' = finished
        \/ \E q \in Peers, r \in Responses : Dispatch(q, r)
    BY DEF Next, vars, PlaceOrder, MainStep, OrderStep, InsertPackage, InsertOrder,
           SendToWorldPack, PackAcknowledged, DrawPickup, SendToUPSPack,
           PickupAcknowledged, WorldStep, UPSStep, ReceiverStep, BeginWork, PushAgain,
           FinishHandler, SetLoadeded, SendUPSReqDelivery,
           DeliveryAcknowledged, CheckPackageIsPacked, SendLoad, LoadAcknowledged,
           SendStep, SendMsgTo, Receive, Handle, Progress, recvVars
  <2> QED
    BY <2>1, <2>2
<1>2. lost \subseteq lost'
  BY DEF Next, vars, PlaceOrder, MainStep, OrderStep, InsertPackage, InsertOrder,
         SendToWorldPack, PackAcknowledged, DrawPickup, SendToUPSPack,
         PickupAcknowledged, WorldStep, UPSStep, ReceiverStep, BeginWork, PushAgain,
         FinishHandler, Dispatch, SetLoadeded, SendUPSReqDelivery,
         DeliveryAcknowledged, CheckPackageIsPacked, SendLoad, LoadAcknowledged,
         SendStep, SendMsgTo, Receive, Handle, Progress, executeSQL, dbVars
<1>3. got["ups"] \subseteq got'["ups"]
  <2>1. ASSUME NEW q \in Peers, NEW c \in send_queue[q], SendMsgTo(q, c)
        PROVE  got["ups"] \subseteq got'["ups"]
    BY <2>1 DEF SendMsgTo, Deliver, TypeOK, peerVars
  <2>2. \/ got' = got
        \/ \E q \in Peers : \E c \in send_queue[q] : SendMsgTo(q, c)
    BY DEF Next, vars, PlaceOrder, MainStep, OrderStep, InsertPackage, InsertOrder,
           SendToWorldPack, PackAcknowledged, DrawPickup, SendToUPSPack,
           PickupAcknowledged, WorldStep, UPSStep, ReceiverStep, BeginWork, PushAgain,
           FinishHandler, Dispatch, SetLoadeded, SendUPSReqDelivery,
           DeliveryAcknowledged, CheckPackageIsPacked, SendLoad, LoadAcknowledged,
           SendStep, Receive, Handle, Progress, peerVars
  <2> QED
    BY <2>1, <2>2
<1> QED
  BY <1>1, <1>2, <1>3

LEMMA GoodStays ==
  ASSUME TypeOK, [Next]_vars PROVE \A p \in Packages : Good(p) => Good(p)'
  BY Grows DEF Good

-----------------------------------------------------------------------------
LEMMA PickupStep == IInv /\ PickupInv /\ [Next]_vars => PickupInv'
<1> SUFFICES ASSUME IInv, TypeOK, PickupInv, [Next]_vars PROVE PickupInv'
  BY DEF IInv
<1>0. \A p \in Packages : Asked(p) => Asked(p)'
  BY Grows DEF Asked
<1>1. ASSUME \A p \in Packages : site'["ups"][p] # "none" => site["ups"][p] # "none" \/ Asked(p)',
             \A r \in batch'["ups"] \cup finished'["ups"] : r.kind = "truckArr" =>
               r.ship \in Packages /\ (r \in batch["ups"] \cup finished["ups"] \/ Asked(r.ship)')
      PROVE  PickupInv'
  <2>1. \A p \in Packages : site'["ups"][p] # "none" => Asked(p)'
    BY <1>0, <1>1 DEF PickupInv
  <2>2. ASSUME NEW r \in batch'["ups"] \cup finished'["ups"], r.kind = "truckArr"
        PROVE  Asked(r.ship)'
    <3>1. r \in batch["ups"] \cup finished["ups"] => Asked(r.ship)
      BY <2>2 DEF PickupInv
    <3> QED
      BY <1>0, <1>1, <2>2, <3>1 DEF Asked
  <2> QED
    BY <2>1, <2>2 DEF PickupInv, Asked
<1>2. \A r \in batch["ups"] \cup finished["ups"] : r.ship \in Packages
  BY DEF TypeOK, Responses
<1>3. CASE UNCHANGED <<batch, finished, site>>
  BY <1>1, <1>2, <1>3
<1>4. ASSUME NEW peer \in Peers, Receive(peer) PROVE PickupInv'
  <2>1. PICK items \in SUBSET Emitted(peer) : batch' = [batch EXCEPT ![peer] = items]
    BY <1>4 DEF Receive, Handle
  <2>2. UNCHANGED <<finished, site>>
    BY <1>4 DEF Receive, Handle, peerVars
  <2>3. batch'["ups"] = batch["ups"] \/ batch'["ups"] \subseteq Emitted("ups")
    BY <2>1 DEF TypeOK
  <2>4. \A r \in Emitted("ups") : r.kind = "truckArr" =>
          r.ship \in Packages /\ site["ups"][r.ship] # "none"
    BY DEF Emitted, Resp
  <2>5. ASSUME NEW r \in batch'["ups"] \cup finished'["ups"], r.kind = "truckArr"
        PROVE  r.ship \in Packages /\ (r \in batch["ups"] \cup finished["ups"] \/ Asked(r.ship)')
    <3>1. CASE r \in batch["ups"] \cup finished["ups"]
      BY <1>2, <3>1
    <3>2. CASE r \in Emitted("ups")
      <4>1. r.ship \in Packages /\ Asked(r.ship)
        BY <2>4, <2>5, <3>2 DEF PickupInv
      <4> QED
        BY <1>0, <4>1 DEF Asked
    <3> QED
      BY <2>2, <2>3, <2>5, <3>1, <3>2
  <2> QED
    BY <1>1, <2>2, <2>5
<1>5. ASSUME NEW peer \in Peers, NEW r \in Responses, Dispatch(peer, r) PROVE PickupInv'
  <2>1. /\ batch'["ups"] \cup finished'["ups"] \subseteq batch["ups"] \cup finished["ups"]
        /\ UNCHANGED site
    BY <1>5 DEF Dispatch, TypeOK, peerVars
  <2> QED
    BY <1>1, <1>2, <2>1
<1>6. ASSUME NEW peer \in Peers, NEW c \in send_queue[peer], SendMsgTo(peer, c)
      PROVE  PickupInv'
  <2>1. UNCHANGED <<batch, finished>>
    BY <1>6 DEF SendMsgTo, recvVars
  <2>2. CASE UNCHANGED site
    BY <1>1, <1>2, <2>1, <2>2
  <2>3. CASE Deliver(peer, c)
    <3>1. c.ship \in Packages /\ c.kind \in CommandKinds /\ PeerOf(c.kind) = peer
      BY DEF TypeOK, Commands, IInv, SeqInv
    <3>2. ASSUME NEW p \in Packages, site'["ups"][p] # "none", site["ups"][p] = "none"
          PROVE  Asked(p)'
      <4>1. peer = "ups" /\ p = c.ship /\ Started("none", c.kind) # "none"
        BY <2>3, <3>1, <3>2 DEF Deliver, TypeOK
      <4>2. c.kind = "pickup"
        BY <3>1, <4>1 DEF Started, PeerOf, CommandKinds
      <4>3. c \in got'["ups"]
        BY <2>3, <4>1 DEF Deliver, TypeOK
      <4> QED
        BY <4>1, <4>2, <4>3 DEF Asked
    <3> QED
      BY <1>1, <1>2, <2>1, <3>2
  <2> QED
    BY <1>6, <2>2, <2>3 DEF SendMsgTo, peerVars
<1>7. ASSUME NEW peer \in Peers, NEW p \in Packages, Progress(peer, p) PROVE PickupInv'
  <2>1. /\ \A q \in Packages : site'["ups"][q] # "none" => site["ups"][q] # "none"
        /\ UNCHANGED <<batch, finished>>
    BY <1>7 DEF Progress, TypeOK, recvVars
  <2> QED
    BY <1>1, <1>2, <2>1
<1> QED
  BY <1>3, <1>4, <1>5, <1>6, <1>7
     DEF Next, vars, PlaceOrder, MainStep, OrderStep, InsertPackage, InsertOrder,
         SendToWorldPack, PackAcknowledged, DrawPickup, SendToUPSPack,
         PickupAcknowledged, WorldStep, UPSStep, ReceiverStep, BeginWork, PushAgain,
         FinishHandler, SetLoadeded, SendUPSReqDelivery, DeliveryAcknowledged,
         CheckPackageIsPacked, SendLoad, LoadAcknowledged, SendStep, recvVars, peerVars

-----------------------------------------------------------------------------
\* A row is there from its INSERT on.
LEMMA InsertedStep == IInv /\ LabelInv /\ InsertedInv /\ [Next]_vars => InsertedInv'
<1> SUFFICES ASSUME IInv, LabelInv, InsertedInv, [Next]_vars PROVE InsertedInv'
  OBVIOUS
<1>0. TypeOK /\ ShipInv
  BY DEF IInv
<1>1. ASSUME package_id' = package_id,
             \A p \in Packages : package_status'[p] = "absent" => package_status[p] = "absent",
             pc["main"] = "insert_package" =>
               \/ pc'["main"] = "insert_package" /\ ship'["main"] = ship["main"]
               \/ package_status'[ship["main"]] # "absent"
               \/ <<"insert_package", ship["main"]>> \in lost'
      PROVE  InsertedInv'
  BY <1>0, <1>1, Grows DEF InsertedInv
<1>2. CASE PlaceOrder
  <2>1. PICK n \in Nat : n = package_id
    BY <1>0 DEF TypeOK
  <2>2. /\ pc["main"] # "insert_package" /\ package_id' = n + 1
        /\ pc'["main"] = "insert_package" /\ ship'["main"] = n
        /\ UNCHANGED <<package_status, lost>>
    BY <1>0, <1>2, <2>1 DEF PlaceOrder, Goto, TypeOK, dbVars
  <2>3. \A p \in Packages : p < n + 1 => p < n \/ p = n
    BY <2>1
  <2> QED
    BY <2>1, <2>2, <2>3 DEF InsertedInv
<1>3. CASE InsertPackage
  <2>1. ship["main"] \in Packages /\ pc["main"] = "insert_package"
    BY <1>0, <1>3 DEF InsertPackage, ShipInv
  <2>2. \/ package_status' = [package_status EXCEPT ![ship["main"]] = "packing"]
        \/ <<"insert_package", ship["main"]>> \in lost' /\ UNCHANGED package_status
    BY <1>3, <2>1 DEF InsertPackage, executeSQL
  <2>3. package_id' = package_id
    BY <1>3 DEF InsertPackage
  <2> QED
    BY <1>0, <1>1, <2>1, <2>2, <2>3 DEF TypeOK
<1>4. ASSUME NEW t \in Threads, NEW p \in Packages, NEW status, status # "absent",
             executeSQL(t, update_package_status(p, status))
      PROVE  \A q \in Packages : package_status'[q] = "absent" => package_status[q] = "absent"
  <2>1. \/ package_status' = package_status
        \/ package_status' = update_package_status(p, status)
    BY <1>4 DEF executeSQL
  <2> QED
    BY <1>0, <1>4, <2>1 DEF update_package_status, TypeOK
<1>5. CASE \/ InsertOrder \/ SendToUPSPack \/ CheckPackageIsPacked
  <2>1. package_status' = package_status /\ package_id' = package_id
    BY <1>5 DEF InsertOrder, SendToUPSPack, CheckPackageIsPacked, executeSQL
  <2>2. pc["main"] = "insert_package" => pc'["main"] = "insert_package" /\ ship'["main"] = ship["main"]
    BY <1>0, <1>5 DEF InsertOrder, SendToUPSPack, CheckPackageIsPacked, Goto, TypeOK
  <2> QED
    BY <1>1, <2>1, <2>2
<1>6. ASSUME NEW peer \in Peers, FinishHandler(peer) PROVE InsertedInv'
  <2>1. /\ ship[peer] \in Packages /\ Written(pc[peer]) # "absent"
        /\ executeSQL(peer, update_package_status(ship[peer], Written(pc[peer])))
    BY <1>0, <1>6 DEF FinishHandler, LastStatements, ShipInv, Written
  <2>2. package_id' = package_id /\ pc'["main"] = pc["main"] /\ ship'["main"] = ship["main"]
    BY <1>0, <1>6 DEF FinishHandler, Return, Goto, TypeOK
  <2> QED
    BY <1>1, <1>4, <2>1, <2>2
<1>7. CASE SetLoadeded
  <2>1. /\ ship["world"] \in Packages /\ "loadeded" # "absent"
        /\ executeSQL("world", update_package_status(ship["world"], "loadeded"))
    BY <1>0, <1>7 DEF SetLoadeded, ShipInv
  <2>2. package_id' = package_id /\ pc'["main"] = pc["main"] /\ ship'["main"] = ship["main"]
    BY <1>0, <1>7 DEF SetLoadeded, Goto, TypeOK
  <2> QED
    BY <1>1, <1>4, <2>1, <2>2
<1>8. ASSUME package_id' = package_id, package_status' = package_status,
             pc["main"] = "insert_package" =>
               pc'["main"] = "insert_package" /\ ship'["main"] = ship["main"]
      PROVE  InsertedInv'
  BY <1>1, <1>8
<1>9. CASE \/ SendToWorldPack \/ PackAcknowledged \/ DrawPickup \/ PickupAcknowledged
  BY <1>0, <1>8, <1>9 DEF SendToWorldPack, PackAcknowledged, DrawPickup, Acknowledged,
     PickupAcknowledged, StartSending, Goto, Return, TypeOK, dbVars
<1>10. CASE SendUPSReqDelivery \/ DeliveryAcknowledged \/ SendLoad \/ LoadAcknowledged
  BY <1>0, <1>8, <1>10 DEF SendUPSReqDelivery, DeliveryAcknowledged, SendLoad,
     LoadAcknowledged, StartSending, Goto, TypeOK, dbVars
<1>11. ASSUME NEW t \in Threads, BeginWork(t) \/ PushAgain(t) PROVE InsertedInv'
  BY <1>8, <1>11 DEF BeginWork, PushAgain, dbVars, threadVars
<1>12. ASSUME NEW peer \in Peers, NEW r \in Responses, Dispatch(peer, r) PROVE InsertedInv'
  BY <1>0, <1>8, <1>12 DEF Dispatch, Goto, TypeOK, dbVars
<1>13. ASSUME NEW peer \in Peers, Receive(peer) PROVE InsertedInv'
  BY <1>8, <1>13 DEF Receive, Handle, dbVars, threadVars
<1>14. ASSUME NEW peer \in Peers, NEW c \in send_queue[peer], SendMsgTo(peer, c)
       PROVE  InsertedInv'
  BY <1>8, <1>14 DEF SendMsgTo, dbVars, threadVars
<1>15. ASSUME NEW peer \in Peers, NEW p \in Packages, Progress(peer, p) PROVE InsertedInv'
  BY <1>8, <1>15 DEF Progress, dbVars, threadVars
<1>16. CASE UNCHANGED vars
  BY <1>8, <1>16 DEF vars
<1> QED
  BY <1>2, <1>3, <1>5, <1>6, <1>7, <1>9, <1>10, <1>11, <1>12, <1>13, <1>14, <1>15, <1>16
     DEF Next, MainStep, OrderStep, WorldStep, UPSStep, ReceiverStep, SendStep

-----------------------------------------------------------------------------
\* A package reported loaded has had its load command.
LEMMA LoadedGood ==
  ASSUME JInv, GoodInv, NEW p \in Packages,
         Resp("loaded", p) \in batch["world"] \cup finished["world"]
  PROVE  Good(p)
<1>1. \E c \in got["world"] : c.kind = "load" /\ c.ship = p
  BY DEF JInv, CommandInv, ResponseInv, Resp
<1> QED
  BY <1>1 DEF GoodInv, Sent

LEMMA DeliveryGood ==
  ASSUME JInv, GoodInv, NEW c \in Sent, c.kind = "delivery"
  PROVE  Good(c.ship)
<1>1. Once("delivery") /\ TypeOK
  BY DEF JInv, IInv, CommandInv, OnceInv, CommandKinds
<1>2. Resp("loaded", c.ship) \in finished["world"]
  BY <1>1 DEF Once, Due
<1> QED
  BY <1>1, <1>2, LoadedGood, SentTypes

\* A truck at a package without a row: its INSERT was dropped.
LEMMA NoRow ==
  ASSUME JInv, PickupInv, InsertedInv, pc["ups"] = "check_packing",
         package_status[ship["ups"]] = "absent"
  PROVE  <<"insert_package", ship["ups"]>> \in lost
<1> DEFINE p == ship["ups"]
<1>0. TypeOK /\ Once("load") /\ Once("pickup")
  BY DEF JInv, IInv, CommandInv, OnceInv, CommandKinds
<1>1. p \in Packages
  BY DEF JInv, IInv, ShipInv
<1>2. Resp("truckArr", p) \in finished["ups"]
  BY <1>0 DEF Once, Before, Sender, Due
<1>3. PICK c \in got["ups"] : c.kind = "pickup" /\ c.ship = p
  BY <1>2 DEF PickupInv, Asked, Resp
<1>4. c \in Sent
  BY <1>3 DEF Sent
<1>5. p < package_id /\ (ship["main"] = p => pc["main"] # "insert_package")
  BY <1>0, <1>3, <1>4 DEF Once, Before, Sender, Due
<1> QED
  BY <1>1, <1>5 DEF InsertedInv

\* What a step may do to the pieces of GoodInv.
LEMMA GoodKept ==
  ASSUME TypeOK, ShipInv, GoodInv, [Next]_vars,
         \A p \in Packages : \/ package_status'[p] = package_status[p]
                             \/ package_status'[p] \in {"absent", "packing"}
                             \/ Good(p)',
         \A c \in Sent' : c.kind = "load" => c \in Sent \/ Good(c.ship)',
         \/ pc'["world"] = "idle"
         \/ pc["world"] # "idle" /\ ship'["world"] = ship["world"]
         \/ Good(ship["world"])',
         \/ pc'["ups"] \in {"idle", "check_packing"}
         \/ pc["ups"] \notin {"idle", "check_packing"} /\ ship'["ups"] = ship["ups"]
         \/ Good(ship["ups"])',
         \A p \in Packages : site'["ups"][p] \in {"delivering", "delivered"} =>
           site["ups"][p] \in {"delivering", "delivered"} \/ Good(p)',
         \A r \in batch'["ups"] : r.kind = "delivered" => r \in batch["ups"] \/ Good(r.ship)'
  PROVE  GoodInv'
<1>1. \A p \in Packages : Good(p) => Good(p)'
  BY GoodStays
<1>2. \A p \in Packages : package_status'[p] \notin {"absent", "packing"} => Good(p)'
  BY <1>1 DEF GoodInv
<1>3. \A c \in Sent' : c.kind = "load" => Good(c.ship)'
  <2>1. \A c \in Sent : c.kind = "load" => c.ship \in Packages /\ Good(c.ship)
    BY SentTypes DEF GoodInv
  <2> QED
    BY <1>1, <2>1 DEF Good
<1>4. pc'["world"] # "idle" => Good(ship["world"])'
  <2>1. pc["world"] # "idle" => ship["world"] \in Packages /\ Good(ship["world"])
    BY DEF GoodInv, ShipInv
  <2> QED
    BY <1>1, <2>1 DEF Good
<1>5. pc'["ups"] \notin {"idle", "check_packing"} => Good(ship["ups"])'
  <2>1. pc["ups"] \notin {"idle", "check_packing"} => ship["ups"] \in Packages /\ Good(ship["ups"])
    BY DEF GoodInv, ShipInv
  <2> QED
    BY <1>1, <2>1 DEF Good
<1>6. \A p \in Packages : site'["ups"][p] \in {"delivering", "delivered"} => Good(p)'
  BY <1>1 DEF GoodInv
<1>7. \A r \in batch'["ups"] : r.kind = "delivered" => Good(r.ship)'
  <2>1. \A r \in batch["ups"] : r.kind = "delivered" => r.ship \in Packages /\ Good(r.ship)
    BY DEF GoodInv, TypeOK, Responses
  <2> QED
    BY <1>1, <2>1 DEF Good
<1> QED
  BY <1>2, <1>3, <1>4, <1>5, <1>6, <1>7 DEF GoodInv, Good

LEMMA GoodStep ==
  JInv /\ PickupInv /\ InsertedInv /\ GoodInv /\ [Next]_vars => GoodInv'
<1> SUFFICES ASSUME JInv, PickupInv, InsertedInv, GoodInv, [Next]_vars PROVE GoodInv'
  OBVIOUS
<1>0. TypeOK /\ ShipInv /\ LabelInv /\ ResponseInv
  BY DEF JInv, IInv, CommandInv
<1>1. \A p \in Packages : Good(p) => Good(p)'
  BY <1>0, GoodStays
<1>2. ASSUME NEW t \in Threads, BeginWork(t) PROVE GoodInv'
  <2>1. UNCHANGED <<package_status, pc, ship, send_queue, got, site, batch>>
    BY <1>2 DEF BeginWork
  <2> QED
    BY <1>0, <2>1, GoodKept DEF Sent
<1>3. ASSUME NEW t \in Threads, PushAgain(t) PROVE GoodInv'
  <2>1. UNCHANGED <<package_status, pc, ship, got, site, batch>> /\ Push(CommandOf(t))
    BY <1>3 DEF PushAgain, dbVars, threadVars, peerVars, recvVars
  <2>2. \A c \in Sent' : c \in Sent \/ c = CommandOf(t)
    BY <1>0, <2>1, SentPush
  <2>3. CommandOf(t).kind = "load" => Good(CommandOf(t).ship) /\ CommandOf(t).ship \in Packages
    <3>1. pc[t] = "load" => t = "ups"
      BY <1>0 DEF LabelInv
    <3> QED
      BY <1>0, <3>1 DEF CommandOf, GoodInv, ShipInv
  <2>4. \A c \in Sent' : c.kind = "load" => c \in Sent \/ Good(c.ship)'
    BY <1>1, <2>2, <2>3 DEF Good
  <2> QED
    BY <1>0, <2>1, <2>4, GoodKept
<1>4. CASE PlaceOrder \/ OrderStep
  <2> USE DEF PlaceOrder, OrderStep, InsertPackage, InsertOrder, SendToWorldPack,
              PackAcknowledged, DrawPickup, SendToUPSPack, PickupAcknowledged, Goto, Return,
              StartSending, dbVars, peerVars, recvVars
  <2>1. UNCHANGED <<got, site, batch>>
    BY <1>4
  <2>2. \A t \in {"world", "ups"} : pc'[t] = pc[t] /\ ship'[t] = ship[t]
    BY <1>0, <1>4 DEF TypeOK
  <2>3. \A p \in Packages : \/ package_status'[p] = package_status[p]
                            \/ package_status'[p] \in {"absent", "packing"}
    <3>1. \/ UNCHANGED package_status
          \/ package_status' = [package_status EXCEPT ![ship["main"]] = "packing"]
      BY <1>4 DEF executeSQL
    <3> QED
      BY <1>0, <3>1 DEF TypeOK
  <2>4. \A c \in Sent' : c \in Sent \/ c.kind \in {"pack", "pickup"}
    <3>1. \/ UNCHANGED send_queue
          \/ \E c : c.kind \in {"pack", "pickup"} /\ Push(c)
      BY <1>4
    <3> QED
      BY <1>0, <2>1, <3>1, SentPush DEF Sent
  <2>5. \A c \in Sent' : c.kind = "load" => c \in Sent
    BY <2>4
  <2> HIDE DEF PlaceOrder, OrderStep
  <2> QED
    BY <1>0, <2>1, <2>2, <2>3, <2>5, GoodKept
<1>5. ASSUME NEW peer \in Peers, NEW r \in Responses, Dispatch(peer, r) PROVE GoodInv'
  <2>1. /\ UNCHANGED <<package_status, send_queue, got, site>>
        /\ batch' = [batch EXCEPT ![peer] = @ \ {r}] /\ r \in batch[peer]
    BY <1>5 DEF Dispatch, dbVars, peerVars
  <2>2. batch'["ups"] \subseteq batch["ups"] /\ Sent' = Sent
    BY <1>0, <2>1 DEF TypeOK, Sent
  <2>3. CASE UNCHANGED <<pc, ship>>
    BY <1>0, <2>1, <2>2, <2>3, GoodKept
  <2>4. CASE /\ ship' = [ship EXCEPT ![peer] = r.ship]
             /\ finished' = [finished EXCEPT ![peer] = @ \cup {r}]
             /\ pc' = [pc EXCEPT ![peer] = Handler(r.kind)]
    <3>1. r = Resp(r.kind, r.ship) /\ r.ship \in Packages
      BY DEF Responses, Resp
    <3>2. CASE peer = "world"
      <4>1. r.kind = "ready" => Good(r.ship)'
        BY <1>0, <2>4, <3>1, <3>2 DEF Good, TypeOK
      <4>2. r.kind = "loaded" => Good(r.ship)
        BY <2>1, <3>1, <3>2, LoadedGood
      <4>3. r.kind \in {"ready", "loaded"}
        BY <1>0, <2>1, <3>2 DEF ResponseInv
      <4>4. Good(r.ship)' /\ ship'["world"] = r.ship
        BY <1>0, <1>1, <2>4, <3>1, <3>2, <4>1, <4>2, <4>3 DEF TypeOK
      <4>5. Good(ship["world"])'
        BY <4>4 DEF Good
      <4>6. pc'["ups"] = pc["ups"] /\ ship'["ups"] = ship["ups"]
        BY <1>0, <2>4, <3>2 DEF TypeOK
      <4> QED
        BY <1>0, <2>1, <2>2, <4>5, <4>6, GoodKept
    <3>3. CASE peer = "ups"
      <4>1. r.kind = "delivered" => Good(r.ship)
        BY <2>1, <3>3 DEF GoodInv
      <4>2. r.kind \in {"truckArr", "delivered"}
        BY <1>0, <2>1, <3>3 DEF ResponseInv
      <4>3. r.kind = "truckArr" => pc'["ups"] = "check_packing"
        BY <1>0, <2>4, <3>3 DEF TypeOK, Handler
      <4>4. ship'["ups"] = r.ship
        BY <1>0, <2>4, <3>3 DEF TypeOK
      <4>5. r.kind = "delivered" => Good(ship["ups"])'
        BY <1>1, <3>1, <4>1, <4>4 DEF Good
      <4>6. pc'["world"] = pc["world"] /\ ship'["world"] = ship["world"]
        BY <1>0, <2>4, <3>3 DEF TypeOK
      <4> QED
        BY <1>0, <2>1, <2>2, <4>2, <4>3, <4>5, <4>6, GoodKept
    <3> QED
      BY <3>2, <3>3
  <2> QED
    BY <1>5, <2>3, <2>4 DEF Dispatch, Goto
\* A statement of the thread t writes a row for which the thread has reason.
<1>6. ASSUME NEW t \in Peers, NEW status \in Statuses,
             Good(ship[t]), ship[t] \in Packages,
             executeSQL(t, update_package_status(ship[t], status))
      PROVE  \A p \in Packages : package_status'[p] = package_status[p] \/ Good(p)'
  <2>1. \/ package_status' = package_status
        \/ package_status' = update_package_status(ship[t], status)
    BY <1>6 DEF executeSQL
  <2>2. \A p \in Packages : package_status'[p] = package_status[p] \/ p = ship[t]
    BY <1>0, <2>1 DEF update_package_status, TypeOK
  <2> QED
    BY <1>1, <1>6, <2>2
<1>7. ASSUME NEW peer \in Peers, FinishHandler(peer) PROVE GoodInv'
  <2>1. /\ ship[peer] \in Packages /\ Good(ship[peer]) /\ Written(pc[peer]) \in Statuses
    BY <1>0, <1>7 DEF FinishHandler, LastStatements, Written, Statuses, ShipInv, GoodInv
  <2>2. \A p \in Packages : package_status'[p] = package_status[p] \/ Good(p)'
    BY <1>6, <1>7, <2>1 DEF FinishHandler
  <2>3. UNCHANGED <<send_queue, got, site, batch>>
    BY <1>7 DEF FinishHandler, recvVars, peerVars
  <2>4. /\ pc'[peer] = "idle"
        /\ \A t \in {"world", "ups"} \ {peer} : pc'[t] = pc[t] /\ ship'[t] = ship[t]
    BY <1>0, <1>7 DEF FinishHandler, Return, Goto, TypeOK
  <2>5. /\ pc'["world"] # "idle" =>
             (pc'["world"] = pc["world"] /\ ship'["world"] = ship["world"])
        /\ pc'["ups"] # "idle" => (pc'["ups"] = pc["ups"] /\ ship'["ups"] = ship["ups"])
    <3>1. CASE peer = "world"
      BY <2>4, <3>1
    <3>2. CASE peer = "ups"
      BY <2>4, <3>2
    <3> QED
      BY <3>1, <3>2 DEF Peers
  <2> QED
    BY <1>0, <2>2, <2>3, <2>5, GoodKept DEF Sent
<1>8. CASE SetLoadeded
  <2>1. ship["world"] \in Packages /\ Good(ship["world"]) /\ "loadeded" \in Statuses
    BY <1>0, <1>8 DEF SetLoadeded, ShipInv, GoodInv, Statuses
  <2>2. \A p \in Packages : package_status'[p] = package_status[p] \/ Good(p)'
    BY <1>6, <1>8, <2>1 DEF SetLoadeded
  <2>3. UNCHANGED <<ship, send_queue, got, site, batch>>
    BY <1>8 DEF SetLoadeded, recvVars, peerVars
  <2>4. pc["world"] # "idle" /\ pc'["ups"] = pc["ups"]
    BY <1>0, <1>8 DEF SetLoadeded, Goto, TypeOK
  <2> QED
    BY <1>0, <2>2, <2>3, <2>4, GoodKept DEF Sent
<1>9. CASE SendUPSReqDelivery \/ DeliveryAcknowledged
  <2>1. UNCHANGED <<package_status, ship, got, site, batch>>
    BY <1>9 DEF SendUPSReqDelivery, DeliveryAcknowledged, dbVars, recvVars, peerVars
  <2>2. pc["world"] # "idle" /\ pc'["ups"] = pc["ups"]
    BY <1>0, <1>9
       DEF SendUPSReqDelivery, DeliveryAcknowledged, Acknowledged, StartSending, Goto, TypeOK
  <2>3. \/ UNCHANGED send_queue
        \/ Push([kind |-> "delivery", ship |-> ship["world"], seq |-> SeqNum])
    BY <1>9 DEF SendUPSReqDelivery, DeliveryAcknowledged, StartSending
  <2>4. \A c \in Sent' : c.kind = "load" => c \in Sent
    BY <1>0, <2>1, <2>3, SentPush DEF Sent
  <2> QED
    BY <1>0, <2>1, <2>2, <2>4, GoodKept
<1>10. CASE CheckPackageIsPacked
  <2>1. UNCHANGED <<package_status, ship, send_queue, got, site, batch>>
    BY <1>10 DEF CheckPackageIsPacked, executeSQL, recvVars, peerVars
  <2>2. pc["ups"] = "check_packing" /\ ship["ups"] \in Packages /\ pc'["world"] = pc["world"]
    BY <1>0, <1>10 DEF CheckPackageIsPacked, Goto, TypeOK, ShipInv
  <2>3. pc'["ups"] # "check_packing" => Good(ship["ups"])'
    <3>1. CASE conn # "ups"
      <4>1. <<"check_packing", ship["ups"]>> \in lost'
        BY <1>10, <2>2, <3>1 DEF CheckPackageIsPacked, executeSQL
      <4> QED
        BY <2>1, <4>1 DEF Good
    <3>2. CASE conn = "ups" /\ package_status[ship["ups"]] = "packing"
      BY <1>10, <2>2, <3>2 DEF CheckPackageIsPacked
    <3>3. CASE package_status[ship["ups"]] \notin {"absent", "packing"}
      BY <1>1, <2>1, <2>2, <3>3 DEF GoodInv, Good
    <3>4. CASE package_status[ship["ups"]] = "absent"
      <4>1. Good(ship["ups"])
        BY <2>2, <3>4, NoRow DEF Good
      <4> QED
        BY <1>1, <2>1, <2>2, <4>1 DEF Good
    <3> QED
      BY <3>1, <3>2, <3>3, <3>4
  <2> QED
    BY <1>0, <2>1, <2>2, <2>3, GoodKept DEF Sent
<1>11. CASE SendLoad \/ LoadAcknowledged
  <2>1. UNCHANGED <<package_status, ship, got, site, batch>>
    BY <1>11 DEF SendLoad, LoadAcknowledged, dbVars, recvVars, peerVars
  <2>2. pc["ups"] \notin {"idle", "check_packing"} /\ pc'["world"] = pc["world"]
    BY <1>0, <1>11 DEF SendLoad, LoadAcknowledged, Acknowledged, StartSending, Goto, TypeOK
  <2>3. \/ UNCHANGED send_queue
        \/ Push([kind |-> "load", ship |-> ship["ups"], seq |-> SeqNum])
    BY <1>11 DEF SendLoad, LoadAcknowledged, StartSending
  <2>4. \A c \in Sent' : c \in Sent \/ c.ship = ship["ups"]
    BY <1>0, <2>1, <2>3, SentPush DEF Sent
  <2>5. Good(ship["ups"]) /\ ship["ups"] \in Packages
    BY <1>0, <2>2 DEF GoodInv, ShipInv
  <2>6. \A c \in Sent' : c \in Sent \/ Good(c.ship)'
    BY <1>1, <2>4, <2>5 DEF Good
  <2> QED
    BY <1>0, <2>1, <2>2, <2>6, GoodKept
<1>12. ASSUME NEW peer \in Peers, NEW c \in send_queue[peer], SendMsgTo(peer, c)
       PROVE  GoodInv'
  <2>1. UNCHANGED <<package_status, pc, ship, batch>> /\ Sent' \subseteq Sent
    BY <1>0, <1>12 DEF SendMsgTo, Deliver, Sent, TypeOK, dbVars, threadVars, recvVars, peerVars
  <2>2. c \in Sent /\ c.ship \in Packages /\ c.kind \in CommandKinds
    BY <1>0, SentTypes DEF Sent
  <2>3. c.kind = "delivery" => Good(c.ship)
    BY <2>2, DeliveryGood
  <2>4. ASSUME NEW p \in Packages, site'["ups"][p] \in {"delivering", "delivered"}
        PROVE  site["ups"][p] \in {"delivering", "delivered"} \/ Good(p)'
    <3>1. \/ site'["ups"][p] = site["ups"][p]
          \/ (p = c.ship /\ site'["ups"][p] = Started(site["ups"][p], c.kind))
      <4>1. CASE UNCHANGED peerVars
        BY <4>1 DEF peerVars
      <4>2. CASE peer = "ups" /\ Deliver(peer, c)
        BY <1>0, <2>2, <4>2 DEF Deliver, TypeOK
      <4>3. CASE peer = "world" /\ Deliver(peer, c)
        <5>1. site'["ups"] = site["ups"]
          BY <1>0, <4>3 DEF Deliver, TypeOK
        <5> QED
          BY <5>1
      <4> QED
        BY <1>12, <4>1, <4>2, <4>3 DEF SendMsgTo, Peers
    <3>2. Started(site["ups"][p], c.kind) \in {"delivering", "delivered"} =>
            site["ups"][p] \in {"delivering", "delivered"} \/ c.kind = "delivery"
      BY <2>2 DEF Started, CommandKinds
    <3> QED
      BY <1>1, <2>3, <2>4, <3>1, <3>2
  <2> QED
    BY <1>0, <2>1, <2>4, GoodKept
<1>13. ASSUME NEW peer \in Peers, Receive(peer) PROVE GoodInv'
  <2>1. PICK items \in SUBSET Emitted(peer) : batch' = [batch EXCEPT ![peer] = items]
    BY <1>13 DEF Receive, Handle
  <2>2. UNCHANGED <<package_status, pc, ship, send_queue, got, site>>
    BY <1>13 DEF Receive, Handle, dbVars, threadVars, peerVars
  <2>3. batch'["ups"] = batch["ups"] \/ batch'["ups"] \subseteq Emitted("ups")
    BY <1>0, <2>1 DEF TypeOK
  <2>4. \A r \in Emitted("ups") : r.kind = "delivered" =>
          r.ship \in Packages /\ site["ups"][r.ship] = "delivered"
    BY DEF Emitted, Resp
  <2>5. \A r \in batch'["ups"] : r.kind = "delivered" => r \in batch["ups"] \/ Good(r.ship)'
    BY <1>1, <2>3, <2>4 DEF GoodInv, Good
  <2> QED
    BY <1>0, <2>2, <2>5, GoodKept DEF Sent
<1>14. ASSUME NEW peer \in Peers, NEW p \in Packages, Progress(peer, p) PROVE GoodInv'
  <2>1. UNCHANGED <<package_status, pc, ship, send_queue, got, batch>>
    BY <1>14 DEF Progress, dbVars, threadVars, recvVars
  <2>2. \A q \in Packages : site'["ups"][q] \in {"delivering", "delivered"} =>
          site["ups"][q] \in {"delivering", "delivered"}
    BY <1>0, <1>14 DEF Progress, TypeOK
  <2> QED
    BY <1>0, <2>1, <2>2, GoodKept DEF Sent
<1>15. CASE UNCHANGED vars
  <2>1. UNCHANGED <<package_status, pc, ship, send_queue, got, site, batch>>
    BY <1>15 DEF vars
  <2> QED
    BY <1>0, <2>1, GoodKept DEF Sent
<1> QED
  BY <1>2, <1>3, <1>4, <1>5, <1>7, <1>8, <1>9, <1>10, <1>11, <1>12, <1>13, <1>14, <1>15
     DEF Next, MainStep, WorldStep, UPSStep, ReceiverStep, SendStep

LEMMA ReadyAlways == Spec => []ReadyInv
<1>1. Init => ReadyInv
  <2>1. Init => JInv
    BY SeqInitially, CommandInitially DEF JInv, IInv
  <2>2. Init => PickupInv /\ InsertedInv /\ GoodInv
    BY DEF Init, PickupInv, InsertedInv, GoodInv, Sent
  <2> QED
    BY <2>1, <2>2 DEF ReadyInv
<1>2. ReadyInv /\ [Next]_vars => ReadyInv'
  BY CommandInductive, PickupStep, InsertedStep, GoodStep
     DEF ReadyInv, JInv, CommandInv
<1> QED
  BY <1>1, <1>2, PTL DEF Spec

-----------------------------------------------------------------------------
\* The load command follows the world's "ready" unless the INSERT of the row or the
\* SELECT of the poll was dropped, whatever else was dropped, lost or repeated.
THEOREM ReadyTheorem == Spec => []LoadAfterReadyUnlessLost
<1>1. ReadyInv => LoadAfterReadyUnlessLost
  <2> SUFFICES ASSUME ReadyInv, NEW c \in AllCommands, c.kind = "load"
               PROVE  Good(c.ship)
    BY DEF LoadAfterReadyUnlessLost, Good
  <2>1. CASE c \in Sent
    BY <2>1 DEF ReadyInv, GoodInv
  <2>2. ASSUME NEW t \in Threads, pc[t] \in CommandKinds, c = CommandOf(t)
        PROVE  Good(c.ship)
    <3>1. pc[t] = "load" /\ c.ship = ship[t]
      BY <2>2 DEF CommandOf
    <3>2. t = "ups"
      BY <3>1 DEF ReadyInv, JInv, CommandInv, LabelInv
    <3> QED
      BY <3>1, <3>2 DEF ReadyInv, GoodInv
  <2> QED
    BY <2>1, <2>2, AllSent
<1> QED
  BY <1>1, ReadyAlways, PTL
=============================================================================
