------------------------------ MODULE Shipping ------------------------------
(***************************************************************************)
(* The fulfilment of packages by the back-end server: three of its threads *)
(* share the sequence number counter, the set of acknowledged numbers, the *)
(* two send queues and ONE database connection, and drive every package    *)
(* through the world simulator and UPS.                                    *)
(*                                                                         *)
(*   "main"   listenFrontEndRequest: orders of the customers               *)
(*   "world"  recvMsgFromWorld:      responses of the world simulator      *)
(*   "ups"    recvMsgFromUPS:        responses of UPS                      *)
(*                                                                         *)
(* A thread that sends a command stays in the loop of trySendMsgToWorld or *)
(* trySendMsgToUPS, pushing the command once a second, until its sequence  *)
(* number is acknowledged; a receiving thread receives nothing meanwhile.  *)
(*                                                                         *)
(* A transaction occupies the connection from BeginWork to executeSQL. A   *)
(* statement that finds another thread's transaction open throws inside    *)
(* executeSQL, which swallows the exception: the statement is dropped and  *)
(* its caller goes on as if it had run.                                    *)
(***************************************************************************)
EXTENDS Naturals, FiniteSets

CONSTANTS MaxPackages, \* bound: packages placed, getPackageID has no other
          MaxLost,     \* bound: statements dropped, the code has no other
          NUM_WH,      \* number of warehouses, one start-up purchase for each
          NoPackage    \* ship of a thread that has no package in hand

ASSUME MaxPackagesAssumption == MaxPackages \in Nat
ASSUME MaxLostAssumption     == MaxLost \in Nat
ASSUME WarehousesAssumption  == NUM_WH \in Nat
ASSUME NoPackageAssumption   == NoPackage \notin Nat

Packages == 0 .. MaxPackages - 1    \* the ids handed out by getPackageID

Peers    == {"world", "ups"}        \* also the threads that receive from them
Threads  == Peers \cup {"main"}
NoThread == "none"

\* The commands the server sends and the peer each of them goes to.
CommandKinds == {"pack", "load", "pickup", "delivery"}
PeerOf(kind) == IF kind \in {"pack", "load"} THEN "world" ELSE "ups"
Commands     == [kind : CommandKinds, ship : Packages, seq : Nat]

\* The responses of the peers. A response stands for its sequence number.
Responses     == [kind : {"ready", "loaded", "truckArr", "delivered"},
                  ship : Packages]
Resp(kind, p) == [kind |-> kind, ship |-> p]

\* The points of the threads at which executeSQL is called.
Statements == {"insert_package", "insert_order", "check_ups_id", "set_packed",
               "set_loadeded", "set_delivering", "check_packing", "set_loading",
               "set_delivered"}
Labels == Statements \cup CommandKinds \cup
          {"idle", "send_pack", "draw_pickup", "send_delivery", "send_load"}

Statuses == {"absent", "packing", "packed", "loading", "loadeded", "delivering",
             "delivered"}
Stages   == {"none", "packing", "packed", "loading", "loaded",
             "coming", "arrived", "delivering", "delivered"}

VARIABLES
  package_id,      \* the counter of getPackageID
  package_status,  \* the column of amazonSite_package, "absent" without a row
  conn,            \* the thread whose transaction is open on the connection
  lost,            \* history: the statements dropped because conn was taken
  pc, ship, seq_num, \* per thread: where it is, its package, its number
  SeqNum,          \* the shared counter of getSeqNum
  send_queue,      \* per peer: commands in A2W_ or A2U_send_queue and on their
                   \* way that can still be news to the peer
  global_finished, \* global_finished_SeqNum_set
  finished,        \* finished_SeqNum_set and ups_finished_SeqNum_set
  batch,           \* per peer: what is left of the message being handled
  acks_sent,       \* per peer: responses in an all_acks pushed to its queue
  got,             \* external: the commands a peer has received
  site             \* external: what a peer has done with a package

dbVars     == <<package_status, conn, lost>>
threadVars == <<pc, ship, seq_num>>
recvVars   == <<finished, batch, acks_sent>>
peerVars   == <<got, site>>
vars == <<package_id, package_status, conn, lost, pc, ship, seq_num, SeqNum,
          send_queue, global_finished, finished, batch, acks_sent, got, site>>

Seqs(commands) == {c.seq : c \in commands}

\* The command thread t is retrying: meaningful when pc[t] is a command kind.
CommandOf(t) == [kind |-> pc[t], ship |-> ship[t], seq |-> seq_num[t]]

\* The server after start-up: one acknowledged purchase per warehouse.
Init ==
  /\ package_id = 0
  /\ package_status = [p \in Packages |-> "absent"]
  /\ conn = NoThread
  /\ lost = {}
  /\ pc = [t \in Threads |-> "idle"]
  /\ ship = [t \in Threads |-> NoPackage]
  /\ seq_num = [t \in Threads |-> 0]
  /\ SeqNum = NUM_WH
  /\ send_queue = [q \in Peers |-> {}]
  /\ global_finished = 0 .. NUM_WH - 1
  /\ finished = [q \in Peers |-> {}]
  /\ batch = [q \in Peers |-> {}]
  /\ acks_sent = [q \in Peers |-> {}]
  /\ got = [q \in Peers |-> {}]
  /\ site = [q \in Peers |-> [p \in Packages |-> "none"]]

-----------------------------------------------------------------------------
(* Helpers of the threads                                                  *)

Goto(t, label) == pc' = [pc EXCEPT ![t] = label]

\* The handler of t returns and its locals go.
Return(t) ==
  /\ Goto(t, "idle")
  /\ ship' = [ship EXCEPT ![t] = NoPackage]
  /\ seq_num' = [seq_num EXCEPT ![t] = 0]

\* Mutant: SeqNum is read and written without its mutex, an increment is lost.
getSeqNumUnlocked(t) ==
  /\ seq_num' = [seq_num EXCEPT ![t] = SeqNum]
  /\ SeqNum' \in {SeqNum, SeqNum + 1}

\* t takes the next number: getSeqNum holds a mutex.
getSeqNum(t) ==
  /\ seq_num' = [seq_num EXCEPT ![t] = SeqNum]
  /\ SeqNum' = SeqNum + 1

\* c joins the queue of its peer. Further copies of what the peer has received
\* change nothing there, and are left out of the queue.
Push(c) ==
  send_queue' = [send_queue EXCEPT ![PeerOf(c.kind)] =
                   @ \cup ({c} \ got[PeerOf(c.kind)])]

\* work w(*c): t opens its transaction on the shared connection.
BeginWork(t) ==
  /\ pc[t] \in Statements
  /\ conn = NoThread
  /\ conn' = t
  /\ UNCHANGED <<package_id, package_status, lost, pc, ship, seq_num, SeqNum,
                 send_queue, global_finished, finished, batch, acks_sent, got,
                 site>>

\* The statement of t leaves the column as rows, or is dropped: the connection
\* has an open transaction of another thread.
executeSQL(t, rows) ==
  \/ /\ conn = t
     /\ conn' = NoThread
     /\ package_status' = rows
     /\ UNCHANGED lost
  \/ /\ conn \notin {NoThread, t}
     /\ Cardinality(lost) < MaxLost
     /\ lost' = lost \cup {<<pc[t], ship[t]>>}
     /\ UNCHANGED <<package_status, conn>>

\* UPDATE ... SET package_status WHERE package_id: no row, no effect.
update_package_status(p, status) ==
  [package_status EXCEPT ![p] = IF @ = "absent" THEN "absent" ELSE status]

\* The first turn of the loop of trySendMsgToWorld and trySendMsgToUPS.
StartSending(t, kind) ==
  /\ getSeqNum(t)
  /\ Push([kind |-> kind, ship |-> ship[t], seq |-> SeqNum])
  /\ Goto(t, kind)

\* Mutant: the loop pushes the command in its first turn only.
NeverPushAgain(t) ==
  /\ pc[t] \in CommandKinds
  /\ seq_num[t] \notin global_finished
  /\ UNCHANGED vars

\* A later turn: a second has passed and the number is not acknowledged.
PushAgain(t) ==
  /\ pc[t] \in CommandKinds
  /\ seq_num[t] \notin global_finished
  /\ Push(CommandOf(t))
  /\ UNCHANGED <<package_id, dbVars, threadVars, SeqNum, global_finished,
                 recvVars, peerVars>>

\* The loop of t over its command ends.
Acknowledged(t, kind) ==
  /\ pc[t] = kind
  /\ seq_num[t] \in global_finished

-----------------------------------------------------------------------------
(* main: handleOrder, for an order whose products are in one warehouse (an *)
(* order over several warehouses runs the same steps once for each).       *)

PlaceOrder ==
  /\ pc["main"] = "idle"
  /\ package_id < MaxPackages
  /\ package_id' = package_id + 1
  /\ ship' = [ship EXCEPT !["main"] = package_id]
  /\ Goto("main", "insert_package")
  /\ UNCHANGED <<dbVars, seq_num, SeqNum, send_queue, global_finished, recvVars,
                 peerVars>>

InsertPackage ==
  /\ pc["main"] = "insert_package"
  /\ executeSQL("main", [package_status EXCEPT ![ship["main"]] = "packing"])
  /\ Goto("main", "insert_order")
  /\ UNCHANGED <<package_id, ship, seq_num, SeqNum, send_queue, global_finished,
                 recvVars, peerVars>>

InsertOrder ==
  /\ pc["main"] = "insert_order"
  /\ executeSQL("main", package_status)
  /\ Goto("main", "send_pack")
  /\ UNCHANGED <<package_id, ship, seq_num, SeqNum, send_queue, global_finished,
                 recvVars, peerVars>>

SendToWorldPack ==
  /\ pc["main"] = "send_pack"
  /\ StartSending("main", "pack")
  /\ UNCHANGED <<package_id, dbVars, ship, global_finished, recvVars, peerVars>>

PackAcknowledged ==
  /\ Acknowledged("main", "pack")
  /\ Goto("main", "draw_pickup")
  /\ UNCHANGED <<package_id, dbVars, ship, seq_num, SeqNum, send_queue,
                 global_finished, recvVars, peerVars>>

\* send_to_ups_pack takes its number before it asks for the UPS account.
DrawPickup ==
  /\ pc["main"] = "draw_pickup"
  /\ getSeqNum("main")
  /\ Goto("main", "check_ups_id")
  /\ UNCHANGED <<package_id, dbVars, ship, send_queue, global_finished, recvVars,
                 peerVars>>

SendToUPSPack ==
  /\ pc["main"] = "check_ups_id"
  /\ executeSQL("main", package_status)
  /\ Push([kind |-> "pickup", ship |-> ship["main"], seq |-> seq_num["main"]])
  /\ Goto("main", "pickup")
  /\ UNCHANGED <<package_id, ship, seq_num, SeqNum, global_finished, recvVars,
                 peerVars>>

PickupAcknowledged ==
  /\ Acknowledged("main", "pickup")
  /\ Return("main")
  /\ UNCHANGED <<package_id, dbVars, SeqNum, send_queue, global_finished,
                 recvVars, peerVars>>

-----------------------------------------------------------------------------
(* The receiving threads. One message carries acknowledgements and         *)
(* responses, of which any may be a repetition.                            *)

\* What a peer may have sent of its responses, for its stage of package p.
Emitted(peer) ==
  IF peer = "world"
  THEN {Resp("ready", p)  : p \in {q \in Packages :
                              site["world"][q] \in {"packed", "loading", "loaded"}}}
       \cup {Resp("loaded", p) : p \in {q \in Packages : site["world"][q] = "loaded"}}
  ELSE {Resp("truckArr", p) : p \in {q \in Packages :
                              site["ups"][q] \in {"arrived", "delivering", "delivered"}}}
       \cup {Resp("delivered", p) : p \in {q \in Packages : site["ups"][q] = "delivered"}}

\* External: the world answers a command after acknowledging it, and reports a
\* package loaded after having reported it ready.
CausedBy(kind) == IF kind = "ready" THEN "pack" ELSE "load"
InOrder(acks, items) ==
  \A r \in items :
    /\ \E c \in got["world"] :
         /\ c.kind = CausedBy(r.kind)
         /\ c.ship = r.ship
         /\ c.seq \in global_finished \cup acks
    /\ r.kind = "loaded" =>
         Resp("ready", r.ship) \in items \cup acks_sent["world"]

\* Mutant: acknowledgements are recorded while a handler of the peer is blocked.
HandleWhileBlocked(peer, acks, items) ==
  /\ batch[peer] = {}
  /\ acks # {} \/ items # {}
  /\ global_finished' = global_finished \cup acks
  /\ acks_sent' = [acks_sent EXCEPT ![peer] = @ \cup items]
  /\ batch' = [batch EXCEPT ![peer] = items]
  /\ UNCHANGED <<package_id, dbVars, threadVars, SeqNum, send_queue, finished,
                 peerVars>>

\* The constructor of HandleWorld or HandleUPS, and the push of all_acks.
Handle(peer, acks, items) ==
  /\ pc[peer] = "idle"
  /\ batch[peer] = {}
  /\ acks # {} \/ items # {}
  /\ peer = "world" => InOrder(acks, items)
  /\ global_finished' = global_finished \cup acks
  /\ acks_sent' = [acks_sent EXCEPT ![peer] = @ \cup items]
  /\ batch' = [batch EXCEPT ![peer] = items]
  /\ UNCHANGED <<package_id, dbVars, threadVars, SeqNum, send_queue, finished,
                 peerVars>>

NewAcks(peer)  == Seqs(got[peer]) \ global_finished
NewItems(peer) == Emitted(peer) \ acks_sent[peer]

Receive(peer) ==
  \E acks \in SUBSET NewAcks(peer), items \in SUBSET Emitted(peer) :
    Handle(peer, acks, items)

\* The message that carries all the server has not received yet.
ReceiveNews(peer) == Handle(peer, NewAcks(peer), NewItems(peer))

\* The order of the loops of handleWorldResponse and handleUPSResponse.
Earlier == {"ready", "truckArr"}
\* Mutant: a packed package is handled as a loaded one.
HandlerMixedUp(kind) == CASE kind \in {"ready", "loaded"} -> "set_loadeded"
                          [] kind = "truckArr"  -> "check_packing"
                          [] kind = "delivered" -> "set_delivered"

Handler(kind) == CASE kind = "ready"     -> "set_packed"
                   [] kind = "loaded"    -> "set_loadeded"
                   [] kind = "truckArr"  -> "check_packing"
                   [] kind = "delivered" -> "set_delivered"

\* Mutant: the numbers of handled responses are not looked up.
DispatchAgain(peer, r) ==
  /\ pc[peer] = "idle"
  /\ r \in batch[peer]
  /\ batch' = [batch EXCEPT ![peer] = @ \ {r}]
  /\ finished' = [finished EXCEPT ![peer] = @ \cup {r}]
  /\ ship' = [ship EXCEPT ![peer] = r.ship]
  /\ Goto(peer, Handler(r.kind))
  /\ UNCHANGED <<package_id, dbVars, seq_num, SeqNum, send_queue,
                 global_finished, acks_sent, peerVars>>

\* Mutant: only the first response of a message is handled.
DispatchFirst(peer, r) ==
  /\ pc[peer] = "idle"
  /\ r \in batch[peer]
  /\ batch' = [batch EXCEPT ![peer] = {}]
  /\ finished' = [finished EXCEPT ![peer] = @ \cup {r}]
  /\ ship' = [ship EXCEPT ![peer] = r.ship]
  /\ Goto(peer, Handler(r.kind))
  /\ UNCHANGED <<package_id, dbVars, seq_num, SeqNum, send_queue,
                 global_finished, acks_sent, peerVars>>

\* One turn of those loops: a response handled before is passed over, a new one
\* is recorded by checkWorldHasHandled or checkUPSHasHandled and processed.
Dispatch(peer, r) ==
  /\ pc[peer] = "idle"
  /\ r \in batch[peer]
  /\ r.kind \notin Earlier => \A other \in batch[peer] : other.kind \notin Earlier
  /\ batch' = [batch EXCEPT ![peer] = @ \ {r}]
  /\ \/ /\ r \in finished[peer]
        /\ UNCHANGED <<finished, pc, ship>>
     \/ /\ r \notin finished[peer]
        /\ finished' = [finished EXCEPT ![peer] = @ \cup {r}]
        /\ ship' = [ship EXCEPT ![peer] = r.ship]
        /\ Goto(peer, Handler(r.kind))
  /\ UNCHANGED <<package_id, dbVars, seq_num, SeqNum, send_queue,
                 global_finished, acks_sent, peerVars>>

\* processPacked and processUAdelivered end with their statement, and
\* processUAtruckArrived and sendUPSReqDelivery with theirs after the loop.
LastStatements == {"set_packed", "set_delivered", "set_loading", "set_delivering"}
\* Mutants: another status is written.
WrittenTypo(label) == CASE label = "set_packed"     -> "packed"
                        [] label = "set_delivered"  -> "delivered"
                        [] label = "set_loading"    -> "loaded"
                        [] label = "set_delivering" -> "delivering"
WrittenPacking(label) == CASE label = "set_packed"     -> "packing"
                           [] label = "set_delivered"  -> "delivered"
                           [] label = "set_loading"    -> "loading"
                           [] label = "set_delivering" -> "delivering"

Written(label) == CASE label = "set_packed"     -> "packed"
                    [] label = "set_delivered"  -> "delivered"
                    [] label = "set_loading"    -> "loading"
                    [] label = "set_delivering" -> "delivering"

FinishHandler(peer) ==
  /\ pc[peer] \in LastStatements
  /\ executeSQL(peer, update_package_status(ship[peer], Written(pc[peer])))
  /\ Return(peer)
  /\ UNCHANGED <<package_id, SeqNum, send_queue, global_finished, recvVars,
                 peerVars>>

\* processLoaded
SetLoadeded ==
  /\ pc["world"] = "set_loadeded"
  /\ executeSQL("world", update_package_status(ship["world"], "loadeded"))
  /\ Goto("world", "send_delivery")
  /\ UNCHANGED <<package_id, ship, seq_num, SeqNum, send_queue, global_finished,
                 recvVars, peerVars>>

SendUPSReqDelivery ==
  /\ pc["world"] = "send_delivery"
  /\ StartSending("world", "delivery")
  /\ UNCHANGED <<package_id, dbVars, ship, global_finished, recvVars, peerVars>>

DeliveryAcknowledged ==
  /\ Acknowledged("world", "delivery")
  /\ Goto("world", "set_delivering")
  /\ UNCHANGED <<package_id, dbVars, ship, seq_num, SeqNum, send_queue,
                 global_finished, recvVars, peerVars>>

\* Mutant: one look at the row, and the package goes whether packed or not.
CheckOnce ==
  /\ pc["ups"] = "check_packing"
  /\ executeSQL("ups", package_status)
  /\ Goto("ups", "send_load")
  /\ UNCHANGED <<package_id, ship, seq_num, SeqNum, send_queue, global_finished,
                 recvVars, peerVars>>

\* processUAtruckArrived: the poll of checkPackageIsPacked goes on while a row
\* says "packing"; no row and a dropped SELECT count as packed.
CheckPackageIsPacked ==
  /\ pc["ups"] = "check_packing"
  /\ executeSQL("ups", package_status)
  /\ IF conn = "ups" /\ package_status[ship["ups"]] = "packing"
     THEN UNCHANGED pc
     ELSE Goto("ups", "send_load")
  /\ UNCHANGED <<package_id, ship, seq_num, SeqNum, send_queue, global_finished,
                 recvVars, peerVars>>

SendLoad ==
  /\ pc["ups"] = "send_load"
  /\ StartSending("ups", "load")
  /\ UNCHANGED <<package_id, dbVars, ship, global_finished, recvVars, peerVars>>

LoadAcknowledged ==
  /\ Acknowledged("ups", "load")
  /\ Goto("ups", "set_loading")
  /\ UNCHANGED <<package_id, dbVars, ship, seq_num, SeqNum, send_queue,
                 global_finished, recvVars, peerVars>>

-----------------------------------------------------------------------------
(* The sending threads and the peers                                       *)

\* External: what the receipt of a command starts at the peer. The world loads
\* only what it has packed and answers anything else with an AErr, which
\* handleWorldResponse does not look at; UPS delivers what its truck carries.
Started(stage, kind) ==
  CASE kind = "pack"     /\ stage = "none"    -> "packing"
    [] kind = "load"     /\ stage = "packed"  -> "loading"
    [] kind = "pickup"   /\ stage = "none"    -> "coming"
    [] kind = "delivery" /\ stage = "arrived" -> "delivering"
    [] OTHER -> stage

Deliver(peer, c) ==
  /\ got' = [got EXCEPT ![peer] = @ \cup {c}]
  /\ site' = [site EXCEPT ![peer][c.ship] = Started(@, c.kind)]

\* sendMsgToWorld, sendMsgToUPS: a command is popped and sent. The peer receives
\* it or, being flaky, drops it, of which other copies may be left.
SendMsgTo(peer, c) ==
  /\ c \in send_queue[peer]
  /\ send_queue' = [send_queue EXCEPT ![peer] = @ \ {c}]
  /\ Deliver(peer, c) \/ UNCHANGED peerVars
  /\ UNCHANGED <<package_id, dbVars, threadVars, SeqNum, global_finished,
                 recvVars>>

\* External: the peer goes on with a package.
Progress(peer, p) ==
  /\ site[peer][p] \in {"packing", "loading", "coming", "delivering"}
  /\ site' = [site EXCEPT ![peer][p] =
                CASE @ = "packing"    -> "packed"
                  [] @ = "loading"    -> "loaded"
                  [] @ = "coming"     -> "arrived"
                  [] @ = "delivering" -> "delivered"]
  /\ UNCHANGED <<package_id, dbVars, threadVars, SeqNum, send_queue,
                 global_finished, recvVars, got>>

-----------------------------------------------------------------------------
OrderStep == \/ InsertPackage \/ InsertOrder \/ SendToWorldPack
             \/ PackAcknowledged \/ DrawPickup \/ SendToUPSPack
             \/ PickupAcknowledged
MainStep  == BeginWork("main") \/ PushAgain("main") \/ OrderStep

ReceiverStep(peer) == \/ BeginWork(peer) \/ PushAgain(peer)
                      \/ FinishHandler(peer)
                      \/ \E r \in Responses : Dispatch(peer, r)
WorldStep == \/ ReceiverStep("world")
             \/ SetLoadeded \/ SendUPSReqDelivery \/ DeliveryAcknowledged
UPSStep   == \/ ReceiverStep("ups")
             \/ CheckPackageIsPacked \/ SendLoad \/ LoadAcknowledged

SendStep == \E peer \in Peers : \E c \in send_queue[peer] : SendMsgTo(peer, c)

Next == \/ PlaceOrder \/ MainStep \/ WorldStep \/ UPSStep
        \/ SendStep
        \/ \E peer \in Peers : Receive(peer)
        \/ \E peer \in Peers, p \in Packages : Progress(peer, p)

Spec == Init /\ [][Next]_vars

\* The threads are scheduled, the peers go on with their work. A command that is
\* sent over and over reaches its peer, and a peer repeats what the server has
\* not acknowledged until the server receives it, as often as it listens.
DeliverNew == \E peer \in Peers : \E c \in send_queue[peer] :
                SendMsgTo(peer, c) /\ Deliver(peer, c)
Fairness ==
  /\ WF_vars(MainStep) /\ WF_vars(WorldStep) /\ WF_vars(UPSStep)
  /\ \A peer \in Peers, p \in Packages : WF_vars(Progress(peer, p))
  /\ SF_vars(DeliverNew)
  /\ SF_vars(\E peer \in Peers : ReceiveNews(peer))

FairSpec == Spec /\ Fairness

-----------------------------------------------------------------------------
(* Properties                                                              *)

\* Every variable has a value the code can give it.
TypeOK ==
  /\ package_id \in 0 .. MaxPackages
  /\ package_status \in [Packages -> Statuses]
  /\ conn \in Threads \cup {NoThread}
  /\ lost \subseteq Statements \X Packages
  /\ pc \in [Threads -> Labels]
  /\ ship \in [Threads -> Packages \cup {NoPackage}]
  /\ seq_num \in [Threads -> Nat]
  /\ SeqNum \in Nat
  /\ send_queue \in [Peers -> SUBSET Commands]
  /\ global_finished \in SUBSET Nat
  /\ finished \in [Peers -> SUBSET Responses]
  /\ batch \in [Peers -> SUBSET Responses]
  /\ acks_sent \in [Peers -> SUBSET Responses]
  /\ got \in [Peers -> SUBSET Commands]
  /\ site \in [Peers -> [Packages -> Stages]]

\* A thread leaves the loop of trySendMsgToWorld or trySendMsgToUPS only when
\* its own command has reached the peer it was meant for, although three threads
\* draw their numbers from one counter and the acknowledgements of both peers
\* fall into one set.
AckMeansReceived ==
  \A t \in Threads :
    pc[t] \in CommandKinds /\ seq_num[t] \in global_finished =>
      CommandOf(t) \in got[PeerOf(pc[t])]

\* Every command the server has ever sent: those being retried may be neither
\* in a queue nor received.
AllCommands == (UNION {send_queue[peer] \cup got[peer] : peer \in Peers})
               \cup {CommandOf(t) : t \in {u \in Threads : pc[u] \in CommandKinds}}

\* The retries of a command carry its number, and a response that is repeated
\* starts no second command: for a package there is at most one command of a
\* kind, however often messages are lost, sent again and repeated.
OneCommandPerStep ==
  \A c, d \in AllCommands : c.kind = d.kind /\ c.ship = d.ship => c = d

\* UPS is asked to deliver what the world has put on the truck, nothing else.
DeliverOnlyLoaded ==
  \A c \in AllCommands :
    c.kind = "delivery" => site["world"][c.ship] = "loaded"

\* The load command follows the world's "ready" for the package, except where a
\* statement was dropped: the INSERT of the row, or the SELECT of the poll.
LoadAfterReadyUnlessLost ==
  \A c \in AllCommands :
    c.kind = "load" =>
      \/ Resp("ready", c.ship) \in finished["world"]
      \/ <<"insert_package", c.ship>> \in lost
      \/ <<"check_packing", c.ship>> \in lost

\* While no statement is dropped the three threads, seen from the peers, go
\* through the steps of Fulfilment: no command too early, none twice, no response
\* handled that nobody asked for.
Promise == INSTANCE Fulfilment WITH
  issued  <- [p \in Packages |-> {c.kind : c \in {d \in AllCommands : d.ship = p}}],
  handled <- [p \in Packages |->
               {r.kind : r \in {q \in finished["world"] \cup finished["ups"] :
                                   q.ship = p}}]
AsPromised == Promise!Spec

NothingLost(p) == \A s \in Statements : <<s, p>> \notin lost

\* The row of a package is never behind the responses that have been processed,
\* although both receiving threads write it: after "ready" it is past "packing",
\* and after "delivered" it is "delivering" or "delivered".
RowFollowsResponses ==
  \A p \in Packages :
    NothingLost(p) =>
      /\ Resp("ready", p) \in finished["world"] =>
           \/ package_status[p] \notin {"absent", "packing"}
           \/ pc["world"] = "set_packed" /\ ship["world"] = p
      /\ Resp("delivered", p) \in finished["ups"] =>
           \/ package_status[p] \in {"delivering", "delivered"}
           \/ pc["ups"] = "set_delivered" /\ ship["ups"] = p

\* Once a package is on its way to the customer its row never says again that
\* it is in the warehouse, whatever the other thread still has to write.
NeverBackInWarehouse ==
  [][\A p \in Packages : package_status[p] \in {"delivering", "delivered"} =>
       package_status'[p] \in {"delivering", "delivered"}]_vars

\* A response that was acknowledged (the peer will not repeat it) is not lost:
\* it stays acknowledged until processed.
AcknowledgedIsKept ==
  \A peer \in Peers : acks_sent[peer] \subseteq finished[peer] \cup batch[peer]

\* The thread of the world cannot receive before UPS acknowledges a delivery...
WorldAwaitsUPS ==
  \/ pc["world"] \in {"set_loadeded", "send_delivery"}
  \/ pc["world"] = "delivery" /\ seq_num["world"] \notin global_finished
\* ... and the thread of UPS not before the world acknowledges a load.
UPSAwaitsWorld ==
  \/ pc["ups"] \in {"check_packing", "send_load"}
  \/ pc["ups"] = "load" /\ seq_num["ups"] \notin global_finished
CircularWait == WorldAwaitsUPS /\ UPSAwaitsWorld

\* The threads wait for each other over two packages only, however many statements are
\* dropped: never over the steps of one. Both may belong to one order, as handleOrder makes
\* a package for each warehouse (handleCustomer.cpp:199-205).
CircularWaitTakesTwo == CircularWait => ship["world"] # ship["ups"]

\* The two receiving threads, once each is waiting for an acknowledgement that
\* only the other can receive, wait forever.
CircularWaitIsForever == [][CircularWait => CircularWait']_vars

Placed(p) == pc["main"] = "insert_package" /\ ship["main"] = p

\* Every package that is ordered is delivered, and its row says so, unless
\* statements were dropped or the receiving threads have come to wait for each
\* other.
DeliveredUnlessStuck ==
  \A p \in Packages :
    Placed(p) ~> package_status[p] = "delivered" \/ lost # {} \/ CircularWait

\* danger_log.txt:22: users who place several orders wait longer when more
\* packets are lost, but what they wait for happens (while no statement is
\* dropped). It does not: see CircularWait.
OrdersOnlyWaitLonger ==
  \A p \in Packages : Placed(p) ~> package_status[p] = "delivered" \/ lost # {}

\* handleUPS.cpp:107 and 114: the load command is sent when the package is
\* packed.
LoadAfterReady ==
  \A c \in AllCommands :
    c.kind = "load" => Resp("ready", c.ship) \in finished["world"]

\* handleUPS.cpp:139: a delivered package has status delivered.
DeliveredIsFinal ==
  [][\A p \in Packages : package_status[p] = "delivered" =>
       package_status'[p] = "delivered"]_vars

=============================================================================
