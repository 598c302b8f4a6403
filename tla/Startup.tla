------------------------------- MODULE Startup -------------------------------
(***************************************************************************)
(* The start of the back end: the handshake with UPS and the world         *)
(* (startRun, initUPS, initWorld), after which module Ordering goes on with*)
(* the start-up purchases. UPS names a world; the back end asks the world  *)
(* simulator for it, over the one connection it has, and tells UPS the     *)
(* result; UPS names another one until the back end is connected.          *)
(***************************************************************************)
EXTENDS Ordering

CONSTANT Worlds    \* numbers of worlds UPS may name

NoWorld == -1

ASSUME WorldsAssumption == Worlds \subseteq Nat

VARIABLES
  boot,         \* where the main thread is
  world_id,
  hasConnected,
  asked,        \* the world of an AConnect without an answer
  connected,    \* the result of an AConnected that is not read yet
  world_conn,   \* external: the world behind the connection to the simulator
  named,        \* the world of a UAinitWorld that is not read yet
  told,         \* the AUconnectedWorld that is not read yet
  ups,          \* external: UPS
  ups_world     \* external: the world UPS named last

bootVars  == <<boot, world_id, hasConnected>>
peerVars  == <<world_conn, ups, ups_world>>
startVars == <<boot, world_id, hasConnected, asked, connected, world_conn,
               named, told, ups, ups_world>>
allVars == <<vars, startVars>>

StartInit ==
  /\ Init
  /\ boot = "init_ups"
  /\ world_id = NoWorld
  /\ hasConnected = FALSE
  /\ asked = NoWorld /\ connected = "none" /\ world_conn = NoWorld
  /\ named = NoWorld /\ told = "none"
  /\ ups = "name" /\ ups_world = NoWorld

-----------------------------------------------------------------------------
(* The back end                                                            *)

\* Mutant: the world UPS named first is kept.
RecvFirstWorld ==
  /\ boot = "init_ups"
  /\ named # NoWorld
  /\ world_id' = IF world_id = NoWorld THEN named ELSE world_id
  /\ named' = NoWorld
  /\ boot' = "init_world"
  /\ UNCHANGED <<hasConnected, asked, connected, told, peerVars>>
RecvInitWorld ==
  /\ boot = "init_ups"
  /\ named # NoWorld
  /\ world_id' = named
  /\ named' = NoWorld
  /\ boot' = "init_world"
  /\ UNCHANGED <<hasConnected, asked, connected, told, peerVars>>

SendAConnect ==
  /\ boot = "init_world"
  /\ asked' = world_id
  /\ boot' = "connecting"
  /\ UNCHANGED <<world_id, hasConnected, connected, named, told, peerVars>>

RecvAConnected ==
  /\ boot = "connecting"
  /\ connected # "none"
  /\ hasConnected' = (connected = "connected!")
  /\ connected' = "none"
  /\ boot' = "connected_world"
  /\ UNCHANGED <<world_id, asked, named, told, peerVars>>

\* AUconnectedWorld is sent; that the write failed is not noticed, when UPS is
\* gone. Then the loop goes on, or the threads are started.

\* Mutant: only a success is reported.
TellSuccess ==
  /\ boot = "connected_world"
  /\ told' = IF ups = "wait" /\ hasConnected THEN "success" ELSE told
  /\ boot' = IF hasConnected THEN "running" ELSE "init_ups"
  /\ UNCHANGED <<world_id, hasConnected, asked, connected, named, peerVars>>
SendConnectedWorld ==
  /\ boot = "connected_world"
  /\ told' = IF ups = "gone" THEN told
             ELSE IF hasConnected THEN "success" ELSE "failure"
  /\ boot' = IF hasConnected THEN "running" ELSE "init_ups"
  /\ UNCHANGED <<world_id, hasConnected, asked, connected, named, peerVars>>

\* A message that cannot be received is an exception and ends startRun, a write
\* to a closed connection the process.
StartFails ==
  /\ \/ boot = "init_ups" /\ named = NoWorld /\ ups = "gone"
     \/ boot = "connected_world" /\ ups = "gone"
     \/ boot \in {"init_world", "connecting"} /\ connected = "none"
  /\ boot' = "ended"
  /\ UNCHANGED <<world_id, hasConnected, asked, connected, named, told, peerVars>>

-----------------------------------------------------------------------------
(* External: the world simulator and UPS                                   *)

WorldAnswers ==
  /\ asked # NoWorld
  /\ asked' = NoWorld
  /\ \/ connected' = "connected!" /\ world_conn' = asked
     \/ connected' = "error" /\ UNCHANGED world_conn
  /\ UNCHANGED <<bootVars, named, told, ups, ups_world>>

UPSNames(w) ==
  /\ ups = "name"
  /\ named' = w
  /\ ups_world' = w
  /\ ups' = "wait"
  /\ UNCHANGED <<bootVars, asked, connected, told, world_conn>>

UPSIsTold ==
  /\ ups = "wait"
  /\ told # "none"
  /\ told' = "none"
  /\ ups' = IF told = "success" THEN "connected" ELSE "name"
  /\ UNCHANGED <<bootVars, asked, connected, world_conn, named, ups_world>>

\* UPS closes its connection.
UPSLeaves ==
  /\ boot # "running"
  /\ ups \in {"name", "wait"}
  /\ ups' = "gone"
  /\ UNCHANGED <<bootVars, asked, connected, world_conn, named, told, ups_world>>

-----------------------------------------------------------------------------
BootStep == RecvInitWorld \/ SendAConnect \/ RecvAConnected \/ SendConnectedWorld

Starting(A) == A /\ UNCHANGED vars

\* The threads, the purchases and the requests of the front end come after it.
Running(A) == boot = "running" /\ A /\ UNCHANGED startVars

Ended == boot = "ended" /\ UNCHANGED allVars

StartNext ==
  \/ Starting(BootStep) \/ Starting(StartFails)
  \/ Starting(WorldAnswers) \/ Starting(UPSIsTold) \/ Starting(UPSLeaves)
  \/ \E w \in Worlds : Starting(UPSNames(w))
  \/ Running(MainStep) \/ Running(WorldStep)
  \/ Running(WorldBuys) \/ Running(OtherStatement) \/ Running(OtherResponse)
  \/ \E o \in Orders : Running(AcceptOrder(o))
  \/ \E acks \in SUBSET Seqs(bought), items \in SUBSET Arrivals :
       Running(Receive(acks, items))
  \/ Ended

StartSpec == StartInit /\ [][StartNext]_allVars

\* The fairness of Ordering; the process runs, the world answers, and UPS reads
\* what it is told.
FairStartSpec ==
  /\ StartSpec
  /\ WF_allVars(Starting(BootStep)) /\ WF_allVars(Starting(WorldAnswers))
  /\ WF_allVars(Starting(UPSIsTold))
  /\ WF_allVars(Running(MainStep)) /\ WF_allVars(Running(WorldStep))
  /\ WF_allVars(Running(WorldBuys)) /\ SF_allVars(Running(ReceiveNews))

-----------------------------------------------------------------------------
\* One world for all: a running back end, and with it every purchase and order,
\* is in the world UPS named last, however many were refused before; and UPS
\* believes so only of a back end that is running in it.
OneWorld ==
  /\ boot = "running" => world_conn = world_id /\ world_id = ups_world
  /\ ups = "connected" => boot = "running"
  /\ bought # {} => world_conn = ups_world

\* Each world UPS names is settled: the back end runs, UPS may name another one,
\* or one of the two has ended.
NamedSettles ==
  \A w \in Worlds :
    (named = w) ~> (boot \in {"running", "ended"} \/ ups \in {"name", "gone"})
=============================================================================
