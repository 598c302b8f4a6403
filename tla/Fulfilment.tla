----------------------------- MODULE Fulfilment -----------------------------
(***************************************************************************)
(* What the back-end promises about a package, without threads, numbers,   *)
(* queues, retries or a database: the commands issued for it and the       *)
(* responses handled for it, each once, each after what it depends on.     *)
(***************************************************************************)
CONSTANT Packages

VARIABLES issued,  \* per package: the kinds of the commands issued
          handled  \* per package: the kinds of the responses handled

fulfilmentVars == <<issued, handled>>

\* handleOrder asks for a truck when the world has been asked to pack; the truck
\* is loaded when it is there and the package is packed, and leaves when loaded.
Needs(kind) == CASE kind = "pack"     -> {}
                 [] kind = "pickup"   -> {"pack"}
                 [] kind = "load"     -> {"ready", "truckArr"}
                 [] kind = "delivery" -> {"loaded"}

\* The command a response answers.
Cause(kind) == CASE kind = "ready"     -> "pack"
                 [] kind = "truckArr"  -> "pickup"
                 [] kind = "loaded"    -> "load"
                 [] kind = "delivered" -> "delivery"

Init == /\ issued  = [p \in Packages |-> {}]
        /\ handled = [p \in Packages |-> {}]

Issue(p, kind) ==
  /\ kind \notin issued[p]
  /\ Needs(kind) \subseteq issued[p] \cup handled[p]
  /\ issued' = [issued EXCEPT ![p] = @ \cup {kind}]
  /\ UNCHANGED handled

HandleResponse(p, kind) ==
  /\ kind \notin handled[p]
  /\ Cause(kind) \in issued[p]
  /\ handled' = [handled EXCEPT ![p] = @ \cup {kind}]
  /\ UNCHANGED issued

Next == \E p \in Packages :
          \/ \E kind \in {"pack", "pickup", "load", "delivery"} : Issue(p, kind)
          \/ \E kind \in {"ready", "truckArr", "loaded", "delivered"} :
               HandleResponse(p, kind)

Spec == Init /\ [][Next]_fulfilmentVars
=============================================================================
