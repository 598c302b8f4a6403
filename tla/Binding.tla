------------------------------ MODULE Binding ------------------------------
(***************************************************************************)
(* The UPS account of a user and the status of its binding, a row of       *)
(* amazonSite_user_ups with three writers: the profile page of the front   *)
(* end (a thread per request), the main thread of the back end (handleBind)*)
(* and its thread of UPS (processbindUPSResponse). The page is read,       *)
(* checked, sent to the back end and saved in separate steps; save writes  *)
(* the whole row as it was read, with the new account.                     *)
(*                                                                         *)
(* Module Shipping has the loop of trySendMsgToUPS and the connection in   *)
(* detail: here a statement of the back end may be dropped at any time, and*)
(* the main thread and the thread of UPS may be away with orders and       *)
(* packages, from which they need not come back.                           *)
(***************************************************************************)
EXTENDS Naturals, Sequences, FiniteSets

CONSTANTS Users, Accounts,
          Workers,      \* threads of the web server
          NoUPS,        \* ups_id of a user without an account
          NoRequest,
          MaxRequests,  \* bound: pages submitted
          MaxLost       \* bound: statements dropped

ASSUME BoundsAssumption == /\ MaxRequests \in Nat /\ MaxLost \in Nat
                           /\ NoUPS \notin Accounts

Statuses == {"checking", "bind_Success", "bind_failed"}
Rows     == [ups_id : Accounts \cup {NoUPS}, bind_status : Statuses]
Messages == [user : Users, ups_id : Accounts]
Binds    == [user : Users, ups_id : Accounts, seq : Nat]
Answers  == [bind : Binds, status : {"bind_Success", "bind_failed"}]

\* A request in a worker: the row as it was read, and the account to bind.
Requests == [user : Users, ups_id : Accounts, curr : Rows]

VARIABLES
  user_ups,   \* the rows
  pc, req,    \* per worker
  requests,   \* number of pages submitted
  inbox,      \* connections the main thread has not accepted yet, with messages
  sending,    \* the bind in the loop of trySendMsgToUPS
  SeqNum,
  acked,      \* binds whose number is in global_finished_SeqNum_set
  main_busy,  \* the main thread handles an order
  ups_busy,   \* the thread of UPS handles an arrival or a delivery
  received, answers,  \* external: binds UPS has received, and has answered
  handled,    \* answers in ups_finished_SeqNum_set
  lost,       \* history: answers and binds whose statement was dropped
  missed,     \* history: statements that found the row with another account
  stale,      \* history: users whose row changed between read and save
  carried,    \* history: users whose save gave a success to another account
  raced       \* history: accounts that passed two checks before a save

webVars     == <<pc, req, requests>>
busyVars    == <<main_busy, ups_busy>>
historyVars == <<lost, missed, stale, carried, raced>>
vars == <<user_ups, pc, req, requests, inbox, sending, SeqNum, acked, main_busy,
          ups_busy, received, answers, handled, lost, missed, stale, carried,
          raced>>

\* Every user has registered.
Init == /\ user_ups = [u \in Users |-> [ups_id |-> NoUPS, bind_status |-> "checking"]]
        /\ pc = [w \in Workers |-> "idle"]
        /\ req = [w \in Workers |-> NoRequest]
        /\ requests = 0
        /\ inbox = <<>>
        /\ sending = NoRequest
        /\ SeqNum = 0
        /\ acked = {} /\ main_busy = FALSE /\ ups_busy = FALSE
        /\ received = {} /\ answers = {} /\ handled = {}
        /\ lost = {} /\ missed = {} /\ stale = {} /\ carried = {} /\ raced = {}

-----------------------------------------------------------------------------
(* userProfile, a POST with account a. The field is part of every form, so *)
(* that a page saved for another reason binds the present account again.   *)

Goto(w, label) == pc' = [pc EXCEPT ![w] = label]

ReadProfile(w, u, a) ==
  /\ pc[w] = "idle"
  /\ requests < MaxRequests
  /\ requests' = requests + 1
  /\ req' = [req EXCEPT ![w] = [user |-> u, ups_id |-> a, curr |-> user_ups[u]]]
  /\ Goto(w, "check")
  /\ UNCHANGED <<user_ups, inbox, sending, SeqNum, acked, busyVars, received,
                 answers, handled, historyVars>>

\* Mutant: the account of the page is not looked up.
NotInUse(r) == TRUE
\* The filter: no row of another user has the account.
Free(r) == \A u \in Users \ {r.user} : user_ups[u].ups_id # r.ups_id

CheckUPS(w) ==
  /\ pc[w] = "check"
  /\ \/ /\ Free(req[w])
        /\ Goto(w, "bind")
        /\ raced' = IF \E v \in Workers : /\ pc[v] \in {"bind", "save"}
                                          /\ req[v].user # req[w].user
                                          /\ req[v].ups_id = req[w].ups_id
                    THEN raced \cup {req[w].ups_id} ELSE raced
        /\ UNCHANGED req
     \/ /\ ~Free(req[w])
        /\ Goto(w, "idle")
        /\ req' = [req EXCEPT ![w] = NoRequest]
        /\ UNCHANGED raced
  /\ UNCHANGED <<user_ups, requests, inbox, sending, SeqNum, acked, busyVars,
                 received, answers, handled, lost, missed, stale, carried>>

\* The message is sent, or the back end cannot be reached: the page goes on.
try_bind_ups(w) ==
  /\ pc[w] = "bind"
  /\ \/ inbox' = Append(inbox, [user |-> req[w].user, ups_id |-> req[w].ups_id])
     \/ UNCHANGED inbox
  /\ Goto(w, "save")
  /\ UNCHANGED <<user_ups, req, requests, sending, SeqNum, acked, busyVars,
                 received, answers, handled, historyVars>>

\* curr_user_ups.save(): all columns.
Save(w) ==
  /\ pc[w] = "save"
  /\ LET r == req[w] IN
       /\ user_ups' = [user_ups EXCEPT ![r.user] =
                         [r.curr EXCEPT !.ups_id = r.ups_id]]
       /\ stale' = IF user_ups[r.user] = r.curr THEN stale
                                                ELSE stale \cup {r.user}
       /\ carried' = IF /\ r.curr.bind_status = "bind_Success"
                        /\ r.curr.ups_id # r.ups_id
                     THEN carried \cup {r.user} ELSE carried
  /\ Goto(w, "idle")
  /\ req' = [req EXCEPT ![w] = NoRequest]
  /\ UNCHANGED <<requests, inbox, sending, SeqNum, acked, busyVars, received,
                 answers, handled, lost, missed, raced>>

-----------------------------------------------------------------------------
(* The back end and UPS                                                    *)

\* Mutant: the statement has no condition on ups_id.
OfUser(b) == TRUE
\* WHERE user_id = ... AND ups_id = ...
Matches(b) == user_ups[b.user].ups_id = b.ups_id

update_bind_status(b, status) ==
  \/ /\ Matches(b)
     /\ user_ups' = [user_ups EXCEPT ![b.user].bind_status = status]
     /\ UNCHANGED <<lost, missed>>
  \/ /\ ~Matches(b)
     /\ missed' = missed \cup {<<b.user, b.ups_id>>}
     /\ UNCHANGED <<user_ups, lost>>
  \/ /\ Cardinality(lost) < MaxLost
     /\ lost' = lost \cup {<<b, status>>}
     /\ UNCHANGED <<user_ups, missed>>

\* A request is accepted, its status written and its bind pushed for UPS.
handleBind ==
  /\ ~main_busy
  /\ sending = NoRequest
  /\ inbox # <<>>
  /\ sending' = [user |-> Head(inbox).user, ups_id |-> Head(inbox).ups_id,
                 seq |-> SeqNum]
  /\ inbox' = Tail(inbox)
  /\ SeqNum' = SeqNum + 1
  /\ update_bind_status(sending', "checking")
  /\ UNCHANGED <<webVars, acked, busyVars, received, answers, handled, stale,
                 carried, raced>>

\* External: UPS receives a bind and answers it, in its own time.
UPSReceives ==
  /\ sending # NoRequest
  /\ received' = received \cup {sending}
  /\ UNCHANGED <<user_ups, webVars, inbox, sending, SeqNum, acked, busyVars,
                 answers, handled, historyVars>>

Answer(b, status) ==
  /\ \A a \in answers : a.bind # b
  /\ answers' = answers \cup {[bind |-> b, status |-> status]}
  /\ UNCHANGED <<user_ups, webVars, inbox, sending, SeqNum, acked, busyVars,
                 received, handled, historyVars>>

\* The thread of UPS receives the acknowledgement, and the loop ends.
ReceiveAck(b) ==
  /\ ~ups_busy
  /\ b \in received \ acked
  /\ acked' = acked \cup {b}
  /\ UNCHANGED <<user_ups, webVars, inbox, sending, SeqNum, busyVars, received,
                 answers, handled, historyVars>>

BindAcknowledged ==
  /\ sending \in acked
  /\ sending' = NoRequest
  /\ UNCHANGED <<user_ups, webVars, inbox, SeqNum, acked, busyVars, received,
                 answers, handled, historyVars>>

\* Mutants: a failed bind leaves the row as it is; a status check_ups_id and the
\* page do not know.
OnlySuccess(a) == IF a.status = "bind_Success" THEN a.status ELSE "checking"
StatusTypo(a) == IF a.status = "bind_Success" THEN "bind_success" ELSE a.status
StatusOf(a) == a.status

\* handleUPSResponse for an answer that has not been handled.
processbindUPSResponse(a) ==
  /\ ~ups_busy
  /\ a \in answers \ handled
  /\ handled' = handled \cup {a}
  /\ update_bind_status(a.bind, StatusOf(a))
  /\ UNCHANGED <<webVars, inbox, sending, SeqNum, acked, busyVars, received,
                 answers, stale, carried, raced>>

\* handleOrder on the main thread, and processUAtruckArrived and
\* processUAdelivered on the thread of UPS (module Shipping).
OtherWork ==
  /\ \/ sending = NoRequest /\ main_busy' = ~main_busy /\ UNCHANGED ups_busy
     \/ ups_busy' = ~ups_busy /\ UNCHANGED main_busy
  /\ UNCHANGED <<user_ups, webVars, inbox, sending, SeqNum, acked, received,
                 answers, handled, historyVars>>

-----------------------------------------------------------------------------
WebStep(w) == CheckUPS(w) \/ try_bind_ups(w) \/ Save(w)
UPSStep    == \E a \in answers : processbindUPSResponse(a)
AckStep    == \E b \in received : ReceiveAck(b)
UPSAnswers == \E b \in received, status \in {"bind_Success", "bind_failed"} :
                Answer(b, status)

Next == \/ \E w \in Workers :
             WebStep(w) \/ \E u \in Users, a \in Accounts : ReadProfile(w, u, a)
        \/ handleBind \/ BindAcknowledged
        \/ UPSStep \/ AckStep
        \/ UPSReceives \/ UPSAnswers
        \/ OtherWork

Spec == Init /\ [][Next]_vars

\* The threads are scheduled; UPS receives what is sent again and again and
\* answers, and repeats what was not acknowledged. A request is next in the backlog
\* when those before it are done, and an answer is received when the thread of UPS
\* comes back to receive, if they ever are: hence strong fairness, and none of
\* OtherWork.
FairSpec == /\ Spec
            /\ \A w \in Workers : WF_vars(WebStep(w))
            /\ SF_vars(handleBind) /\ WF_vars(BindAcknowledged)
            /\ SF_vars(UPSStep) /\ SF_vars(AckStep)
            /\ WF_vars(UPSReceives) /\ WF_vars(UPSAnswers)

-----------------------------------------------------------------------------
\* Every variable has a value of its type; no answer without a bind.
TypeOK ==
  /\ user_ups \in [Users -> Rows]
  /\ pc \in [Workers -> {"idle", "check", "bind", "save"}]
  /\ req \in [Workers -> Requests \cup {NoRequest}]
  /\ \A w \in Workers : IF pc[w] = "idle" THEN req[w] = NoRequest
                                          ELSE req[w] \in Requests
  /\ requests \in 0 .. MaxRequests
  /\ inbox \in Seq(Messages)
  /\ sending = NoRequest \/ sending \in Binds
  /\ SeqNum \in Nat
  /\ main_busy \in BOOLEAN /\ ups_busy \in BOOLEAN /\ acked \subseteq Binds
  /\ received \subseteq Binds
  /\ handled \subseteq answers /\ answers \subseteq Answers
  /\ stale \subseteq Users /\ carried \subseteq Users /\ raced \subseteq Accounts
  /\ missed \subseteq Users \X Accounts

\* What check_ups_id attaches to a package: the account of a bound user.
Bound(u) == user_ups[u].bind_status = "bind_Success"
Confirmed(u, a) ==
  \E x \in answers : /\ x.status = "bind_Success"
                     /\ x.bind.user = u
                     /\ x.bind.ups_id = a

\* A package goes to an account only if UPS has confirmed that account for that
\* user, unless the page carried the success of the former account over: answers
\* that are late, statements that are dropped and pages that overtake each other
\* make no account bound.
BoundIsConfirmed ==
  \A u \in Users :
    Bound(u) => Confirmed(u, user_ups[u].ups_id) \/ u \in carried

\* Two users have one account only if their pages were in work together.
SharedOnlyIfRaced ==
  \A u, v \in Users :
    u # v /\ user_ups[u].ups_id = user_ups[v].ups_id /\ user_ups[u].ups_id # NoUPS
      => user_ups[u].ups_id \in raced

\* A bind on its way: not accepted yet, being sent, or received by UPS and its
\* answer not handled yet.
Names(m, u, a) == m.user = u /\ m.ups_id = a
Pending(u, a) ==
  \/ \E i \in DOMAIN inbox : Names(inbox[i], u, a)
  \/ sending # NoRequest /\ Names(sending, u, a)
  \/ \E b \in received : Names(b, u, a) /\ \A x \in handled : x.bind # b

\* A bind that is on its way settles, also one of an account that is bound already:
\* the status does not stay at checking, unless a statement was dropped or came
\* before the save of the page, the save brought an old status back, or the main
\* thread or the thread of UPS never comes back from an order or a package.
BindSettles ==
  \A u \in Users, a \in Accounts :
    Pending(u, a) ~> \/ user_ups[u] # [ups_id |-> a, bind_status |-> "checking"]
                     \/ lost # {} \/ u \in stale \/ <<u, a>> \in missed
                     \/ []main_busy \/ []ups_busy
=============================================================================
