---------------------------- MODULE BindingProofs ----------------------------
(***************************************************************************)
(* Proofs about the binding of UPS accounts: an account is bound only if   *)
(* UPS confirmed it, and shared only after a race, each but for what the   *)
(* history variables name.                                                 *)
(***************************************************************************)
EXTENDS Binding, TLAPS

USE BoundsAssumption

-----------------------------------------------------------------------------
(* Types                                                                   *)

LEMMA TypeInit == Init => TypeOK
<1> SUFFICES ASSUME Init PROVE TypeOK
  OBVIOUS
<1>1. main_busy \in BOOLEAN /\ ups_busy \in BOOLEAN
  BY DEF Init
<1> QED BY <1>1 DEF Init, TypeOK, Rows, Statuses

\* A statement of the back end leaves a row with a status.
LEMMA StatementTypes ==
  ASSUME TypeOK, NEW b \in Binds, NEW status \in Statuses,
         update_bind_status(b, status)
  PROVE  user_ups' \in [Users -> Rows] /\ missed' \subseteq Users \X Accounts
<1>1. b.user \in Users /\ b.ups_id \in Accounts
  BY DEF Binds
<1>2. CASE user_ups' = [user_ups EXCEPT ![b.user].bind_status = status]
           /\ UNCHANGED missed
  BY <1>1, <1>2 DEF TypeOK, Rows
<1>3. CASE UNCHANGED user_ups /\ missed' \subseteq missed \cup {<<b.user, b.ups_id>>}
  BY <1>1, <1>3 DEF TypeOK
<1> QED BY <1>2, <1>3 DEF update_bind_status

LEMMA TypeStep == TypeOK /\ [Next]_vars => TypeOK'
<1> SUFFICES ASSUME TypeOK, [Next]_vars PROVE TypeOK'
  OBVIOUS
<1> USE DEF webVars, historyVars, busyVars
<1>1. ASSUME NEW w \in Workers, NEW u \in Users, NEW a \in Accounts,
             ReadProfile(w, u, a)
      PROVE  TypeOK'
  <2>1. [user |-> u, ups_id |-> a, curr |-> user_ups[u]] \in Requests
    BY DEF TypeOK, Requests
  <2> QED BY <1>1, <2>1 DEF ReadProfile, Goto, TypeOK
<1>2. ASSUME NEW w \in Workers, CheckUPS(w) PROVE TypeOK'
  <2>1. req[w] \in Requests
    BY <1>2 DEF CheckUPS, TypeOK
  <2>2. raced' \subseteq Accounts
    BY <1>2, <2>1 DEF CheckUPS, TypeOK, Requests
  <2> QED BY <1>2, <2>1, <2>2 DEF CheckUPS, Goto, TypeOK
<1>3. ASSUME NEW w \in Workers, try_bind_ups(w) PROVE TypeOK'
  <2>1. req[w] \in Requests
    BY <1>3 DEF try_bind_ups, TypeOK
  <2>2. [user |-> req[w].user, ups_id |-> req[w].ups_id] \in Messages
    BY <2>1 DEF Requests, Messages
  <2>3. inbox' \in Seq(Messages)
    BY <1>3, <2>2 DEF try_bind_ups, TypeOK
  <2> QED BY <1>3, <2>1, <2>3 DEF try_bind_ups, Goto, TypeOK
<1>4. ASSUME NEW w \in Workers, Save(w) PROVE TypeOK'
  <2>1. req[w] \in Requests
    BY <1>4 DEF Save, TypeOK
  <2>2. req[w].user \in Users /\ [req[w].curr EXCEPT !.ups_id = req[w].ups_id] \in Rows
    BY <2>1 DEF Requests, Rows
  <2>3. user_ups' \in [Users -> Rows]
    BY <1>4, <2>2 DEF Save, TypeOK
  <2>4. stale' \subseteq Users /\ carried' \subseteq Users
    BY <1>4, <2>2 DEF Save, TypeOK
  <2> QED BY <1>4, <2>3, <2>4 DEF Save, Goto, TypeOK
<1>5. CASE handleBind
  <2>1. Head(inbox) \in Messages /\ Tail(inbox) \in Seq(Messages)
    BY <1>5 DEF handleBind, TypeOK
  <2>2. sending' \in Binds
    BY <1>5, <2>1 DEF handleBind, TypeOK, Messages, Binds
  <2>3. user_ups' \in [Users -> Rows] /\ missed' \subseteq Users \X Accounts
    BY <1>5, <2>2, StatementTypes DEF handleBind, Statuses
  <2> QED BY <1>5, <2>1, <2>2, <2>3 DEF handleBind, TypeOK
<1>6. CASE BindAcknowledged
  BY <1>6 DEF BindAcknowledged, TypeOK
<1>7. ASSUME NEW a \in answers, processbindUPSResponse(a) PROVE TypeOK'
  <2>1. a.bind \in Binds /\ a.status \in Statuses
    BY DEF TypeOK, Answers, Statuses
  <2>2. user_ups' \in [Users -> Rows] /\ missed' \subseteq Users \X Accounts
    BY <1>7, <2>1, StatementTypes DEF processbindUPSResponse, StatusOf
  <2> QED BY <1>7, <2>2 DEF processbindUPSResponse, TypeOK
<1>8. CASE UPSReceives
  BY <1>8 DEF UPSReceives, TypeOK
<1>9. ASSUME NEW b \in received, NEW status \in {"bind_Success", "bind_failed"},
             Answer(b, status)
      PROVE  TypeOK'
  <2>1. [bind |-> b, status |-> status] \in Answers
    BY DEF TypeOK, Answers
  <2> QED BY <1>9, <2>1 DEF Answer, TypeOK
<1>10. CASE AckStep
  BY <1>10 DEF AckStep, ReceiveAck, TypeOK
<1>11. CASE OtherWork
  <2>1. main_busy' \in BOOLEAN /\ ups_busy' \in BOOLEAN
    BY <1>11 DEF OtherWork, TypeOK
  <2> QED BY <1>11, <2>1 DEF OtherWork, TypeOK
<1>12. CASE UNCHANGED vars
  BY <1>12 DEF vars, TypeOK
<1> QED BY <1>1, <1>2, <1>3, <1>4, <1>5, <1>6, <1>7, <1>8, <1>9, <1>10, <1>11, <1>12
        DEF Next, WebStep, UPSStep, UPSAnswers

\* For any users, accounts, workers and bounds every variable keeps its type.
THEOREM BindingTypes == Spec => []TypeOK
BY TypeInit, TypeStep, PTL DEF Spec

-----------------------------------------------------------------------------
(* How a step changes a row, an answer and a request                       *)

\* A statement of the back end changes no account, and no status to success but
\* to the one it was called with and of the account it was called with.
LEMMA StatementEffect ==
  ASSUME TypeOK, NEW b \in Binds, NEW status \in Statuses,
         update_bind_status(b, status), NEW u \in Users
  PROVE  /\ user_ups'[u].ups_id = user_ups[u].ups_id
         /\ \/ user_ups'[u] = user_ups[u]
            \/ /\ u = b.user /\ user_ups[u].ups_id = b.ups_id
               /\ user_ups'[u].bind_status = status
<1>1. b.user \in Users
  BY DEF Binds
<1>2. CASE /\ Matches(b)
           /\ user_ups' = [user_ups EXCEPT ![b.user].bind_status = status]
  <2>1. CASE u = b.user
    BY <1>1, <1>2, <2>1 DEF TypeOK, Rows, Matches
  <2>2. CASE u # b.user
    BY <1>1, <1>2, <2>2 DEF TypeOK
  <2> QED BY <2>1, <2>2
<1>3. CASE UNCHANGED user_ups
  BY <1>3
<1> QED BY <1>2, <1>3 DEF update_bind_status

\* The steps that are not a page's own: what they change of rows and answers.
Backend == \/ handleBind \/ BindAcknowledged \/ UPSReceives \/ UPSAnswers \/ UPSStep
           \/ AckStep \/ OtherWork

LEMMA BackendEffect ==
  ASSUME TypeOK, Backend
  PROVE  /\ UNCHANGED <<pc, req, raced, carried>>
         /\ answers \subseteq answers'
         /\ \A u \in Users :
              /\ user_ups'[u].ups_id = user_ups[u].ups_id
              /\ \/ user_ups'[u] = user_ups[u]
                 \/ user_ups'[u].bind_status = "checking"
                 \/ user_ups'[u].bind_status = "bind_failed"
                 \/ Confirmed(u, user_ups[u].ups_id)
<1> USE DEF webVars, historyVars, busyVars
<1>1. CASE handleBind
  <2>0. Head(inbox) \in Messages
    BY <1>1 DEF handleBind, TypeOK
  <2>1. sending' \in Binds
    BY <1>1, <2>0 DEF handleBind, TypeOK, Messages, Binds
  <2> QED BY <1>1, <2>1, StatementEffect DEF handleBind, Statuses
<1>2. CASE BindAcknowledged \/ UPSReceives \/ AckStep \/ OtherWork
  BY <1>2 DEF BindAcknowledged, UPSReceives, AckStep, ReceiveAck, OtherWork
<1>3. CASE UPSAnswers
  BY <1>3 DEF UPSAnswers, Answer
<1>4. CASE UPSStep
  <2>1. PICK a \in answers : processbindUPSResponse(a)
    BY <1>4 DEF UPSStep
  <2>2. a.bind \in Binds /\ a.status \in {"bind_Success", "bind_failed"}
    BY DEF TypeOK, Answers
  <2>3. ASSUME NEW u \in Users
        PROVE  /\ user_ups'[u].ups_id = user_ups[u].ups_id
               /\ \/ user_ups'[u] = user_ups[u]
                  \/ /\ u = a.bind.user /\ user_ups[u].ups_id = a.bind.ups_id
                     /\ user_ups'[u].bind_status = a.status
    BY <2>1, <2>2, StatementEffect DEF processbindUPSResponse, StatusOf, Statuses
  <2>4. UNCHANGED <<pc, req, raced, carried, answers>>
    BY <2>1 DEF processbindUPSResponse
  <2> QED BY <2>2, <2>3, <2>4 DEF Confirmed
<1> QED BY <1>1, <1>2, <1>3, <1>4 DEF Backend

\* The steps of the system, by what they may do to the rows.
LEMMA Steps ==
  ASSUME [Next]_vars
  PROVE  \/ \E w \in Workers : \/ CheckUPS(w) \/ try_bind_ups(w) \/ Save(w)
                               \/ \E u \in Users, a \in Accounts : ReadProfile(w, u, a)
         \/ Backend
         \/ UNCHANGED vars
BY DEF Next, WebStep, Backend

-----------------------------------------------------------------------------
(* An account is bound only if UPS confirmed it                            *)

\* What holds of the rows holds of the copies that pages have read.
ReadConfirmed ==
  \A w \in Workers :
    pc[w] # "idle" /\ req[w].curr.bind_status = "bind_Success" =>
      Confirmed(req[w].user, req[w].curr.ups_id) \/ req[w].user \in carried

ConfirmInv == TypeOK /\ BoundIsConfirmed /\ ReadConfirmed

LEMMA ConfirmStep == ConfirmInv /\ [Next]_vars => ConfirmInv'
<1> SUFFICES ASSUME ConfirmInv, [Next]_vars
             PROVE  BoundIsConfirmed' /\ ReadConfirmed'
  BY TypeStep DEF ConfirmInv
<1> TypeOK /\ TypeOK'
  BY TypeStep DEF ConfirmInv
<1>0. ASSUME NEW w \in Workers, pc[w] # "idle" PROVE req[w] \in Requests
  BY <1>0 DEF TypeOK
<1> USE DEF ConfirmInv, BoundIsConfirmed, ReadConfirmed, Bound, webVars, historyVars, busyVars
<1>1. ASSUME NEW w \in Workers, NEW u \in Users, NEW a \in Accounts,
             ReadProfile(w, u, a)
      PROVE  BoundIsConfirmed' /\ ReadConfirmed'
  <2>1. UNCHANGED <<user_ups, answers, carried>>
    BY <1>1 DEF ReadProfile
  <2>2. \A v \in Workers : v # w => pc'[v] = pc[v] /\ req'[v] = req[v]
    BY <1>1 DEF ReadProfile, Goto, TypeOK
  <2>3. req'[w] = [user |-> u, ups_id |-> a, curr |-> user_ups[u]]
    BY <1>1 DEF ReadProfile, TypeOK
  <2> QED BY <2>1, <2>2, <2>3 DEF Confirmed
<1>2. ASSUME NEW w \in Workers, CheckUPS(w) \/ try_bind_ups(w)
      PROVE  BoundIsConfirmed' /\ ReadConfirmed'
  <2>1. UNCHANGED <<user_ups, answers, carried>>
    BY <1>2 DEF CheckUPS, try_bind_ups
  <2>2. \A v \in Workers : pc'[v] # "idle" => pc[v] # "idle" /\ req'[v] = req[v]
    BY <1>2 DEF CheckUPS, try_bind_ups, Goto, TypeOK
  <2> QED BY <2>1, <2>2 DEF Confirmed
<1>3. ASSUME NEW w \in Workers, Save(w) PROVE BoundIsConfirmed' /\ ReadConfirmed'
  <2> DEFINE r == req[w]
  <2>1. r \in Requests /\ pc[w] # "idle"
    BY <1>3, <1>0 DEF Save
  <2>2. r.user \in Users /\ r.curr \in Rows
    BY <2>1 DEF Requests
  <2>3. user_ups'[r.user] = [r.curr EXCEPT !.ups_id = r.ups_id]
    BY <1>3, <2>2 DEF Save, TypeOK
  <2>4. \A u \in Users \ {r.user} : user_ups'[u] = user_ups[u]
    BY <1>3, <2>2 DEF Save, TypeOK
  <2>5. UNCHANGED answers /\ carried \subseteq carried'
    BY <1>3 DEF Save
  <2>6. \A v \in Workers : pc'[v] # "idle" => pc[v] # "idle" /\ req'[v] = req[v]
    BY <1>3 DEF Save, Goto, TypeOK
  <2>7. r.curr.bind_status = "bind_Success" =>
          Confirmed(r.user, r.ups_id) \/ r.user \in carried'
    BY <1>3, <2>1, <2>5 DEF Save
  <2>8. BoundIsConfirmed'
    BY <2>2, <2>3, <2>4, <2>5, <2>7 DEF Rows, Confirmed
  <2> QED BY <2>5, <2>6, <2>8 DEF Confirmed
<1>4. CASE Backend
  <2>1. BoundIsConfirmed'
    BY <1>4, BackendEffect DEF Confirmed
  <2> QED BY <1>4, <2>1, BackendEffect DEF Confirmed
<1>5. CASE UNCHANGED vars
  BY <1>5 DEF vars, Confirmed
<1> QED BY <1>1, <1>2, <1>3, <1>4, <1>5, Steps

\* For any users, accounts and workers, however pages, statements and answers
\* interleave and whatever is dropped: packages go to confirmed accounts, unless
\* the page carried a success over.
THEOREM ConfirmedTheorem == Spec => []BoundIsConfirmed
<1>1. Init => ConfirmInv
  BY TypeInit DEF Init, ConfirmInv, BoundIsConfirmed, ReadConfirmed, Bound
<1>2. ConfirmInv => BoundIsConfirmed
  BY DEF ConfirmInv
<1> QED BY <1>1, <1>2, ConfirmStep, PTL DEF Spec

-----------------------------------------------------------------------------
(* An account is shared only after a race                                  *)

Passed(w) == pc[w] \in {"bind", "save"}

\* A page that passed the check finds its account with no other user, and with no
\* other page that passed, or there was a race.
PassedAlone ==
  /\ \A w \in Workers, u \in Users :
       Passed(w) /\ u # req[w].user /\ user_ups[u].ups_id = req[w].ups_id
         => req[w].ups_id \in raced
  /\ \A v, w \in Workers :
       Passed(v) /\ Passed(w) /\ req[v].user # req[w].user
         /\ req[v].ups_id = req[w].ups_id => req[w].ups_id \in raced

RaceInv == TypeOK /\ SharedOnlyIfRaced /\ PassedAlone

LEMMA RaceStep == RaceInv /\ [Next]_vars => RaceInv'
<1> SUFFICES ASSUME RaceInv, [Next]_vars
             PROVE  SharedOnlyIfRaced' /\ PassedAlone'
  BY TypeStep DEF RaceInv
<1> TypeOK
  BY DEF RaceInv
<1>0. ASSUME NEW w \in Workers, Passed(w) PROVE req[w] \in Requests
  BY <1>0 DEF TypeOK, Passed
<1> USE DEF RaceInv, SharedOnlyIfRaced, PassedAlone, webVars, historyVars, busyVars
<1>1. ASSUME NEW w \in Workers, NEW u \in Users, NEW a \in Accounts,
             ReadProfile(w, u, a)
      PROVE  SharedOnlyIfRaced' /\ PassedAlone'
  <2>1. UNCHANGED <<user_ups, raced>>
    BY <1>1 DEF ReadProfile
  <2>2. \A v \in Workers : Passed(v)' => Passed(v) /\ req'[v] = req[v]
    BY <1>1 DEF ReadProfile, Goto, TypeOK, Passed
  <2> QED BY <2>1, <2>2
<1>2. ASSUME NEW w \in Workers, CheckUPS(w) PROVE SharedOnlyIfRaced' /\ PassedAlone'
  <2>1. UNCHANGED user_ups /\ raced \subseteq raced'
    BY <1>2 DEF CheckUPS
  <2>2. SharedOnlyIfRaced'
    BY <2>1
  <2>3. \A v \in Workers \ {w} : Passed(v)' => Passed(v) /\ req'[v] = req[v]
    BY <1>2 DEF CheckUPS, Goto, TypeOK, Passed
  <2>4. CASE ~Passed(w)'
    BY <2>1, <2>2, <2>3, <2>4
  <2>5. CASE Passed(w)'
    <3>1. Free(req[w]) /\ req' = req
      BY <1>2, <2>5 DEF CheckUPS, Goto, TypeOK, Passed
    <3>2. \A v \in Workers \ {w} :
            Passed(v) /\ req[v].user # req[w].user /\ req[v].ups_id = req[w].ups_id
              => req[w].ups_id \in raced'
      BY <1>2, <3>1 DEF CheckUPS, Passed
    <3> QED BY <2>1, <2>2, <2>3, <3>1, <3>2 DEF Free
  <2> QED BY <2>4, <2>5
<1>3. ASSUME NEW w \in Workers, try_bind_ups(w)
      PROVE  SharedOnlyIfRaced' /\ PassedAlone'
  <2>1. UNCHANGED <<user_ups, raced, req>>
    BY <1>3 DEF try_bind_ups
  <2>2. \A v \in Workers : Passed(v)' => Passed(v)
    BY <1>3 DEF try_bind_ups, Goto, TypeOK, Passed
  <2> QED BY <2>1, <2>2
<1>4. ASSUME NEW w \in Workers, Save(w) PROVE SharedOnlyIfRaced' /\ PassedAlone'
  <2> DEFINE r == req[w]
  <2>1. Passed(w) /\ r \in Requests
    BY <1>4, <1>0 DEF Save, Passed
  <2>2. r.user \in Users /\ r.curr \in Rows
    BY <2>1 DEF Requests
  <2>3. user_ups'[r.user].ups_id = r.ups_id
    BY <1>4, <2>2 DEF Save, TypeOK, Rows
  <2>4. \A u \in Users \ {r.user} : user_ups'[u] = user_ups[u]
    BY <1>4, <2>2 DEF Save, TypeOK
  <2>5. UNCHANGED raced
    BY <1>4 DEF Save
  <2>6. \A v \in Workers : Passed(v)' => Passed(v) /\ req'[v] = req[v]
    BY <1>4 DEF Save, Goto, TypeOK, Passed
  <2>7. SharedOnlyIfRaced'
    BY <2>1, <2>2, <2>3, <2>4, <2>5
  <2>8. PassedAlone'
    BY <2>1, <2>2, <2>3, <2>4, <2>5, <2>6
  <2> QED BY <2>7, <2>8
<1>5. CASE Backend
  <2>1. UNCHANGED <<pc, req, raced>>
        /\ \A u \in Users : user_ups'[u].ups_id = user_ups[u].ups_id
    BY <1>5, BackendEffect
  <2> QED BY <2>1 DEF Passed
<1>6. CASE UNCHANGED vars
  BY <1>6 DEF vars, Passed
<1> QED BY <1>1, <1>2, <1>3, <1>4, <1>5, <1>6, Steps

\* For any users, accounts and workers, two users have one account only if two
\* pages passed the check for it before either was saved.
THEOREM SharedTheorem == Spec => []SharedOnlyIfRaced
<1>1. Init => RaceInv
  BY TypeInit DEF Init, RaceInv, SharedOnlyIfRaced, PassedAlone, Passed
<1>2. RaceInv => SharedOnlyIfRaced
  BY DEF RaceInv
<1> QED BY <1>1, <1>2, RaceStep, PTL DEF Spec
=============================================================================
