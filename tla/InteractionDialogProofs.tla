----------------------- MODULE InteractionDialogProofs -----------------------
(***************************************************************************)
(* Theorems about questions on their way to the user and back, for every   *)
(* set of requests, any number of answers on their way and any number of   *)
(* dialogs that are being hidden.                                          *)
(***************************************************************************)
EXTENDS InteractionDialog, TLAPS

(* What is known anywhere has been asked; an accepted answer leaves nobody
   waiting; nobody waits for a notice. *)
Asked == {r \in Requests : asked[r] # "new"}

Answered == {call[c].req : c \in {d \in Calls : call[d].st # "free"}}

Got == IF fetch.st = "back" THEN fetch.got ELSE {}

Known ==
    /\ wire \cup svc \cup list \cup Got \cup Answered \subseteq Asked
    /\ active \in Asked \cup {None}

Accepted == \A c \in Calls : call[c].st = "accepted" => asked[call[c].req] # "waiting"

NoticesPass == \A r \in Notices : asked[r] \in {"new", "sent"}

USE DialogAssumption DEF Free, Quiet, server, dialog, vars
-----------------------------------------------------------------------------
(* The initial state has its types. *)
LEMMA TypeInit == Init => TypeOK
<1> SUFFICES ASSUME Init PROVE TypeOK
  OBVIOUS
<1>1. call \in [Calls -> Call]
  BY DEF Init, Call
<1>2. fetch \in Fetch
  BY DEF Init, Fetch
<1> QED
  BY <1>1, <1>2 DEF Init, TypeOK

(* An answer on its way has a request and a sender. *)
LEMMA CallTypes ==
    ASSUME TypeOK, NEW c \in Calls, call[c].st # "free"
    PROVE  /\ call[c] \in [st: {"sent", "accepted", "refused"}, req: Requests,
                           by: {"handler", "authorization", "defer"}]
           /\ call[c].req \in Requests
  BY DEF TypeOK, Call

LEMMA SubmitTypes ==
    ASSUME TypeOK, NEW by \in {"handler", "authorization", "defer"}, Submit(by)
    PROVE  call' \in [Calls -> Call]
<1>1. PICK c \in Calls : call' = [call EXCEPT ![c] = [st |-> "sent", req |-> active, by |-> by]]
  BY DEF Submit
<1>2. [st |-> "sent", req |-> active, by |-> by] \in Call
  BY DEF Submit, TypeOK, Call
<1> QED
  BY <1>1, <1>2 DEF TypeOK

(* Every step keeps the types. *)
LEMMA TypeStep == TypeOK /\ [Next]_vars => TypeOK'
<1> SUFFICES ASSUME TypeOK, [Next]_vars PROVE TypeOK'
  OBVIOUS
<1>1. ASSUME NEW r \in Requests, Send(r) \/ GiveUp(r) PROVE TypeOK'
  BY <1>1 DEF TypeOK, Send, GiveUp
<1>2. ASSUME NEW r \in Requests, Receive(r) \/ ShowRequest(r) PROVE TypeOK'
  BY <1>2 DEF TypeOK, Receive, ShowRequest, ShowNow
<1>3. ASSUME NEW r \in Requests, PressCard(r) PROVE TypeOK'
  <2>1. call' \in [Calls -> Call]
    BY <1>3, SubmitTypes DEF PressCard, TypeOK
  <2> QED
    BY <1>3, <2>1 DEF TypeOK, PressCard, ShowNow
<1>4. ASSUME NEW c \in Calls, Respond(c) PROVE TypeOK'
  <2>1. PICK verdict \in {"accepted", "refused"} :
          /\ call' = [call EXCEPT ![c].st = verdict]
          /\ asked' = Delivered(call[c].req) \/ asked' = asked
    BY <1>4 DEF Respond
  <2>2. call[c].st # "free"
    BY <1>4 DEF Respond
  <2>3. [call[c] EXCEPT !.st = verdict] \in Call
    BY <2>2, CallTypes DEF Call
  <2>4. call' \in [Calls -> Call]
    BY <2>1, <2>3 DEF TypeOK
  <2>5. asked' \in [Requests -> {"new", "sent", "waiting", "answered", "expired"}]
    BY <2>1, <2>2, CallTypes DEF TypeOK, Delivered
  <2> QED
    BY <1>4, <2>4, <2>5 DEF Respond, TypeOK
<1>5. ASSUME NEW c \in Calls, Submitted(c) PROVE TypeOK'
  <2>1. svc' \subseteq svc /\ list' \subseteq list
    BY <1>5 DEF Submitted
  <2>2. call' \in [Calls -> Call]
    BY <1>5 DEF Submitted, TypeOK, Call
  <2>3. open' \in BOOLEAN /\ hides' \in Nat /\ active' = active
    <3>1. \/ \E n \in {1, 2} : HideDialog(n)
          \/ UNCHANGED dialog
      BY <1>5 DEF Submitted
    <3>2. ASSUME NEW n \in {1, 2}, HideDialog(n)
          PROVE  open' \in BOOLEAN /\ hides' \in Nat /\ active' = active
      <4>1. open' = FALSE /\ hides' = hides + n /\ active' = active
        BY <3>2 DEF HideDialog
      <4>2. hides + n \in Nat
        BY DEF TypeOK
      <4> QED
        BY <4>1, <4>2
    <3> QED
      BY <3>1, <3>2 DEF TypeOK
  <2> QED
    BY <1>5, <2>1, <2>2, <2>3 DEF Submitted, TypeOK
<1>6. ASSUME Close \/ HideTimer PROVE TypeOK'
  <2>1. /\ UNCHANGED <<server, svc, list, call, fetch>>
        /\ active' \in {active, None} /\ open' \in {open, FALSE}
        /\ hides' = hides + 1 \/ (hides > 0 /\ hides' = hides - 1)
    BY <1>6 DEF Close, HideTimer, HideDialog
  <2>2. hides' \in Nat
    BY <2>1 DEF TypeOK
  <2> QED
    BY <2>1, <2>2 DEF TypeOK
<1>7. ASSUME Press \/ DeferRequest PROVE TypeOK'
  <2>1. call' \in [Calls -> Call]
    BY <1>7, SubmitTypes DEF Press, DeferRequest
  <2> QED
    BY <1>7, <2>1 DEF TypeOK, Press, DeferRequest
<1>8. ASSUME ListPending PROVE TypeOK'
  <2>1. PICK got \in {Pending, {}} : fetch' = [st |-> "back", switch |-> fetch.switch, got |-> got]
    BY <1>8 DEF ListPending
  <2>2. got \in SUBSET Requests /\ fetch.switch \in BOOLEAN
    BY <1>8 DEF ListPending, Pending, TypeOK, Fetch
  <2>3. fetch' \in Fetch
    BY <2>1, <2>2 DEF Fetch
  <2> QED
    BY <1>8, <2>3 DEF ListPending, TypeOK
<1>9. ASSUME Fetched PROVE TypeOK'
  <2>1. fetch.got \subseteq Requests
    BY <1>9 DEF Fetched, TypeOK, Fetch
  <2>2. fetch' \in Fetch
    BY <1>9 DEF Fetched, Fetch
  <2> QED
    BY <1>9, <2>1, <2>2 DEF Fetched, TakeList, TypeOK
<1>10. ASSUME NEW switch \in BOOLEAN, StartFetch(switch) PROVE TypeOK'
  <2>1. fetch' \in Fetch
    BY <1>10 DEF StartFetch, Fetch
  <2> QED
    BY <1>10, <2>1 DEF StartFetch, TypeOK
<1>11. CASE UNCHANGED vars
  BY <1>11 DEF TypeOK
<1> QED
  BY <1>1, <1>2, <1>3, <1>4, <1>5, <1>6, <1>7, <1>8, <1>9, <1>10, <1>11
     DEF Next, Gateway, User, Answer

(* Type correctness of the questions and their dialogs. *)
THEOREM TypeCorrect == Spec => []TypeOK
  BY TypeInit, TypeStep, PTL DEF Spec
-----------------------------------------------------------------------------
(* The dialog: whatever closes it leaves a timer, and a timer that fires leaves
   no request behind. *)
LEMMA HiddenStep == TypeOK /\ HiddenIsPassing /\ [Next]_vars => HiddenIsPassing'
<1> SUFFICES ASSUME TypeOK, HiddenIsPassing, [Next]_vars PROVE HiddenIsPassing'
  OBVIOUS
<1> USE DEF HiddenIsPassing
<1>1. hides \in Nat
  BY DEF TypeOK
<1>2. ASSUME UNCHANGED dialog PROVE HiddenIsPassing'
  BY <1>2
<1>3. ASSUME NEW r \in Requests, Receive(r) \/ ShowRequest(r) \/ PressCard(r) PROVE HiddenIsPassing'
  BY <1>3 DEF Receive, ShowRequest, PressCard, ShowNow
<1>4. ASSUME NEW c \in Calls, Submitted(c) PROVE HiddenIsPassing'
  BY <1>1, <1>4 DEF Submitted, HideDialog
<1>5. CASE Close
  BY <1>1, <1>5 DEF Close, HideDialog
<1>6. CASE HideTimer
  BY <1>6 DEF HideTimer
<1>7. ASSUME \/ \E r \in Requests : Gateway(r)
             \/ \E c \in Calls : Respond(c)
             \/ Press \/ DeferRequest \/ ListPending \/ Fetched
             \/ \E switch \in BOOLEAN : StartFetch(switch)
      PROVE  UNCHANGED dialog
  BY <1>7 DEF Gateway, Send, GiveUp, Respond, Press, DeferRequest, ListPending, Fetched, StartFetch
<1> QED
  BY <1>2, <1>3, <1>4, <1>5, <1>6, <1>7 DEF Next, User, Answer

(* A closed dialog keeps its request only while a timer will take it away. *)
THEOREM HiddenPasses == Spec => []HiddenIsPassing
<1>1. Init => HiddenIsPassing
  BY DEF Init, HiddenIsPassing
<1> QED
  BY <1>1, TypeInit, TypeStep, HiddenStep, PTL DEF Spec
-----------------------------------------------------------------------------
(* What is known of a question, and what is not known any more. *)
KInv == TypeOK /\ Known /\ Accepted /\ NoticesPass

LEMMA InitKnown == Init => Known /\ Accepted /\ NoticesPass
  BY DEF Init, Known, Accepted, NoticesPass, Got, Answered

(* The fate of a question changes in few ways, and never back. *)
LEMMA FateStep ==
    ASSUME TypeOK, NoticesPass, Known, [Next]_vars
    PROVE  \A r \in Requests :
               \/ asked'[r] = asked[r]
               \/ /\ asked[r] = "new" /\ asked'[r] = (IF r \in Notices THEN "sent" ELSE "waiting")
               \/ /\ asked[r] = "waiting" /\ asked'[r] \in {"answered", "expired"}
<1> SUFFICES ASSUME NEW r \in Requests
             PROVE  \/ asked'[r] = asked[r]
                    \/ /\ asked[r] = "new"
                       /\ asked'[r] = (IF r \in Notices THEN "sent" ELSE "waiting")
                    \/ /\ asked[r] = "waiting" /\ asked'[r] \in {"answered", "expired"}
  OBVIOUS
<1>1. ASSUME NEW q \in Requests, Send(q) \/ GiveUp(q)
      PROVE  \/ asked'[r] = asked[r]
             \/ /\ asked[r] = "new" /\ asked'[r] = (IF r \in Notices THEN "sent" ELSE "waiting")
             \/ /\ asked[r] = "waiting" /\ asked'[r] \in {"answered", "expired"}
  BY <1>1 DEF Send, GiveUp, TypeOK
<1>2. ASSUME NEW c \in Calls, Respond(c)
      PROVE  asked'[r] = asked[r] \/ (asked[r] = "waiting" /\ asked'[r] = "answered")
  <2>1. asked' = asked \/ asked' = Delivered(call[c].req)
    BY <1>2 DEF Respond
  <2> QED
    BY <2>1 DEF Delivered, TypeOK
<1>3. ASSUME \/ \E q \in Requests : Receive(q) \/ User(q)
             \/ \E c \in Calls : Submitted(c)
             \/ Close \/ HideTimer \/ Press \/ DeferRequest \/ ListPending \/ Fetched
             \/ \E switch \in BOOLEAN : StartFetch(switch)
             \/ UNCHANGED vars
      PROVE  asked' = asked
  BY <1>3 DEF Receive, User, ShowRequest, PressCard, Submitted, Close, HideTimer, Press,
              DeferRequest, ListPending, Fetched, StartFetch
<1> QED
  BY <1>1, <1>2, <1>3 DEF Next, Gateway, Answer

LEMMA AskedStays ==
    ASSUME KInv, [Next]_vars
    PROVE  /\ Asked \subseteq Asked'
           /\ \A r \in Asked : asked[r] # "waiting" => asked'[r] # "waiting"
           /\ \A r \in Notices : asked'[r] \in {"new", "sent"}
  BY FateStep DEF KInv, Asked, NoticesPass

(* How the answers on their way change. *)
LEMMA CallStep ==
    ASSUME KInv, [Next]_vars, NEW c \in Calls, call'[c] # call[c]
    PROVE  \/ call'[c].st = "free"
           \/ /\ call'[c].st = "sent" /\ call'[c].req = active /\ active # None
              /\ call[c].st = "free"
           \/ /\ call[c].st = "sent" /\ call'[c].req = call[c].req
              /\ call'[c].st \in {"accepted", "refused"}
              /\ call'[c].st = "accepted" => asked'[call[c].req] # "waiting"
<1>0. call \in [Calls -> Call] /\ asked \in [Requests -> {"new", "sent", "waiting", "answered", "expired"}]
  BY DEF KInv, TypeOK
<1>1. ASSUME NEW by, Submit(by)
      PROVE  /\ call'[c].st = "sent" /\ call'[c].req = active /\ active # None
             /\ call[c].st = "free"
  BY <1>0, <1>1 DEF Submit
<1>2. ASSUME NEW d \in Calls, Respond(d)
      PROVE  /\ call[c].st = "sent" /\ call'[c].req = call[c].req
             /\ call'[c].st \in {"accepted", "refused"}
             /\ call'[c].st = "accepted" => asked'[call[c].req] # "waiting"
  <2>1. PICK verdict \in {"accepted", "refused"} :
          /\ call' = [call EXCEPT ![d].st = verdict]
          /\ \/ asked' = Delivered(call[d].req)
             \/ verdict = "refused" /\ asked' = asked
    BY <1>2 DEF Respond
  <2>2. c = d
    BY <1>0, <2>1
  <2>3. call[c].st = "sent" /\ call[c].req \in Requests
    BY <1>2, <2>2, CallTypes DEF Respond, KInv
  <2>4. call'[c].st = verdict /\ call'[c].req = call[c].req
    BY <1>0, <2>1, <2>2, <2>3, CallTypes DEF KInv
  <2>5. Delivered(call[c].req)[call[c].req] # "waiting"
    BY <1>0, <2>3 DEF Delivered
  <2> QED
    BY <2>1, <2>2, <2>3, <2>4, <2>5
<1>3. ASSUME NEW d \in Calls, Submitted(d) PROVE call'[c].st = "free"
  BY <1>0, <1>3 DEF Submitted
<1>4. ASSUME \/ \E q \in Requests : Gateway(q) \/ Receive(q) \/ ShowRequest(q)
             \/ Close \/ HideTimer \/ ListPending \/ Fetched
             \/ \E switch \in BOOLEAN : StartFetch(switch)
             \/ UNCHANGED vars
      PROVE  call' = call
  BY <1>4 DEF Gateway, Send, GiveUp, Receive, ShowRequest, Close, HideTimer, ListPending,
              Fetched, StartFetch
<1>5. ASSUME NEW q \in Requests, PressCard(q) PROVE call' = call \/ Submit("authorization")
  BY <1>5 DEF PressCard
<1>6. ASSUME Press \/ DeferRequest PROVE \E by \in {"handler", "authorization", "defer"} : Submit(by)
  BY <1>6 DEF Press, DeferRequest
<1> QED
  BY <1>1, <1>2, <1>3, <1>4, <1>5, <1>6 DEF Next, User, Answer

(* An accepted answer leaves nobody waiting, and nobody waits again. *)
LEMMA AcceptedStep == KInv /\ [Next]_vars => Accepted'
<1> SUFFICES ASSUME KInv, [Next]_vars, NEW c \in Calls, call'[c].st = "accepted"
             PROVE  asked'[call'[c].req] # "waiting"
  BY DEF Accepted
<1>1. CASE call'[c] = call[c]
  <2>1. call[c].st # "free" /\ asked[call[c].req] # "waiting"
    BY <1>1 DEF KInv, Accepted
  <2>2. call[c].req \in Asked
    BY <2>1 DEF KInv, Known, Answered
  <2>3. asked'[call[c].req] # "waiting"
    BY <2>1, <2>2, AskedStays
  <2> QED
    BY <1>1, <2>3
<1>2. CASE call'[c] # call[c]
  BY <1>2, CallStep
<1> QED
  BY <1>1, <1>2

(* An answer on its way is to a question that was on its way, or in the dialog. *)
LEMMA AnsweredStep == ASSUME KInv, [Next]_vars PROVE Answered' \subseteq Answered \cup (Asked \cap {active})
<1> SUFFICES ASSUME NEW c \in Calls, call'[c].st # "free"
             PROVE  call'[c].req \in Answered \cup (Asked \cap {active})
  BY DEF Answered
<1>1. CASE call'[c] = call[c]
  BY <1>1 DEF Answered
<1>2. CASE call'[c] # call[c]
  <2>1. CASE call'[c].req = active /\ active # None
    BY <2>1 DEF KInv, Known
  <2>2. CASE call[c].st = "sent" /\ call'[c].req = call[c].req
    BY <2>2 DEF Answered
  <2> QED
    BY <1>2, <2>1, <2>2, CallStep
<1> QED
  BY <1>1, <1>2

(* Requests wander from one place to the next; only the gateway adds to them. *)
LEMMA Wander ==
    ASSUME KInv, [Next]_vars, ~ \E r \in Requests : Send(r)
    PROVE  /\ wire' \cup svc' \cup list' \subseteq wire \cup svc \cup list \cup Got
           /\ Got' \subseteq Got \cup Pending
           /\ active' \in {active, None} \cup wire \cup list
<1>1. ASSUME NEW r \in Requests, GiveUp(r) \/ Receive(r) \/ User(r)
      PROVE  /\ wire' \cup svc' \cup list' \subseteq wire \cup svc \cup list
             /\ active' \in {active} \cup wire \cup list /\ fetch' = fetch
  BY <1>1 DEF GiveUp, Receive, User, ShowRequest, PressCard, ShowNow
<1>2. ASSUME NEW c \in Calls, Answer(c)
      PROVE  wire' = wire /\ svc' \subseteq svc /\ list' \subseteq list /\ active' = active /\ fetch' = fetch
  <2>1. CASE Respond(c)
    BY <2>1 DEF Respond
  <2>2. CASE Submitted(c)
    <3>1. \/ \E n \in {1, 2} : HideDialog(n)
          \/ UNCHANGED dialog
      BY <2>2 DEF Submitted
    <3> QED
      BY <2>2, <3>1 DEF Submitted, HideDialog
  <2> QED
    BY <1>2, <2>1, <2>2 DEF Answer
<1>3. ASSUME Press \/ DeferRequest \/ Close \/ HideTimer \/ UNCHANGED vars
      PROVE  UNCHANGED <<wire, svc, list, fetch>> /\ active' \in {active, None}
  BY <1>3 DEF Press, DeferRequest, Close, HideTimer, HideDialog
<1>4. ASSUME ListPending
      PROVE  UNCHANGED <<wire, svc, list, active>> /\ fetch'.got \subseteq Pending
  BY <1>4 DEF ListPending
<1>5. ASSUME Fetched
      PROVE  /\ UNCHANGED <<wire, active>> /\ fetch'.st # "back"
             /\ svc' \cup list' \subseteq svc \cup list \cup Got
  BY <1>5 DEF Fetched, TakeList, Got
<1>6. ASSUME NEW switch \in BOOLEAN, StartFetch(switch)
      PROVE  UNCHANGED <<wire, list, active>> /\ svc' \subseteq svc /\ fetch'.st # "back"
  BY <1>6 DEF StartFetch
<1>7. ASSUME fetch' = fetch \/ fetch'.st # "back" \/ fetch'.got \subseteq Pending
      PROVE  Got' \subseteq Got \cup Pending
  BY <1>7 DEF Got
<1> QED
  BY <1>1, <1>2, <1>3, <1>4, <1>5, <1>6, <1>7 DEF Next, Gateway

(* Whatever is known anywhere has been asked. *)
LEMMA KnownStep == KInv /\ [Next]_vars => Known'
<1> SUFFICES ASSUME KInv, [Next]_vars PROVE Known'
  OBVIOUS
<1>1. Answered' \subseteq Asked'
  BY AnsweredStep, AskedStays DEF KInv, Known
<1>2. ASSUME NEW r \in Requests, Send(r)
      PROVE  r \in Asked' /\ wire' \subseteq wire \cup {r} /\ UNCHANGED <<svc, list, active, fetch>>
  BY <1>2 DEF Send, Asked, KInv, TypeOK
<1>3. CASE \E r \in Requests : Send(r)
  <2>1. Got' = Got
    BY <1>2, <1>3 DEF Got
  <2>2. /\ wire' \cup svc' \cup list' \cup Got' \subseteq Asked'
        /\ active' \in Asked' \cup {None}
    BY <1>2, <1>3, <2>1, AskedStays DEF KInv, Known
  <2> QED
    BY <1>1, <2>2 DEF Known
<1>4. CASE ~ \E r \in Requests : Send(r)
  <2>1. Pending \subseteq Asked
    BY DEF Pending, Asked
  <2>2. /\ wire' \cup svc' \cup list' \cup Got' \subseteq Asked'
        /\ active' \in Asked' \cup {None}
    BY <1>4, <2>1, Wander, AskedStays DEF KInv, Known
  <2> QED
    BY <1>1, <2>2 DEF Known
<1> QED
  BY <1>3, <1>4

(* The strengthened invariant of the questions. *)
THEOREM Invariance == Spec => []KInv
<1>1. Init => KInv
  BY TypeInit, InitKnown DEF KInv
<1>2. KInv /\ [Next]_vars => KInv'
  <2> SUFFICES ASSUME KInv, [Next]_vars PROVE KInv'
    OBVIOUS
  <2>1. NoticesPass'
    BY AskedStays DEF NoticesPass
  <2> QED
    BY <2>1, TypeStep, KnownStep, AcceptedStep DEF KInv
<1> QED
  BY <1>1, <1>2, PTL DEF Spec
-----------------------------------------------------------------------------
(* Which requests the service forgets. *)
LEMMA ServiceStep ==
    ASSUME KInv, [Next]_vars
    PROVE  \/ svc \subseteq svc'
           \/ fetch = Quiet /\ fetch' = [st |-> "sent", switch |-> TRUE]
           \/ \E c \in Calls : /\ Submitted(c) /\ svc' = svc \ {call[c].req}
                               /\ asked[call[c].req] # "waiting"
<1>1. ASSUME NEW c \in Calls, Submitted(c)
      PROVE  \/ svc' = svc
             \/ svc' = svc \ {call[c].req} /\ asked[call[c].req] # "waiting"
  BY <1>1 DEF Submitted, KInv, Accepted
<1>2. ASSUME NEW switch \in BOOLEAN, StartFetch(switch)
      PROVE  svc' = svc \/ (fetch = Quiet /\ fetch' = [st |-> "sent", switch |-> TRUE])
  <2>1. CASE switch = TRUE
    BY <1>2, <2>1 DEF StartFetch
  <2>2. CASE ~switch
    BY <1>2, <2>2 DEF StartFetch
  <2> QED
    BY <2>1, <2>2
<1>3. ASSUME \/ \E r \in Requests : Gateway(r) \/ Receive(r) \/ User(r)
             \/ \E c \in Calls : Respond(c)
             \/ Press \/ DeferRequest \/ Close \/ HideTimer \/ ListPending \/ Fetched
             \/ UNCHANGED vars
      PROVE  svc \subseteq svc'
  BY <1>3 DEF Gateway, Send, GiveUp, Receive, User, ShowRequest, PressCard, Respond, Press,
              DeferRequest, Close, HideTimer, ListPending, Fetched
<1> QED
  BY <1>1, <1>2, <1>3 DEF Next, Answer

(* The service forgets a question the agent waits for only when the session is
   set: an answer that is accepted was the first, or too late. *)
THEOREM WaitingKept == Spec => KeepsWaiting
<1>1. KInv /\ [Next]_vars
      => [\A r \in svc \ svc' : asked[r] = "waiting" => fetch'.st = "sent" /\ fetch'.switch]_vars
  BY ServiceStep
<1> QED
  BY <1>1, Invariance, PTL DEF Spec, KeepsWaiting
-----------------------------------------------------------------------------
(* Every step keeps what is listed and waited for in the service. *)
LEMMA ListStep == KInv /\ ListIsKnown /\ [Next]_vars => ListIsKnown'
<1> SUFFICES ASSUME KInv, ListIsKnown, [Next]_vars,
                    fetch' = Quiet \/ ~fetch'.switch,
                    NEW r \in list' \ svc'
             PROVE  asked'[r] # "waiting"
  BY DEF ListIsKnown
<1>1. ASSUME r \in list \ svc, fetch = Quiet \/ ~fetch.switch PROVE asked'[r] # "waiting"
  <2>1. r \in Asked /\ asked[r] # "waiting"
    BY <1>1 DEF KInv, Known, ListIsKnown
  <2> QED
    BY <2>1, AskedStays
<1>2. ASSUME UNCHANGED <<svc, list, fetch>> PROVE asked'[r] # "waiting"
  BY <1>1, <1>2
<1>3. ASSUME NEW q \in Requests, Gateway(q) \/ Receive(q) \/ User(q) PROVE asked'[r] # "waiting"
  <2>1. fetch' = fetch /\ \E d \in SUBSET Requests : svc' = svc \cup d /\ list' = list \cup d
    <3>1. CASE Receive(q)
      BY <3>1 DEF Receive
    <3>2. CASE Gateway(q) \/ User(q)
      <4>1. svc' = svc \cup {} /\ list' = list \cup {} /\ fetch' = fetch
        BY <3>2 DEF Gateway, Send, GiveUp, User, ShowRequest, PressCard
      <4> QED
        BY <4>1
    <3> QED
      BY <1>3, <3>1, <3>2
  <2> QED
    BY <1>1, <2>1
<1>4. ASSUME NEW c \in Calls, Submitted(c) PROVE asked'[r] # "waiting"
  <2>1. fetch' = fetch /\ list' \subseteq list /\ asked' = asked
    BY <1>4 DEF Submitted
  <2>2. CASE r \in svc
    BY <1>4, <2>1, <2>2 DEF Submitted, KInv, Accepted
  <2> QED
    BY <1>1, <2>1, <2>2
<1>5. CASE Fetched
  BY <1>1, <1>5 DEF Fetched, TakeList
<1>6. ASSUME NEW switch \in BOOLEAN, StartFetch(switch) PROVE asked'[r] # "waiting"
  BY <1>1, <1>6 DEF StartFetch
<1>7. ASSUME ListPending PROVE asked'[r] # "waiting"
  BY <1>1, <1>7 DEF ListPending
<1>8. ASSUME \/ \E c \in Calls : Respond(c)
             \/ Press \/ DeferRequest \/ Close \/ HideTimer \/ UNCHANGED vars
      PROVE  UNCHANGED <<svc, list, fetch>>
  BY <1>8 DEF Respond, Press, DeferRequest, Close, HideTimer
<1> QED
  BY <1>2, <1>3, <1>4, <1>5, <1>6, <1>7, <1>8 DEF Next, Answer

(* What is listed and waited for is known to the service, unless a session is
   being set. *)
THEOREM ListKnown == Spec => []ListIsKnown
<1>1. Init => ListIsKnown
  BY DEF Init, ListIsKnown
<1> QED
  BY <1>1, Invariance, ListStep, PTL DEF Spec
-----------------------------------------------------------------------------
(* The refinement: who waits for an answer gets one end, which stays. *)
Fate == [r \in Requests \ Notices |-> asked[r]]

LEMMA PromiseStep == KInv /\ [Next]_vars => [Agent!Next]_Fate
<1> SUFFICES ASSUME KInv, [Next]_vars PROVE Agent!Next \/ Fate' = Fate
  OBVIOUS
<1> USE DEF Fate
<1>1. asked \in [Requests -> {"new", "sent", "waiting", "answered", "expired"}] /\ NoticesPass
  BY DEF KInv, TypeOK
<1>2. ASSUME NEW r \in Requests \ Notices, NEW f, asked' = [asked EXCEPT ![r] = f]
      PROVE  Fate' = [Fate EXCEPT ![r] = f] /\ Fate[r] = asked[r]
  BY <1>1, <1>2
<1>3. ASSUME NEW r \in Requests, Send(r) PROVE Agent!Next \/ Fate' = Fate
  <2>1. CASE r \in Notices
    BY <1>1, <1>3, <2>1 DEF Send
  <2>2. CASE r \notin Notices
    <3>1. asked' = [asked EXCEPT ![r] = "waiting"] /\ asked[r] = "new"
      BY <1>3, <2>2 DEF Send
    <3>2. Agent!Ask(r)
      BY <1>2, <2>2, <3>1 DEF Agent!Ask, Agent!Becomes
    <3> QED
      BY <2>2, <3>2 DEF Agent!Next
  <2> QED
    BY <2>1, <2>2
<1>4. ASSUME NEW r \in Requests, GiveUp(r) PROVE Agent!Next
  <2>1. r \notin Notices /\ asked' = [asked EXCEPT ![r] = "expired"] /\ asked[r] = "waiting"
    BY <1>1, <1>4 DEF GiveUp, NoticesPass
  <2>2. Agent!Expire(r)
    BY <1>2, <2>1 DEF Agent!Expire, Agent!Becomes
  <2> QED
    BY <2>1, <2>2 DEF Agent!Next
<1>5. ASSUME NEW c \in Calls, Respond(c) PROVE Agent!Next \/ Fate' = Fate
  <2>1. PICK r \in Requests : r = call[c].req
    BY <1>5, CallTypes DEF Respond, KInv
  <2>2. asked' = asked \/ asked' = Delivered(r)
    BY <1>5, <2>1 DEF Respond
  <2>3. CASE asked' = asked
    BY <2>3
  <2>4. CASE asked[r] = "waiting" /\ asked' = [asked EXCEPT ![r] = "answered"]
    <3>1. r \in Requests \ Notices
      BY <1>1, <2>4 DEF NoticesPass
    <3>2. Agent!Answer(r)
      BY <1>2, <2>4, <3>1 DEF Agent!Answer, Agent!Becomes
    <3> QED
      BY <3>1, <3>2 DEF Agent!Next
  <2> QED
    BY <2>2, <2>3, <2>4 DEF Delivered
<1>6. ASSUME \/ \E q \in Requests : Receive(q) \/ User(q)
             \/ \E c \in Calls : Submitted(c)
             \/ Close \/ HideTimer \/ Press \/ DeferRequest \/ ListPending \/ Fetched
             \/ \E switch \in BOOLEAN : StartFetch(switch)
             \/ UNCHANGED vars
      PROVE  Fate' = Fate
  BY <1>6 DEF Receive, User, ShowRequest, PressCard, Submitted, Close, HideTimer, Press,
              DeferRequest, ListPending, Fetched, StartFetch
<1> QED
  BY <1>3, <1>4, <1>5, <1>6 DEF Next, Gateway, Answer

(* The gateway and its web client implement the promise made to the agent. *)
THEOREM ImplementsQuestion == Spec => KeepsPromise
<1>1. Init => Agent!Init
  BY DEF Init, Agent!Init
<1>2. KInv /\ [Next]_vars => [Agent!Next]_Fate
  BY PromiseStep
<1> QED
  BY <1>1, <1>2, Invariance, PTL DEF Spec, KeepsPromise, Agent!Spec, Fate
=============================================================================
