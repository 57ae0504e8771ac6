------------------------- MODULE InteractionDialog -------------------------
(***************************************************************************)
(* A question of the agent on its way to the user and back: the gateway    *)
(* that holds the agent's future (derisk/core/interaction/gateway.py), the *)
(* web client's cache (services/interactionService.ts), the React state    *)
(* and the dialogs above it (components/interaction, VisAuthorizationCard).*)
(*                                                                         *)
(* A question is known in four places that nothing keeps together: the     *)
(* gateway's futures, the service's map, the list the components render    *)
(* and the request of the dialog.  Answers, lists and the 300 ms timer     *)
(* that empties the dialog arrive after any of them has changed.           *)
(*                                                                         *)
(* One session; how the client is connected, and to which session, is in   *)
(* InteractionLink.  The HTTP and socket layer between is external: a push *)
(* or a call may be lost, a list may be refused.  What an update message   *)
(* changes in a request is left out: it changes no set of requests.        *)
(***************************************************************************)
EXTENDS Naturals, FiniteSets

CONSTANTS
    Requests,  \* questions and notices
    Notices,   \* those nobody waits for, shown beside the page without a dialog
    Urgent,    \* those of type authorization, which show themselves
    Cards,     \* those with an authorization card in the chat
    None,      \* no request
    Calls,     \* bound: answers on their way at a time
    MaxTimers  \* bound: dialogs hidden in the 300 ms before the user acts

ASSUME DialogAssumption ==
    /\ Notices \subseteq Requests /\ Urgent \subseteq Requests \ Notices /\ Cards \subseteq Urgent
    /\ None \notin Requests
    /\ MaxTimers \in Nat

VARIABLES
    asked,   \* gateway: _pending_requests and their futures
    wire,    \* requests pushed over the socket and not received
    svc,     \* service.pendingRequests
    list,    \* the component state pendingRequests
    active,  \* activeRequest
    open,    \* isDialogOpen
    hides,   \* timers of hideDialog that have not fired
    call,    \* the answers on their way
    fetch    \* the list on its way

vars == <<asked, wire, svc, list, active, open, hides, call, fetch>>
server == <<asked, wire>>
dialog == <<active, open, hides>>

Free == [st |-> "free"]
Quiet == [st |-> "none"]

Call == {Free} \cup
        [ st: {"sent", "accepted", "refused"}, req: Requests,
          by: {"handler", "authorization", "defer"} ]

Fetch == {Quiet} \cup [st: {"sent"}, switch: BOOLEAN]
                 \cup [st: {"back"}, switch: BOOLEAN, got: SUBSET Requests]

TypeOK ==
    /\ asked \in [Requests -> {"new", "sent", "waiting", "answered", "expired"}]
    /\ wire \subseteq Requests /\ svc \subseteq Requests /\ list \subseteq Requests
    /\ active \in Requests \cup {None} /\ open \in BOOLEAN /\ hides \in Nat
    /\ call \in [Calls -> Call] /\ fetch \in Fetch

Init ==
    /\ asked = [r \in Requests |-> "new"]
    /\ wire = {} /\ svc = {} /\ list = {}
    /\ active = None /\ open = FALSE /\ hides = 0
    /\ call = [c \in Calls |-> Free] /\ fetch = Quiet
-----------------------------------------------------------------------------
(* The gateway. *)

(* send, which forgets a notice, and send_and_wait: the future is tracked,
   then the request is pushed if there is a connection. *)
Send(r) ==
    /\ asked[r] = "new"
    /\ asked' = [asked EXCEPT ![r] = IF r \in Notices THEN "sent" ELSE "waiting"]
    /\ wire' \in {wire, wire \cup {r}}
    /\ UNCHANGED <<svc, list, dialog, call, fetch>>

(* Its timeout, or the agent is cancelled: the future is forgotten. *)
GiveUp(r) ==
    /\ asked[r] = "waiting"
    /\ asked' = [asked EXCEPT ![r] = "expired"]
    /\ UNCHANGED <<wire, svc, list, dialog, call, fetch>>

(* Bug: without the test of future.done(). *)
DeliveredAnyway(r) == IF r \notin Notices THEN [asked EXCEPT ![r] = "answered"] ELSE asked

(* deliver_response: the first answer of a question somebody waits for. *)
Delivered(r) == IF asked[r] = "waiting" THEN [asked EXCEPT ![r] = "answered"] ELSE asked

(* The POST of an answer: it may be lost, as may the reply; a late one may be
   refused. *)
Respond(c) ==
    /\ call[c].st = "sent"
    /\ \E verdict \in {"accepted", "refused"} :
        /\ call' = [call EXCEPT ![c].st = verdict]
        /\ \/ asked' = Delivered(call[c].req)
           \/ verdict = "refused" /\ asked' = asked
    /\ UNCHANGED <<wire, svc, list, dialog, fetch>>

(* get_pending_requests, or no list at all. *)
Pending == {r \in Requests : asked[r] = "waiting"}

ListPending ==
    /\ fetch.st = "sent"
    /\ \E got \in {Pending, {}} :
        fetch' = [st |-> "back", switch |-> fetch.switch, got |-> got]
    /\ UNCHANGED <<server, svc, list, dialog, call>>
-----------------------------------------------------------------------------
(* The client. *)

ShowNow(r) == active' = r /\ open' = TRUE

(* handleWebSocketMessage and onRequest. *)
Receive(r) ==
    /\ r \in wire
    /\ wire' = wire \ {r}
    /\ svc' = svc \cup {r} /\ list' = list \cup {r}
    /\ IF r \in Urgent THEN ShowNow(r) ELSE UNCHANGED <<active, open>>
    /\ UNCHANGED <<asked, hides, call, fetch>>

(* showRequest. *)
ShowRequest(r) ==
    /\ r \in list /\ ShowNow(r)
    /\ UNCHANGED <<server, svc, list, hides, call, fetch>>

(* Bug: the dialog is left to the next hideDialog. *)
HideDialogForGood(n) == open' = FALSE /\ UNCHANGED <<hides, active>>

(* hideDialog, n times: the request stays for 300 ms. *)
HideDialog(n) == open' = FALSE /\ hides' = hides + n /\ UNCHANGED active

(* The cross of the authorization dialog, which answers nothing, and an upload
   of files, which InteractionHandler does not send. *)
Close ==
    /\ open /\ active \notin Notices \cup {None} /\ hides <= MaxTimers
    /\ HideDialog(1)
    /\ UNCHANGED <<server, svc, list, call, fetch>>

(* The timer does not look at what is shown by now. *)
HideTimer ==
    /\ hides > 0 /\ hides' = hides - 1
    /\ active' = None
    /\ UNCHANGED <<server, svc, list, open, call, fetch>>

(* submitResponse of the request of the dialog. *)
Submit(by) ==
    /\ active # None /\ hides <= MaxTimers
    /\ \E c \in Calls :
        /\ call[c] = Free
        /\ call' = [call EXCEPT ![c] = [st |-> "sent", req |-> active, by |-> by]]

(* A button of the dialog, or its cross. *)
Press ==
    /\ open /\ active \notin Notices
    /\ Submit(IF active \in Urgent THEN "authorization" ELSE "handler")
    /\ UNCHANGED <<server, svc, list, dialog, fetch>>

DeferRequest ==
    /\ open /\ active \notin Notices /\ Submit("defer")
    /\ UNCHANGED <<server, svc, list, dialog, fetch>>

(* VisAuthorizationCard.handleAuthorize and handleDeny, when no dialog covers
   the card: the request is shown, then authorize answers the one that was
   active when the card was drawn. *)
Covered == open /\ active \notin Notices \cup {None}

PressCard(r) ==
    /\ r \in Cards /\ asked[r] # "new" /\ ~Covered
    /\ active # None => Submit("authorization")
    /\ active = None => r \in list /\ UNCHANGED call
    /\ IF r \in list THEN ShowNow(r) ELSE UNCHANGED <<active, open>>
    /\ UNCHANGED <<server, svc, list, hides, fetch>>

(* Bug: the request is forgotten whatever the reply. *)
SubmittedAnyway(c) ==
    /\ call[c].st \in {"accepted", "refused"}
    /\ svc' = svc \ {call[c].req}
    /\ list' = IF call[c].st = "accepted" THEN list \ {call[c].req} ELSE list
    /\ HideDialog(1)
    /\ call' = [call EXCEPT ![c] = Free]
    /\ UNCHANGED <<server, fetch>>

(* The reply to an answer.  An accepted one is forgotten by the service and,
   unless deferred, taken off the list; the dialog is hidden, whatever it
   shows by now.  InteractionHandler hides it (once more) in either case. *)
Submitted(c) ==
    /\ call[c].st \in {"accepted", "refused"}
    /\ LET ok == call[c].st = "accepted"
           r == call[c].req
       IN  /\ svc' = IF ok THEN svc \ {r} ELSE svc
           /\ list' = IF ok /\ call[c].by # "defer" THEN list \ {r} ELSE list
           /\ LET n == (IF ok THEN 1 ELSE 0) + (IF call[c].by = "handler" THEN 1 ELSE 0)
              IN  IF n > 0 THEN HideDialog(n) ELSE UNCHANGED dialog
    /\ call' = [call EXCEPT ![c] = Free]
    /\ UNCHANGED <<server, fetch>>

(* setSessionId, which empties the service first; a poll or refreshRequests. *)
StartFetch(switch) ==
    /\ fetch = Quiet
    /\ fetch' = [st |-> "sent", switch |-> switch]
    /\ svc' = IF switch THEN {} ELSE svc
    /\ UNCHANGED <<server, list, dialog, call>>

(* The list takes what setSessionId left in the service, or what a refresh got,
   be it nothing; a poll tells nobody. *)
TakeList ==
    \/ fetch.switch /\ list' = svc'
    \/ ~fetch.switch /\ list' \in {list, fetch.got}

(* Bug: the service's map is replaced, as the list is. *)
FetchedReplaces ==
    /\ fetch.st = "back"
    /\ svc' = fetch.got /\ TakeList
    /\ fetch' = Quiet
    /\ UNCHANGED <<server, dialog, call>>

(* fetchPendingRequests adds to the service. *)
Fetched ==
    /\ fetch.st = "back"
    /\ svc' = svc \cup fetch.got /\ TakeList
    /\ fetch' = Quiet
    /\ UNCHANGED <<server, dialog, call>>
-----------------------------------------------------------------------------
Gateway(r) == Send(r) \/ GiveUp(r)
User(r) == ShowRequest(r) \/ PressCard(r)
Answer(c) == Respond(c) \/ Submitted(c)

Next ==
    \/ \E r \in Requests : Gateway(r) \/ Receive(r) \/ User(r)
    \/ \E c \in Calls : Answer(c)
    \/ Press \/ DeferRequest \/ Close \/ HideTimer
    \/ ListPending \/ Fetched
    \/ \E switch \in BOOLEAN : StartFetch(switch)

Spec == Init /\ [][Next]_vars
-----------------------------------------------------------------------------
(* The agent gets what it is promised, whatever is lost or late. *)
Agent == INSTANCE Question WITH
    Requests <- Requests \ Notices, fate <- [r \in Requests \ Notices |-> asked[r]]
KeepsPromise == Agent!Spec

(* The service forgets a question the agent still waits for only when the
   session is set: not on a refused, lost or late answer, nor on a list. *)
KeepsWaiting ==
    [][\A r \in svc \ svc' : asked[r] = "waiting" => fetch'.st = "sent" /\ fetch'.switch]_vars

(* A question that is listed and waited for is known to the service, so that
   updates of it arrive, unless a session is being set. *)
ListIsKnown ==
    fetch = Quiet \/ ~fetch.switch => \A r \in list \ svc : asked[r] # "waiting"

(* A request that is not shown is not answered by a card for long: a closed
   dialog keeps its request only while a timer will take it away. *)
HiddenIsPassing == ~open /\ active # None => hides > 0

(* Who authorizes with the card of a question answers that question ("Show the
   request in the interaction manager first"). *)
CardAnswersItsRequest ==
    [][\A r \in Cards, c \in Calls : PressCard(r) /\ call'[c] # call[c] => call'[c].req = r]_vars
=============================================================================
