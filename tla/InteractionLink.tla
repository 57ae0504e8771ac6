--------------------------- MODULE InteractionLink ---------------------------
(***************************************************************************)
(* The connection of the web client's InteractionService to the            *)
(* interaction gateway (services/interactionService.ts): a web socket,     *)
(* reconnection with a growing delay, polling as the fallback.             *)
(*                                                                         *)
(* The class keeps one reference to a socket, one to a reconnection timer  *)
(* and one to a polling interval, and overwrites each without looking.     *)
(* The browser keeps what was overwritten: a socket goes on delivering     *)
(* events to the handlers installed on it, a timer and an interval go on   *)
(* firing.  The model therefore has every socket the browser keeps, and    *)
(* counts the timers and intervals that fire although nothing refers to    *)
(* them.  One step is one task of the event loop with the promise          *)
(* continuations it sets off.                                              *)
(***************************************************************************)
EXTENDS Naturals, FiniteSets

CONSTANTS
    Sessions,       \* session ids a client may be given
    None,           \* no socket
    MaxAttempts,    \* config.maxReconnectAttempts
    AutoReconnect,  \* config.autoReconnect
    MaxSockets,     \* bound: sockets the browser keeps at a time
    MaxConnects,    \* bound: calls of connect that open a socket
    MaxResets       \* bound: times reconnectAttempts is set back to 0

Sockets == 1..MaxSockets

ASSUME LinkAssumption ==
    /\ MaxAttempts \in Nat /\ MaxSockets \in Nat /\ MaxConnects \in Nat /\ MaxResets \in Nat
    /\ AutoReconnect \in BOOLEAN
    /\ Sessions # {}
    /\ None \notin Nat

VARIABLES
    link,      \* the fields of the service that concern the connection
    sock,      \* the sockets the browser keeps, with what waits for each
    ws,        \* this.ws
    session,   \* this.config.sessionId
    connects,  \* history: sockets opened by connect()
    resets     \* history: times reconnectAttempts was set back to 0

vars == <<link, sock, ws, session, connects, resets>>

(* strayTimers and strayPolls count what fires without being referenced;
   starting counts the calls of startPolling that await their first fetch. *)
Link == [ state: {"disconnected", "connecting", "connected", "reconnecting"},
          attempts: 0..MaxAttempts, usePolling: BOOLEAN,
          timer: BOOLEAN, strayTimers: Nat,
          poll: BOOLEAN, strayPolls: Nat, starting: Nat ]

(* by is who awaits the promise of connectWebSocket; timeout, whether its
   ten-second timer is still set. *)
Socket == [ st: {"none", "opening", "open", "aborting", "closing"},
            by: {"connect", "retry", "settled"}, timeout: BOOLEAN,
            clean: BOOLEAN, session: Sessions ]

NoSocket(sn) == [st |-> "none", by |-> "settled", timeout |-> FALSE, clean |-> FALSE, session |-> sn]

TypeOK ==
    /\ link \in Link
    /\ sock \in [Sockets -> Socket]
    /\ ws \in Sockets \cup {None}
    /\ session \in Sessions
    /\ connects \in Nat /\ resets \in Nat

Init ==
    /\ link = [ state |-> "disconnected", attempts |-> 0, usePolling |-> FALSE,
                timer |-> FALSE, strayTimers |-> 0,
                poll |-> FALSE, strayPolls |-> 0, starting |-> 0 ]
    /\ session \in Sessions
    /\ sock = [s \in Sockets |-> NoSocket(session)]
    /\ ws = None
    /\ connects = 0 /\ resets = 0
-----------------------------------------------------------------------------
(* What the private methods do to the fields. *)

StartPolling(l) == [l EXCEPT !.state = "connected", !.starting = @ + 1]

(* this.reconnectTimer is overwritten: an armed one stays armed. *)
ScheduleReconnect(l) ==
    IF l.attempts >= MaxAttempts
    THEN StartPolling([l EXCEPT !.usePolling = TRUE])
    ELSE [l EXCEPT !.attempts = @ + 1, !.timer = TRUE,
                   !.strayTimers = IF l.timer THEN @ + 1 ELSE @]

(* stopReconnect and stopPolling: only what is referenced is cleared. *)
Stopped(l) == [l EXCEPT !.timer = FALSE, !.attempts = 0, !.poll = FALSE]

(* The promise is rejected: connect() falls back to polling, the callback of
   the reconnection timer schedules the next attempt. *)
Rejected(l, by) ==
    CASE by = "connect" -> StartPolling([l EXCEPT !.usePolling = TRUE])
      [] by = "retry"   -> ScheduleReconnect(l)
      [] by = "settled" -> l

(* Bug: an expected close leaves the state as it is. *)
HandleCloseSilent(l, normal) ==
    IF ~normal /\ AutoReconnect
    THEN ScheduleReconnect([l EXCEPT !.state = "reconnecting"])
    ELSE l

(* Bug: polls while it reconnects. *)
HandleClosePolls(l, normal) ==
    IF ~normal /\ AutoReconnect
    THEN ScheduleReconnect([StartPolling(l) EXCEPT !.state = "reconnecting"])
    ELSE [l EXCEPT !.state = "disconnected"]

(* handleWebSocketClose; normal is event.code === 1000. *)
HandleClose(l, normal) ==
    IF ~normal /\ AutoReconnect
    THEN ScheduleReconnect([l EXCEPT !.state = "reconnecting"])
    ELSE [l EXCEPT !.state = "disconnected"]

(* close(): a socket that is not open yet is going to fail, an open one says
   goodbye; clean is whether it does so with code 1000. *)
Closing(k, clean) ==
    CASE k.st = "opening" -> [k EXCEPT !.st = "aborting"]
      [] k.st = "open"    -> [k EXCEPT !.st = "closing", !.clean = clean]
      [] OTHER            -> k

CloseCurrent(clean) ==
    IF ws = None THEN sock ELSE [sock EXCEPT ![ws] = Closing(@, clean)]

Free(so) == {s \in Sockets : so[s].st = "none"}

(* Bug: the attempt is not limited in time. *)
NewSocketUntimed(so, s, by, sn) ==
    /\ s \in Free(so) /\ \A q \in Free(so) : s <= q
    /\ sock' = [so EXCEPT ![s] = [st |-> "opening", by |-> by, timeout |-> FALSE,
                                  clean |-> FALSE, session |-> sn]]
    /\ ws' = s

(* connectWebSocket: the new socket replaces this.ws, whatever that was. *)
NewSocket(so, s, by, sn) ==
    /\ s \in Free(so) /\ \A q \in Free(so) : s <= q
    /\ sock' = [so EXCEPT ![s] = [st |-> "opening", by |-> by, timeout |-> TRUE,
                                  clean |-> FALSE, session |-> sn]]
    /\ ws' = s
-----------------------------------------------------------------------------
(* connect(): does nothing when connected or connecting. *)
Connect ==
    /\ link.state \notin {"connected", "connecting"}
    /\ connects < MaxConnects
    /\ link' = [link EXCEPT !.state = "connecting"]
    /\ \E s \in Sockets : NewSocket(sock, s, "connect", session)
    /\ connects' = connects + 1
    /\ UNCHANGED <<session, resets>>

Disconnect ==
    /\ resets < MaxResets
    /\ sock' = CloseCurrent(TRUE)
    /\ ws' = None
    /\ link' = [Stopped(link) EXCEPT !.state = "disconnected"]
    /\ resets' = resets + 1
    /\ UNCHANGED <<session, connects>>

(* setSessionId with a socket and no fallback: disconnect, then connect. *)
SwitchSession(sn) ==
    /\ ~link.usePolling /\ ws # None
    /\ connects < MaxConnects /\ resets < MaxResets
    /\ session' = sn
    /\ link' = [Stopped(link) EXCEPT !.state = "connecting"]
    /\ \E s \in Sockets : NewSocket(CloseCurrent(TRUE), s, "connect", sn)
    /\ connects' = connects + 1
    /\ resets' = resets + 1

(* setSessionId otherwise: the connection is left as it is. *)
KeepLink(sn) ==
    /\ link.usePolling \/ ws = None
    /\ session' = sn
    /\ UNCHANGED <<link, sock, ws, connects, resets>>

(* Bug: the socket of the old session is kept. *)
SetSessionIdKeepsLink(sn) ==
    /\ session' = sn
    /\ UNCHANGED <<link, sock, ws, connects, resets>>

SetSessionId(sn) == SwitchSession(sn) \/ KeepLink(sn)

(* The timer of scheduleReconnect, referenced or not. *)
RetryTimer ==
    /\ \/ /\ link.timer
          /\ link' = [link EXCEPT !.timer = FALSE]
       \/ /\ link.strayTimers > 0
          /\ link' = [link EXCEPT !.strayTimers = @ - 1]
    /\ \E s \in Sockets : NewSocket(sock, s, "retry", session)
    /\ UNCHANGED <<session, connects, resets>>

(* The first fetch of startPolling has returned: this.pollingTimer is
   overwritten. *)
PollStarted ==
    /\ link.starting > 0
    /\ link' = [link EXCEPT !.starting = @ - 1, !.poll = TRUE,
                            !.strayPolls = IF link.poll THEN @ + 1 ELSE @]
    /\ UNCHANGED <<sock, ws, session, connects, resets>>
-----------------------------------------------------------------------------
OnOpen(s) ==
    /\ sock[s].st = "opening" /\ resets < MaxResets
    /\ sock' = [sock EXCEPT ![s].st = "open", ![s].timeout = FALSE, ![s].by = "settled"]
    /\ link' = [link EXCEPT !.attempts = 0, !.state = "connected"]
    /\ resets' = resets + 1
    /\ UNCHANGED <<ws, session, connects>>

(* onerror and then onclose with code 1006; the continuation of the rejected
   promise runs between the two. *)
OnFail(s) ==
    /\ sock[s].st \in {"opening", "aborting"}
    /\ sock' = [sock EXCEPT ![s] = NoSocket(sock[s].session)]
    /\ ws' = None
    /\ link' = HandleClose(Rejected(link, sock[s].by), FALSE)
    /\ UNCHANGED <<session, connects, resets>>

(* The ten-second timer closes this.ws, which need not be its own socket. *)
OnTimeout(s) ==
    /\ sock[s].timeout
    /\ sock' = [CloseCurrent(FALSE) EXCEPT ![s].timeout = FALSE, ![s].by = "settled"]
    /\ link' = Rejected(link, sock[s].by)
    /\ UNCHANGED <<ws, session, connects, resets>>

(* An open socket ends: the server closes it, or the network does.  Only a
   goodbye with 1000 that is answered ends with that code. *)
OnClose(s, normal) ==
    /\ sock[s].st \in {"open", "closing"}
    /\ normal /\ sock[s].st = "closing" => sock[s].clean
    /\ sock' = [sock EXCEPT ![s] = NoSocket(sock[s].session)]
    /\ ws' = None
    /\ link' = HandleClose(link, normal)
    /\ UNCHANGED <<session, connects, resets>>

Next ==
    \/ Connect \/ Disconnect
    \/ \E sn \in Sessions : SetSessionId(sn)
    \/ RetryTimer \/ PollStarted
    \/ \E s \in Sockets : OnOpen(s) \/ OnFail(s) \/ OnTimeout(s)
    \/ \E s \in Sockets, normal \in BOOLEAN : OnClose(s, normal)

Spec == Init /\ [][Next]_vars

(* Timers fire, a fetch returns, and the browser ends a socket that is being
   closed, or whose handshake has outlived its ten seconds; the server need
   never accept a connection, refuse one or end one. *)
Ends(s) ==
    /\ sock[s].st # "open" /\ sock[s].by = "settled"
    /\ OnFail(s) \/ OnClose(s, FALSE) \/ OnClose(s, TRUE)

LiveSpec ==
    /\ Spec
    /\ WF_vars(RetryTimer) /\ WF_vars(PollStarted)
    /\ \A s \in Sockets : WF_vars(OnTimeout(s)) /\ WF_vars(Ends(s))
-----------------------------------------------------------------------------
Pollers == (IF link.poll THEN 1 ELSE 0) + link.strayPolls + link.starting

Alive(s) == sock[s].st # "none"

(* A client that calls itself connected has a socket whose end it has not
   heard of, or polls: however sockets, timers and disconnect() interleave,
   the state shown to the user is not left over from a link that is gone. *)
ConnectedIsReal ==
    link.state = "connected" =>
        \/ Pollers > 0
        \/ \E s \in Sockets : sock[s].st \in {"open", "closing"}

(* Until the client falls back to polling, the socket it would send on was
   opened for its current session, and the browser still has that socket. *)
CurrentSession ==
    ws # None => Alive(ws) /\ (~link.usePolling => sock[ws].session = session)

(* Every failed attempt may start another poller (an error is reported once by
   the rejected promise and once by onclose), but not more than two for each
   connect() and one for each attempt between two successes. *)
PollersBounded == Pollers <= MaxAttempts + 2 * connects + MaxAttempts * resets

(* Why: what may yet become a poller.  A timer opens a socket; a socket adds one
   poller or one timer when its promise is rejected, and one when it closes; a
   timer in its place uses up an attempt. *)
Timers == (IF link.timer THEN 1 ELSE 0) + link.strayTimers

Kept == {s \in Sockets : Alive(s)}

Awaited == {s \in Sockets : sock[s].by # "settled"}

Potential ==
    Pollers + 2 * Timers + Cardinality(Kept) + Cardinality(Awaited) + (MaxAttempts - link.attempts)

PotentialBounded == Potential <= MaxAttempts + 2 * connects + MaxAttempts * resets

(* Neither connect() nor a reconnection goes on for ever: the ten-second timer
   ends an attempt even when another socket has replaced the one it waits for,
   and a reconnection succeeds, is stopped, or gives up and polls. *)
AttemptsEnd ==
    \A state \in {"connecting", "reconnecting"} : link.state = state ~> link.state # state
=============================================================================
