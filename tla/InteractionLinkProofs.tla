----------------------- MODULE InteractionLinkProofs -----------------------
(***************************************************************************)
(* Proofs about InteractionLink, for any number of sockets, attempts,       *)
(* connects and resets, and any sessions.                                   *)
(***************************************************************************)
EXTENDS InteractionLink, FiniteSetTheorems, TLAPS

-----------------------------------------------------------------------------
(* Types *)

Reasons == {"connect", "retry", "settled"}

(* The fields of a link state that the methods count with. *)
LEMMA LinkFields ==
    ASSUME NEW l \in Link
    PROVE  /\ l.attempts \in 0..MaxAttempts /\ 0 \in 0..MaxAttempts
           /\ l.attempts < MaxAttempts => l.attempts + 1 \in 0..MaxAttempts
           /\ l.strayTimers \in Nat /\ l.strayTimers + 1 \in Nat
           /\ l.strayTimers > 0 => l.strayTimers - 1 \in Nat
           /\ l.strayPolls \in Nat /\ l.strayPolls + 1 \in Nat
           /\ l.starting \in Nat /\ l.starting + 1 \in Nat
           /\ l.starting > 0 => l.starting - 1 \in Nat
           /\ l.timer \in BOOLEAN /\ l.poll \in BOOLEAN /\ l.usePolling \in BOOLEAN
  BY LinkAssumption DEF Link

(* The private methods return link states. *)
LEMMA MethodTypes ==
    ASSUME NEW l \in Link
    PROVE  /\ StartPolling(l) \in Link
           /\ StartPolling([l EXCEPT !.usePolling = TRUE]) \in Link
           /\ ScheduleReconnect(l) \in Link
           /\ Stopped(l) \in Link
<1>1. ASSUME NEW m \in Link PROVE StartPolling(m) \in Link
  BY LinkFields, Zenon DEF Link, StartPolling
<1>2. [l EXCEPT !.usePolling = TRUE] \in Link
  BY DEF Link
<1>3. Stopped(l) \in Link
  BY LinkFields, Zenon DEF Link, Stopped
<1>4. ScheduleReconnect(l) \in Link
  <2>1. CASE l.attempts >= MaxAttempts
    BY <1>1, <1>2, <2>1 DEF ScheduleReconnect
  <2>2. CASE ~(l.attempts >= MaxAttempts)
    <3>1. /\ l.attempts + 1 \in 0..MaxAttempts /\ l.strayTimers + 1 \in Nat
          /\ l.strayTimers \in Nat
      BY <2>2, LinkFields, LinkAssumption
    <3>2. (IF l.timer THEN l.strayTimers + 1 ELSE l.strayTimers) \in Nat
      BY <3>1
    <3> QED
      BY <2>2, <3>1, <3>2, Zenon DEF ScheduleReconnect, Link
  <2> QED
    BY <2>1, <2>2
<1> QED
  BY <1>1, <1>2, <1>3, <1>4

(* So do the two reactions to the end of an attempt and of a socket. *)
LEMMA ReactionTypes ==
    ASSUME NEW l \in Link, NEW by \in Reasons, NEW normal \in BOOLEAN
    PROVE  /\ Rejected(l, by) \in Link
           /\ HandleClose(l, normal) \in Link
<1>1. [l EXCEPT !.usePolling = TRUE] \in Link
  BY DEF Link
<1>2. [l EXCEPT !.state = "reconnecting"] \in Link /\ [l EXCEPT !.state = "disconnected"] \in Link
  BY DEF Link
<1> QED
  BY <1>1, <1>2, MethodTypes DEF Rejected, HandleClose, Reasons

(* close() keeps a socket a socket, alive if it was, of its session, and
   awaited by whom it was. *)
LEMMA CloseKeeps ==
    ASSUME TypeOK, NEW clean \in BOOLEAN
    PROVE  /\ CloseCurrent(clean) \in [Sockets -> Socket]
           /\ \A s \in Sockets :
                LET k == CloseCurrent(clean)[s] IN
                /\ k.st = "none" <=> sock[s].st = "none"
                /\ sock[s].st \in {"open", "closing"} => k.st \in {"open", "closing"}
                /\ k.by = sock[s].by /\ k.session = sock[s].session
<1>1. ASSUME NEW k \in Socket
      PROVE  /\ Closing(k, clean) \in Socket
             /\ Closing(k, clean).st = "none" <=> k.st = "none"
             /\ k.st \in {"open", "closing"} => Closing(k, clean).st \in {"open", "closing"}
             /\ Closing(k, clean).by = k.by /\ Closing(k, clean).session = k.session
  BY DEF Closing, Socket
<1> QED
  BY <1>1 DEF CloseCurrent, TypeOK

(* A new socket is one more socket, of session sn, in the place of a free one. *)
LEMMA NewSocketType ==
    ASSUME NEW so \in [Sockets -> Socket], NEW s \in Sockets,
           NEW by \in Reasons, NEW sn \in Sessions, NewSocket(so, s, by, sn)
    PROVE  /\ sock' \in [Sockets -> Socket] /\ ws' = s
           /\ so[s].st = "none" /\ sock'[s].st # "none" /\ sock'[s].session = sn
           /\ \A q \in Sockets \ {s} : sock'[q] = so[q]
  BY DEF NewSocket, Free, Socket, Reasons

(* The initial state has its types. *)
LEMMA TypeInit == Init => TypeOK
  BY LinkAssumption DEF Init, TypeOK, Link, Socket, NoSocket

(* Every step keeps the types. *)
LEMMA TypeStep == TypeOK /\ [Next]_vars => TypeOK'
<1> SUFFICES ASSUME TypeOK, [Next]_vars PROVE TypeOK'
  OBVIOUS
<1>0. /\ link \in Link /\ sock \in [Sockets -> Socket] /\ ws \in Sockets \cup {None}
      /\ session \in Sessions /\ connects \in Nat /\ resets \in Nat
  BY DEF TypeOK
<1>1. CASE Connect
  <2>1. link' \in Link
    BY <1>0, <1>1 DEF Connect, Link
  <2>2. sock' \in [Sockets -> Socket] /\ ws' \in Sockets
    BY <1>0, <1>1, NewSocketType DEF Connect, Reasons
  <2> QED
    BY <1>0, <1>1, <2>1, <2>2 DEF Connect, TypeOK
<1>2. CASE Disconnect
  <2>1. link' \in Link
    BY <1>0, <1>2, MethodTypes DEF Disconnect, Link
  <2>2. ws' = None /\ session' = session /\ connects' = connects /\ resets' = resets + 1
    BY <1>2 DEF Disconnect
  <2>3. sock' \in [Sockets -> Socket]
    BY <1>2, CloseKeeps DEF Disconnect
  <2> QED
    BY <1>0, <2>1, <2>2, <2>3 DEF TypeOK
<1>3. ASSUME NEW sn \in Sessions, SwitchSession(sn) PROVE TypeOK'
  <2>1. link' \in Link
    BY <1>0, <1>3, MethodTypes DEF SwitchSession, Link
  <2>2. sock' \in [Sockets -> Socket] /\ ws' \in Sockets
    BY <1>3, CloseKeeps, NewSocketType DEF SwitchSession, Reasons
  <2> QED
    BY <1>0, <1>3, <2>1, <2>2 DEF SwitchSession, TypeOK
<1>4. ASSUME NEW sn \in Sessions, KeepLink(sn) PROVE TypeOK'
  BY <1>0, <1>4 DEF KeepLink, TypeOK
<1>5. CASE RetryTimer
  <2>1. link' \in Link
    <3>1. CASE link.timer /\ link' = [link EXCEPT !.timer = FALSE]
      BY <1>0, <3>1 DEF Link
    <3>2. CASE link.strayTimers > 0 /\ link' = [link EXCEPT !.strayTimers = @ - 1]
      <4>1. link.strayTimers - 1 \in Nat
        BY <1>0, <3>2, LinkFields
      <4> QED
        BY <1>0, <3>2, <4>1, Zenon DEF Link
    <3> QED
      BY <1>5, <3>1, <3>2 DEF RetryTimer
  <2>2. sock' \in [Sockets -> Socket] /\ ws' \in Sockets
    BY <1>0, <1>5, NewSocketType DEF RetryTimer, Reasons
  <2> QED
    BY <1>0, <1>5, <2>1, <2>2 DEF RetryTimer, TypeOK
<1>6. CASE PollStarted
  <2>1. /\ link.starting - 1 \in Nat
        /\ (IF link.poll THEN link.strayPolls + 1 ELSE link.strayPolls) \in Nat
    BY <1>0, <1>6, LinkFields DEF PollStarted
  <2>2. link' = [link EXCEPT !.starting = @ - 1, !.poll = TRUE,
                             !.strayPolls = IF link.poll THEN @ + 1 ELSE @]
    BY <1>6 DEF PollStarted
  <2>3. link' \in Link
    BY <1>0, <2>1, <2>2, Zenon DEF Link
  <2> QED
    BY <1>0, <1>6, <2>3 DEF PollStarted, TypeOK
<1>7. ASSUME NEW s \in Sockets, OnOpen(s) PROVE TypeOK'
  <2>1. link' \in Link
    BY <1>0, <1>7, LinkFields, Zenon DEF OnOpen, Link
  <2>2. sock' \in [Sockets -> Socket]
    BY <1>0, <1>7 DEF OnOpen, Socket
  <2> QED
    BY <1>0, <1>7, <2>1, <2>2 DEF OnOpen, TypeOK
<1>8. ASSUME NEW s \in Sockets, OnFail(s) PROVE TypeOK'
  <2>1. sock[s].by \in Reasons /\ sock[s].session \in Sessions
    BY <1>0 DEF Socket, Reasons
  <2>2. link' \in Link
    BY <1>0, <1>8, <2>1, ReactionTypes DEF OnFail
  <2>3. sock' \in [Sockets -> Socket]
    BY <1>0, <1>8, <2>1 DEF OnFail, NoSocket, Socket
  <2> QED
    BY <1>0, <1>8, <2>2, <2>3 DEF OnFail, TypeOK
<1>9. ASSUME NEW s \in Sockets, OnTimeout(s) PROVE TypeOK'
  <2>1. sock[s].by \in Reasons
    BY <1>0 DEF Socket, Reasons
  <2>2. link' \in Link
    BY <1>0, <1>9, <2>1, ReactionTypes DEF OnTimeout
  <2>3. sock' \in [Sockets -> Socket]
    <3>1. CloseCurrent(FALSE) \in [Sockets -> Socket]
      BY CloseKeeps
    <3>2. sock' = [CloseCurrent(FALSE) EXCEPT ![s].timeout = FALSE, ![s].by = "settled"]
      BY <1>9 DEF OnTimeout
    <3> QED
      BY <3>1, <3>2 DEF Socket
  <2> QED
    BY <1>0, <1>9, <2>2, <2>3 DEF OnTimeout, TypeOK
<1>10. ASSUME NEW s \in Sockets, NEW normal \in BOOLEAN, OnClose(s, normal) PROVE TypeOK'
  <2>1. link' \in Link
    BY <1>0, <1>10, ReactionTypes DEF OnClose, Reasons
  <2>2. sock' \in [Sockets -> Socket]
    BY <1>0, <1>10 DEF OnClose, NoSocket, Socket
  <2> QED
    BY <1>0, <1>10, <2>1, <2>2 DEF OnClose, TypeOK
<1>11. CASE UNCHANGED vars
  BY <1>11 DEF vars, TypeOK
<1> QED
  BY <1>1, <1>2, <1>3, <1>4, <1>5, <1>6, <1>7, <1>8, <1>9, <1>10, <1>11
     DEF Next, SetSessionId

(* Type correctness: in particular the attempts never exceed their limit,
   although a failed attempt is counted up to two times. *)
THEOREM TypeCorrect == Spec => []TypeOK
  BY TypeInit, TypeStep, PTL DEF Spec
-----------------------------------------------------------------------------
(* What is shown *)

FallsBack(l) == [l EXCEPT !.usePolling = TRUE]

LPollers(l) == (IF l.poll THEN 1 ELSE 0) + l.strayPolls + l.starting

(* None of the reactions ends a poller, and a link that they call connected polls,
   or was called connected before. *)
LEMMA ConnectedPolls ==
    ASSUME NEW l \in Link, NEW by \in Reasons, NEW normal \in BOOLEAN
    PROVE  /\ LPollers(Rejected(l, by)) >= LPollers(l)
           /\ Rejected(l, by).state = "connected" =>
                 l.state = "connected" \/ LPollers(Rejected(l, by)) > 0
           /\ HandleClose(l, normal).state = "connected" => LPollers(HandleClose(l, normal)) > 0
<1>1. ASSUME NEW m \in Link
      PROVE  /\ LPollers(StartPolling(m)) = LPollers(m) + 1
             /\ LPollers(m) \in Nat
  BY DEF LPollers, StartPolling, Link
<1>2. ASSUME NEW m \in Link
      PROVE  /\ [m EXCEPT !.usePolling = TRUE] \in Link
             /\ LPollers([m EXCEPT !.usePolling = TRUE]) = LPollers(m)
             /\ [m EXCEPT !.state = "reconnecting"] \in Link
             /\ [m EXCEPT !.state = "reconnecting"].state = "reconnecting"
             /\ [m EXCEPT !.state = "disconnected"].state = "disconnected"
  BY DEF LPollers, Link
<1>3. ASSUME NEW m \in Link
      PROVE  /\ LPollers(ScheduleReconnect(m)) >= LPollers(m)
             /\ ScheduleReconnect(m).state = m.state \/ LPollers(ScheduleReconnect(m)) > 0
  <2>1. CASE m.attempts >= MaxAttempts
    <3>1. FallsBack(m) \in Link /\ LPollers(FallsBack(m)) = LPollers(m)
      BY <1>2 DEF FallsBack
    <3>2. ScheduleReconnect(m) = StartPolling(FallsBack(m))
      BY <2>1 DEF ScheduleReconnect, FallsBack
    <3>3. LPollers(StartPolling(FallsBack(m))) = LPollers(m) + 1 /\ LPollers(m) \in Nat
      BY <1>1, <3>1
    <3> QED
      BY <3>2, <3>3
  <2>2. CASE ~(m.attempts >= MaxAttempts)
    <3>1. LPollers(ScheduleReconnect(m)) = LPollers(m) /\ ScheduleReconnect(m).state = m.state
      BY <2>2 DEF ScheduleReconnect, LPollers, Link
    <3> QED
      BY <1>1, <3>1
  <2> QED
    BY <2>1, <2>2
<1> QED
  <2> DEFINE lr == [l EXCEPT !.state = "reconnecting"]
             ld == [l EXCEPT !.state = "disconnected"]
  <2>1. /\ FallsBack(l) \in Link /\ LPollers(FallsBack(l)) = LPollers(l)
        /\ lr \in Link /\ lr.state = "reconnecting" /\ ld.state = "disconnected"
    BY <1>2 DEF FallsBack
  <2>2. \/ Rejected(l, by) = StartPolling(FallsBack(l))
        \/ Rejected(l, by) = ScheduleReconnect(l)
        \/ Rejected(l, by) = l
    BY DEF Rejected, Reasons, FallsBack
  <2>3. HandleClose(l, normal) \in {ScheduleReconnect(lr), ld}
    BY DEF HandleClose
  <2> HIDE DEF lr, ld
  <2>4. LPollers(StartPolling(FallsBack(l))) = LPollers(l) + 1 /\ LPollers(l) \in Nat /\ LPollers(lr) \in Nat
    BY <1>1, <2>1
  <2>5. /\ LPollers(ScheduleReconnect(l)) >= LPollers(l)
        /\ ScheduleReconnect(l).state = l.state \/ LPollers(ScheduleReconnect(l)) > 0
        /\ ScheduleReconnect(lr).state = "reconnecting" \/ LPollers(ScheduleReconnect(lr)) > 0
    BY <1>3, <2>1
  <2>6. LPollers(l) >= LPollers(l) /\ LPollers(StartPolling(FallsBack(l))) > 0
        /\ LPollers(StartPolling(FallsBack(l))) >= LPollers(l)
    BY <2>4
  <2>7. /\ LPollers(Rejected(l, by)) >= LPollers(l)
        /\ Rejected(l, by).state = "connected" =>
              l.state = "connected" \/ LPollers(Rejected(l, by)) > 0
    <3>1. CASE Rejected(l, by) = StartPolling(FallsBack(l))
      BY <2>6, <3>1
    <3>2. CASE Rejected(l, by) = ScheduleReconnect(l)
      BY <2>5, <3>2
    <3>3. CASE Rejected(l, by) = l
      BY <2>4, <3>3
    <3> QED
      BY <2>2, <3>1, <3>2, <3>3
  <2>8. HandleClose(l, normal).state = "connected" => LPollers(HandleClose(l, normal)) > 0
    BY <2>1, <2>3, <2>5
  <2> QED
    BY <2>7, <2>8

(* The state "connected" is kept true by every step: it is set with the first
   request of a poller or with an open socket, and whatever takes the last of
   them away sets another state. *)
LEMMA ConnectedStep == TypeOK /\ ConnectedIsReal /\ [Next]_vars => ConnectedIsReal'
<1> SUFFICES ASSUME TypeOK, ConnectedIsReal, [Next]_vars PROVE ConnectedIsReal'
  OBVIOUS
<1>0. link \in Link /\ sock \in [Sockets -> Socket] /\ Pollers = LPollers(link)
      /\ Pollers' = LPollers(link') /\ session \in Sessions
  BY DEF TypeOK, Pollers, LPollers
<1>1. CASE Connect
  BY <1>0, <1>1 DEF Connect, ConnectedIsReal, Link
<1>2. CASE Disconnect
  <2>1. link'.state = "disconnected"
    BY <1>0, <1>2, MethodTypes DEF Disconnect, Link
  <2> QED
    BY <2>1 DEF ConnectedIsReal
<1>3. ASSUME NEW sn \in Sessions, SwitchSession(sn) PROVE ConnectedIsReal'
  <2>1. link'.state = "connecting"
    BY <1>0, <1>3, MethodTypes DEF SwitchSession, Link
  <2> QED
    BY <2>1 DEF ConnectedIsReal
<1>4. ASSUME NEW sn \in Sessions, KeepLink(sn) PROVE ConnectedIsReal'
  BY <1>4 DEF KeepLink, ConnectedIsReal, Pollers
<1>5. CASE RetryTimer
  <2>1. link'.state = link.state /\ LPollers(link') = LPollers(link)
    BY <1>0, <1>5 DEF RetryTimer, LPollers, Link
  <2>2. PICK s \in Sockets : NewSocket(sock, s, "retry", session)
    BY <1>5 DEF RetryTimer
  <2>3. \A q \in Sockets : sock[q].st \in {"open", "closing"} => sock'[q] = sock[q]
    BY <1>0, <2>2, NewSocketType DEF Reasons
  <2> QED
    BY <1>0, <2>1, <2>3 DEF ConnectedIsReal
<1>6. CASE PollStarted
  <2>1. link' \in Link /\ link'.poll = TRUE
    BY <1>0, <1>6, TypeStep DEF PollStarted, TypeOK, Link
  <2>2. LPollers(link') > 0
    BY <2>1 DEF LPollers, Link
  <2> QED
    BY <1>0, <2>2 DEF ConnectedIsReal
<1>7. ASSUME NEW s \in Sockets, OnOpen(s) PROVE ConnectedIsReal'
  BY <1>0, <1>7 DEF OnOpen, ConnectedIsReal, Socket
<1>8. ASSUME NEW s \in Sockets, OnFail(s) PROVE ConnectedIsReal'
  <2>1. sock[s].by \in Reasons
    BY <1>0 DEF Socket, Reasons
  <2> QED
    BY <1>0, <1>8, <2>1, ReactionTypes, ConnectedPolls DEF OnFail, ConnectedIsReal
<1>9. ASSUME NEW s \in Sockets, OnTimeout(s) PROVE ConnectedIsReal'
  <2>1. sock[s].by \in Reasons
    BY <1>0 DEF Socket, Reasons
  <2>2. \A q \in Sockets : sock[q].st \in {"open", "closing"} => sock'[q].st \in {"open", "closing"}
    <3>1. CloseCurrent(FALSE) \in [Sockets -> Socket]
      BY CloseKeeps
    <3>2. \A q \in Sockets : sock'[q].st = CloseCurrent(FALSE)[q].st
      BY <1>9, <3>1 DEF OnTimeout, Socket
    <3> QED
      BY <3>2, CloseKeeps
  <2>3. link' = Rejected(link, sock[s].by)
    BY <1>9 DEF OnTimeout
  <2>4. LPollers(link) \in Nat /\ LPollers(link') \in Nat
    <3>1. link' \in Link
      BY <1>0, <2>1, <2>3, ReactionTypes
    <3> QED
      BY <1>0, <3>1 DEF LPollers, Link
  <2> QED
    <3>1. /\ LPollers(link') >= LPollers(link)
          /\ link'.state = "connected" => link.state = "connected" \/ LPollers(link') > 0
      BY <1>0, <2>1, <2>3, ConnectedPolls
    <3> QED
      BY <1>0, <2>2, <2>4, <3>1 DEF ConnectedIsReal
<1>10. ASSUME NEW s \in Sockets, NEW normal \in BOOLEAN, OnClose(s, normal)
       PROVE  ConnectedIsReal'
  BY <1>0, <1>10, ConnectedPolls DEF OnClose, ConnectedIsReal, Reasons
<1>11. CASE UNCHANGED vars
  BY <1>11 DEF vars, ConnectedIsReal, Pollers
<1> QED
  BY <1>1, <1>2, <1>3, <1>4, <1>5, <1>6, <1>7, <1>8, <1>9, <1>10, <1>11
     DEF Next, SetSessionId

(* A client that shows "connected" has a socket whose end it has not heard of, or
   polls, for every interleaving of sockets, timers, timeouts and disconnects. *)
THEOREM ConnectedShown == Spec => []ConnectedIsReal
<1>1. Init => ConnectedIsReal
  BY DEF Init, ConnectedIsReal
<1> QED
  BY <1>1, TypeInit, TypeStep, ConnectedStep, PTL DEF Spec

(* The socket of the client is one the browser has and, before the fallback, of
   the current session: what replaces or forgets it, and what changes the
   session, do both at once. *)
LEMMA SessionStep == TypeOK /\ CurrentSession /\ [Next]_vars => CurrentSession'
<1> SUFFICES ASSUME TypeOK, CurrentSession, [Next]_vars PROVE CurrentSession'
  OBVIOUS
<1>0. /\ link \in Link /\ sock \in [Sockets -> Socket] /\ ws \in Sockets \cup {None}
      /\ session \in Sessions
  BY DEF TypeOK
<1>1. ASSUME NEW so \in [Sockets -> Socket], NEW by \in Reasons, NEW sn \in Sessions,
             \E s \in Sockets : NewSocket(so, s, by, sn), session' = sn
      PROVE  CurrentSession'
  BY <1>1, NewSocketType DEF CurrentSession, Alive
<1>2. CASE Connect \/ RetryTimer
  BY <1>0, <1>1, <1>2 DEF Connect, RetryTimer, Reasons
<1>3. CASE Disconnect
  BY <1>3 DEF Disconnect, CurrentSession
<1>4. ASSUME NEW sn \in Sessions, SwitchSession(sn) PROVE CurrentSession'
  <2>1. CloseCurrent(TRUE) \in [Sockets -> Socket]
    BY CloseKeeps
  <2> QED
    BY <1>1, <1>4, <2>1 DEF SwitchSession, Reasons
<1>5. ASSUME NEW sn \in Sessions, KeepLink(sn) PROVE CurrentSession'
  BY <1>5 DEF KeepLink, CurrentSession, Alive
<1>6. CASE PollStarted
  <2>1. link'.usePolling = link.usePolling
    BY <1>0, <1>6 DEF PollStarted, Link
  <2> QED
    BY <1>6, <2>1 DEF PollStarted, CurrentSession, Alive
<1>7. ASSUME NEW s \in Sockets, OnOpen(s) PROVE CurrentSession'
  <2>1. link'.usePolling = link.usePolling
    BY <1>0, <1>7 DEF OnOpen, Link
  <2>2. \A q \in Sockets : /\ sock'[q].session = sock[q].session
                           /\ sock[q].st # "none" => sock'[q].st # "none"
    BY <1>0, <1>7 DEF OnOpen, Socket
  <2>3. UNCHANGED <<ws, session>>
    BY <1>7 DEF OnOpen
  <2> QED
    BY <1>0, <2>1, <2>2, <2>3 DEF CurrentSession, Alive
<1>8. ASSUME NEW s \in Sockets, NEW normal \in BOOLEAN, OnFail(s) \/ OnClose(s, normal)
      PROVE  CurrentSession'
  BY <1>8 DEF OnFail, OnClose, CurrentSession
<1>9. ASSUME NEW s \in Sockets, OnTimeout(s) PROVE CurrentSession'
  <2>1. sock[s].by \in Reasons
    BY <1>0 DEF Socket, Reasons
  <2>2. link.usePolling => link'.usePolling
    <3>1. link.usePolling => StartPolling([link EXCEPT !.usePolling = TRUE]).usePolling
      BY <1>0 DEF StartPolling, Link
    <3>2. link.usePolling => ScheduleReconnect(link).usePolling
      BY <1>0, <3>1 DEF ScheduleReconnect, Link
    <3> QED
      BY <1>9, <2>1, <3>1, <3>2 DEF OnTimeout, Rejected, Reasons
  <2>3. \A q \in Sockets : /\ sock'[q].session = sock[q].session
                           /\ sock[q].st # "none" => sock'[q].st # "none"
    <3>1. CloseCurrent(FALSE) \in [Sockets -> Socket]
      BY CloseKeeps
    <3>2. \A q \in Sockets : /\ sock'[q].st = CloseCurrent(FALSE)[q].st
                             /\ sock'[q].session = CloseCurrent(FALSE)[q].session
      BY <1>9, <3>1 DEF OnTimeout, Socket
    <3> QED
      BY <3>2, CloseKeeps
  <2>4. UNCHANGED <<ws, session>>
    BY <1>9 DEF OnTimeout
  <2> QED
    BY <1>0, <2>2, <2>3, <2>4 DEF CurrentSession, Alive
<1>10. CASE UNCHANGED vars
  BY <1>10 DEF vars, CurrentSession, Alive
<1> QED
  BY <1>2, <1>3, <1>4, <1>5, <1>6, <1>7, <1>8, <1>9, <1>10 DEF Next, SetSessionId

(* Until it falls back to polling, a client sends on a socket of its current
   session, and never on one the browser has given up. *)
THEOREM SessionIsCurrent == Spec => []CurrentSession
<1>1. Init => CurrentSession
  BY DEF Init, CurrentSession
<1> QED
  BY <1>1, TypeInit, TypeStep, SessionStep, PTL DEF Spec
-----------------------------------------------------------------------------
(* How much polling there can be *)

LTimers(l) == (IF l.timer THEN 1 ELSE 0) + l.strayTimers

Weight(l) == LPollers(l) + 2 * LTimers(l) + (MaxAttempts - l.attempts)

(* A poller is worth one; an attempt that is scheduled puts a timer, worth two, in
   the place of one that was left, and one that is not becomes a poller. *)
LEMMA MethodWeights ==
    ASSUME NEW l \in Link
    PROVE  /\ LPollers(l) \in Nat /\ LTimers(l) \in Nat /\ Weight(l) \in Nat
           /\ Weight(l) >= LPollers(l)
           /\ Weight(FallsBack(l)) = Weight(l)
           /\ Weight(StartPolling(l)) = Weight(l) + 1
           /\ Weight(ScheduleReconnect(l)) = Weight(l) + 1
<1>1. ASSUME NEW m \in Link
      PROVE  /\ LPollers(m) \in Nat /\ LTimers(m) \in Nat
             /\ MaxAttempts - m.attempts \in Nat
  BY LinkAssumption DEF LPollers, LTimers, Link
<1>2. ASSUME NEW m \in Link
      PROVE  Weight(m) \in Nat /\ Weight(m) >= LPollers(m)
  BY <1>1 DEF Weight
<1>3. ASSUME NEW m \in Link
      PROVE  FallsBack(m) \in Link /\ Weight(FallsBack(m)) = Weight(m)
  BY DEF FallsBack, Weight, LPollers, LTimers, Link
<1>4. ASSUME NEW m \in Link PROVE Weight(StartPolling(m)) = Weight(m) + 1
  <2>1. /\ LPollers(StartPolling(m)) = LPollers(m) + 1
        /\ LTimers(StartPolling(m)) = LTimers(m)
        /\ StartPolling(m).attempts = m.attempts
    BY DEF StartPolling, LPollers, LTimers, Link
  <2> QED
    BY <1>1, <2>1 DEF Weight
<1>5. Weight(ScheduleReconnect(l)) = Weight(l) + 1
  <2>1. CASE l.attempts >= MaxAttempts
    <3>1. ScheduleReconnect(l) = StartPolling(FallsBack(l))
      BY <2>1 DEF ScheduleReconnect, FallsBack
    <3> QED
      BY <1>3, <1>4, <3>1
  <2>2. CASE ~(l.attempts >= MaxAttempts)
    <3>1. /\ LPollers(ScheduleReconnect(l)) = LPollers(l)
          /\ LTimers(ScheduleReconnect(l)) = LTimers(l) + 1
          /\ ScheduleReconnect(l).attempts = l.attempts + 1
      BY <2>2 DEF ScheduleReconnect, LPollers, LTimers, Link
    <3>2. l.attempts \in Nat /\ MaxAttempts \in Nat
      BY LinkAssumption DEF Link
    <3> QED
      BY <1>1, <3>1, <3>2 DEF Weight
  <2> QED
    BY <2>1, <2>2
<1> QED
  BY <1>1, <1>2, <1>3, <1>4, <1>5

(* An attempt that fails, and a socket that closes, each put in one at most; what
   disconnect() stops counts again as attempts. *)
LEMMA ReactionWeights ==
    ASSUME NEW l \in Link, NEW by \in Reasons, NEW normal \in BOOLEAN
    PROVE  /\ Weight(Rejected(l, by)) <= Weight(l) + (IF by = "settled" THEN 0 ELSE 1)
           /\ Weight(HandleClose(l, normal)) <= Weight(l) + 1
           /\ Weight(Stopped(l)) <= Weight(l) + MaxAttempts
<1>1. Weight(l) \in Nat
  BY MethodWeights
<1>2. Weight(Rejected(l, by)) <= Weight(l) + (IF by = "settled" THEN 0 ELSE 1)
  <2>1. Weight(StartPolling(FallsBack(l))) = Weight(l) + 1
    <3>1. FallsBack(l) \in Link
      BY DEF FallsBack, Link
    <3> QED
      BY <3>1, MethodWeights
  <2>2. CASE by = "connect"
    <3>1. Rejected(l, by) = StartPolling(FallsBack(l))
      BY <2>2 DEF Rejected, FallsBack
    <3> QED
      BY <1>1, <2>1, <2>2, <3>1
  <2>3. CASE by = "retry"
    <3>1. Rejected(l, by) = ScheduleReconnect(l)
      BY <2>3 DEF Rejected
    <3> QED
      BY <1>1, <2>3, <3>1, MethodWeights
  <2>4. CASE by = "settled"
    <3>1. Rejected(l, by) = l
      BY <2>4 DEF Rejected
    <3> QED
      BY <1>1, <2>4, <3>1
  <2> QED
    BY <2>2, <2>3, <2>4 DEF Reasons
<1>3. Weight(HandleClose(l, normal)) <= Weight(l) + 1
  <2>1. ASSUME NEW st \in {"reconnecting", "disconnected"}
        PROVE  [l EXCEPT !.state = st] \in Link /\ Weight([l EXCEPT !.state = st]) = Weight(l)
    BY DEF Weight, LPollers, LTimers, Link
  <2>2. CASE ~normal /\ AutoReconnect
    <3>1. HandleClose(l, normal) = ScheduleReconnect([l EXCEPT !.state = "reconnecting"])
      BY <2>2 DEF HandleClose
    <3>2. /\ [l EXCEPT !.state = "reconnecting"] \in Link
          /\ Weight([l EXCEPT !.state = "reconnecting"]) = Weight(l)
      BY <2>1
    <3>3. Weight(HandleClose(l, normal)) = Weight(l) + 1
      BY <3>1, <3>2, MethodWeights
    <3> QED
      BY <1>1, <3>3
  <2>3. CASE ~(~normal /\ AutoReconnect)
    <3>1. HandleClose(l, normal) = [l EXCEPT !.state = "disconnected"]
      BY <2>3 DEF HandleClose
    <3>2. Weight(HandleClose(l, normal)) = Weight(l)
      BY <2>1, <3>1
    <3> QED
      BY <1>1, <3>2
  <2> QED
    BY <2>2, <2>3
<1>4. Weight(Stopped(l)) <= Weight(l) + MaxAttempts
  <2>1. /\ LPollers(Stopped(l)) <= LPollers(l) /\ LPollers(Stopped(l)) \in Nat
        /\ LTimers(Stopped(l)) <= LTimers(l) /\ LTimers(Stopped(l)) \in Nat
        /\ Stopped(l).attempts = 0
    BY DEF Stopped, LPollers, LTimers, Link
  <2>2. /\ LPollers(l) \in Nat /\ LTimers(l) \in Nat
        /\ MaxAttempts \in Nat /\ l.attempts \in 0..MaxAttempts
    BY MethodWeights, LinkAssumption DEF Link
  <2> QED
    BY <2>1, <2>2 DEF Weight
<1> QED
  BY <1>2, <1>3, <1>4

(* Counting sets that gain or lose an element. *)
LEMMA Counts ==
    ASSUME NEW S \in SUBSET Sockets, NEW T \in SUBSET Sockets
    PROVE  /\ Cardinality(S) \in Nat
           /\ T \subseteq S => Cardinality(T) <= Cardinality(S)
           /\ \A s : T \subseteq S \cup {s} => Cardinality(T) <= Cardinality(S) + 1
           /\ \A s \in S : T \subseteq S \ {s} => Cardinality(T) <= Cardinality(S) - 1
<1>1. IsFiniteSet(S) /\ IsFiniteSet(T)
  <2>1. IsFiniteSet(Sockets)
    BY LinkAssumption, FS_Interval DEF Sockets
  <2> QED
    BY <2>1, FS_Subset
<1>2. Cardinality(S) \in Nat /\ Cardinality(T) \in Nat
  BY <1>1, FS_CardinalityType
<1>3. T \subseteq S => Cardinality(T) <= Cardinality(S)
  BY <1>1, FS_Subset
<1>4. ASSUME NEW s, T \subseteq S \cup {s} PROVE Cardinality(T) <= Cardinality(S) + 1
  <2>1. /\ IsFiniteSet(S \cup {s})
        /\ Cardinality(S \cup {s}) = IF s \in S THEN Cardinality(S) ELSE Cardinality(S) + 1
    BY <1>1, FS_AddElement
  <2>2. Cardinality(T) <= Cardinality(S \cup {s})
    BY <1>4, <2>1, FS_Subset
  <2> QED
    BY <1>2, <2>1, <2>2
<1>5. ASSUME NEW s \in S, T \subseteq S \ {s} PROVE Cardinality(T) <= Cardinality(S) - 1
  <2>1. IsFiniteSet(S \ {s}) /\ Cardinality(S \ {s}) = Cardinality(S) - 1
    BY <1>1, FS_RemoveElement
  <2>2. Cardinality(T) <= Cardinality(S \ {s})
    BY <1>5, <2>1, FS_Subset
  <2> QED
    BY <2>1, <2>2
<1> QED
  BY <1>2, <1>3, <1>4, <1>5
(* The potential is the weight of the link and of the sockets, and is a bound on the
   pollers. *)
LEMMA PotentialIsWeight ==
    ASSUME TypeOK
    PROVE  /\ Potential = Weight(link) + Cardinality(Kept) + Cardinality(Awaited)
           /\ Pollers <= Potential
           /\ Weight(link) \in Nat /\ Cardinality(Kept) \in Nat /\ Cardinality(Awaited) \in Nat
           /\ Pollers \in Nat
<1>1. Weight(link) \in Nat /\ Weight(link) >= LPollers(link) /\ LPollers(link) \in Nat
  BY MethodWeights DEF TypeOK
<1>2. Cardinality(Kept) \in Nat /\ Cardinality(Awaited) \in Nat
  BY Counts DEF Kept, Awaited
<1>3. Pollers = LPollers(link) /\ Timers = LTimers(link)
  BY DEF Pollers, LPollers, Timers, LTimers
<1>4. LTimers(link) \in Nat /\ MaxAttempts - link.attempts \in Int
  BY MethodWeights, LinkAssumption DEF TypeOK, Link
<1>5. Potential = Weight(link) + Cardinality(Kept) + Cardinality(Awaited)
  BY <1>1, <1>2, <1>3, <1>4 DEF Potential, Weight
<1> QED
  BY <1>1, <1>2, <1>3, <1>5

(* A new socket is one more to keep and to await. *)
LEMMA NewSocketCounts ==
    ASSUME TypeOK, NEW so \in [Sockets -> Socket], NEW s \in Sockets,
           NEW by \in Reasons, NEW sn \in Sessions, NewSocket(so, s, by, sn),
           \A q \in Sockets : (so[q].st = "none" <=> sock[q].st = "none") /\ so[q].by = sock[q].by
    PROVE  /\ Cardinality(Kept') <= Cardinality(Kept) + 1
           /\ Cardinality(Awaited') <= Cardinality(Awaited) + 1
           /\ Cardinality(Kept') \in Nat /\ Cardinality(Awaited') \in Nat
<1>1. \A q \in Sockets \ {s} : sock'[q] = so[q]
  BY NewSocketType
<1>2. Kept' \subseteq Kept \cup {s} /\ Awaited' \subseteq Awaited \cup {s}
  BY <1>1 DEF Kept, Awaited, Alive
<1>3. /\ Kept \in SUBSET Sockets /\ Kept' \in SUBSET Sockets
      /\ Awaited \in SUBSET Sockets /\ Awaited' \in SUBSET Sockets
  BY DEF Kept, Awaited
<1> QED
  BY <1>2, <1>3, Counts

(* No step adds more to the potential than the connects and resets it counts allow. *)
LEMMA PotentialStep == TypeOK /\ PotentialBounded /\ [Next]_vars => PotentialBounded'
<1> SUFFICES ASSUME TypeOK, PotentialBounded, [Next]_vars PROVE PotentialBounded'
  OBVIOUS
<1>0. /\ link \in Link /\ sock \in [Sockets -> Socket] /\ session \in Sessions
      /\ connects \in Nat /\ resets \in Nat /\ MaxAttempts \in Nat
  BY LinkAssumption DEF TypeOK
<1> DEFINE W == Weight(link)
           K == Cardinality(Kept)
           A == Cardinality(Awaited)
           Grows(k) == Weight(link') + Cardinality(Kept') + Cardinality(Awaited') <= W + K + A + k
<1>1. TypeOK'
  BY TypeStep
<1>2. /\ Potential = W + K + A /\ W \in Nat /\ K \in Nat /\ A \in Nat
  BY PotentialIsWeight
<1>3. /\ Potential' = Weight(link') + Cardinality(Kept') + Cardinality(Awaited')
      /\ Weight(link') \in Nat /\ Cardinality(Kept') \in Nat /\ Cardinality(Awaited') \in Nat
  <2>1. link' \in Link
    BY <1>1 DEF TypeOK
  <2>2. Weight(link') \in Nat /\ LPollers(link') \in Nat /\ LTimers(link') \in Nat
        /\ MaxAttempts - link'.attempts \in Int
    BY <2>1, MethodWeights, LinkAssumption DEF Link
  <2>3. Kept' \in SUBSET Sockets /\ Awaited' \in SUBSET Sockets
    BY DEF Kept, Awaited
  <2>4. Cardinality(Kept') \in Nat /\ Cardinality(Awaited') \in Nat
    BY <2>3, Counts
  <2>5. Pollers' = LPollers(link') /\ Timers' = LTimers(link')
    BY DEF Pollers, LPollers, Timers, LTimers
  <2> QED
    BY <2>2, <2>4, <2>5 DEF Potential, Weight
<1>4. /\ Kept \in SUBSET Sockets /\ Kept' \in SUBSET Sockets
      /\ Awaited \in SUBSET Sockets /\ Awaited' \in SUBSET Sockets
  BY DEF Kept, Awaited
<1>5. MaxAttempts * resets \in Nat /\ MaxAttempts * (resets + 1) = MaxAttempts * resets + MaxAttempts
  BY <1>0
<1>6. ASSUME NEW c \in {0, 1}, NEW r \in {0, 1},
             connects' = connects + c, resets' = resets + r,
             Grows(2 * c + (IF r = 1 THEN MaxAttempts ELSE 0))
      PROVE  PotentialBounded'
  <2> HIDE DEF W, K, A
  <2>1. MaxAttempts * resets' = MaxAttempts * resets + (IF r = 1 THEN MaxAttempts ELSE 0)
    BY <1>0, <1>5, <1>6
  <2> QED
    BY <1>0, <1>2, <1>3, <1>5, <1>6, <2>1 DEF PotentialBounded
<1>7. CASE UNCHANGED vars
  BY <1>7 DEF vars, PotentialBounded, Potential, Pollers, Timers, Kept, Alive, Awaited
<1>8. ASSUME NEW so \in [Sockets -> Socket], NEW by \in Reasons, NEW sn \in Sessions,
             \E s \in Sockets : NewSocket(so, s, by, sn),
             \A q \in Sockets : (so[q].st = "none" <=> sock[q].st = "none") /\ so[q].by = sock[q].by
      PROVE  Cardinality(Kept') <= K + 1 /\ Cardinality(Awaited') <= A + 1
  BY <1>8, NewSocketCounts
<1>9. ASSUME UNCHANGED sock
      PROVE  Cardinality(Kept') = K /\ Cardinality(Awaited') = A
  BY <1>9 DEF Kept, Awaited, Alive
<1>10. CASE Connect
  <2>1. Weight(link') = W
    BY <1>0, <1>10 DEF Connect, Weight, LPollers, LTimers, Link
  <2>2. Cardinality(Kept') <= K + 1 /\ Cardinality(Awaited') <= A + 1
    BY <1>0, <1>8, <1>10 DEF Connect, Reasons
  <2>3. Grows(2 * 1 + (IF 0 = 1 THEN MaxAttempts ELSE 0))
    <3> HIDE DEF W, K, A
    <3> QED
      BY <1>2, <1>3, <2>1, <2>2
  <2>4. connects' = connects + 1 /\ resets' = resets + 0
    BY <1>0, <1>10 DEF Connect
  <2> QED
    BY <1>6, <2>3, <2>4
<1>11. CASE Disconnect
  <2>1. Weight(link') <= W + MaxAttempts
    <3>1. Stopped(link) \in Link /\ Weight(Stopped(link)) <= W + MaxAttempts
      BY <1>0, MethodTypes, ReactionWeights DEF Reasons
    <3>2. Weight([Stopped(link) EXCEPT !.state = "disconnected"]) = Weight(Stopped(link))
      BY <3>1 DEF Weight, LPollers, LTimers, Link
    <3> QED
      BY <1>11, <3>1, <3>2 DEF Disconnect
  <2>2. Cardinality(Kept') <= K /\ Cardinality(Awaited') <= A
    <3>1. Kept' \subseteq Kept /\ Awaited' \subseteq Awaited
      BY <1>11, CloseKeeps DEF Disconnect, Kept, Awaited, Alive
    <3> QED
      BY <1>4, <3>1, Counts
  <2>3. Grows(2 * 0 + (IF 1 = 1 THEN MaxAttempts ELSE 0))
    <3> HIDE DEF W, K, A
    <3> QED
      BY <1>0, <1>2, <1>3, <2>1, <2>2
  <2>4. connects' = connects + 0 /\ resets' = resets + 1
    BY <1>0, <1>11 DEF Disconnect
  <2> QED
    BY <1>6, <2>3, <2>4
<1>12. ASSUME NEW sn \in Sessions, SwitchSession(sn) PROVE PotentialBounded'
  <2>1. Weight(link') <= W + MaxAttempts
    <3>1. Stopped(link) \in Link /\ Weight(Stopped(link)) <= W + MaxAttempts
      BY <1>0, MethodTypes, ReactionWeights DEF Reasons
    <3>2. Weight([Stopped(link) EXCEPT !.state = "connecting"]) = Weight(Stopped(link))
      BY <3>1 DEF Weight, LPollers, LTimers, Link
    <3> QED
      BY <1>12, <3>1, <3>2 DEF SwitchSession
  <2>2. Cardinality(Kept') <= K + 1 /\ Cardinality(Awaited') <= A + 1
    <3>1. /\ CloseCurrent(TRUE) \in [Sockets -> Socket]
          /\ \A q \in Sockets : /\ CloseCurrent(TRUE)[q].st = "none" <=> sock[q].st = "none"
                                /\ CloseCurrent(TRUE)[q].by = sock[q].by
      BY CloseKeeps
    <3>2. \E s \in Sockets : NewSocket(CloseCurrent(TRUE), s, "connect", sn)
      BY <1>12 DEF SwitchSession
    <3> QED
      BY <1>8, <3>1, <3>2 DEF Reasons
  <2>3. Grows(2 * 1 + (IF 1 = 1 THEN MaxAttempts ELSE 0))
    <3> HIDE DEF W, K, A
    <3> QED
      BY <1>0, <1>2, <1>3, <2>1, <2>2
  <2>4. connects' = connects + 1 /\ resets' = resets + 1
    BY <1>12 DEF SwitchSession
  <2> QED
    BY <1>6, <2>3, <2>4
<1>13. ASSUME NEW k \in Int, k <= 0, Grows(k), UNCHANGED <<connects, resets>>
       PROVE  PotentialBounded'
  <2>1. Grows(2 * 0 + (IF 0 = 1 THEN MaxAttempts ELSE 0))
    <3> HIDE DEF W, K, A
    <3> QED
      BY <1>2, <1>3, <1>13
  <2>2. connects' = connects + 0 /\ resets' = resets + 0
    BY <1>0, <1>13
  <2> QED
    BY <1>6, <2>1, <2>2
<1>14. ASSUME NEW sn \in Sessions, KeepLink(sn) PROVE PotentialBounded'
  BY <1>14 DEF KeepLink, PotentialBounded, Potential, Pollers, Timers, Kept, Alive, Awaited
<1>15. CASE RetryTimer
  <2>1. Weight(link') = W - 2
    <3>1. LTimers(link') = LTimers(link) - 1 /\ LPollers(link') = LPollers(link)
          /\ link'.attempts = link.attempts
      BY <1>0, <1>15 DEF RetryTimer, LTimers, LPollers, Link
    <3>2. LTimers(link) \in Nat /\ LPollers(link) \in Nat /\ MaxAttempts - link.attempts \in Int
      BY <1>0, MethodWeights DEF Link
    <3> QED
      BY <3>1, <3>2 DEF Weight
  <2>2. Cardinality(Kept') <= K + 1 /\ Cardinality(Awaited') <= A + 1
    BY <1>0, <1>8, <1>15 DEF RetryTimer, Reasons
  <2>3. Grows(0)
    <3> HIDE DEF W, K, A
    <3> QED
      BY <1>2, <1>3, <2>1, <2>2
  <2> QED
    BY <1>13, <1>15, <2>3 DEF RetryTimer
<1>16. CASE PollStarted
  <2>1. Weight(link') = W
    <3>1. /\ LPollers(link') = LPollers(link) /\ LTimers(link') = LTimers(link)
          /\ link'.attempts = link.attempts
      BY <1>0, <1>16 DEF PollStarted, LTimers, LPollers, Link
    <3> QED
      BY <3>1 DEF Weight
  <2>2. Grows(0)
    <3>1. UNCHANGED sock
      BY <1>16 DEF PollStarted
    <3>2. Cardinality(Kept') = K /\ Cardinality(Awaited') = A
      BY <1>9, <3>1
    <3> HIDE DEF W, K, A
    <3> QED
      BY <1>2, <1>3, <2>1, <3>2
  <2> QED
    BY <1>13, <1>16, <2>2 DEF PollStarted
<1>17. ASSUME NEW s \in Sockets, OnOpen(s) PROVE PotentialBounded'
  <2>1. Weight(link') <= W + MaxAttempts
    <3>1. /\ LPollers(link') = LPollers(link) /\ LTimers(link') = LTimers(link)
          /\ link'.attempts = 0
      BY <1>0, <1>17 DEF OnOpen, LTimers, LPollers, Link
    <3>2. LTimers(link) \in Nat /\ LPollers(link) \in Nat /\ link.attempts \in 0..MaxAttempts
      BY <1>0, MethodWeights DEF Link
    <3> QED
      BY <1>0, <3>1, <3>2 DEF Weight
  <2>2. Cardinality(Kept') <= K /\ Cardinality(Awaited') <= A
    <3>1. Kept' \subseteq Kept /\ Awaited' \subseteq Awaited
      BY <1>0, <1>17 DEF OnOpen, Kept, Awaited, Alive, Socket
    <3> QED
      BY <1>4, <3>1, Counts
  <2>3. Grows(2 * 0 + (IF 1 = 1 THEN MaxAttempts ELSE 0))
    <3> HIDE DEF W, K, A
    <3> QED
      BY <1>0, <1>2, <1>3, <2>1, <2>2
  <2>4. connects' = connects + 0 /\ resets' = resets + 1
    BY <1>0, <1>17 DEF OnOpen
  <2> QED
    BY <1>6, <2>3, <2>4
<1>18. ASSUME NEW s \in Sockets, OnFail(s) PROVE PotentialBounded'
  <2> DEFINE d == IF sock[s].by = "settled" THEN 0 ELSE 1
  <2>1. sock[s].by \in Reasons
    BY <1>0 DEF Socket, Reasons
  <2>2. Weight(link') <= W + d + 1
    <3>1. Rejected(link, sock[s].by) \in Link /\ Weight(Rejected(link, sock[s].by)) <= W + d
      BY <1>0, <2>1, ReactionTypes, ReactionWeights
    <3>2. Weight(link') <= Weight(Rejected(link, sock[s].by)) + 1
      BY <1>18, <3>1, ReactionWeights DEF OnFail, Reasons
    <3>3. Weight(Rejected(link, sock[s].by)) \in Nat
      BY <3>1, MethodWeights
    <3> HIDE DEF W
    <3> QED
      BY <1>2, <1>3, <3>1, <3>2, <3>3
  <2>3. Cardinality(Kept') <= K - 1
    <3>1. s \in Kept /\ Kept' \subseteq Kept \ {s}
      BY <1>0, <1>18 DEF OnFail, Kept, Alive, NoSocket
    <3> QED
      BY <1>4, <3>1, Counts
  <2>4. Cardinality(Awaited') <= A - d
    <3>1. CASE sock[s].by = "settled"
      <4>1. Awaited' \subseteq Awaited
        BY <1>0, <1>18 DEF OnFail, Awaited, NoSocket
      <4> QED
        BY <1>2, <1>4, <3>1, <4>1, Counts
    <3>2. CASE sock[s].by # "settled"
      <4>1. s \in Awaited /\ Awaited' \subseteq Awaited \ {s}
        BY <1>0, <1>18, <3>2 DEF OnFail, Awaited, NoSocket
      <4> QED
        BY <1>4, <3>2, <4>1, Counts
    <3> QED
      BY <3>1, <3>2
  <2>5. Grows(0)
    <3>1. d \in Nat
      OBVIOUS
    <3> HIDE DEF W, K, A, d
    <3> QED
      BY <1>2, <1>3, <2>2, <2>3, <2>4, <3>1
  <2>6. UNCHANGED <<connects, resets>>
    BY <1>18 DEF OnFail
  <2> QED
    BY <1>13, <2>5, <2>6
<1>19. ASSUME NEW s \in Sockets, OnTimeout(s) PROVE PotentialBounded'
  <2> DEFINE d == IF sock[s].by = "settled" THEN 0 ELSE 1
  <2>1. sock[s].by \in Reasons
    BY <1>0 DEF Socket, Reasons
  <2>2. Weight(link') <= W + d
    BY <1>0, <1>19, <2>1, ReactionWeights DEF OnTimeout
  <2>3. /\ CloseCurrent(FALSE) \in [Sockets -> Socket]
        /\ \A q \in Sockets : /\ CloseCurrent(FALSE)[q].st = "none" <=> sock[q].st = "none"
                              /\ CloseCurrent(FALSE)[q].by = sock[q].by
    BY CloseKeeps
  <2>4. \A q \in Sockets : /\ sock'[q].st = CloseCurrent(FALSE)[q].st
                           /\ sock'[q].by = IF q = s THEN "settled" ELSE CloseCurrent(FALSE)[q].by
    BY <1>19, <2>3 DEF OnTimeout, Socket
  <2>5. Kept' \subseteq Kept /\ Awaited' \subseteq Awaited \ {s}
    BY <2>3, <2>4 DEF Kept, Awaited, Alive
  <2>6. Cardinality(Kept') <= K
    BY <1>4, <2>5, Counts
  <2>7. Cardinality(Awaited') <= A - d
    <3>1. CASE sock[s].by = "settled"
      BY <1>2, <1>4, <2>5, <3>1, Counts
    <3>2. CASE sock[s].by # "settled"
      <4>1. s \in Awaited
        BY <3>2 DEF Awaited
      <4> QED
        BY <1>4, <2>5, <3>2, <4>1, Counts
    <3> QED
      BY <3>1, <3>2
  <2>8. Grows(0)
    <3>1. d \in Nat
      OBVIOUS
    <3> HIDE DEF W, K, A, d
    <3> QED
      BY <1>2, <1>3, <2>2, <2>6, <2>7, <3>1
  <2> QED
    BY <1>13, <1>19, <2>8 DEF OnTimeout
<1>20. ASSUME NEW s \in Sockets, NEW normal \in BOOLEAN, OnClose(s, normal)
       PROVE  PotentialBounded'
  <2>1. Weight(link') <= W + 1
    BY <1>0, <1>20, ReactionWeights DEF OnClose, Reasons
  <2>2. s \in Kept /\ Kept' \subseteq Kept \ {s} /\ Awaited' \subseteq Awaited
    BY <1>0, <1>20 DEF OnClose, Kept, Awaited, Alive, NoSocket
  <2>3. Cardinality(Kept') <= K - 1 /\ Cardinality(Awaited') <= A
    BY <1>4, <2>2, Counts
  <2>4. Grows(0)
    <3> HIDE DEF W, K, A
    <3> QED
      BY <1>2, <1>3, <2>1, <2>3
  <2> QED
    BY <1>13, <1>20, <2>4 DEF OnClose
<1> QED
  BY <1>7, <1>10, <1>11, <1>12, <1>14, <1>15, <1>16, <1>17, <1>18, <1>19, <1>20
     DEF Next, SetSessionId

(* However attempts fail, overlap and are reported twice, the client has no more
   pollers than two for each connect() and one for each attempt between two
   resets: the potential bounds them, and only a connect or a reset adds to it. *)
THEOREM PollingBounded == Spec => []PollersBounded
<1>1. Init => PotentialBounded
  <2> SUFFICES ASSUME Init PROVE PotentialBounded
    OBVIOUS
  <2>1. Kept = {} /\ Awaited = {}
    BY DEF Init, Kept, Awaited, Alive, NoSocket
  <2>2. Cardinality(Kept) = 0 /\ Cardinality(Awaited) = 0
    BY <2>1, FS_EmptySet
  <2>3. Pollers = 0 /\ Timers = 0 /\ link.attempts = 0 /\ connects = 0 /\ resets = 0
    BY DEF Init, Pollers, Timers
  <2> QED
    BY <2>2, <2>3, LinkAssumption DEF PotentialBounded, Potential
<1>2. TypeOK /\ PotentialBounded => PollersBounded
  <2> SUFFICES ASSUME TypeOK, PotentialBounded PROVE PollersBounded
    OBVIOUS
  <2>1. Pollers <= Potential /\ Pollers \in Nat /\ Potential \in Nat
    BY PotentialIsWeight
  <2>2. MaxAttempts + 2 * connects + MaxAttempts * resets \in Nat
    BY LinkAssumption DEF TypeOK
  <2> QED
    BY <2>1, <2>2 DEF PotentialBounded, PollersBounded
<1> QED
  BY <1>1, <1>2, TypeInit, TypeStep, PotentialStep, PTL DEF Spec
=============================================================================
