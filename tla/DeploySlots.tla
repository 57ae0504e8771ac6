---------------------------- MODULE DeploySlots ----------------------------
(***************************************************************************)
(* What the deployment transaction transport promises to those who publish *)
(* requests: two slots that only a free one is leased from, a program that *)
(* runs under the lease of its request alone, a production build under the *)
(* lease of every slot, once to success, and an answer that does not claim *)
(* more.  DeployLease, the code, is checked and proved to implement it.    *)
(***************************************************************************)

CONSTANTS Requests, Production, Slots, None, Torn

VARIABLES
    held,     \* whom a slot is leased to; Torn: a crash left nobody's marker
    running,  \* the requests whose program runs
    done,     \* the requests whose program ran to success
    answer    \* what is reported of a request

Free == {s \in Slots : held[s] = None}

(* A request may run under its lease. *)
Leased(r) == IF r \in Production THEN \A s \in Slots : held[s] = r
                                 ELSE \E s \in Slots : held[s] = r

Init ==
    /\ held = [s \in Slots |-> None] /\ running = {} /\ done = {}
    /\ answer = [r \in Requests |-> None]

(* An id that nothing is left of is used again. *)
Publish(r) ==
    /\ r \notin running /\ \A s \in Slots : held[s] # r
    /\ done' = done \ {r}
    /\ answer' = [answer EXCEPT ![r] = None]
    /\ UNCHANGED <<held, running>>

(* Free slots are leased to a request; a crash may leave some of them torn. *)
Take(r) ==
    /\ held' \in [Slots -> Requests \cup {None, Torn}]
    /\ \A s \in Slots : held'[s] # held[s] => s \in Free /\ held'[s] \in {r, Torn}
    /\ UNCHANGED <<running, done, answer>>

Start(r) ==
    /\ Leased(r) /\ r \notin running \cup done
    /\ running' = running \cup {r}
    /\ UNCHANGED <<held, done, answer>>

(* Programs end without success: alone, or because they are stopped. *)
Stop ==
    /\ running' \subseteq running
    /\ UNCHANGED <<held, done, answer>>

(* A program has run to success, and holds its lease still. *)
Complete(r) ==
    /\ Leased(r)
    /\ running' = running \ {r} /\ done' = done \cup {r}
    /\ UNCHANGED <<held, answer>>

(* Slots of a request whose program does not run become free. *)
Release(r) ==
    /\ r \notin running
    /\ held' \in [Slots -> Requests \cup {None, Torn}]
    /\ \A s \in Slots : held'[s] # held[s] => held[s] = r /\ held'[s] = None
    /\ UNCHANGED <<running, done, answer>>

Report(r) ==
    /\ \/ r \in done /\ answer' = [answer EXCEPT ![r] = "succeeded"]
       \/ answer' = [answer EXCEPT ![r] = "failed"]
    /\ UNCHANGED <<held, running, done>>

Next == \/ \E r \in Requests : \/ Publish(r) \/ Take(r) \/ Start(r)
                               \/ Complete(r) \/ Release(r) \/ Report(r)
        \/ Stop

Spec == Init /\ [][Next]_<<held, running, done, answer>>
=============================================================================
