----------------------------- MODULE ReceiptLog -----------------------------
(***************************************************************************)
(* What the receipt journal of one production deployment promises: phases  *)
(* run one at a time and in order, each only after the receipts of the     *)
(* earlier ones are durable; a receipt is never changed; the lease is      *)
(* freed only when nothing runs and the journal is complete or gone; and   *)
(* success is reported for a complete journal alone.                       *)
(***************************************************************************)
EXTENDS Naturals, Sequences

CONSTANTS
    Count,      \* number of phases; the last one is the cleanup
    None

VARIABLES
    log,        \* the evidence sealed so far, phase by phase
    running,    \* the phase an actor is running
    dropped,    \* the journal was given up
    held,       \* the exclusive lease
    outcome

logVars == <<log, running, dropped, held, outcome>>

LogInit == /\ log = <<>> /\ running = None /\ dropped = FALSE
           /\ held = TRUE /\ outcome = None

Open == held /\ ~dropped

Start == /\ Open /\ running = None /\ Len(log) < Count - 1
         /\ running' = Len(log)
         /\ UNCHANGED <<log, dropped, held, outcome>>

End == /\ running # None
       /\ running' = None
       /\ UNCHANGED <<log, dropped, held, outcome>>

Seal == /\ Open /\ running = None /\ Len(log) < Count
        /\ Len(log') = Len(log) + 1
        /\ SubSeq(log', 1, Len(log)) = log
        /\ UNCHANGED <<running, dropped, held, outcome>>

Drop == /\ Open /\ running = None /\ Len(log) < Count
        /\ log' = <<>> /\ dropped' = TRUE
        /\ UNCHANGED <<running, held, outcome>>

Release == /\ held /\ running = None
           /\ dropped \/ Len(log) = Count
           /\ held' = FALSE
           /\ UNCHANGED <<log, running, dropped, outcome>>

Fail == /\ outcome' = "failed"
        /\ UNCHANGED <<log, running, dropped, held>>

Succeed == /\ ~held /\ Len(log) = Count
           /\ outcome' = "succeeded"
           /\ UNCHANGED <<log, running, dropped, held>>

LogNext == Start \/ End \/ Seal \/ Drop \/ Release \/ Fail \/ Succeed

LogSpec == LogInit /\ [][LogNext]_logVars
=============================================================================
