------------------------------- MODULE Events -------------------------------
(***************************************************************************)
(* The event bus (apps/backend, shared/events): a producer writes to its   *)
(* table and then publishes once; the queue keeps the job in Redis; a      *)
(* worker of any backend hands it to the reporting subscriber, with        *)
(* retries.  BullMQ is modelled from the options it is given: a job whose  *)
(* handler throws is tried again after a delay until its attempts are used *)
(* up, and one whose worker has died is given to a worker once more.       *)
(***************************************************************************)
EXTENDS Naturals

CONSTANTS Event,
          Backend,
          Attempts,      \* defaultJobOptions.attempts
          Stalls,        \* maxStalledCount, BullMQ's default
          MaxFaults,     \* bound: failed publishes and throwing handlers
          None

VARIABLES producer,   \* the request or pass that produces each event
          job,        \* the event's job in the queue
          from,       \* the backend that produces it
          by,         \* the backend whose worker has its job
          tried,      \* handlers of it that threw
          stalled,    \* workers that died with it
          handled,    \* handlers of it that ran to their end
          logged,     \* events whose publish failed, in the log
          faults

TypeOK ==
    /\ producer \in [Event -> {"none", "written", "answered", "died"}]
    /\ job \in [Event -> {"none", "waiting", "active", "handled", "delayed", "completed", "failed"}]
    /\ from \in [Event -> Backend \cup {None}] /\ by \in [Event -> Backend \cup {None}]
    /\ tried \in [Event -> 0 .. Attempts] /\ stalled \in [Event -> 0 .. Stalls + 1]
    /\ handled \in [Event -> Nat]
    /\ logged \subseteq Event /\ faults \in 0 .. MaxFaults

Init ==
    /\ producer = [e \in Event |-> "none"] /\ job = [e \in Event |-> "none"]
    /\ from = [e \in Event |-> None] /\ by = [e \in Event |-> None]
    /\ tried = [e \in Event |-> 0] /\ stalled = [e \in Event |-> 0]
    /\ handled = [e \in Event |-> 0]
    /\ logged = {} /\ faults = 0

---------------------------------------------------------------------------
(* The producers: a round, a deposit, a withdrawal.                        *)

\* The round is saved, the deposit marked or the withdrawal sent.
Write(e, b) ==
    /\ producer[e] = "none"
    /\ producer' = [producer EXCEPT ![e] = "written"]
    /\ from' = [from EXCEPT ![e] = b]
    /\ UNCHANGED <<job, by, tried, stalled, handled, logged, faults>>

\* queue.add takes effect; its answer is still to come.
Add(e) ==
    /\ producer[e] = "written" /\ job[e] = "none"
    /\ job' = [job EXCEPT ![e] = "waiting"]
    /\ UNCHANGED <<producer, from, by, tried, stalled, handled, logged, faults>>

\* publish never throws: the producer goes on to its answer.
GoesOn(e) ==
    /\ producer[e] = "written"
    /\ producer' = [producer EXCEPT ![e] = "answered"]
    /\ from' = [from EXCEPT ![e] = None]
    /\ UNCHANGED <<job, by, tried, stalled, handled>>

\* queue.add answers.
Publish(e) ==
    /\ GoesOn(e) /\ job[e] # "none"
    /\ UNCHANGED <<logged, faults>>

\* Mutant: the catch is empty.
PublishFailsUnlogged(e) ==
    /\ GoesOn(e) /\ faults < MaxFaults
    /\ faults' = faults + 1
    /\ UNCHANGED logged

\* queue.add fails, or its answer is lost; either is logged.
PublishFails(e) ==
    /\ GoesOn(e) /\ faults < MaxFaults
    /\ faults' = faults + 1
    /\ logged' = logged \cup {e}

---------------------------------------------------------------------------
(* The queue and the reporting subscriber.                                 *)

\* Mutant: a job is handed to a worker once.
TakeOnce(e, b) ==
    /\ job[e] = "waiting" /\ tried[e] = 0
    /\ job' = [job EXCEPT ![e] = "active"]
    /\ by' = [by EXCEPT ![e] = b]
    /\ UNCHANGED <<producer, from, tried, stalled, handled, logged, faults>>

\* The worker of a backend reserves the job.
Take(e, b) ==
    /\ job[e] = "waiting"
    /\ job' = [job EXCEPT ![e] = "active"]
    /\ by' = [by EXCEPT ![e] = b]
    /\ UNCHANGED <<producer, from, tried, stalled, handled, logged, faults>>

\* process: the switch logs the event.
Process(e) ==
    /\ job[e] = "active"
    /\ job' = [job EXCEPT ![e] = "handled"]
    /\ handled' = [handled EXCEPT ![e] = @ + 1]
    /\ UNCHANGED <<producer, from, by, tried, stalled, logged, faults>>

Complete(e) ==
    /\ job[e] = "handled"
    /\ job' = [job EXCEPT ![e] = "completed"]
    /\ by' = [by EXCEPT ![e] = None]
    /\ UNCHANGED <<producer, from, tried, stalled, handled, logged, faults>>

\* Mutant: one attempt is missing.
ProcessThrowsLate(e) ==
    /\ job[e] = "active" /\ faults < MaxFaults
    /\ faults' = faults + 1
    /\ tried' = [tried EXCEPT ![e] = @ + 1]
    /\ job' = [job EXCEPT ![e] = IF tried'[e] + 1 < Attempts THEN "delayed" ELSE "failed"]
    /\ by' = [by EXCEPT ![e] = None]
    /\ UNCHANGED <<producer, from, stalled, handled, logged>>

\* A handler that throws is tried again after the backoff; the last attempt's job
\* stays in the failed set.
ProcessThrows(e) ==
    /\ job[e] = "active" /\ faults < MaxFaults
    /\ faults' = faults + 1
    /\ tried' = [tried EXCEPT ![e] = @ + 1]
    /\ job' = [job EXCEPT ![e] = IF tried'[e] < Attempts THEN "delayed" ELSE "failed"]
    /\ by' = [by EXCEPT ![e] = None]
    /\ UNCHANGED <<producer, from, stalled, handled, logged>>

Backoff(e) ==
    /\ job[e] = "delayed"
    /\ job' = [job EXCEPT ![e] = "waiting"]
    /\ UNCHANGED <<producer, from, by, tried, stalled, handled, logged, faults>>

\* Backend b dies: what it was producing is cut off, what it was working on is
\* given to another worker, or fails if that has happened too often.
Dies(b) ==
    LET cut == {e \in Event : from[e] = b /\ producer[e] = "written"}
        left == {e \in Event : by[e] = b /\ job[e] \in {"active", "handled"}}
    IN  /\ producer' = [e \in Event |-> IF e \in cut THEN "died" ELSE producer[e]]
        /\ stalled' = [e \in Event |-> IF e \in left THEN stalled[e] + 1 ELSE stalled[e]]
        /\ job' = [e \in Event |-> IF e \notin left THEN job[e]
                                   ELSE IF stalled'[e] > Stalls THEN "failed" ELSE "waiting"]
        /\ from' = [e \in Event |-> IF e \in cut THEN None ELSE from[e]]
        /\ by' = [e \in Event |-> IF e \in left THEN None ELSE by[e]]
        /\ UNCHANGED <<tried, handled, logged, faults>>

---------------------------------------------------------------------------
(* Properties.                                                             *)

\* The event of a write is lost only with an entry in the log or with the process
\* that produced it: the queue has every other, until a handler has run to its end
\* or its job is in the failed set, for attempts used up or workers dead too often.
\* It is reported twice only if a worker died before it could say so.
EventsAreAccounted ==
    /\ TypeOK
    /\ \A e \in Event :
         /\ producer[e] = "answered" /\ job[e] = "none" => e \in logged
         /\ job[e] = "failed" => tried[e] = Attempts \/ stalled[e] > Stalls
         /\ job[e] = "completed" => handled[e] > 0
         /\ handled[e] <= 1 + stalled[e]
=============================================================================
