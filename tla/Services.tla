------------------------------ MODULE Services ------------------------------
(***************************************************************************)
(* The wallet and the backends over one database and one queue: processes  *)
(* that start and migrate, and the events of the backends that serve.  A   *)
(* backend that stops cuts off the producers it runs and leaves the jobs   *)
(* it works on; compose starts it again.                                   *)
(***************************************************************************)
EXTENDS Sequences, Naturals

CONSTANTS Wallet, Backend, File, FilesOf, MaxCrashes,
          Event, Attempts, Stalls, MaxFaults, None

Process == Wallet \cup Backend

ASSUME FilesAreLists == FilesOf \in [Process -> Seq(File)]
ASSUME QueueOptions == Attempts \in Nat \ {0} /\ Stalls \in Nat
ASSUME BoundsAreNatural == MaxCrashes \in Nat /\ MaxFaults \in Nat

VARIABLES pc, at, tracked, recorded, executed, crashes,
          producer, job, from, by, tried, stalled, handled, logged, faults

M == INSTANCE Migrations
E == INSTANCE Events

startVars == <<pc, at, tracked, recorded, executed, crashes>>
eventVars == <<producer, job, from, by, tried, stalled, handled, logged, faults>>
vars == <<startVars, eventVars>>

Init == M!Init /\ E!Init

Start(p) == M!Step(p) /\ UNCHANGED eventVars

Stop(p) ==
    /\ M!Crash(p)
    /\ IF p \in Backend THEN E!Dies(p) ELSE UNCHANGED eventVars

\* Both the producers and the workers run in backends that serve.
Produce(e) ==
    /\ \/ \E b \in Backend : M!Serves(b) /\ E!Write(e, b)
       \/ E!Add(e) \/ E!Publish(e) \/ E!PublishFails(e)
    /\ UNCHANGED startVars

Take(e) ==
    /\ \E b \in Backend : M!Serves(b) /\ E!Take(e, b)
    /\ UNCHANGED startVars

Work(e) ==
    /\ E!Process(e) \/ E!ProcessThrows(e) \/ E!Complete(e) \/ E!Backoff(e)
    /\ UNCHANGED startVars

Next ==
    \/ \E p \in Process : Start(p) \/ Stop(p)
    \/ \E e \in Event : Produce(e) \/ Take(e) \/ Work(e)

Spec == Init /\ [][Next]_vars

\* The database and the queue answer, and compose restarts what has exited
\* ("restart: unless-stopped").  No round, deposit or withdrawal has to come.
FairSpec ==
    /\ Spec
    /\ \A p \in Process : WF_vars(Start(p))
    /\ \A e \in Event : /\ WF_vars(producer[e] = "written" /\ Produce(e))
                        /\ WF_vars(Take(e)) /\ WF_vars(Work(e))

---------------------------------------------------------------------------
(* Properties.                                                             *)

SchemaIsWhole == M!SchemaIsWhole
EventsAreAccounted == E!EventsAreAccounted

\* However starts collide and processes stop, every process serves in the end and
\* for good: a lost race costs a restart, never a start that cannot succeed.
EveryoneServes == \A p \in Process : <>[]M!Serves(p)

\* An event whose write is done ends in the log of the subscriber or in the failed
\* set, is in the log as lost, or died with its producer.
WrittenEventsEnd ==
    \A e \in Event :
        producer[e] = "written" ~>
            \/ job[e] \in {"completed", "failed"}
            \/ e \in logged \/ producer[e] = "died"
=============================================================================
