----------------------------- MODULE Migrations -----------------------------
(***************************************************************************)
(* The start of the two services (apps/wallet cmd/server and               *)
(* adapters/postgres/migrate.go; apps/backend main.ts and                  *)
(* shared/db/migrate.ts).  Each process, before it serves, applies its own *)
(* list of .sql files in order, each in a transaction with the row that    *)
(* records it; all share one database and one schema_migrations table.     *)
(* A process that fails exits, and compose starts it again.  Every file    *)
(* creates what it creates IF NOT EXISTS.                                  *)
(***************************************************************************)
EXTENDS Sequences, Naturals

CONSTANTS Process,
          File,
          FilesOf,      \* the files of each process, in lexical order
          MaxCrashes    \* bound: failed statements and crashes

VARIABLES pc,         \* the statement each process executes next
          at,         \* the file it is at, an index into its list
          tracked,    \* schema_migrations exists
          recorded,   \* the names in it
          executed,   \* how often each file has been executed and committed
          crashes

schema == <<tracked, recorded, executed>>

Statement == {"createTable", "creating", "check", "execute", "wait", "record", "commit", "rollback"}

TypeOK ==
    /\ pc \in [Process -> Statement \cup {"down", "serving"}]
    /\ at \in [Process -> Nat] /\ \A p \in Process : at[p] \in 1 .. Len(FilesOf[p]) + 1
    /\ tracked \in BOOLEAN /\ recorded \subseteq File
    /\ executed \in [File -> Nat] /\ crashes \in 0 .. MaxCrashes

Init ==
    /\ pc = [p \in Process |-> "down"] /\ at = [p \in Process |-> 1]
    /\ tracked = FALSE /\ recorded = {}
    /\ executed = [f \in File |-> 0] /\ crashes = 0

---------------------------------------------------------------------------

Exists(f) == executed[f] > 0

Name(p) == FilesOf[p][at[p]]

\* A process other than p has executed the file in a transaction that is open.
IsHeld(p, f) ==
    \E q \in Process \ {p} :
        pc[q] \in {"record", "commit", "rollback"} /\ Name(q) = f

Goto(p, point) == pc' = [pc EXCEPT ![p] = point] /\ UNCHANGED crashes

\* main and bootstrap, from the start or from compose's restart.
Start(p) ==
    /\ pc[p] = "down"
    /\ Goto(p, "createTable")
    /\ at' = [at EXCEPT ![p] = 1]
    /\ UNCHANGED schema

\* CREATE TABLE IF NOT EXISTS looks first and creates then: of two at once, one
\* is refused by the catalog, and its process exits.
CreateTable(p) ==
    /\ pc[p] = "createTable"
    /\ Goto(p, IF tracked THEN "check" ELSE "creating")
    /\ UNCHANGED <<at, schema>>

TableCreated(p) ==
    /\ pc[p] = "creating"
    /\ tracked' = TRUE
    /\ Goto(p, IF tracked THEN "down" ELSE "check")
    /\ UNCHANGED <<at, recorded, executed>>

\* Mutant: the table is not consulted.
CheckNothing(p) ==
    /\ pc[p] = "check"
    /\ Goto(p, IF at[p] > Len(FilesOf[p]) THEN "serving" ELSE "execute")
    /\ UNCHANGED <<at, schema>>

\* SELECT EXISTS: the next file, or the end of the list.
Check(p) ==
    /\ pc[p] = "check"
    /\ IF at[p] > Len(FilesOf[p])
       THEN Goto(p, "serving") /\ UNCHANGED at
       ELSE IF Name(p) \in recorded
       THEN at' = [at EXCEPT ![p] = @ + 1] /\ UNCHANGED <<pc, crashes>>
       ELSE Goto(p, "execute") /\ UNCHANGED at
    /\ UNCHANGED schema

\* Mutant: no transaction around the file and its row.
ExecuteUntransacted(p) ==
    /\ pc[p] = "execute"
    /\ executed' = [executed EXCEPT ![Name(p)] = @ + 1]
    /\ Goto(p, "record")
    /\ UNCHANGED <<at, tracked, recorded>>

\* BEGIN and the file.  What exists is left alone; what another transaction is
\* creating has to be waited for.
Execute(p) ==
    /\ pc[p] = "execute"
    /\ Goto(p, IF ~Exists(Name(p)) /\ IsHeld(p, Name(p)) THEN "wait" ELSE "record")
    /\ UNCHANGED <<at, schema>>

\* The other transaction has ended: what it has committed cannot be created now.
StopWaiting(p) ==
    /\ pc[p] = "wait"
    /\ ~IsHeld(p, Name(p))
    /\ Goto(p, IF Exists(Name(p)) THEN "rollback" ELSE "record")
    /\ UNCHANGED <<at, schema>>

\* INSERT INTO schema_migrations, whose key is the name.
Record(p) ==
    /\ pc[p] = "record"
    /\ Goto(p, IF Name(p) \in recorded THEN "rollback" ELSE "commit")
    /\ UNCHANGED <<at, schema>>

Committed(p) ==
    /\ recorded' = recorded \cup {Name(p)}
    /\ executed' = [executed EXCEPT ![Name(p)] = @ + 1]
    /\ UNCHANGED tracked

Commit(p) ==
    /\ pc[p] = "commit"
    /\ Committed(p)
    /\ Goto(p, "check")
    /\ at' = [at EXCEPT ![p] = @ + 1]

\* ROLLBACK; the error ends the process.
Rollback(p) ==
    /\ pc[p] = "rollback"
    /\ Goto(p, "down")
    /\ UNCHANGED <<at, schema>>

\* The process stops, or a statement fails and ends it; the database rolls the
\* open transaction back, unless only the answer of its commit is lost.
Crash(p) ==
    /\ pc[p] # "down" /\ crashes < MaxCrashes
    /\ crashes' = crashes + 1
    /\ pc' = [pc EXCEPT ![p] = "down"]
    /\ UNCHANGED at
    /\ \/ UNCHANGED schema
       \/ pc[p] = "commit" /\ Committed(p)

Step(p) ==
    \/ Start(p)
    \/ CreateTable(p) \/ TableCreated(p)
    \/ Check(p) \/ Execute(p) \/ StopWaiting(p)
    \/ Record(p) \/ Commit(p) \/ Rollback(p)

---------------------------------------------------------------------------
(* Properties.                                                             *)

Serves(p) == pc[p] = "serving"

\* However processes start together, fail and start again: a file is executed
\* once and recorded if and only if it is executed, a process is never past a
\* file that is missing, and it serves on all of its tables.
SchemaIsWhole ==
    /\ TypeOK
    /\ \A f \in File : executed[f] = IF f \in recorded THEN 1 ELSE 0
    /\ \A p \in Process :
         \A i \in DOMAIN FilesOf[p] : i < at[p] \/ Serves(p) => FilesOf[p][i] \in recorded
=============================================================================
