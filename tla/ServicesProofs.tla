--------------------------- MODULE ServicesProofs ---------------------------
(***************************************************************************)
(* What holds of the services' starts and of the backends' events for      *)
(* every set of processes, every list of migration files, shared or not,   *)
(* and every number of attempts and stalls the queue allows: the schema is *)
(* whole, and every event is accounted for.                                *)
(***************************************************************************)
EXTENDS Services, TLAPS

InTransaction == {"record", "commit"}
AtFile == {"execute", "wait", "rollback"} \cup InTransaction

\* Two processes are never about to record one file that is not recorded yet: the
\* locks of the first make the second wait.
FilesAreHeld ==
    /\ \A p \in Process :
        /\ pc[p] \in AtFile => at[p] <= Len(FilesOf[p])
        /\ pc[p] = "commit" => M!Name(p) \notin recorded
        /\ pc[p] = "rollback" => M!Name(p) \in recorded
    /\ \A p, q \in Process :
        p # q /\ pc[p] \in InTransaction /\ pc[q] \in InTransaction /\ M!Name(p) = M!Name(q)
            => M!Name(p) \in recorded

SchemaInv == M!SchemaIsWhole /\ FilesAreHeld

\* The jobs that a worker has, will have, or has again after the backoff.
Live == {"waiting", "active", "handled", "delayed"}

\* A job the queue still works on has attempts left, and each of its handlers that
\* ran to the end before was cut off with its worker.
JobsAreCounted ==
    \A e \in Event :
        /\ job[e] # "none" => producer[e] # "none"
        /\ job[e] = "none" => tried[e] = 0 /\ stalled[e] = 0
        /\ job[e] \in Live => tried[e] < Attempts /\ stalled[e] <= Stalls
        /\ job[e] \in {"handled", "completed"} => handled[e] > 0
        /\ handled[e] <= stalled[e] + (IF job[e] \in {"handled", "completed"} THEN 1 ELSE 0)

EventsInv == E!EventsAreAccounted /\ JobsAreCounted

IInv == SchemaInv /\ EventsInv

---------------------------------------------------------------------------
(* The start of the processes.                                             *)

\* The file a process is at is one of its list, and of the files.
LEMMA NameIsFile ==
    ASSUME M!TypeOK, NEW p \in Process, at[p] <= Len(FilesOf[p])
    PROVE  /\ at[p] \in Nat /\ Len(FilesOf[p]) \in Nat
           /\ at[p] \in DOMAIN FilesOf[p]
           /\ M!Name(p) \in File /\ M!Name(p) = FilesOf[p][at[p]]
<1>1. FilesOf[p] \in Seq(File)
  BY FilesAreLists
<1>2. Len(FilesOf[p]) \in Nat /\ DOMAIN FilesOf[p] = 1 .. Len(FilesOf[p])
  BY <1>1
<1>3. at[p] \in 1 .. Len(FilesOf[p]) + 1
  BY DEF M!TypeOK
<1>4. at[p] \in 1 .. Len(FilesOf[p])
  BY <1>2, <1>3
<1>5. FilesOf[p][at[p]] \in File
  BY <1>1, <1>2, <1>4
<1>6. QED
  BY <1>2, <1>4, <1>5 DEF M!Name

\* Migrations start with every file to do.
LEMMA SchemaInit ==
    ASSUME M!Init
    PROVE  SchemaInv
<1>1. \A p \in Process : Len(FilesOf[p]) \in Nat
  BY FilesAreLists
<1>2. M!TypeOK
  <2>1. \A p \in Process : at[p] = 1
    BY DEF M!Init
  <2>2. \A p \in Process : at[p] \in 1 .. Len(FilesOf[p]) + 1
    BY <1>1, <2>1
  <2>3. crashes \in 0 .. MaxCrashes
    BY BoundsAreNatural DEF M!Init
  <2>4. QED
    BY <2>2, <2>3 DEF M!Init, M!TypeOK, M!Statement
<1>3. M!SchemaIsWhole
  <2>1. \A p \in Process : at[p] = 1 /\ pc[p] = "down" /\ DOMAIN FilesOf[p] \subseteq Nat \ {0}
    BY FilesAreLists DEF M!Init
  <2>2. \A p \in Process : \A i \in DOMAIN FilesOf[p] : ~ (i < at[p] \/ M!Serves(p))
    BY <2>1 DEF M!Serves
  <2>3. \A f \in File : executed[f] = IF f \in recorded THEN 1 ELSE 0
    BY DEF M!Init
  <2>4. QED
    BY <1>2, <2>2, <2>3 DEF M!SchemaIsWhole
<1>4. FilesAreHeld
  BY DEF M!Init, FilesAreHeld, AtFile, InTransaction
<1>5. QED
  BY <1>3, <1>4 DEF SchemaInv

\* A step that writes nothing moves one process on, to where its file allows.
LEMMA MoveKeepsSchema ==
    ASSUME SchemaInv, NEW p \in Process, NEW point \in M!Statement \cup {"down", "serving"},
           pc' = [pc EXCEPT ![p] = point],
           UNCHANGED <<at, recorded, executed>>, tracked' \in BOOLEAN,
           crashes' \in 0 .. MaxCrashes,
           point \in AtFile => at[p] <= Len(FilesOf[p]),
           point = "commit" => M!Name(p) \notin recorded,
           point = "rollback" => M!Name(p) \in recorded,
           point \in InTransaction => \A q \in Process \ {p} :
              pc[q] \in InTransaction /\ M!Name(q) = M!Name(p) => M!Name(p) \in recorded,
           point = "serving" => at[p] > Len(FilesOf[p])
    PROVE  SchemaInv'
<1> USE DEF SchemaInv
<1>1. /\ pc'[p] = point /\ \A q \in Process \ {p} : pc'[q] = pc[q]
      /\ \A q \in Process : M!Name(q)' = M!Name(q)
  BY DEF M!SchemaIsWhole, M!TypeOK, M!Name
<1>2. M!TypeOK'
  BY DEF M!SchemaIsWhole, M!TypeOK
<1>3. \A q \in Process : \A i \in DOMAIN FilesOf[q] :
         i < at[q] \/ pc'[q] = "serving" => FilesOf[q][i] \in recorded
  <2>1. \A i \in DOMAIN FilesOf[p] : point = "serving" => i < at[p]
    <3>1. FilesOf[p] \in Seq(File)
      BY FilesAreLists
    <3>2. DOMAIN FilesOf[p] = 1 .. Len(FilesOf[p]) /\ Len(FilesOf[p]) \in Nat
      BY <3>1
    <3>3. at[p] \in 1 .. Len(FilesOf[p]) + 1
      BY DEF M!SchemaIsWhole, M!TypeOK
    <3>4. QED
      BY <3>2, <3>3
  <2>2. QED
    BY <1>1, <2>1 DEF M!SchemaIsWhole, M!Serves
<1>4. M!SchemaIsWhole'
  BY <1>2, <1>3 DEF M!SchemaIsWhole, M!Serves
<1>5. FilesAreHeld'
  <2>1. \A q \in Process :
          /\ pc'[q] \in AtFile => at'[q] <= Len(FilesOf[q])
          /\ pc'[q] = "commit" => M!Name(q)' \notin recorded'
          /\ pc'[q] = "rollback" => M!Name(q)' \in recorded'
    BY <1>1 DEF FilesAreHeld
  <2>2. ASSUME NEW q \in Process, NEW u \in Process, q # u, pc'[q] \in InTransaction,
               pc'[u] \in InTransaction, M!Name(q) = M!Name(u)
        PROVE  M!Name(q) \in recorded
    BY <1>1, <2>2 DEF FilesAreHeld
  <2>3. QED
    BY <1>1, <2>1, <2>2 DEF FilesAreHeld
<1>6. QED
  BY <1>4, <1>5

\* A commit: the file is recorded and executed, each for the first time.
LEMMA CommitKeepsSchema ==
    ASSUME SchemaInv, NEW p \in Process, pc[p] = "commit", M!Committed(p),
           NEW point \in {"down", "check"}, pc' = [pc EXCEPT ![p] = point],
           at' = at \/ at' = [at EXCEPT ![p] = @ + 1], crashes' \in 0 .. MaxCrashes
    PROVE  SchemaInv'
<1> USE DEF SchemaInv
<1> DEFINE f == M!Name(p)
<1>1. M!TypeOK /\ at[p] <= Len(FilesOf[p]) /\ f \notin recorded
  BY DEF M!SchemaIsWhole, FilesAreHeld, AtFile, InTransaction
<1>2. /\ at[p] \in Nat /\ Len(FilesOf[p]) \in Nat /\ f \in File
      /\ at[p] \in DOMAIN FilesOf[p] /\ f = FilesOf[p][at[p]]
  BY <1>1, NameIsFile
<1>3. /\ recorded' = recorded \cup {f} /\ tracked' = tracked
      /\ executed' = [executed EXCEPT ![f] = @ + 1]
  BY DEF M!Committed
<1>4. /\ pc'[p] = point /\ \A q \in Process \ {p} : pc'[q] = pc[q] /\ at'[q] = at[q]
      /\ at'[p] \in {at[p], at[p] + 1} /\ at' \in [Process -> Nat]
  <2>1. at \in [Process -> Nat] /\ DOMAIN pc = Process
    BY <1>1 DEF M!TypeOK
  <2>2. \A q \in Process : pc'[q] = IF q = p THEN point ELSE pc[q]
    BY <2>1
  <2>3. CASE at' = at
    BY <2>1, <2>2, <2>3
  <2>4. CASE at' = [at EXCEPT ![p] = @ + 1]
    BY <1>2, <2>1, <2>2, <2>4
  <2>5. QED
    BY <2>3, <2>4
<1>5. M!TypeOK'
  <2>1. \A q \in Process : at'[q] \in 1 .. Len(FilesOf[q]) + 1
    <3>1. \A q \in Process : at[q] \in 1 .. Len(FilesOf[q]) + 1
      BY <1>1 DEF M!TypeOK
    <3>2. QED
      BY <1>1, <1>2, <1>4, <3>1
  <2>2. pc' \in [Process -> M!Statement \cup {"down", "serving"}]
    BY <1>1 DEF M!TypeOK, M!Statement
  <2>3. executed' \in [File -> Nat]
    BY <1>1, <1>2, <1>3 DEF M!TypeOK
  <2>4. QED
    BY <1>1, <1>2, <1>3, <2>1, <2>2, <2>3 DEF M!TypeOK
<1>6. \A g \in File : executed'[g] = IF g \in recorded' THEN 1 ELSE 0
  BY <1>1, <1>2, <1>3 DEF M!SchemaIsWhole, M!TypeOK
<1>7. ASSUME NEW q \in Process, NEW i \in DOMAIN FilesOf[q], i < at'[q] \/ M!Serves(q)'
      PROVE  FilesOf[q][i] \in recorded'
  <2>1. CASE q = p
    <3>1. i \in Nat /\ i <= at[p]
      <4>1. DOMAIN FilesOf[p] \subseteq Nat
        BY FilesAreLists
      <4>2. i < at'[p]
        BY <1>4, <1>7, <2>1 DEF M!Serves
      <4>3. QED
        BY <1>2, <1>4, <2>1, <4>1, <4>2
    <3>2. i < at[p] \/ i = at[p]
      BY <1>2, <3>1
    <3>3. QED
      BY <1>2, <1>3, <2>1, <3>2 DEF M!SchemaIsWhole
  <2>2. CASE q # p
    BY <1>3, <1>4, <1>7, <2>2 DEF M!SchemaIsWhole, M!Serves
  <2>3. QED
    BY <2>1, <2>2
<1>8. M!SchemaIsWhole'
  BY <1>5, <1>6, <1>7 DEF M!SchemaIsWhole
<1>9. FilesAreHeld'
  <2>1. \A q \in Process \ {p} : M!Name(q)' = M!Name(q)
    BY <1>4 DEF M!Name
  <2>2. pc'[p] \notin AtFile /\ InTransaction \subseteq AtFile
    BY <1>4 DEF AtFile, InTransaction
  <2>3. ASSUME NEW q \in Process \ {p}
        PROVE  /\ pc'[q] \in AtFile => at'[q] <= Len(FilesOf[q])
               /\ pc'[q] = "commit" => M!Name(q)' \notin recorded'
               /\ pc'[q] = "rollback" => M!Name(q)' \in recorded'
    <3>1. pc[q] = "commit" => M!Name(q) # f
      BY <1>1 DEF FilesAreHeld, InTransaction
    <3>2. QED
      BY <1>3, <1>4, <2>1, <3>1 DEF FilesAreHeld
  <2>4. "commit" \in AtFile /\ "rollback" \in AtFile
    BY DEF AtFile, InTransaction
  <2>5. ASSUME NEW q \in Process, NEW u \in Process, q # u, pc'[q] \in InTransaction,
               pc'[u] \in InTransaction, M!Name(q)' = M!Name(u)'
        PROVE  M!Name(q)' \in recorded'
    <3>1. q # p /\ u # p
      BY <2>2, <2>5
    <3>2. QED
      BY <1>3, <1>4, <2>1, <2>5, <3>1 DEF FilesAreHeld
  <2>6. QED
    BY <2>2, <2>3, <2>4, <2>5 DEF FilesAreHeld
<1>10. QED
  BY <1>8, <1>9

\* Each statement of a migration keeps the schema a prefix of the files.
LEMMA SchemaStep ==
    ASSUME SchemaInv, NEW p \in Process, M!Step(p)
    PROVE  SchemaInv'
<1> USE DEF M!Goto, M!schema
<1> DEFINE Points == M!Statement \cup {"down", "serving"}
<1>1. /\ M!TypeOK /\ crashes \in 0 .. MaxCrashes /\ tracked \in BOOLEAN
      /\ at[p] \in 1 .. Len(FilesOf[p]) + 1 /\ Len(FilesOf[p]) \in Nat
  BY FilesAreLists DEF SchemaInv, M!SchemaIsWhole, M!TypeOK
<1>2. CASE M!Start(p)
  \* The list begins anew: nothing is before its first file.
  <2>1. /\ pc' = [pc EXCEPT ![p] = "createTable"] /\ at' = [at EXCEPT ![p] = 1]
        /\ UNCHANGED <<tracked, recorded, executed, crashes>>
    BY <1>2 DEF M!Start
  <2>2. DOMAIN FilesOf[p] \subseteq Nat \ {0}
    BY FilesAreLists
  <2>3. /\ pc'[p] = "createTable"
        /\ \A q \in Process \ {p} : pc'[q] = pc[q] /\ at'[q] = at[q]
        /\ at'[p] = at[p] \/ at'[p] = 1
    BY <1>1, <2>1 DEF M!TypeOK
  <2>4. M!TypeOK'
    <3>1. \A q \in Process : at'[q] \in 1 .. Len(FilesOf[q]) + 1
      BY <1>1, <2>3 DEF M!TypeOK
    <3>2. QED
      BY <1>1, <2>1, <3>1 DEF M!TypeOK, M!Statement
  <2>5. ASSUME NEW q \in Process, NEW i \in DOMAIN FilesOf[q], i < at'[q] \/ M!Serves(q)'
        PROVE  FilesOf[q][i] \in recorded'
    <3>1. CASE q # p
      BY <2>1, <2>3, <2>5, <3>1 DEF SchemaInv, M!SchemaIsWhole, M!Serves
    <3>2. CASE q = p
      <4>1. i < at'[p]
        BY <2>3, <2>5, <3>2 DEF M!Serves
      <4>2. at'[p] = at[p]
        BY <2>2, <2>3, <3>2, <4>1
      <4>3. QED
        BY <2>1, <3>2, <4>1, <4>2 DEF SchemaInv, M!SchemaIsWhole
    <3>3. QED
      BY <3>1, <3>2
  <2>6. M!SchemaIsWhole'
    BY <2>1, <2>4, <2>5 DEF SchemaInv, M!SchemaIsWhole
  <2>7. \A q \in Process \ {p} : M!Name(q)' = M!Name(q)
    BY <2>3 DEF M!Name
  <2>8. pc'[p] \notin AtFile /\ InTransaction \subseteq AtFile
        /\ "commit" \in AtFile /\ "rollback" \in AtFile
    BY <2>3 DEF AtFile, InTransaction
  <2>9. FilesAreHeld'
    BY <2>1, <2>3, <2>7, <2>8 DEF SchemaInv, FilesAreHeld
  <2>10. QED
    BY <2>6, <2>9 DEF SchemaInv
<1>3. CASE M!CreateTable(p)
  <2>1. PICK point \in {"check", "creating"} : pc' = [pc EXCEPT ![p] = point]
    BY <1>3 DEF M!CreateTable
  <2>2. UNCHANGED <<at, tracked, recorded, executed, crashes>>
    BY <1>3 DEF M!CreateTable
  <2>3. point \in Points /\ point \notin AtFile
    BY DEF AtFile, InTransaction, M!Statement
  <2>4. QED
    BY <1>1, <2>1, <2>2, <2>3, MoveKeepsSchema DEF AtFile, InTransaction
<1>4. CASE M!TableCreated(p)
  <2>1. PICK point \in {"down", "check"} : pc' = [pc EXCEPT ![p] = point]
    BY <1>4 DEF M!TableCreated
  <2>2. UNCHANGED <<at, recorded, executed, crashes>> /\ tracked' = TRUE
    BY <1>4 DEF M!TableCreated
  <2>3. point \in Points /\ point \notin AtFile
    BY DEF AtFile, InTransaction, M!Statement
  <2>4. QED
    BY <1>1, <2>1, <2>2, <2>3, MoveKeepsSchema DEF AtFile, InTransaction
<1>5. CASE M!Check(p)
  <2>1. pc[p] = "check" /\ UNCHANGED <<tracked, recorded, executed>>
    BY <1>5 DEF M!Check
  <2>2. CASE at[p] > Len(FilesOf[p])
    <3>1. pc' = [pc EXCEPT ![p] = "serving"] /\ UNCHANGED <<at, crashes>>
      BY <1>5, <2>2 DEF M!Check
    <3>2. "serving" \in Points /\ "serving" \notin AtFile
      BY DEF AtFile, InTransaction
    <3>3. QED
      BY <1>1, <2>1, <2>2, <3>1, <3>2, MoveKeepsSchema DEF AtFile, InTransaction
  <2>3. CASE ~ (at[p] > Len(FilesOf[p])) /\ M!Name(p) \in recorded
    <3>1. at' = [at EXCEPT ![p] = @ + 1] /\ UNCHANGED <<pc, crashes>>
      BY <1>5, <2>3 DEF M!Check
    <3>2. /\ at[p] <= Len(FilesOf[p]) /\ at[p] \in Nat /\ M!Name(p) = FilesOf[p][at[p]]
          /\ DOMAIN FilesOf[p] \subseteq Nat
      BY <1>1, <2>3, NameIsFile, FilesAreLists
    <3>3. /\ \A q \in Process \ {p} : at'[q] = at[q]
          /\ at'[p] = at[p] \/ at'[p] = at[p] + 1
      BY <3>1, <1>1 DEF M!TypeOK
    <3>4. M!TypeOK'
      <4>1. \A q \in Process : at'[q] \in 1 .. Len(FilesOf[q]) + 1
        BY <1>1, <3>2, <3>3 DEF M!TypeOK
      <4>2. QED
        BY <1>1, <2>1, <3>1, <4>1 DEF M!TypeOK
    <3>5. ASSUME NEW q \in Process, NEW i \in DOMAIN FilesOf[q], i < at'[q] \/ M!Serves(q)'
          PROVE  FilesOf[q][i] \in recorded'
      <4>1. CASE q = p /\ i < at'[q]
        <5>1. i < at[p] \/ i = at[p]
          BY <3>2, <3>3, <4>1
        <5>2. QED
          BY <2>1, <2>3, <3>2, <4>1, <5>1 DEF SchemaInv, M!SchemaIsWhole
      <4>2. CASE q # p \/ M!Serves(q)'
        BY <2>1, <3>1, <3>3, <3>5, <4>2 DEF SchemaInv, M!SchemaIsWhole, M!Serves
      <4>3. QED
        BY <3>5, <4>1, <4>2
    <3>6. M!SchemaIsWhole'
      BY <2>1, <3>4, <3>5 DEF SchemaInv, M!SchemaIsWhole
    <3>7. \A q \in Process \ {p} : M!Name(q)' = M!Name(q)
      BY <3>3 DEF M!Name
    <3>8. pc'[p] \notin AtFile /\ InTransaction \subseteq AtFile
          /\ "commit" \in AtFile /\ "rollback" \in AtFile
      BY <2>1, <3>1 DEF AtFile, InTransaction
    <3>9. FilesAreHeld'
      BY <2>1, <3>1, <3>3, <3>7, <3>8 DEF SchemaInv, FilesAreHeld
    <3>10. QED
      BY <3>6, <3>9 DEF SchemaInv
  <2>4. CASE ~ (at[p] > Len(FilesOf[p])) /\ M!Name(p) \notin recorded
    <3>1. pc' = [pc EXCEPT ![p] = "execute"] /\ UNCHANGED <<at, crashes>>
      BY <1>5, <2>4 DEF M!Check
    <3>2. at[p] <= Len(FilesOf[p])
      BY <1>1, <2>4
    <3>3. "execute" \in Points /\ "execute" \notin InTransaction
      BY DEF InTransaction, M!Statement
    <3>4. QED
      BY <1>1, <2>1, <3>1, <3>2, <3>3, MoveKeepsSchema
  <2>5. QED
    BY <2>2, <2>3, <2>4
<1>6. CASE M!Execute(p)
  <2>1. at[p] <= Len(FilesOf[p]) /\ UNCHANGED <<at, tracked, recorded, executed, crashes>>
    BY <1>6 DEF M!Execute, SchemaInv, FilesAreHeld, AtFile
  <2>2. M!Name(p) \in File
    BY <1>1, <2>1, NameIsFile
  <2>3. CASE ~M!Exists(M!Name(p)) /\ M!IsHeld(p, M!Name(p))
    <3>1. pc' = [pc EXCEPT ![p] = "wait"]
      BY <1>6, <2>3 DEF M!Execute
    <3>2. "wait" \in Points /\ "wait" \notin InTransaction
      BY DEF InTransaction, M!Statement
    <3>3. QED
      BY <1>1, <2>1, <3>1, <3>2, MoveKeepsSchema
  <2>4. CASE ~ (~M!Exists(M!Name(p)) /\ M!IsHeld(p, M!Name(p)))
    <3>1. pc' = [pc EXCEPT ![p] = "record"]
      BY <1>6, <2>4 DEF M!Execute
    <3>2. M!Exists(M!Name(p)) => M!Name(p) \in recorded
      BY <2>2 DEF SchemaInv, M!SchemaIsWhole, M!Exists
    <3>3. \A q \in Process \ {p} :
            pc[q] \in InTransaction /\ M!Name(q) = M!Name(p) => M!Name(p) \in recorded
      BY <2>4, <3>2 DEF M!IsHeld, InTransaction
    <3>4. "record" \in Points
      BY DEF M!Statement
    <3>5. QED
      BY <1>1, <2>1, <3>1, <3>3, <3>4, MoveKeepsSchema
  <2>5. QED
    BY <2>3, <2>4
<1>7. CASE M!StopWaiting(p)
  <2>1. /\ at[p] <= Len(FilesOf[p]) /\ UNCHANGED <<at, tracked, recorded, executed, crashes>>
        /\ ~M!IsHeld(p, M!Name(p))
    BY <1>7 DEF M!StopWaiting, SchemaInv, FilesAreHeld, AtFile
  <2>2. M!Exists(M!Name(p)) => M!Name(p) \in recorded
    <3>1. M!Name(p) \in File
      BY <1>1, <2>1, NameIsFile
    <3>2. QED
      BY <3>1 DEF SchemaInv, M!SchemaIsWhole, M!Exists
  <2>3. CASE M!Exists(M!Name(p))
    <3>1. pc' = [pc EXCEPT ![p] = "rollback"]
      BY <1>7, <2>3 DEF M!StopWaiting
    <3>2. "rollback" \in Points /\ "rollback" \notin InTransaction
      BY DEF InTransaction, M!Statement
    <3>3. QED
      BY <1>1, <2>1, <2>2, <2>3, <3>1, <3>2, MoveKeepsSchema
  <2>4. CASE ~M!Exists(M!Name(p))
    <3>1. pc' = [pc EXCEPT ![p] = "record"]
      BY <1>7, <2>4 DEF M!StopWaiting
    <3>2. \A q \in Process \ {p} :
            ~ (pc[q] \in InTransaction /\ M!Name(q) = M!Name(p))
      BY <2>1 DEF M!IsHeld, InTransaction
    <3>3. "record" \in Points
      BY DEF M!Statement
    <3>4. QED
      BY <1>1, <2>1, <3>1, <3>2, <3>3, MoveKeepsSchema
  <2>5. QED
    BY <2>3, <2>4
<1>8. CASE M!Record(p)
  <2>1. /\ pc[p] = "record" /\ at[p] <= Len(FilesOf[p])
        /\ UNCHANGED <<at, tracked, recorded, executed, crashes>>
    BY <1>8 DEF M!Record, SchemaInv, FilesAreHeld, AtFile, InTransaction
  <2>2. CASE M!Name(p) \in recorded
    <3>1. pc' = [pc EXCEPT ![p] = "rollback"]
      BY <1>8, <2>2 DEF M!Record
    <3>2. "rollback" \in Points /\ "rollback" \notin InTransaction
      BY DEF InTransaction, M!Statement
    <3>3. QED
      BY <1>1, <2>1, <2>2, <3>1, <3>2, MoveKeepsSchema
  <2>3. CASE M!Name(p) \notin recorded
    <3>1. pc' = [pc EXCEPT ![p] = "commit"]
      BY <1>8, <2>3 DEF M!Record
    <3>2. \A q \in Process \ {p} :
            pc[q] \in InTransaction /\ M!Name(q) = M!Name(p) => M!Name(p) \in recorded
      BY <2>1 DEF SchemaInv, FilesAreHeld, InTransaction
    <3>3. "commit" \in Points
      BY DEF M!Statement
    <3>4. QED
      BY <1>1, <2>1, <2>3, <3>1, <3>2, <3>3, MoveKeepsSchema
  <2>4. QED
    BY <2>2, <2>3
<1>9. CASE M!Commit(p)
  <2>1. /\ pc[p] = "commit" /\ M!Committed(p) /\ pc' = [pc EXCEPT ![p] = "check"]
        /\ at' = [at EXCEPT ![p] = @ + 1] /\ UNCHANGED crashes
    BY <1>9 DEF M!Commit
  <2>2. QED
    BY <1>1, <2>1, CommitKeepsSchema
<1>10. CASE M!Rollback(p)
  <2>1. pc' = [pc EXCEPT ![p] = "down"] /\ UNCHANGED <<at, tracked, recorded, executed, crashes>>
    BY <1>10 DEF M!Rollback
  <2>2. "down" \in Points /\ "down" \notin AtFile
    BY DEF AtFile, InTransaction
  <2>3. QED
    BY <1>1, <2>1, <2>2, MoveKeepsSchema DEF AtFile, InTransaction
<1>11. QED
  BY <1>2, <1>3, <1>4, <1>5, <1>6, <1>7, <1>8, <1>9, <1>10 DEF M!Step

\* A crash rolls back, unless only the answer of a commit is lost.
LEMMA SchemaCrash ==
    ASSUME SchemaInv, NEW p \in Process, M!Crash(p)
    PROVE  SchemaInv'
<1>1. /\ crashes < MaxCrashes /\ crashes' = crashes + 1 /\ UNCHANGED at
      /\ pc' = [pc EXCEPT ![p] = "down"]
  BY DEF M!Crash
<1>2. crashes' \in 0 .. MaxCrashes
  BY <1>1, BoundsAreNatural DEF SchemaInv, M!SchemaIsWhole, M!TypeOK
<1>3. CASE UNCHANGED <<tracked, recorded, executed>>
  <2>1. "down" \notin AtFile /\ tracked \in BOOLEAN
    BY DEF AtFile, InTransaction, SchemaInv, M!SchemaIsWhole, M!TypeOK
  <2>2. QED
    BY <1>1, <1>2, <1>3, <2>1, MoveKeepsSchema DEF AtFile, InTransaction
<1>4. CASE pc[p] = "commit" /\ M!Committed(p)
  BY <1>1, <1>2, <1>4, CommitKeepsSchema
<1>5. QED
  BY <1>3, <1>4 DEF M!Crash, M!schema

---------------------------------------------------------------------------
(* The events.                                                             *)

\* Queues start empty.
LEMMA EventsInit ==
    ASSUME E!Init
    PROVE  EventsInv
<1>1. E!TypeOK
  BY QueueOptions, BoundsAreNatural DEF E!Init, E!TypeOK
<1>2. E!EventsAreAccounted /\ JobsAreCounted
  BY <1>1 DEF E!Init, E!EventsAreAccounted, JobsAreCounted, Live
<1>3. QED
  BY <1>2 DEF EventsInv

\* The steps of one event, whether of its producer or of its job.
LEMMA EventStep ==
    ASSUME EventsInv, NEW e \in Event,
           \/ \E b \in Backend : E!Write(e, b) \/ E!Take(e, b)
           \/ E!Add(e) \/ E!Publish(e) \/ E!PublishFails(e)
           \/ E!Process(e) \/ E!ProcessThrows(e) \/ E!Complete(e) \/ E!Backoff(e)
    PROVE  EventsInv'
<1>1. /\ E!TypeOK /\ E!EventsAreAccounted /\ JobsAreCounted
      /\ Attempts \in Nat \ {0} /\ Stalls \in Nat /\ MaxFaults \in Nat
  BY QueueOptions, BoundsAreNatural DEF EventsInv, E!EventsAreAccounted
<1>2. tried[e] \in Nat /\ stalled[e] \in Nat /\ handled[e] \in Nat /\ faults \in Nat
  BY <1>1 DEF E!TypeOK
<1> USE DEF E!TypeOK, E!EventsAreAccounted, JobsAreCounted, EventsInv, Live
<1>3. ASSUME NEW b \in Backend, E!Write(e, b)
      PROVE  EventsInv'
  BY <1>1, <1>3 DEF E!Write
<1>4. CASE E!Add(e)
  BY <1>1, <1>4 DEF E!Add
<1>5. CASE E!Publish(e)
  BY <1>1, <1>5 DEF E!Publish, E!GoesOn
<1>6. CASE E!PublishFails(e)
  BY <1>1, <1>6 DEF E!PublishFails, E!GoesOn
<1>7. ASSUME NEW b \in Backend, E!Take(e, b)
      PROVE  EventsInv'
  BY <1>1, <1>7 DEF E!Take
<1>8. CASE E!Process(e)
  BY <1>1, <1>2, <1>8 DEF E!Process
<1>9. CASE E!ProcessThrows(e)
  BY <1>1, <1>2, <1>9 DEF E!ProcessThrows
<1>10. CASE E!Complete(e)
  BY <1>1, <1>10 DEF E!Complete
<1>11. CASE E!Backoff(e)
  BY <1>1, <1>11 DEF E!Backoff
<1>12. QED
  BY <1>3, <1>4, <1>5, <1>6, <1>7, <1>8, <1>9, <1>10, <1>11

\* A backend that dies leaves its jobs in Redis.
LEMMA EventsDie ==
    ASSUME EventsInv, NEW b \in Backend, E!Dies(b)
    PROVE  EventsInv'
<1>1. /\ E!TypeOK /\ E!EventsAreAccounted /\ JobsAreCounted
      /\ Attempts \in Nat \ {0} /\ Stalls \in Nat
  BY QueueOptions DEF EventsInv, E!EventsAreAccounted
<1> USE DEF E!TypeOK, E!EventsAreAccounted, JobsAreCounted, EventsInv, Live
<1>2. QED
  BY <1>1 DEF E!Dies

---------------------------------------------------------------------------
\* The invariant holds from the start, and every step of a start, a stop or an
\* event keeps it.
THEOREM Invariance == Spec => []IInv
<1>1. Init => IInv
  BY SchemaInit, EventsInit DEF Init, IInv
<1>2. IInv /\ [Next]_vars => IInv'
  <2> SUFFICES ASSUME IInv, [Next]_vars
               PROVE  IInv'
    OBVIOUS
  <2>1. UNCHANGED startVars => SchemaInv'
    BY DEF IInv, SchemaInv, startVars, M!SchemaIsWhole, M!TypeOK, M!Serves, M!Name,
           FilesAreHeld
  <2>2. UNCHANGED eventVars => EventsInv'
    BY DEF IInv, EventsInv, eventVars, E!EventsAreAccounted, E!TypeOK, JobsAreCounted
  <2>3. ASSUME NEW p \in Process, Start(p)
        PROVE  IInv'
    BY <2>2, <2>3, SchemaStep DEF IInv, Start
  <2>4. ASSUME NEW p \in Process, Stop(p)
        PROVE  IInv'
    BY <2>2, <2>4, SchemaCrash, EventsDie DEF IInv, Stop
  <2>5. ASSUME NEW e \in Event, Produce(e) \/ Take(e) \/ Work(e)
        PROVE  IInv'
    <3>1. UNCHANGED startVars
      BY <2>5 DEF Produce, Take, Work
    <3>2. EventsInv'
      BY <2>5, EventStep DEF IInv, Produce, Take, Work
    <3>3. QED
      BY <2>1, <3>1, <3>2 DEF IInv
  <2>6. CASE UNCHANGED vars
    BY <2>1, <2>2, <2>6 DEF vars, IInv
  <2>7. QED
    BY <2>3, <2>4, <2>5, <2>6 DEF Next
<1>3. QED
  BY <1>1, <1>2, PTL DEF Spec

\* A file is executed once and recorded if and only if it is executed, and a process
\* serves on all of its files, however starts collide and processes stop.
THEOREM SchemaWhole == Spec => []SchemaIsWhole
<1>1. IInv => SchemaIsWhole
  BY DEF IInv, SchemaInv, SchemaIsWhole
<1>2. QED
  BY <1>1, Invariance, PTL

\* An event is lost only with an entry in the log or with its producer, and reported
\* twice only if a worker died.
THEOREM EventsAccounted == Spec => []EventsAreAccounted
<1>1. IInv => EventsAreAccounted
  BY DEF IInv, EventsInv, EventsAreAccounted
<1>2. QED
  BY <1>1, Invariance, PTL
=============================================================================
