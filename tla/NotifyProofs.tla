---------------------------- MODULE NotifyProofs ----------------------------
(***************************************************************************)
(* Proofs about Notify.  The semaphore counts the goroutines by itself.    *)
(* Who is told needs an invariant that follows a job through its two       *)
(* queries: until it has read the users, whoever is due can still be found *)
(* in the tables; then it is among the users read and still registered;    *)
(* then it is in the queue, or has been notified.  The other way round, a  *)
(* user it has read had access, and a row in the queue was registered.     *)
(***************************************************************************)
EXTENDS Notify, FiniteSetTheorems, TLAPS

\* Where a job reads or sends, and where it has a queue.
Working == {"users", "devices", "send", "cleanup"}
Telling == {"send", "cleanup"}

\* MayHear, of the state before the step.
Hears(u, j) ==
    /\ u # sender[j]
    /\ \E c \in changed[j] : u \in sharers[c] \/ (u = OwnerOf[c] /\ u \in accounts)

\* What has been in force ever since the job started still is.
DueInForce(j) ==
    pc[j] \in Working =>
        \A r \in due[j] : r \in Rows /\ Hears(r[1], j) /\ r[2] # from[j]

\* The job has not lost, on its way, a registration that is due.
DueIsCovered(j) ==
    /\ pc[j] = "devices" => \A r \in due[j] : r[1] \in users[j]
    /\ pc[j] \in Telling \union {"over"} => due[j] \subseteq queue[j] \union sent[j]

\* What a job has read, sent and seen belongs to this run of it.
OnlyInTime(j) ==
    /\ pc[j] \notin Telling => queue[j] = {}
    /\ pc[j] \notin Telling \union {"over"} => sent[j] = {}
    /\ pc[j] \notin Working \union {"over"} => hadAccess[j] = {} /\ wasRegistered[j] = {}

\* What the job has read was there while it ran.
ToldHadAccess(j) ==
    /\ pc[j] \in Telling \union {"devices"} => users[j] \subseteq hadAccess[j]
    /\ \A r \in queue[j] \union sent[j] : r[1] \in hadAccess[j] /\ r \in wasRegistered[j]

\* The sender and the device it pushed from are in no history.
HistoryIsOfOthers(j) ==
    /\ sender[j] \notin hadAccess[j]
    /\ \A r \in wasRegistered[j] : r[1] # sender[j] /\ r[2] # from[j]

\* A job that cleans up does it for a token that APNs has refused.
RefusedIsRejected(j) ==
    pc[j] = "cleanup" => refused[j] \in Row /\ refused[j][3] \in rejected

JobInv(j) ==
    /\ DueInForce(j) /\ DueIsCovered(j)
    /\ OnlyInTime(j) /\ ToldHadAccess(j) /\ HistoryIsOfOthers(j)
    /\ RefusedIsRejected(j)

Inv == \A j \in Jobs : JobInv(j)

-----------------------------------------------------------------------------

\* The rows of device_tokens are rows.
LEMMA RowsTyped ==
    ASSUME regs \in [Users \X Devices -> Tokens \union {None}]
    PROVE  \A r \in Rows : r \in Row
<1> SUFFICES ASSUME NEW r \in Rows PROVE r \in Row
    OBVIOUS
<1>1. PICK x \in Users \X Devices : regs[x] # None /\ r = <<x[1], x[2], regs[x]>>
    BY DEF Rows
<1>2. regs[x] \in Tokens /\ x[1] \in Users /\ x[2] \in Devices
    BY <1>1
<1>3. QED
    BY <1>1, <1>2 DEF Row

\* Record keeps the types of the history, for whatever step it goes with.
LEMMA RecordTyped ==
    ASSUME TypeOK, NEW S, Record(S),
           regs' \in [Users \X Devices -> Tokens \union {None}]
    PROVE  /\ due' \in [Jobs -> SUBSET Row]
           /\ hadAccess' \in [Jobs -> SUBSET Users]
           /\ wasRegistered' \in [Jobs -> SUBSET Row]
<1>1. \A r \in Rows' : r \in Row
    <2>1. \A r \in Rows' : \E x \in Users \X Devices :
             regs'[x] # None /\ r = <<x[1], x[2], regs'[x]>>
        BY DEF Rows
    <2> SUFFICES ASSUME NEW r \in Rows' PROVE r \in Row
        OBVIOUS
    <2>2. PICK x \in Users \X Devices : regs'[x] # None /\ r = <<x[1], x[2], regs'[x]>>
        BY <2>1
    <2>3. regs'[x] \in Tokens /\ x[1] \in Users /\ x[2] \in Devices
        BY <2>2
    <2>4. QED
        BY <2>2, <2>3 DEF Row
<1>2. due' \in [Jobs -> SUBSET Row]
    BY <1>1 DEF TypeOK, Record, InForce
<1>3. hadAccess' \in [Jobs -> SUBSET Users]
    BY DEF TypeOK, Record
<1>4. wasRegistered' \in [Jobs -> SUBSET Row]
    BY <1>1 DEF TypeOK, Record
<1>5. QED
    BY <1>2, <1>3, <1>4

\* What the other proofs use of Record: what is due is in force and only gets
\* less, what has been seen only gets more, and is there when it is seen.
LEMMA RecordFacts ==
    ASSUME NEW S, Record(S), NEW j \in Jobs
    PROVE  /\ pc'[j] \in Working =>
                \A r \in due'[j] : r \in Rows' /\ Hears(r[1], j)' /\ r[2] # from'[j]
           /\ j \notin S => due'[j] \subseteq due[j]
           /\ pc'[j] \in {"none", "failed"} =>
                due'[j] = {} /\ hadAccess'[j] = {} /\ wasRegistered'[j] = {}
           /\ pc'[j] \notin {"none", "failed"} =>
                hadAccess[j] \subseteq hadAccess'[j] /\ wasRegistered[j] \subseteq wasRegistered'[j]
           /\ pc'[j] \in Working => \A u \in Users : Hears(u, j)' => u \in hadAccess'[j]
           /\ pc'[j] \in Working => \A r \in Rows' :
                r[1] # sender'[j] /\ r[2] # from'[j] => r \in wasRegistered'[j]
           /\ \A u \in hadAccess'[j] : u \in hadAccess[j] \/ u # sender'[j]
           /\ \A r \in wasRegistered'[j] :
                r \in wasRegistered[j] \/ (r[1] # sender'[j] /\ r[2] # from'[j])
<1>1. \A u : MayHear(u, j) <=> Hears(u, j)'
    BY DEF MayHear, Hears
<1>2. due'[j] = IF pc'[j] \in {"none", "failed"} THEN {}
                ELSE IF j \in S THEN InForce(j)
                ELSE IF due[j] = {} \/ ~ (pc'[j] \in Working) THEN due[j]
                ELSE due[j] \intersect InForce(j)
    BY DEF Record, Working
<1>3. hadAccess'[j] = IF pc'[j] \in {"none", "failed"} THEN {}
                ELSE IF ~ (pc'[j] \in Working) THEN hadAccess[j]
                ELSE hadAccess[j] \union {u \in Users : MayHear(u, j)}
    BY DEF Record, Working
<1>4. wasRegistered'[j] = IF pc'[j] \in {"none", "failed"} THEN {}
                ELSE IF ~ (pc'[j] \in Working) THEN wasRegistered[j]
                ELSE wasRegistered[j] \union
                         {r \in Rows' : r[1] # sender'[j] /\ r[2] # from'[j]}
    BY DEF Record, Working
<1>5. \A r \in InForce(j) : r \in Rows' /\ Hears(r[1], j)' /\ r[2] # from'[j]
    BY <1>1 DEF InForce
<1>6. pc'[j] \in Working => pc'[j] \notin {"none", "failed"}
    BY DEF Working
<1>7. \A u : MayHear(u, j) => u # sender'[j]
    BY DEF MayHear
<1>8. pc'[j] \in Working =>
        \A r \in due'[j] : r \in Rows' /\ Hears(r[1], j)' /\ r[2] # from'[j]
    BY <1>2, <1>5, <1>6
<1>9. j \notin S => due'[j] \subseteq due[j]
    BY <1>2
<1>10. pc'[j] \in {"none", "failed"} =>
        due'[j] = {} /\ hadAccess'[j] = {} /\ wasRegistered'[j] = {}
    BY <1>2, <1>3, <1>4
<1>11. pc'[j] \notin {"none", "failed"} =>
        hadAccess[j] \subseteq hadAccess'[j] /\ wasRegistered[j] \subseteq wasRegistered'[j]
    BY <1>3, <1>4
<1>12. pc'[j] \in Working => \A u \in Users : Hears(u, j)' => u \in hadAccess'[j]
    BY <1>1, <1>3, <1>6
<1>13. pc'[j] \in Working => \A r \in Rows' :
        r[1] # sender'[j] /\ r[2] # from'[j] => r \in wasRegistered'[j]
    BY <1>4, <1>6
<1>14. \A u \in hadAccess'[j] : u \in hadAccess[j] \/ u # sender'[j]
    BY <1>3, <1>7
<1>15. \A r \in wasRegistered'[j] :
        r \in wasRegistered[j] \/ (r[1] # sender'[j] /\ r[2] # from'[j])
    BY <1>4
<1>16. QED
    BY <1>8, <1>9, <1>10, <1>11, <1>12, <1>13, <1>14, <1>15

-----------------------------------------------------------------------------

(* The types, apart from the history's: those follow from Record.          *)

DatabaseTyped ==
    /\ accounts \subseteq Users
    /\ sharers \in [Cars -> SUBSET Users]
    /\ regs \in [Users \X Devices -> Tokens \union {None}]
    /\ apns \in BOOLEAN

JobsTyped ==
    /\ sem \in 0..Slots
    /\ pc \in [Jobs -> {"none", "users", "devices", "send", "cleanup", "failed", "over"}]
    /\ sender \in [Jobs -> Users \union {None}]
    /\ from \in [Jobs -> Devices \union {None}]
    /\ changed \in [Jobs -> SUBSET Cars]
    /\ users \in [Jobs -> SUBSET Users]
    /\ queue \in [Jobs -> SUBSET Row]
    /\ refused \in [Jobs -> Row \union {None}]
    /\ sent \in [Jobs -> SUBSET Row]
    /\ rejected \subseteq Tokens

\* A step that records keeps the types when it keeps the tables' and the jobs'.
LEMMA TypeParts ==
    ASSUME TypeOK, NEW S, Record(S), DatabaseTyped', JobsTyped'
    PROVE  TypeOK'
<1>1. regs' \in [Users \X Devices -> Tokens \union {None}]
    BY DEF DatabaseTyped
<1>2. /\ due' \in [Jobs -> SUBSET Row]
      /\ hadAccess' \in [Jobs -> SUBSET Users]
      /\ wasRegistered' \in [Jobs -> SUBSET Row]
    BY <1>1, RecordTyped
<1>3. QED
    BY <1>2 DEF TypeOK, DatabaseTyped, JobsTyped

\* The types of the tables and of the jobs are part of the type invariant.
LEMMA TypeSplits == TypeOK => DatabaseTyped /\ JobsTyped
    BY DEF TypeOK, DatabaseTyped, JobsTyped

\* The query for users finds users.
LEMMA UsersTyped ==
    ASSUME TypeOK, NEW j \in Jobs
    PROVE  GetUsersWithAccessToCars(changed[j], sender[j]) \subseteq Users
<1>1. changed[j] \subseteq Cars
    BY DEF TypeOK
<1>2. \A c \in changed[j] : sharers[c] \subseteq Users
    BY <1>1 DEF TypeOK
<1>3. UNION {sharers[c] : c \in changed[j]} \subseteq Users
    BY <1>2
<1>4. accounts \subseteq Users
    BY DEF TypeOK
<1>5. QED
    BY <1>3, <1>4 DEF GetUsersWithAccessToCars

\* The process starts with every variable of its type.
LEMMA InitTyped == Init => TypeOK
<1> SUFFICES ASSUME Init PROVE TypeOK
    OBVIOUS
<1>1. 0 \in 0..Slots
    BY NotifyAssumption
<1>2. QED
    BY <1>1 DEF Init, TypeOK, Row

\* The steps of shares, registrations, accounts and the client keep the types.
LEMMA DatabaseStepTyped ==
    ASSUME TypeOK
    PROVE  /\ \A u \in Users, c \in Cars : AcceptShare(u, c) \/ EndShare(u, c) => TypeOK'
           /\ \A u \in Users, d \in Devices, t \in Tokens : RegisterDevice(u, d, t) => TypeOK'
           /\ \A u \in Users, D \in SUBSET Devices : UnregisterDevice(u, D) => TypeOK'
           /\ \A u \in Users : DeleteMe(u) => TypeOK'
           /\ ReloadAPNs => TypeOK'
<1> USE TypeSplits
<1>1. ASSUME NEW u \in Users, NEW c \in Cars, AcceptShare(u, c)
      PROVE  TypeOK'
    <2>1. DatabaseTyped' /\ JobsTyped'
        BY <1>1 DEF AcceptShare, DatabaseTyped, JobsTyped, job
    <2>2. QED
        BY <1>1, <2>1, TypeParts DEF AcceptShare
<1>2. ASSUME NEW u \in Users, NEW c \in Cars, EndShare(u, c)
      PROVE  TypeOK'
    <2>1. DatabaseTyped' /\ JobsTyped'
        BY <1>2 DEF EndShare, DatabaseTyped, JobsTyped, job
    <2>2. QED
        BY <1>2, <2>1, TypeParts DEF EndShare
<1>3. ASSUME NEW u \in Users, NEW d \in Devices, NEW t \in Tokens, RegisterDevice(u, d, t)
      PROVE  TypeOK'
    <2>1. DatabaseTyped' /\ JobsTyped'
        BY <1>3 DEF RegisterDevice, DatabaseTyped, JobsTyped, job
    <2>2. QED
        BY <1>3, <2>1, TypeParts DEF RegisterDevice
<1>4. ASSUME NEW u \in Users, NEW D \in SUBSET Devices, UnregisterDevice(u, D)
      PROVE  TypeOK'
    <2>1. DatabaseTyped' /\ JobsTyped'
        BY <1>4 DEF UnregisterDevice, DatabaseTyped, JobsTyped, job
    <2>2. QED
        BY <1>4, <2>1, TypeParts DEF UnregisterDevice
<1>5. ASSUME NEW u \in Users, DeleteMe(u)
      PROVE  TypeOK'
    <2>1. DatabaseTyped' /\ JobsTyped'
        BY <1>5 DEF DeleteMe, DatabaseTyped, JobsTyped, job
    <2>2. QED
        BY <1>5, <2>1, TypeParts DEF DeleteMe
<1>6. ASSUME ReloadAPNs
      PROVE  TypeOK'
    <2>1. DatabaseTyped' /\ JobsTyped'
        BY <1>6 DEF ReloadAPNs, DatabaseTyped, JobsTyped, db, job
    <2>2. QED
        BY <1>6, <2>1, TypeParts DEF ReloadAPNs
<1>7. QED
    BY <1>1, <1>2, <1>3, <1>4, <1>5, <1>6

\* So do the steps of a job.
LEMMA JobStepTyped ==
    ASSUME TypeOK, NEW j \in Jobs
    PROVE  /\ \A u \in Users, d \in Devices, C \in SUBSET Cars :
                StartJob(j, u, d, C) => TypeOK'
           /\ Step(j) => TypeOK'
<1> USE TypeSplits
<1>1. ASSUME NEW u \in Users, NEW d \in Devices, NEW C \in SUBSET Cars, StartJob(j, u, d, C)
      PROVE  TypeOK'
    <2>1. sem' \in 0..Slots
        BY <1>1, NotifyAssumption DEF StartJob, JobsTyped
    <2>2. DatabaseTyped' /\ JobsTyped'
        BY <1>1, <2>1 DEF StartJob, DatabaseTyped, JobsTyped, db
    <2>3. QED
        BY <1>1, <2>2, TypeParts DEF StartJob
<1>2. ASSUME ReadUsers(j)
      PROVE  TypeOK'
    <2>1. GetUsersWithAccessToCars(changed[j], sender[j]) \subseteq Users
        BY UsersTyped
    <2>2. DatabaseTyped' /\ JobsTyped'
        BY <1>2, <2>1 DEF ReadUsers, DatabaseTyped, JobsTyped, db
    <2>3. QED
        BY <1>2, <2>2, TypeParts DEF ReadUsers
<1>3. ASSUME ReadDevices(j)
      PROVE  TypeOK'
    <2>1. GetDeviceTokensForUsers(users[j], from[j]) \subseteq Row
        BY RowsTyped DEF GetDeviceTokensForUsers, TypeOK
    <2>2. DatabaseTyped' /\ JobsTyped'
        BY <1>3, <2>1 DEF ReadDevices, DatabaseTyped, JobsTyped, db
    <2>3. QED
        BY <1>3, <2>2, TypeParts DEF ReadDevices
<1>4. ASSUME ReadFails(j)
      PROVE  TypeOK'
    <2>1. DatabaseTyped' /\ JobsTyped'
        BY <1>4 DEF ReadFails, DatabaseTyped, JobsTyped, db
    <2>2. QED
        BY <1>4, <2>1, TypeParts DEF ReadFails
<1>5. ASSUME NEW r \in queue[j], Send(j, r)
      PROVE  TypeOK'
    <2>1. r \in Row
        BY DEF TypeOK
    <2>2. DatabaseTyped' /\ JobsTyped'
        BY <1>5, <2>1 DEF Send, DatabaseTyped, JobsTyped, db
    <2>3. QED
        BY <1>5, <2>2, TypeParts DEF Send
<1>6. ASSUME NEW r \in queue[j], SendRefused(j, r)
      PROVE  TypeOK'
    <2>1. r \in Row
        BY DEF TypeOK
    <2>2. r[3] \in Tokens
        BY <2>1 DEF Row
    <2>3. DatabaseTyped' /\ JobsTyped'
        BY <1>6, <2>1, <2>2 DEF SendRefused, DatabaseTyped, JobsTyped, db
    <2>4. QED
        BY <1>6, <2>3, TypeParts DEF SendRefused
<1>7. ASSUME Cleanup(j)
      PROVE  TypeOK'
    <2>1. regs' \in [Users \X Devices -> Tokens \union {None}]
        BY <1>7 DEF Cleanup, DatabaseTyped, DeleteDeviceTokenByToken
    <2>2. DatabaseTyped'
        BY <1>7, <2>1 DEF Cleanup, DatabaseTyped
    <2>3. JobsTyped'
        BY <1>7 DEF Cleanup, JobsTyped
    <2>4. QED
        BY <1>7, <2>2, <2>3, TypeParts DEF Cleanup
<1>8. ASSUME Finish(j)
      PROVE  TypeOK'
    <2>1. DatabaseTyped' /\ JobsTyped'
        BY <1>8 DEF Finish, DatabaseTyped, JobsTyped, db
    <2>2. QED
        BY <1>8, <2>1, TypeParts DEF Finish
<1>9. ASSUME Release(j)
      PROVE  TypeOK'
    <2>1. sem' \in 0..Slots
        BY <1>9, NotifyAssumption DEF Release, JobsTyped
    <2>2. DatabaseTyped' /\ JobsTyped'
        BY <1>9, <2>1 DEF Release, DatabaseTyped, JobsTyped, db
    <2>3. QED
        BY <1>9, <2>2, TypeParts DEF Release
<1>10. QED
    BY <1>1, <1>2, <1>3, <1>4, <1>5, <1>6, <1>7, <1>8, <1>9, Zenon DEF Step

\* So does every step.
LEMMA StepTyped == TypeOK /\ [Next]_vars => TypeOK'
<1> SUFFICES ASSUME TypeOK, [Next]_vars PROVE TypeOK'
    OBVIOUS
<1>1. CASE UNCHANGED vars
    BY <1>1 DEF vars, db, job, history, TypeOK, Row
<1>2. CASE Restart
    <2>1. DatabaseTyped' /\ JobsTyped'
        BY <1>2, NotifyAssumption, TypeSplits DEF Restart, DatabaseTyped, JobsTyped, db
    <2>2. QED
        BY <1>2, <2>1, TypeParts DEF Restart
<1>3. ASSUME NEW u \in Users, NEW D \in {Devices} \union {{d} : d \in Devices},
             UnregisterDevice(u, D)
      PROVE  TypeOK'
    <2>1. D \in SUBSET Devices
        OBVIOUS
    <2>2. QED
        BY <1>3, <2>1, DatabaseStepTyped
<1>4. ASSUME NEW C \in SUBSET Cars, SkipJob(C)
      PROVE  TypeOK'
    BY <1>4, <1>1 DEF SkipJob
<1>5. QED
    BY <1>1, <1>2, <1>3, <1>4, DatabaseStepTyped, JobStepTyped, Zenon DEF Next

\* Every variable has its type, and the semaphore never counts more than its
\* capacity (sync.go, 249-290).
THEOREM TypeCorrect == Spec => []TypeOK
    BY InitTyped, StepTyped, PTL DEF Spec

-----------------------------------------------------------------------------

\* A slot is taken with the start of a job and given back with its end, and a
\* restart empties the semaphore with the jobs.
LEMMA SlotsStep == TypeOK /\ SlotsAreHeld /\ [Next]_vars => SlotsAreHeld'
<1> SUFFICES ASSUME TypeOK, SlotsAreHeld, [Next]_vars PROVE SlotsAreHeld'
    OBVIOUS
<1>1. IsFiniteSet(Running)
    BY NotifyAssumption, FS_Subset DEF Running
<1>2. ASSUME sem' = sem, {j \in Jobs : pc'[j] # "none"} = Running
      PROVE  SlotsAreHeld'
    BY <1>2 DEF SlotsAreHeld, Running
<1>3. ASSUME UNCHANGED <<sem, pc>>
      PROVE  SlotsAreHeld'
    BY <1>2, <1>3 DEF Running
<1>4. ASSUME NEW u \in Users, NEW d \in Devices, NEW C \in SUBSET Cars, NEW j \in Jobs,
             StartJob(j, u, d, C)
      PROVE  SlotsAreHeld'
    <2>1. Running' = Running \union {j} /\ j \notin Running
        BY <1>4 DEF StartJob, Running, TypeOK
    <2>2. Cardinality(Running') = Cardinality(Running) + 1
        BY <1>1, <2>1, FS_AddElement
    <2>3. sem' = sem + 1
        BY <1>4 DEF StartJob
    <2>4. QED
        BY <2>2, <2>3 DEF SlotsAreHeld
<1>5. ASSUME NEW j \in Jobs, Release(j)
      PROVE  SlotsAreHeld'
    <2>1. Running' = Running \ {j} /\ j \in Running
        BY <1>5 DEF Release, Running, TypeOK
    <2>2. Cardinality(Running') = Cardinality(Running) - 1
        BY <1>1, <2>1, FS_RemoveElement
    <2>3. sem' = sem - 1
        BY <1>5 DEF Release
    <2>4. QED
        BY <2>2, <2>3 DEF SlotsAreHeld
<1>6. ASSUME NEW j \in Jobs, Step(j), ~ Release(j)
      PROVE  SlotsAreHeld'
    <2>1. sem' = sem /\ pc'[j] # "none" /\ pc[j] # "none" /\ \A i \in Jobs \ {j} : pc'[i] = pc[i]
        <3>1. CASE ReadUsers(j)
            BY <3>1 DEF ReadUsers, TypeOK
        <3>2. CASE ReadDevices(j)
            BY <3>2 DEF ReadDevices, TypeOK
        <3>3. CASE ReadFails(j)
            BY <3>3 DEF ReadFails, TypeOK
        <3>4. CASE \E r \in queue[j] : Send(j, r)
            BY <3>4 DEF Send, TypeOK
        <3>5. CASE \E r \in queue[j] : SendRefused(j, r)
            BY <3>5 DEF SendRefused, TypeOK
        <3>6. CASE Cleanup(j)
            BY <3>6 DEF Cleanup, TypeOK
        <3>7. CASE Finish(j)
            BY <3>7 DEF Finish, TypeOK
        <3>8. QED
            BY <1>6, <3>1, <3>2, <3>3, <3>4, <3>5, <3>6, <3>7, Zenon DEF Step
    <2>2. {i \in Jobs : pc'[i] # "none"} = Running
        BY <2>1 DEF Running
    <2>3. QED
        BY <1>2, <2>1, <2>2
<1>7. CASE Restart
    <2>1. Running' = {} /\ sem' = 0
        BY <1>7 DEF Restart, Running
    <2>2. Cardinality({}) = 0
        BY FS_EmptySet
    <2>3. QED
        BY <2>1, <2>2 DEF SlotsAreHeld
<1>8. ASSUME NEW u \in Users, NEW c \in Cars, AcceptShare(u, c) \/ EndShare(u, c)
      PROVE  SlotsAreHeld'
    BY <1>3, <1>8 DEF AcceptShare, EndShare, job
<1>9. ASSUME NEW u \in Users, NEW d \in Devices, NEW t \in Tokens, RegisterDevice(u, d, t)
      PROVE  SlotsAreHeld'
    BY <1>3, <1>9 DEF RegisterDevice, job
<1>10. ASSUME NEW u \in Users, NEW D, UnregisterDevice(u, D)
      PROVE  SlotsAreHeld'
    BY <1>3, <1>10 DEF UnregisterDevice, job
<1>11. ASSUME NEW u \in Users, DeleteMe(u)
      PROVE  SlotsAreHeld'
    BY <1>3, <1>11 DEF DeleteMe, job
<1>12. CASE ReloadAPNs
    BY <1>3, <1>12 DEF ReloadAPNs, job
<1>13. CASE UNCHANGED vars
    BY <1>3, <1>13 DEF vars, job
<1>14. ASSUME NEW C \in SUBSET Cars, SkipJob(C)
      PROVE  SlotsAreHeld'
    BY <1>13, <1>14 DEF SkipJob
<1>15. QED
    BY <1>4, <1>5, <1>6, <1>7, <1>8, <1>9, <1>10, <1>11, <1>12, <1>13, <1>14, Zenon DEF Next

\* The semaphore counts the goroutines that run, however each of them ends
\* (sync.go, 144-148).
THEOREM SlotsCorrect == Spec => []SlotsAreHeld
<1>1. Init => SlotsAreHeld
    <2>1. Init => Running = {} /\ sem = 0
        BY DEF Init, Running
    <2>2. QED
        BY <2>1, FS_EmptySet DEF SlotsAreHeld
<1>2. QED
    BY <1>1, SlotsStep, TypeCorrect, PTL DEF Spec

\* A job that has ended is counted, so that there is a slot to give back.
ReleaseNeverBlocks == \A j \in Jobs : pc[j] \in {"over", "failed"} => sem > 0

\* The deferred receive from the semaphore finds something to receive: a job
\* that has ended never waits to give its slot back (sync.go, 147).
THEOREM SlotsComeOut == Spec => []ReleaseNeverBlocks
<1>1. ASSUME TypeOK, SlotsAreHeld, NEW j \in Jobs, pc[j] \in {"over", "failed"}
      PROVE  sem > 0
    <2>1. j \in Running
        BY <1>1 DEF Running
    <2>2. IsFiniteSet(Running)
        BY NotifyAssumption, FS_Subset DEF Running
    <2>3. Cardinality(Running) # 0
        BY <2>1, <2>2, FS_EmptySet
    <2>4. QED
        BY <1>1, <2>3, NotifyAssumption DEF SlotsAreHeld, TypeOK
<1>2. TypeOK /\ SlotsAreHeld => ReleaseNeverBlocks
    BY <1>1 DEF ReleaseNeverBlocks
<1>3. QED
    BY <1>2, TypeCorrect, SlotsCorrect, PTL

-----------------------------------------------------------------------------

\* What a step leaves of job i.
KeepsJob(i) ==
    /\ pc'[i] = pc[i]
    /\ sender'[i] = sender[i] /\ from'[i] = from[i] /\ changed'[i] = changed[i]
    /\ users'[i] = users[i] /\ queue'[i] = queue[i] /\ sent'[i] = sent[i]
    /\ refused'[i] = refused[i]
    /\ rejected \subseteq rejected'

\* The invariant of a job that a step leaves alone survives the step, whatever
\* the step does to shares, registrations and accounts.
LEMMA KeptJob ==
    ASSUME TypeOK, NEW S, Record(S), NEW i \in Jobs, i \notin S, JobInv(i), KeepsJob(i)
    PROVE  JobInv(i)'
<1> USE DEF KeepsJob
<1>1. DueInForce(i)'
    BY RecordFacts DEF DueInForce
<1>2. DueIsCovered(i)'
    <2>1. due'[i] \subseteq due[i]
        BY RecordFacts
    <2>2. QED
        BY <2>1 DEF JobInv, DueIsCovered
<1>3. pc[i] \notin Working \union {"over"} => pc'[i] \in {"none", "failed"}
    BY DEF TypeOK, Working
<1>4. OnlyInTime(i)'
    <2>1. pc[i] \notin Working \union {"over"} => hadAccess'[i] = {} /\ wasRegistered'[i] = {}
        BY <1>3, RecordFacts
    <2>2. QED
        BY <2>1 DEF JobInv, OnlyInTime
<1>5. pc[i] \in {"devices", "send", "cleanup", "over"} =>
        hadAccess[i] \subseteq hadAccess'[i] /\ wasRegistered[i] \subseteq wasRegistered'[i]
    <2>1. pc[i] \in {"devices", "send", "cleanup", "over"} => pc'[i] \notin {"none", "failed"}
        OBVIOUS
    <2>2. QED
        BY <2>1, RecordFacts
<1>6. ToldHadAccess(i)'
    <2>1. queue[i] \union sent[i] # {} => pc[i] \in {"send", "cleanup", "over"}
        BY DEF JobInv, OnlyInTime, Telling
    <2>2. QED
        BY <1>5, <2>1 DEF JobInv, ToldHadAccess, Telling
<1>7. HistoryIsOfOthers(i)'
    <2>1. \A u \in hadAccess'[i] : u # sender'[i]
        BY RecordFacts DEF JobInv, HistoryIsOfOthers
    <2>2. \A r \in wasRegistered'[i] : r[1] # sender'[i] /\ r[2] # from'[i]
        BY RecordFacts DEF JobInv, HistoryIsOfOthers
    <2>3. QED
        BY <2>1, <2>2 DEF HistoryIsOfOthers
<1>8. RefusedIsRejected(i)'
    BY DEF JobInv, RefusedIsRejected
<1>9. QED
    BY <1>1, <1>2, <1>4, <1>6, <1>7, <1>8 DEF JobInv

\* A job starts with nothing read or sent.
LEMMA StartJobInv ==
    ASSUME TypeOK, NEW j \in Jobs, JobInv(j), NEW u, NEW d, NEW C, StartJob(j, u, d, C)
    PROVE  JobInv(j)'
<1>1. pc[j] = "none" /\ pc'[j] = "users"
    BY DEF StartJob, TypeOK
<1>2. queue'[j] = {} /\ sent'[j] = {} /\ hadAccess[j] = {} /\ wasRegistered[j] = {}
    BY <1>1 DEF StartJob, JobInv, OnlyInTime, Telling, Working
<1>3. DueInForce(j)'
    BY RecordFacts DEF DueInForce, StartJob
<1>4. HistoryIsOfOthers(j)'
    <2>1. \A v \in hadAccess'[j] : v # sender'[j]
        BY <1>2, RecordFacts DEF StartJob
    <2>2. \A r \in wasRegistered'[j] : r[1] # sender'[j] /\ r[2] # from'[j]
        BY <1>2, RecordFacts DEF StartJob
    <2>3. QED
        BY <2>1, <2>2 DEF HistoryIsOfOthers
<1>5. QED
    BY <1>1, <1>2, <1>3, <1>4
    DEF JobInv, DueIsCovered, OnlyInTime, ToldHadAccess, RefusedIsRejected, Telling, Working

\* The query finds just those who are to hear of the push at that moment.
LEMMA HeardHasAccess ==
    ASSUME TypeOK, NEW j \in Jobs
    PROVE  /\ \A u \in GetUsersWithAccessToCars(changed[j], sender[j]) :
                u \in Users /\ Hears(u, j)
           /\ \A u : Hears(u, j) =>
                u \in GetUsersWithAccessToCars(changed[j], sender[j])
<1>1. changed[j] \subseteq Cars
    BY DEF TypeOK
<1>2. ASSUME NEW u \in GetUsersWithAccessToCars(changed[j], sender[j])
      PROVE  u \in Users /\ Hears(u, j)
    <2>1. u \in Users
        BY UsersTyped
    <2>2. u # sender[j]
        BY DEF GetUsersWithAccessToCars
    <2>3. \E c \in changed[j] : u \in sharers[c] \/ (u = OwnerOf[c] /\ u \in accounts)
        BY DEF GetUsersWithAccessToCars
    <2>4. QED
        BY <2>1, <2>2, <2>3 DEF Hears
<1>3. ASSUME NEW u, Hears(u, j)
      PROVE  u \in GetUsersWithAccessToCars(changed[j], sender[j])
    BY <1>3 DEF Hears, GetUsersWithAccessToCars
<1>4. QED
    BY <1>2, <1>3

\* The query for users loses nobody who is due, and finds nobody else.
LEMMA ReadUsersInv ==
    ASSUME TypeOK, NEW j \in Jobs, JobInv(j), ReadUsers(j)
    PROVE  JobInv(j)'
<1> DEFINE U == GetUsersWithAccessToCars(changed[j], sender[j])
<1>1. /\ pc[j] = "users" /\ pc'[j] = IF U = {} THEN "over" ELSE "devices"
      /\ users'[j] = U
      /\ Record({})
      /\ UNCHANGED <<accounts, sharers, regs, sender, from, changed, queue, sent>>
    BY DEF ReadUsers, TypeOK, db
<1>2. queue[j] = {} /\ sent[j] = {}
    BY <1>1 DEF JobInv, OnlyInTime, Telling
<1>3. \A u : Hears(u, j)' <=> Hears(u, j)
    BY <1>1 DEF Hears
<1>4. due'[j] \subseteq due[j]
    BY <1>1, RecordFacts
<1>5. \A r \in due[j] : r[1] \in U
    BY <1>1, HeardHasAccess DEF JobInv, DueInForce, Working
<1>6. DueInForce(j)'
    BY <1>1, RecordFacts DEF DueInForce
<1>7. DueIsCovered(j)'
    BY <1>1, <1>4, <1>5 DEF DueIsCovered, Telling
<1>8. OnlyInTime(j)'
    BY <1>1, <1>2 DEF OnlyInTime, Telling, Working
<1>9. ToldHadAccess(j)'
    <2>1. pc'[j] = "devices" => \A u \in U : u \in hadAccess'[j]
        <3>1. pc'[j] = "devices" => \A u \in Users : Hears(u, j)' => u \in hadAccess'[j]
            BY <1>1, RecordFacts DEF Working
        <3>2. \A u \in U : u \in Users /\ Hears(u, j)'
            BY <1>3, HeardHasAccess
        <3>3. QED
            BY <3>1, <3>2
    <2>2. QED
        BY <1>1, <1>2, <2>1 DEF ToldHadAccess, Telling
<1>10. HistoryIsOfOthers(j)'
    <2>1. \A v \in hadAccess'[j] : v # sender'[j]
        BY <1>1, RecordFacts DEF JobInv, HistoryIsOfOthers
    <2>2. \A r \in wasRegistered'[j] : r[1] # sender'[j] /\ r[2] # from'[j]
        BY <1>1, RecordFacts DEF JobInv, HistoryIsOfOthers
    <2>3. QED
        BY <2>1, <2>2 DEF HistoryIsOfOthers
<1>11. RefusedIsRejected(j)'
    BY <1>1 DEF RefusedIsRejected
<1>12. QED
    BY <1>6, <1>7, <1>8, <1>9, <1>10, <1>11 DEF JobInv

\* Neither does the query for registrations.
LEMMA ReadDevicesInv ==
    ASSUME TypeOK, NEW j \in Jobs, JobInv(j), ReadDevices(j)
    PROVE  JobInv(j)'
<1> DEFINE Q == GetDeviceTokensForUsers(users[j], from[j])
<1>1. /\ pc[j] = "devices" /\ pc'[j] = "send"
      /\ queue'[j] = Q
      /\ Record({})
      /\ UNCHANGED <<accounts, sharers, regs, sender, from, changed, users, sent>>
    BY DEF ReadDevices, TypeOK, db
<1>2. sent[j] = {} /\ users[j] \subseteq hadAccess[j] /\ sender[j] \notin hadAccess[j]
    BY <1>1 DEF JobInv, OnlyInTime, ToldHadAccess, HistoryIsOfOthers, Telling
<1>3. due'[j] \subseteq due[j]
    BY <1>1, RecordFacts
<1>4. \A r \in due[j] : r \in Q
    BY <1>1 DEF JobInv, DueInForce, DueIsCovered, Working, GetDeviceTokensForUsers
<1>5. hadAccess[j] \subseteq hadAccess'[j]
    BY <1>1, RecordFacts
<1>6. DueInForce(j)'
    BY <1>1, RecordFacts DEF DueInForce
<1>7. DueIsCovered(j)'
    BY <1>1, <1>3, <1>4 DEF DueIsCovered, Telling
<1>8. OnlyInTime(j)'
    BY <1>1 DEF OnlyInTime, Telling, Working
<1>9. ToldHadAccess(j)'
    <2>1. \A r \in Rows : r[1] # sender[j] /\ r[2] # from[j] => r \in wasRegistered'[j]
        <3>1. Rows' = Rows
            BY <1>1 DEF Rows
        <3>2. QED
            BY <1>1, <3>1, RecordFacts DEF Working
    <2>2. \A r \in Q : r \in Rows /\ r[1] \in users[j] /\ r[2] # from[j]
        BY DEF GetDeviceTokensForUsers
    <2>3. \A r \in Q : r[1] \in hadAccess'[j] /\ r \in wasRegistered'[j]
        BY <1>2, <1>5, <2>1, <2>2
    <2>4. QED
        BY <1>1, <1>2, <1>5, <2>3 DEF ToldHadAccess
<1>10. HistoryIsOfOthers(j)'
    <2>1. \A v \in hadAccess'[j] : v # sender'[j]
        BY <1>1, RecordFacts DEF JobInv, HistoryIsOfOthers
    <2>2. \A r \in wasRegistered'[j] : r[1] # sender'[j] /\ r[2] # from'[j]
        BY <1>1, RecordFacts DEF JobInv, HistoryIsOfOthers
    <2>3. QED
        BY <2>1, <2>2 DEF HistoryIsOfOthers
<1>11. RefusedIsRejected(j)'
    BY <1>1 DEF RefusedIsRejected
<1>12. QED
    BY <1>6, <1>7, <1>8, <1>9, <1>10, <1>11 DEF JobInv

\* A job that sends, cleans up or gets to its end loses nothing of what it has
\* to send or has sent.
LEMMA SendingInv ==
    ASSUME TypeOK, NEW j \in Jobs, JobInv(j), Record({}),
           pc[j] \in Telling, pc'[j] \in Telling \union {"over"},
           UNCHANGED <<sender, from, users>>,
           queue'[j] \union sent'[j] = queue[j] \union sent[j],
           pc'[j] = "over" => queue'[j] = {},
           RefusedIsRejected(j)'
    PROVE  JobInv(j)'
<1>1. due'[j] \subseteq due[j]
    BY RecordFacts
<1>2. hadAccess[j] \subseteq hadAccess'[j] /\ wasRegistered[j] \subseteq wasRegistered'[j]
    <2>1. pc'[j] \notin {"none", "failed"}
        BY DEF Telling
    <2>2. QED
        BY <2>1, RecordFacts
<1>3. DueInForce(j)'
    BY RecordFacts DEF DueInForce
<1>4. DueIsCovered(j)'
    BY <1>1 DEF JobInv, DueIsCovered, Telling
<1>5. OnlyInTime(j)'
    BY DEF OnlyInTime, Telling, Working
<1>6. ToldHadAccess(j)'
    <2>1. users[j] \subseteq hadAccess'[j]
        BY <1>2 DEF JobInv, ToldHadAccess
    <2>2. \A r \in queue[j] \union sent[j] : r[1] \in hadAccess'[j] /\ r \in wasRegistered'[j]
        BY <1>2 DEF JobInv, ToldHadAccess
    <2>3. QED
        BY <2>1, <2>2 DEF ToldHadAccess
<1>7. HistoryIsOfOthers(j)'
    <2>1. \A v \in hadAccess'[j] : v # sender'[j]
        BY RecordFacts DEF JobInv, HistoryIsOfOthers
    <2>2. \A r \in wasRegistered'[j] : r[1] # sender'[j] /\ r[2] # from'[j]
        BY RecordFacts DEF JobInv, HistoryIsOfOthers
    <2>3. QED
        BY <2>1, <2>2 DEF HistoryIsOfOthers
<1>8. QED
    BY <1>3, <1>4, <1>5, <1>6, <1>7 DEF JobInv

\* A job that is gone, or has failed, has nothing to answer for.
LEMMA IdleInv ==
    ASSUME NEW S, Record(S), NEW j \in Jobs, pc'[j] \in {"none", "failed"},
           queue'[j] = {}, sent'[j] = {}
    PROVE  JobInv(j)'
<1>1. due'[j] = {} /\ hadAccess'[j] = {} /\ wasRegistered'[j] = {}
    BY RecordFacts
<1>2. QED
    BY <1>1 DEF JobInv, DueInForce, DueIsCovered, OnlyInTime, ToldHadAccess,
                HistoryIsOfOthers, RefusedIsRejected, Telling, Working

\* Each step of a job keeps its invariant.
LEMMA StepInv ==
    ASSUME TypeOK, NEW j \in Jobs, JobInv(j), Step(j)
    PROVE  JobInv(j)'
<1>1. CASE ReadUsers(j)
    BY <1>1, ReadUsersInv
<1>2. CASE ReadDevices(j)
    BY <1>2, ReadDevicesInv
<1>3. CASE ReadFails(j)
    <2>1. pc[j] \notin Telling \union {"over"}
        BY <1>3 DEF ReadFails, Telling
    <2>2. queue[j] = {} /\ sent[j] = {}
        BY <2>1 DEF JobInv, OnlyInTime
    <2>3. pc'[j] = "failed" /\ queue'[j] = {} /\ sent'[j] = {}
        BY <1>3, <2>2 DEF ReadFails, TypeOK
    <2>4. QED
        BY <1>3, <2>3, IdleInv DEF ReadFails
<1>4. ASSUME NEW r \in queue[j], Send(j, r)
      PROVE  JobInv(j)'
    <2>1. /\ pc[j] \in Telling /\ pc'[j] \in Telling \union {"over"} /\ pc'[j] = "send"
          /\ Record({}) /\ UNCHANGED <<sender, from, users>>
        BY <1>4 DEF Send, Telling
    <2>2. queue'[j] \union sent'[j] = queue[j] \union sent[j]
        BY <1>4 DEF Send, TypeOK
    <2>3. RefusedIsRejected(j)'
        BY <2>1 DEF RefusedIsRejected
    <2>4. QED
        BY <2>1, <2>2, <2>3, SendingInv
<1>5. ASSUME NEW r \in queue[j], SendRefused(j, r)
      PROVE  JobInv(j)'
    <2>1. /\ pc[j] \in Telling /\ pc'[j] \in Telling \union {"over"} /\ pc'[j] = "cleanup"
          /\ Record({}) /\ UNCHANGED <<sender, from, users>>
        BY <1>5 DEF SendRefused, Telling, TypeOK
    <2>2. queue'[j] \union sent'[j] = queue[j] \union sent[j]
        BY <1>5 DEF SendRefused, TypeOK
    <2>3. RefusedIsRejected(j)'
        BY <1>5 DEF SendRefused, RefusedIsRejected, TypeOK
    <2>4. QED
        BY <2>1, <2>2, <2>3, SendingInv
<1>6. CASE Cleanup(j)
    <2>1. /\ pc[j] \in Telling /\ pc'[j] \in Telling \union {"over"} /\ pc'[j] = "send"
          /\ Record({}) /\ UNCHANGED <<sender, from, users, queue, sent>>
        BY <1>6 DEF Cleanup, Telling, TypeOK
    <2>2. RefusedIsRejected(j)'
        BY <2>1 DEF RefusedIsRejected
    <2>3. QED
        BY <2>1, <2>2, SendingInv
<1>7. CASE Finish(j)
    <2>1. /\ pc[j] \in Telling /\ pc'[j] \in Telling \union {"over"} /\ pc'[j] = "over"
          /\ Record({}) /\ UNCHANGED <<sender, from, users, queue, sent>> /\ queue[j] = {}
        BY <1>7 DEF Finish, Telling, TypeOK
    <2>2. RefusedIsRejected(j)'
        BY <2>1 DEF RefusedIsRejected
    <2>3. QED
        BY <2>1, <2>2, SendingInv
<1>8. CASE Release(j)
    <2>1. pc[j] \notin Telling
        BY <1>8 DEF Release, Telling
    <2>2. queue[j] = {}
        BY <2>1 DEF JobInv, OnlyInTime
    <2>3. pc'[j] = "none" /\ queue'[j] = {} /\ sent'[j] = {}
        BY <1>8, <2>2 DEF Release, TypeOK
    <2>4. QED
        BY <1>8, <2>3, IdleInv DEF Release
<1>9. QED
    BY <1>1, <1>2, <1>3, <1>4, <1>5, <1>6, <1>7, <1>8, Zenon DEF Step

\* A job's step leaves the other jobs alone.
LEMMA OtherJobs ==
    ASSUME TypeOK, NEW j \in Jobs, NEW i \in Jobs \ {j},
           \/ Step(j)
           \/ \E u \in Users, d \in Devices, C \in SUBSET Cars : StartJob(j, u, d, C)
    PROVE  KeepsJob(i) /\ \E S : Record(S) /\ i \notin S
<1>1. ASSUME NEW u, NEW d, NEW C, StartJob(j, u, d, C)
      PROVE  KeepsJob(i) /\ Record({j})
    BY <1>1 DEF StartJob, KeepsJob, TypeOK
<1>2. ASSUME Step(j)
      PROVE  KeepsJob(i) /\ Record({})
    <2>1. CASE ReadUsers(j)
        BY <2>1 DEF ReadUsers, KeepsJob, TypeOK
    <2>2. CASE ReadDevices(j)
        BY <2>2 DEF ReadDevices, KeepsJob, TypeOK
    <2>3. CASE ReadFails(j)
        BY <2>3 DEF ReadFails, KeepsJob, TypeOK
    <2>4. CASE \E r \in queue[j] : Send(j, r)
        BY <2>4 DEF Send, KeepsJob, TypeOK
    <2>5. CASE \E r \in queue[j] : SendRefused(j, r)
        BY <2>5 DEF SendRefused, KeepsJob, TypeOK
    <2>6. CASE Cleanup(j)
        BY <2>6 DEF Cleanup, KeepsJob, TypeOK
    <2>7. CASE Finish(j)
        BY <2>7 DEF Finish, KeepsJob, TypeOK
    <2>8. CASE Release(j)
        BY <2>8 DEF Release, KeepsJob, TypeOK
    <2>9. QED
        BY <1>2, <2>1, <2>2, <2>3, <2>4, <2>5, <2>6, <2>7, <2>8, Zenon DEF Step
<1>3. i \notin {j} /\ i \notin {}
    OBVIOUS
<1>4. QED
    BY <1>1, <1>2, <1>3

\* Each step keeps the invariant of each job.
LEMMA InvStep == TypeOK /\ Inv /\ [Next]_vars => Inv'
<1> SUFFICES ASSUME TypeOK, Inv, [Next]_vars, NEW i \in Jobs PROVE JobInv(i)'
    BY DEF Inv
<1>0. JobInv(i)
    BY DEF Inv
<1>1. ASSUME UNCHANGED <<job, rejected>>, Record({})
      PROVE  JobInv(i)'
    <2>1. KeepsJob(i)
        BY <1>1 DEF KeepsJob, job
    <2>2. QED
        BY <1>0, <1>1, <2>1, KeptJob
<1>2. CASE UNCHANGED vars
    BY <1>0, <1>2 DEF JobInv, DueInForce, DueIsCovered, OnlyInTime, ToldHadAccess,
        HistoryIsOfOthers, RefusedIsRejected, Hears, Rows, vars, db, job, history
<1>3. ASSUME NEW C \in SUBSET Cars, SkipJob(C)
      PROVE  JobInv(i)'
    BY <1>2, <1>3 DEF SkipJob
<1>4. ASSUME NEW u \in Users, NEW c \in Cars, AcceptShare(u, c) \/ EndShare(u, c)
      PROVE  JobInv(i)'
    BY <1>1, <1>4 DEF AcceptShare, EndShare
<1>5. ASSUME NEW u \in Users, NEW d \in Devices, NEW t \in Tokens, RegisterDevice(u, d, t)
      PROVE  JobInv(i)'
    BY <1>1, <1>5 DEF RegisterDevice
<1>6. ASSUME NEW u \in Users, NEW D, UnregisterDevice(u, D)
      PROVE  JobInv(i)'
    BY <1>1, <1>6 DEF UnregisterDevice
<1>7. ASSUME NEW u \in Users, DeleteMe(u)
      PROVE  JobInv(i)'
    BY <1>1, <1>7 DEF DeleteMe
<1>8. CASE ReloadAPNs
    BY <1>1, <1>8 DEF ReloadAPNs
<1>9. CASE Restart
    BY <1>9, IdleInv DEF Restart
<1>10. ASSUME NEW u \in Users, NEW C \in SUBSET Cars, NEW j \in Jobs, NEW d \in Devices,
              StartJob(j, u, d, C)
       PROVE  JobInv(i)'
    <2>1. CASE i = j
        BY <1>0, <1>10, <2>1, StartJobInv
    <2>2. CASE i # j
        BY <1>0, <1>10, <2>2, OtherJobs, KeptJob
    <2>3. QED
        BY <2>1, <2>2
<1>11. ASSUME NEW j \in Jobs, Step(j)
       PROVE  JobInv(i)'
    <2>1. CASE i = j
        BY <1>0, <1>11, <2>1, StepInv
    <2>2. CASE i # j
        BY <1>0, <1>11, <2>2, OtherJobs, KeptJob
    <2>3. QED
        BY <2>1, <2>2
<1>12. QED
    BY <1>2, <1>3, <1>4, <1>5, <1>6, <1>7, <1>8, <1>9, <1>10, <1>11, Zenon DEF Next

\* Every job's reads, queue and sends fit what was in the tables while it ran
\* (sync.go, 249-286).
THEOREM Invariant == Spec => []Inv
<1>1. Init => Inv
    BY DEF Init, Inv, JobInv, DueInForce, DueIsCovered, OnlyInTime, ToldHadAccess,
        HistoryIsOfOthers, RefusedIsRejected, Telling, Working
<1>2. QED
    BY <1>1, InvStep, TypeCorrect, PTL DEF Spec

\* A job that ran to its end has notified every registration that was in force
\* all the time, though it reads users and registrations in two queries and
\* both change in between (sync.go, 249-286).
THEOREM EveryoneElse == Spec => []EveryoneElseIsTold
<1>1. TypeOK /\ Inv => EveryoneElseIsTold
    BY DEF Inv, JobInv, DueIsCovered, OnlyInTime, EveryoneElseIsTold, Telling
<1>2. QED
    BY <1>1, Invariant, TypeCorrect, PTL

\* Nobody is notified who had no access, or at no registration, while the job
\* ran (sync.go, 249-250).
THEOREM NobodyElse == Spec => []NobodyElseIsTold
<1>1. Inv => NobodyElseIsTold
    BY DEF Inv, JobInv, ToldHadAccess, NobodyElseIsTold
<1>2. QED
    BY <1>1, Invariant, PTL

\* Of the history it says the same without history: no push to the sender, nor
\* to the device it pushed from, whoever else has registered that.
NeverTheSender ==
    \A j \in Jobs : \A r \in sent[j] : r[1] # sender[j] /\ r[2] # from[j]

\* The user and the device that pushed are never told to sync by their own push
\* (sync.go, 249-268).
THEOREM SenderIsLeftAlone == Spec => []NeverTheSender
<1>1. Inv => NeverTheSender
    BY DEF Inv, JobInv, ToldHadAccess, HistoryIsOfOthers, NeverTheSender
<1>2. QED
    BY <1>1, Invariant, PTL

\* Only a clean-up that deletes takes a job away from there and changes a row,
\* and it changes those with the refused token.
LEMMA RenewedStep ==
    ASSUME TypeOK, Inv, [Next]_vars, NEW j \in Jobs, pc[j] = "cleanup", pc'[j] # "cleanup",
           NEW x \in Users \X Devices, regs'[x] # regs[x]
    PROVE  regs[x] \in rejected
<1>1. ASSUME Cleanup(j)
      PROVE  regs[x] \in rejected
    <2>1. refused[j][3] \in rejected
        BY DEF Inv, JobInv, RefusedIsRejected
    <2>2. regs'[x] # regs[x] => regs[x] = refused[j][3]
        BY <1>1 DEF Cleanup, DeleteDeviceTokenByToken
    <2>3. QED
        BY <2>1, <2>2
<1>2. ASSUME NEW i \in Jobs, i # j, Step(i)
      PROVE  FALSE
    BY <1>2, OtherJobs DEF KeepsJob
<1>3. ASSUME Step(j), ~ Cleanup(j)
      PROVE  FALSE
    BY <1>3, Zenon DEF Step, ReadUsers, ReadDevices, ReadFails, Send, SendRefused, Finish, Release
<1>4. ASSUME NEW u \in Users, NEW C \in SUBSET Cars, NEW i \in Jobs, NEW d \in Devices,
             StartJob(i, u, d, C)
      PROVE  FALSE
    BY <1>4 DEF StartJob, TypeOK
<1>5. ASSUME Restart
      PROVE  FALSE
    BY <1>5 DEF Restart, db
<1>6. ASSUME UNCHANGED job
      PROVE  FALSE
    BY <1>6 DEF job
<1>7. ASSUME UNCHANGED vars
      PROVE  FALSE
    BY <1>7 DEF vars, job
<1>8. ASSUME NEW C \in SUBSET Cars, SkipJob(C)
      PROVE  FALSE
    BY <1>7, <1>8 DEF SkipJob
<1>9. ASSUME NEW u \in Users, NEW c \in Cars, AcceptShare(u, c) \/ EndShare(u, c)
      PROVE  FALSE
    BY <1>6, <1>9 DEF AcceptShare, EndShare
<1>10. ASSUME NEW u \in Users, NEW d \in Devices, NEW t \in Tokens, RegisterDevice(u, d, t)
       PROVE  FALSE
    BY <1>6, <1>10 DEF RegisterDevice
<1>11. ASSUME NEW u \in Users, NEW D, UnregisterDevice(u, D)
       PROVE  FALSE
    BY <1>6, <1>11 DEF UnregisterDevice
<1>12. ASSUME NEW u \in Users, DeleteMe(u)
       PROVE  FALSE
    BY <1>6, <1>12 DEF DeleteMe
<1>13. ASSUME ReloadAPNs
       PROVE  FALSE
    BY <1>6, <1>13 DEF ReloadAPNs
<1>14. ASSUME NEW i \in Jobs, Step(i)
       PROVE  regs[x] \in rejected
    BY <1>1, <1>2, <1>3, <1>14, Zenon
<1>15. QED
    BY <1>4, <1>5, <1>7, <1>8, <1>9, <1>10, <1>11, <1>12, <1>13, <1>14, Zenon DEF Next

\* A registration renewed with another token while its old one was being
\* refused is not deleted by the clean-up (sync.go, 277-281).
THEOREM Renewed == Spec => RenewedIsKept
<1>1. TypeOK /\ Inv /\ [Next]_vars =>
        [\A j \in Jobs : pc[j] = "cleanup" /\ pc'[j] # "cleanup" =>
            \A x \in Users \X Devices : regs'[x] # regs[x] => regs[x] \in rejected]_vars
    BY RenewedStep
<1>2. QED
    BY <1>1, TypeCorrect, Invariant, PTL DEF Spec, RenewedIsKept
=============================================================================
