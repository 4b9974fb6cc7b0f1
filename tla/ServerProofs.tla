---------------------------- MODULE ServerProofs ----------------------------
(* What the server guarantees for any keys, forms, clients and numbers.      *)
EXTENDS Server, FiniteSetTheorems, TLAPS

LimiterProofs == INSTANCE RateLimiterProofs WITH up <- phase # "down"

-----------------------------------------------------------------------------
(* The limiter inside the server.                                          *)

\* Every step of the server is one of the limiter, or none.
LEMMA LimiterSteps == [Next]_vars => [Limiter!Next]_Limiter!vars
<1> SUFFICES ASSUME [Next]_vars PROVE [Limiter!Next]_Limiter!vars
    OBVIOUS
<1>1. ASSUME Start
      PROVE  Limiter!Next \/ UNCHANGED Limiter!vars
  <2>1. CASE Connect
      BY <2>1 DEF Connect, Limiter!Next, Limiter!Start
  <2>2. CASE Migrate \/ MigrateFails \/ MigrationsEnd \/ Load \/ LoadFails
      BY <2>2 DEF Migrate, MigrateFails, MigrationsEnd, Load, LoadFails, limiter, Limiter!vars
  <2> QED
      BY <1>1, <2>1, <2>2 DEF Start
<1>2. CASE Crash \/ Exit
    BY <1>2 DEF Crash, Exit, Ends, Limiter!Next
<1>3. CASE Tick \/ Cleanup
    BY <1>3 DEF Tick, Cleanup, process, Limiter!Next, Limiter!Runs
<1>4. ASSUME NEW k \in Clients, Request(k) \/ \E s \in Saves, f \in Forms : ConfigSave(k, s, f)
      PROVE  Limiter!Next
    BY <1>4 DEF Request, ConfigSave, process, Limiter!Next, Limiter!Runs
<1>5. ASSUME NEW s \in Saves,
             ReloadAPNs(s) \/ \E k \in Keys : SetServerConfig(s, k) \/ SaveFails(s, k)
      PROVE  UNCHANGED Limiter!vars
    BY <1>5 DEF ReloadAPNs, SetServerConfig, SaveFails, process, limiter, Limiter!vars
<1>6. CASE Shutdown \/ UNCHANGED vars
    BY <1>6 DEF Shutdown, vars, process, limiter, Limiter!vars
<1> QED
    BY <1>1, <1>2, <1>3, <1>4, <1>5, <1>6 DEF Next

\* A step of the limiter, under the names of either instance.
LEMMA SameSteps == [Limiter!Next]_Limiter!vars => [LimiterProofs!Next]_LimiterProofs!vars
BY DEF Limiter!vars, LimiterProofs!vars, Limiter!Next, LimiterProofs!Next,
       Limiter!Allow, LimiterProofs!Allow, Limiter!Tick, LimiterProofs!Tick,
       Limiter!Cleanup, LimiterProofs!Cleanup, Limiter!Start, LimiterProofs!Start,
       Limiter!Stop, LimiterProofs!Stop, Limiter!Runs, LimiterProofs!Runs,
       Limiter!Unasked, LimiterProofs!Unasked,
       Limiter!NewBucket, LimiterProofs!NewBucket, Limiter!UseBucket,
       LimiterProofs!UseBucket, Limiter!Refilled, LimiterProofs!Refilled

\* The theorem of RateLimiterProofs about the limiter here, whose definitions are
\* the same under the names of another instance.
LEMMA LimiterIsBucket == Limiter!Spec => ActsAsTokenBucket
<1>1. LimiterProofs!Tuned
    BY LimiterAssumption DEF LimiterAssumption, Limiter!Tuned, LimiterProofs!Tuned,
                             Limiter!Bucket, LimiterProofs!Bucket
<1>2. LimiterProofs!Spec => LimiterProofs!ActsAsTokenBucket
    BY <1>1, LimiterProofs!LimiterRefinesBucket
<1>3. Limiter!Init => LimiterProofs!Init
    BY DEF Limiter!Init, LimiterProofs!Init, Limiter!Unasked, LimiterProofs!Unasked
<1>4. [Limiter!Next]_Limiter!vars => [LimiterProofs!Next]_LimiterProofs!vars
    BY SameSteps
<1>5. Limiter!Spec => LimiterProofs!Spec
    BY <1>3, <1>4, PTL DEF Limiter!Spec, LimiterProofs!Spec
<1>6. LimiterProofs!Level = Limiter!Level
    BY DEF LimiterProofs!Level, Limiter!Level, LimiterProofs!Refilled, Limiter!Refilled
<1>7. LimiterProofs!Bucketed!Init => Limiter!Bucketed!Init
    BY <1>6 DEF LimiterProofs!Bucketed!Init, Limiter!Bucketed!Init,
                LimiterProofs!Bucketed!Full, Limiter!Bucketed!Full,
                LimiterProofs!Bucketed!Unasked, Limiter!Bucketed!Unasked
<1>8. [LimiterProofs!Bucketed!Next]_LimiterProofs!Bucketed!vars
        => [Limiter!Bucketed!Next]_Limiter!Bucketed!vars
  <2>1. LimiterProofs!Level' = Limiter!Level'
      BY DEF LimiterProofs!Level, Limiter!Level, LimiterProofs!Refilled, Limiter!Refilled
  <2> QED
      BY <1>6, <2>1 DEF LimiterProofs!Bucketed!Next, Limiter!Bucketed!Next,
                        LimiterProofs!Bucketed!Pass, Limiter!Bucketed!Pass,
                        LimiterProofs!Bucketed!Refuse, Limiter!Bucketed!Refuse,
                        LimiterProofs!Bucketed!Tick, Limiter!Bucketed!Tick,
                        LimiterProofs!Bucketed!Start, Limiter!Bucketed!Start,
                        LimiterProofs!Bucketed!Stop, Limiter!Bucketed!Stop,
                        LimiterProofs!Bucketed!Runs, Limiter!Bucketed!Runs,
                        LimiterProofs!Bucketed!Unasked, Limiter!Bucketed!Unasked,
                        LimiterProofs!Bucketed!vars, Limiter!Bucketed!vars,
                        LimiterProofs!Bucketed!Full, Limiter!Bucketed!Full
<1>9. LimiterProofs!ActsAsTokenBucket => Limiter!ActsAsTokenBucket
    BY <1>7, <1>8, PTL
    DEF LimiterProofs!ActsAsTokenBucket, Limiter!ActsAsTokenBucket,
        LimiterProofs!Bucketed!Spec, Limiter!Bucketed!Spec
<1> QED
    BY <1>2, <1>5, <1>9, PTL DEF ActsAsTokenBucket

\* Inside the server, whatever starts, saves and crashes come between, the limiter
\* acts as a token bucket for every client.
THEOREM ServerLimits == Spec => ActsAsTokenBucket
<1>1. Init => Limiter!Init
    BY DEF Init
<1>2. Spec => Limiter!Spec
    BY <1>1, LimiterSteps, PTL DEF Spec, Limiter!Spec
<1> QED
    BY <1>2, LimiterIsBucket, PTL
-----------------------------------------------------------------------------
(* Types.                                                                  *)

\* The limiter keeps its types.
LEMMA LimiterTyped == Limiter!TypeOK /\ [Limiter!Next]_Limiter!vars => Limiter!TypeOK'
<1> SUFFICES ASSUME Limiter!TypeOK, [Limiter!Next]_Limiter!vars PROVE Limiter!TypeOK'
    OBVIOUS
<1>1. LimiterProofs!Tuned
    BY LimiterAssumption DEF LimiterAssumption, Limiter!Tuned, LimiterProofs!Tuned,
                             Limiter!Bucket, LimiterProofs!Bucket
<1>2. LimiterProofs!TypeOK /\ [LimiterProofs!Next]_LimiterProofs!vars
    BY SameSteps DEF Limiter!TypeOK, LimiterProofs!TypeOK, Limiter!Bucket,
                     LimiterProofs!Bucket
<1>3. LimiterProofs!TypeOK'
    BY <1>1, <1>2, LimiterProofs!StepsMap
<1> QED
    BY <1>3 DEF Limiter!TypeOK, LimiterProofs!TypeOK, Limiter!Bucket, LimiterProofs!Bucket

\* Every step keeps the types.
LEMMA NextTyped == TypeOK /\ [Next]_vars => TypeOK'
<1> SUFFICES ASSUME TypeOK, [Next]_vars PROVE TypeOK'
    OBVIOUS
<1>0. Limiter!TypeOK'
    BY LimiterTyped, LimiterSteps DEF TypeOK
<1>a. /\ Statements \in Nat /\ MaxCrashes \in Nat
      /\ 1 \in 1 .. Statements + 1 /\ 0 \in 0 .. MaxCrashes
    BY ServerAssumption
<1> USE <1>0, <1>a DEF TypeOK, Config, Saving, Running, saving, process
<1>1. CASE Start
  <2>1. CASE Connect
      BY <2>1 DEF Connect
  <2>5. CASE MigrateFails
      BY <2>5 DEF MigrateFails
  <2>6. CASE MigrationsEnd
      BY <2>6 DEF MigrationsEnd
  <2>4. CASE Migrate
    <3>1. schema' \subseteq 1 .. Statements /\ next' \in 1 .. Statements + 1
        BY <2>4 DEF Migrate
    <3> QED
        BY <2>4, <3>1 DEF Migrate
  <2>2. CASE Load
    <3>1. NewClient(config) \in Config \union {None}
        BY DEF NewClient
    <3> QED
        BY <2>2, <3>1 DEF Load
  <2>3. CASE LoadFails
      BY <2>3 DEF LoadFails
  <2> QED
      BY <1>1, <2>1, <2>2, <2>3, <2>4, <2>5, <2>6 DEF Start
<1>2. CASE Crash \/ Exit
  <2>1. Ends
      BY <1>2, Zenon DEF Crash, Exit
  <2>5. crashes' \in 0 .. MaxCrashes
    <3>1. crashes' = crashes \/ (crashes < MaxCrashes /\ crashes' = crashes + 1)
        BY <1>2 DEF Crash, Exit
    <3> QED
        BY <3>1
  <2>6. tangled' \in BOOLEAN
      BY <1>2 DEF Crash, Exit
  <2>2. {r \in Saves : form'[r] # None} = {}
      BY <2>1 DEF Ends
  <2>3. /\ phase' = "down" /\ client' = None /\ alone' = {} /\ next' = 1
        /\ migrated' = FALSE /\ behind' = FALSE /\ UNCHANGED <<schema, config>>
      BY <2>1 DEF Ends
  <2>4. form' \in [Saves -> Forms \union {None}] /\ todo' \in [Saves -> SUBSET Keys]
      BY <2>1 DEF Ends
  <2> QED
      BY <2>2, <2>3, <2>4, <2>5, <2>6
<1>3. CASE Shutdown
    BY <1>3 DEF Shutdown
<1>4. CASE Tick \/ Cleanup \/ \E k \in Clients : Request(k)
    BY <1>4 DEF Tick, Cleanup, Request
<1>5. ASSUME NEW k \in Clients, NEW s \in Saves, NEW f \in Forms, ConfigSave(k, s, f)
      PROVE  TypeOK'
  <2>1. /\ phase' = "serving" /\ form' = [form EXCEPT ![s] = f]
        /\ alone' = IF Saving = {} THEN {s} ELSE {}
        /\ todo' = [todo EXCEPT ![s] = Keys]
      BY <1>5 DEF ConfigSave
  <2>2. alone' \subseteq {r \in Saves : form'[r] # None}
    <3>1. f # None /\ form'[s] = f
        BY <2>1, ServerAssumption
    <3> QED
        BY <2>1, <3>1
  <2>3. form' \in [Saves -> Forms \union {None}] /\ todo' \in [Saves -> SUBSET Keys]
      BY <2>1
  <2>4. /\ UNCHANGED <<schema, next, crashes, migrated>>
        /\ UNCHANGED <<config, client, tangled, behind>>
      BY <1>5 DEF ConfigSave
  <2> QED
      BY <2>1, <2>2, <2>3, <2>4
<1>6. ASSUME NEW s \in Saves, NEW k \in Keys, SetServerConfig(s, k)
      PROVE  TypeOK'
  <2>1. todo' \in [Saves -> SUBSET Keys] /\ config' \in Config
      BY <1>6 DEF SetServerConfig
  <2> QED
      BY <1>6, <2>1 DEF SetServerConfig
<1>7. ASSUME NEW s \in Saves, EndSave(s), UNCHANGED phase,
             phase \in {"serving", "stopping"} \/ UNCHANGED client
      PROVE  /\ form' \in [Saves -> Forms \union {None}]
             /\ todo' \in [Saves -> SUBSET Keys]
             /\ alone' \subseteq {r \in Saves : form'[r] # None}
             /\ phase' \notin {"serving", "stopping"} =>
                  {r \in Saves : form'[r] # None} = {} /\ client' = None
    BY <1>7 DEF EndSave
<1>8. ASSUME NEW s \in Saves, NEW k \in Keys, SaveFails(s, k)
      PROVE  TypeOK'
  <2>1. config' \in Config
      BY <1>8 DEF SaveFails
  <2>2. tangled' \in BOOLEAN /\ behind' \in BOOLEAN
      BY <1>8 DEF SaveFails
  <2> QED
      BY <1>7, <1>8, <2>1, <2>2 DEF SaveFails
<1>9. ASSUME NEW s \in Saves, ReloadAPNs(s)
      PROVE  TypeOK'
  <2>1. phase \in {"serving", "stopping"}
      BY <1>9 DEF ReloadAPNs
  <2>2. client' \in Config \union {None}
    <3>1. NewClient([k \in Keys |-> form[s]]) \in Config \union {None}
        BY DEF NewClient
    <3> QED
        BY <1>9, <3>1 DEF ReloadAPNs
  <2>3. tangled' \in BOOLEAN /\ behind' \in BOOLEAN
      BY <1>9 DEF ReloadAPNs
  <2> QED
      BY <1>7, <1>9, <2>1, <2>2, <2>3 DEF ReloadAPNs
<1>10. CASE UNCHANGED vars
    BY <1>10 DEF vars
<1> QED
    BY <1>1, <1>2, <1>3, <1>4, <1>5, <1>6, <1>8, <1>9, <1>10 DEF Next

\* Phases, stored keys, clients, saves and buckets have their types, and only a
\* running server has saves and a client.
THEOREM TypeCorrect == Spec => []TypeOK
<1>1. Init => TypeOK
  <2> SUFFICES ASSUME Init PROVE TypeOK
      OBVIOUS
  <2>1. Limiter!TypeOK
      BY DEF Init, Limiter!Init, Limiter!TypeOK, Limiter!Unasked
  <2>2. next \in 1 .. Statements + 1 /\ crashes \in 0 .. MaxCrashes
      BY ServerAssumption DEF Init
  <2>3. /\ config \in Config
        /\ form \in [Saves -> Forms \union {None}]
        /\ todo \in [Saves -> SUBSET Keys]
        /\ Saving = {}
      BY DEF Init, Config, Saving
  <2> QED
      BY <2>1, <2>2, <2>3 DEF Init, TypeOK, Running
<1> QED
    BY <1>1, NextTyped, PTL DEF Spec
-----------------------------------------------------------------------------
(* The schema.                                                             *)

\* The statements that have taken effect are the first n, the next one is among
\* them or follows, and migrations without an error have executed all.
Prefix(n) ==
    /\ schema = 1 .. n
    /\ next <= n + 1
    /\ migrated /\ phase # "migrating" => n = Statements

SchemaIsPrefix == \E n \in 0 .. Statements : Prefix(n)

\* A step leaves a prefix.
LEMMA PrefixKept == TypeOK /\ SchemaIsPrefix /\ [Next]_vars => SchemaIsPrefix'
<1> SUFFICES ASSUME TypeOK, SchemaIsPrefix, [Next]_vars PROVE SchemaIsPrefix'
    OBVIOUS
<1> USE ServerAssumption DEF process
<1>1. PICK n \in 0 .. Statements : Prefix(n)
    BY DEF SchemaIsPrefix
<1>2. CASE Migrate
  <2>1. CASE next <= n
    <3>1. schema' = 1 .. n
        BY <1>1, <1>2, <2>1 DEF Prefix, Migrate, TypeOK
    <3> QED
        BY <1>1, <1>2, <2>1, <3>1 DEF Prefix, Migrate, SchemaIsPrefix, TypeOK
  <2>2. CASE next = n + 1
    <3>1. schema' = 1 .. n + 1 /\ n + 1 \in 0 .. Statements
        BY <1>1, <1>2, <2>2 DEF Prefix, Migrate
    <3>2. Prefix(n + 1)'
        BY <1>2, <2>2, <3>1 DEF Prefix, Migrate
    <3> QED
        BY <3>1, <3>2 DEF SchemaIsPrefix
  <2> QED
      BY <1>1, <2>1, <2>2 DEF Prefix, TypeOK
<1>3. CASE MigrationsEnd
  <2>1. n = Statements
      BY <1>1, <1>3 DEF Prefix, MigrationsEnd, TypeOK
  <2> QED
      BY <1>1, <1>3, <2>1 DEF Prefix, MigrationsEnd, SchemaIsPrefix
<1>4. CASE Connect \/ MigrateFails \/ Crash \/ Exit
  <2>1. /\ schema' = schema
        /\ next' = next \/ next' = 1
        /\ migrated' => phase' = "migrating"
      BY <1>4 DEF Connect, MigrateFails, Crash, Exit, Ends
  <2> QED
      BY <1>1, <2>1 DEF Prefix, SchemaIsPrefix, TypeOK
<1>5. CASE Load \/ LoadFails \/ Shutdown
  <2>1. UNCHANGED <<schema, next, migrated>> /\ phase # "migrating"
      BY <1>5 DEF Load, LoadFails, Shutdown
  <2> QED
      BY <1>1, <2>1 DEF Prefix, SchemaIsPrefix
<1>6. ASSUME UNCHANGED process
      PROVE  SchemaIsPrefix'
    BY <1>1, <1>6 DEF Prefix, SchemaIsPrefix
<1>7. ASSUME \/ \E k \in Clients : Request(k) \/ \E s \in Saves, f \in Forms : ConfigSave(k, s, f)
             \/ \E s \in Saves :
                   ReloadAPNs(s) \/ \E k \in Keys : SetServerConfig(s, k) \/ SaveFails(s, k)
             \/ Tick \/ Cleanup \/ UNCHANGED vars
      PROVE  UNCHANGED process
    BY <1>7 DEF Request, ConfigSave, ReloadAPNs, SetServerConfig, SaveFails, Tick, Cleanup, vars
<1> QED
    BY <1>2, <1>3, <1>4, <1>5, <1>6, <1>7 DEF Next, Start

\* The schema is completed in its order, over any number of starts, and a start
\* without an error serves on all of it.
THEOREM SchemaComplete == Spec => []SchemaInOrder
<1>1. Init => SchemaIsPrefix
  <2>1. Init => Prefix(0)
      BY ServerAssumption DEF Init, Prefix
  <2> QED
      BY <2>1, ServerAssumption DEF SchemaIsPrefix
<1>2. SchemaIsPrefix => SchemaInOrder
  <2> SUFFICES ASSUME NEW n \in 0 .. Statements, Prefix(n) PROVE SchemaInOrder
      BY DEF SchemaIsPrefix
  <2>1. Cardinality(1 .. n) = n
      BY ServerAssumption, FS_Interval
  <2>2. schema = 1 .. Cardinality(schema)
      BY <2>1 DEF Prefix
  <2>3. migrated /\ Running => schema = 1 .. Statements
      BY DEF Prefix, Running
  <2> QED
      BY <2>2, <2>3 DEF SchemaInOrder
<1> QED
    BY <1>1, <1>2, PrefixKept, TypeCorrect, PTL DEF Spec
-----------------------------------------------------------------------------
(* The configuration.                                                      *)

\* A save that nothing has overlapped is the only one, and what it has written is
\* still there; a slot without a save has nothing to write.
AloneWrites ==
    /\ \A s \in alone : Saving = {s} /\ \A k \in Keys \ todo[s] : config[k] = form[s]
    /\ \A s \in Saves : form[s] = None => todo[s] = {}

\* Nothing of a save under way is stored.
Settled == Saving = {} \/ \E s \in alone : todo[s] = Keys

\* Then what is stored is one form, and the client is built from it.
StoredAndUsed ==
    Settled /\ ~tangled =>
        /\ \E f \in Forms \union {None} : config = [k \in Keys |-> f]
        /\ Running /\ ~behind => NewClient(config) \in {None, client}

ConfigInv == AloneWrites /\ StoredAndUsed

\* Steps that touch neither saves nor what is stored.
LEMMA ConfigIdle ==
    ASSUME ConfigInv, UNCHANGED <<config, saving, tangled>>,
           \/ UNCHANGED <<client, behind>> /\ (Running' => Running)
           \/ ~ Running'
           \/ behind'
           \/ client' = NewClient(config)
    PROVE  ConfigInv'
<1>1. AloneWrites'
    BY DEF ConfigInv, AloneWrites, Saving, saving
<1>2. Settled' = Settled
    BY DEF Settled, Saving, saving
<1>3. NewClient(config)' = NewClient(config)
    BY DEF NewClient
<1>4. StoredAndUsed'
    BY <1>2, <1>3 DEF ConfigInv, StoredAndUsed
<1> QED
    BY <1>1, <1>4 DEF ConfigInv

\* The end of the process, with the saves it had.
LEMMA ConfigEnds ==
    ASSUME TypeOK, ConfigInv, Ends, tangled' = (tangled \/ Saving # {})
    PROVE  ConfigInv'
<1>1. alone' = {} /\ UNCHANGED config /\ ~ Running'
    BY DEF Ends, Running
<1>2. \A s \in Saves : form'[s] = None /\ todo'[s] = {}
    BY DEF Ends
<1>3. ~ tangled' => ~ tangled /\ Settled
    BY DEF Settled
<1> QED
    BY <1>1, <1>2, <1>3 DEF ConfigInv, AloneWrites, StoredAndUsed

\* The end of a save.
LEMMA AloneEnds ==
    ASSUME TypeOK, AloneWrites, NEW s \in Saves, form[s] # None, EndSave(s)
    PROVE  AloneWrites'
<1>1. alone' = {}
    BY DEF EndSave, AloneWrites, Saving
<1>2. \A r \in Saves : form'[r] = None => todo'[r] = {}
    BY DEF EndSave, AloneWrites, TypeOK
<1> QED
    BY <1>1, <1>2 DEF AloneWrites

\* Every step keeps the invariant.
LEMMA ConfigKept == TypeOK /\ ConfigInv /\ [Next]_vars => ConfigInv'
<1> SUFFICES ASSUME TypeOK, ConfigInv, [Next]_vars PROVE ConfigInv'
    OBVIOUS
<1>1. CASE Start \/ Shutdown \/ UNCHANGED vars
  <2>1. UNCHANGED <<config, saving, tangled>>
      BY <1>1 DEF Start, Connect, Migrate, MigrateFails, MigrationsEnd, Load, LoadFails,
                  Shutdown, vars
  <2>2. \/ UNCHANGED <<client, behind>> /\ (Running' => Running)
        \/ ~ Running'
        \/ behind'
        \/ client' = NewClient(config)
      BY <1>1 DEF Start, Connect, Migrate, MigrateFails, MigrationsEnd, Load, LoadFails,
                  Shutdown, vars, Running, process
  <2> QED
      BY <2>1, <2>2, ConfigIdle
<1>2. CASE Crash
    BY <1>2, ConfigEnds DEF Crash
<1>3. CASE Exit
  <2>1. Ends /\ tangled' = (tangled \/ Saving # {})
      BY <1>3 DEF Exit, TypeOK
  <2> QED
      BY <2>1, ConfigEnds
<1>4. CASE Tick \/ Cleanup \/ \E k \in Clients : Request(k)
  <2>1. UNCHANGED <<config, saving, tangled, client, behind, phase>>
      BY <1>4 DEF Tick, Cleanup, Request, process
  <2>2. Running' = Running
      BY <2>1 DEF Running
  <2> QED
      BY <2>1, <2>2, ConfigIdle
<1>5. ASSUME NEW c \in Clients, NEW s \in Saves, NEW f \in Forms, ConfigSave(c, s, f)
      PROVE  ConfigInv'
  <2> USE DEF TypeOK
  <2>1. /\ form' = [form EXCEPT ![s] = f]
        /\ todo' = [todo EXCEPT ![s] = Keys]
        /\ alone' = IF Saving = {} THEN {s} ELSE {}
        /\ UNCHANGED <<config, client, tangled, behind, phase>>
      BY <1>5 DEF ConfigSave, process
  <2>2. Saving' = Saving \union {s}
      BY <2>1, ServerAssumption DEF Saving
  <2>3. AloneWrites'
    <3>1. \A r \in Saves : form'[r] = None => todo'[r] = {}
        BY <2>1, ServerAssumption DEF ConfigInv, AloneWrites
    <3> QED
        BY <2>1, <2>2, <3>1 DEF AloneWrites
  <2>4. Settled' => Settled
      BY <2>1, <2>2 DEF Settled
  <2>5. NewClient(config)' = NewClient(config) /\ Running' = Running
      BY <2>1 DEF NewClient, Running
  <2>6. StoredAndUsed'
      BY <2>1, <2>4, <2>5 DEF ConfigInv, StoredAndUsed
  <2> QED
      BY <2>3, <2>6 DEF ConfigInv
<1>6. ASSUME NEW s \in Saves, NEW k \in Keys, SetServerConfig(s, k)
      PROVE  ConfigInv'
  <2> USE DEF TypeOK, Config
  <2>1. s \in Saving
      BY <1>6 DEF SetServerConfig, ConfigInv, AloneWrites, Saving
  <2>2. \A r \in alone : r = s
      BY <2>1 DEF ConfigInv, AloneWrites
  <2>3. /\ Saving' = Saving
        /\ alone' = alone
        /\ todo'[s] = todo[s] \ {k}
        /\ config' = [config EXCEPT ![k] = form[s]]
        /\ form' = form
      BY <1>6 DEF SetServerConfig, Saving
  <2>4. AloneWrites'
    <3>1. \A r \in Saves : form'[r] = None => todo'[r] = {}
        BY <1>6 DEF SetServerConfig, ConfigInv, AloneWrites
    <3>2. ASSUME s \in alone, NEW q \in Keys, q \notin todo'[s]
          PROVE  config'[q] = form'[s]
        BY <2>3, <3>2 DEF ConfigInv, AloneWrites
    <3> QED
        BY <2>1, <2>2, <2>3, <3>1, <3>2 DEF ConfigInv, AloneWrites
  <2>5. ~ Settled'
      BY <2>1, <2>2, <2>3 DEF Settled
  <2> QED
      BY <2>4, <2>5 DEF ConfigInv, StoredAndUsed
<1>7. ASSUME NEW s \in Saves, NEW k \in Keys, SaveFails(s, k)
      PROVE  ConfigInv'
  <2>1. form[s] # None
      BY <1>7 DEF SaveFails, ConfigInv, AloneWrites
  <2>2. AloneWrites'
      BY <1>7, <2>1, AloneEnds DEF SaveFails, ConfigInv
  <2>3. ~ tangled' => /\ ~ tangled
                      /\ config' = config
                      /\ Settled
                      /\ ~ behind' => ~ behind
      BY <1>7 DEF SaveFails, Settled
  <2>4. UNCHANGED <<client, phase>>
      BY <1>7 DEF SaveFails, process
  <2>5. Running' = Running /\ (config' = config => NewClient(config)' = NewClient(config))
      BY <2>4 DEF Running, NewClient
  <2>6. StoredAndUsed'
      BY <2>3, <2>4, <2>5 DEF ConfigInv, StoredAndUsed
  <2> QED
      BY <2>2, <2>6 DEF ConfigInv
<1>8. ASSUME NEW s \in Saves, ReloadAPNs(s)
      PROVE  ConfigInv'
  <2>1. AloneWrites'
      BY <1>8, AloneEnds DEF ReloadAPNs, ConfigInv
  <2>2. config' = config /\ NewClient(config)' = NewClient(config)
      BY <1>8 DEF ReloadAPNs, NewClient
  <2>3. CASE s \in alone
    <3>1. config = [q \in Keys |-> form[s]]
        BY <1>8, <2>3 DEF ReloadAPNs, ConfigInv, AloneWrites, TypeOK, Config
    <3>2. NewClient(config) \in {None, client'}
        BY <1>8, <3>1 DEF ReloadAPNs
    <3>3. form[s] \in Forms \union {None}
        BY DEF TypeOK
    <3> QED
        BY <2>1, <2>2, <3>1, <3>2, <3>3 DEF ConfigInv, StoredAndUsed
  <2>4. CASE s \notin alone
    <3>1. tangled'
        BY <1>8, <2>4 DEF ReloadAPNs
    <3> QED
        BY <2>1, <3>1 DEF ConfigInv, StoredAndUsed
  <2> QED
      BY <2>3, <2>4
<1> QED
    BY <1>1, <1>2, <1>3, <1>4, <1>5, <1>6, <1>7, <1>8 DEF Next

\* The inductive invariant of the configuration.
THEOREM Invariant == Spec => []ConfigInv
<1>1. Init => ConfigInv
  <2> SUFFICES ASSUME Init PROVE ConfigInv
      OBVIOUS
  <2>1. AloneWrites
      BY DEF Init, AloneWrites
  <2>2. ~ Running
      BY DEF Init, Running
  <2>3. StoredAndUsed
      BY <2>2 DEF Init, StoredAndUsed
  <2> QED
      BY <2>1, <2>3 DEF ConfigInv
<1> QED
    BY <1>1, ConfigKept, TypeCorrect, PTL DEF Spec

\* With no save under way, and none that overlapped or failed half-way, one form is
\* stored.
THEOREM StoredUniform == Spec => []StoredIsOneForm
<1>1. ConfigInv => StoredIsOneForm
    BY DEF ConfigInv, StoredAndUsed, Settled, StoredIsOneForm
<1> QED
    BY <1>1, Invariant, PTL

\* Then also, the client in use is the one that a restart would build, if any.
THEOREM ClientMatches == Spec => []ClientIsStored
<1>1. ConfigInv => ClientIsStored
    BY DEF ConfigInv, StoredAndUsed, Settled, ClientIsStored
<1> QED
    BY <1>1, Invariant, PTL
=============================================================================
