------------------------------- MODULE Server -------------------------------
(***************************************************************************)
(* The process and its APNs client (cmd/server/main.go, internal/server/   *)
(* server.go, ConfigSave of internal/admin/handler.go, RunMigrations of    *)
(* store/postgres/db.go): the server starts, migrates the schema, builds a *)
(* client from the stored configuration and serves, behind the rate        *)
(* limiter, until it is stopped or dies, and is started again.  The admin  *)
(* saves configurations: key by key into the database, then a new client   *)
(* replaces the old one.                                                   *)
(*                                                                         *)
(* What a form says is left out: the values of a key are told apart by the *)
(* form they come from, and a form only by whether its ids are blank and   *)
(* its key content can be parsed.  A statement of a migration is known by  *)
(* its place.  The schema of other tables than server_config and what a    *)
(* handler does on an old schema are not looked at.                        *)
(***************************************************************************)
EXTENDS Naturals, FiniteSets

CONSTANTS
    Statements,            \* number of migration statements
    ConfigTable,           \* the one that creates server_config
    Keys, IdKeys, ContentKey,  \* the keys of server_config
    Forms,                 \* what the admin may submit
    Blank,                 \* forms without a key id or team id
    Unusable,              \* forms without a key content that can be parsed
    Saves,                 \* slots for forms being saved
    MaxCrashes,            \* bound: the process dies this often before it serves again
    Clients, Token, Capacity, Rate, MaxAge, \* of the rate limiter
    None

ASSUME ServerAssumption ==
    /\ Statements \in Nat
    /\ ConfigTable \in 1 .. Statements
    /\ IdKeys \subseteq Keys
    /\ IdKeys # {}
    /\ ContentKey \in Keys
    /\ Blank \subseteq Forms
    /\ Unusable \subseteq Forms
    /\ None \notin Forms
    /\ None \notin [Keys -> Forms \union {None}]
    /\ MaxCrashes \in Nat

VARIABLES
    phase,       \* of the process
    schema,      \* the statements that have taken effect
    next,        \* of RunMigrations: the statement about to be executed
    config,      \* server_config: of a key the form its value is from
    client,      \* apnsPtr: the configuration of the client in use
    form, todo,  \* of a save: what it saves, and the keys it has yet to write
    now, buckets, answer,  \* the rate limiter's
    crashes,     \* how often the process has died since it last began to serve
    migrated,    \* history: this start has executed every statement
    alone,       \* history: saves that no other save has overlapped
    tangled,     \* history: the last saves overlapped, or one failed
    behind       \* history: the client was not built from what is stored

saving == <<form, todo, alone>>
limiter == <<now, buckets, answer>>
process == <<phase, schema, next, crashes, migrated>>
vars == <<process, config, client, saving, limiter, tangled, behind>>

\* The limiter is made and lost with the process.
Limiter == INSTANCE RateLimiter WITH up <- phase # "down"

ASSUME LimiterAssumption == Limiter!Tuned

Config == [Keys -> Forms \union {None}]
Saving == {s \in Saves : form[s] # None}
Running == phase \in {"serving", "stopping"}

\* The variables have their types, and only a running server saves.
TypeOK ==
    /\ phase \in {"down", "migrating", "loading", "serving", "stopping"}
    /\ schema \subseteq 1 .. Statements
    /\ next \in 1 .. Statements + 1
    /\ config \in Config
    /\ client \in Config \union {None}
    /\ form \in [Saves -> Forms \union {None}]
    /\ todo \in [Saves -> SUBSET Keys]
    /\ Limiter!TypeOK
    /\ crashes \in 0 .. MaxCrashes
    /\ alone \subseteq Saving
    /\ {migrated, tangled, behind} \subseteq BOOLEAN
    /\ ~Running => Saving = {} /\ client = None

Init ==
    /\ phase = "down"
    /\ schema = {}
    /\ next = 1
    /\ config = [k \in Keys |-> None]
    /\ client = None
    /\ form = [s \in Saves |-> None]
    /\ todo = [s \in Saves |-> {}]
    /\ Limiter!Init
    /\ crashes = 0
    /\ migrated = FALSE
    /\ alone = {}
    /\ tangled = FALSE
    /\ behind = FALSE

-----------------------------------------------------------------------------
(* main: the database, the migrations, the client, the listener.           *)

\* postgres.New has got its ping.
Connect ==
    /\ phase = "down"
    /\ phase' = "migrating"
    /\ migrated' = TRUE
    /\ Limiter!Start
    /\ UNCHANGED <<schema, next, config, client, saving, crashes, tangled, behind>>

\* IF NOT EXISTS, or an error that says so: a statement that has taken effect
\* before changes nothing.
Migrate ==
    /\ phase = "migrating"
    /\ next <= Statements
    /\ schema' = schema \union {next}
    /\ next' = next + 1
    /\ UNCHANGED <<phase, crashes, migrated, config, client, saving, limiter, tangled, behind>>

\* Mutant: RunMigrations goes on after any error.
MigrateOn ==
    /\ phase = "migrating"
    /\ next <= Statements
    /\ next' = next + 1
    /\ migrated' = FALSE
    /\ UNCHANGED <<phase, schema, crashes, config, client, saving, limiter, tangled, behind>>

\* Any other error ends the migrations, and the server starts all the same.
MigrateFails ==
    /\ phase = "migrating"
    /\ next <= Statements
    /\ phase' = "loading"
    /\ next' = 1
    /\ migrated' = FALSE
    /\ UNCHANGED <<schema, crashes, config, client, saving, limiter, tangled, behind>>

MigrationsEnd ==
    /\ phase = "migrating"
    /\ next > Statements
    /\ phase' = "loading"
    /\ next' = 1
    /\ UNCHANGED <<schema, crashes, migrated, config, client, saving, limiter,
                   tangled, behind>>

\* apns.NewClient: nil without ids, nil and an error without a usable key.
NewClient(cfg) ==
    IF \/ \E k \in IdKeys : cfg[k] \in Blank \union {None}
       \/ cfg[ContentKey] \in Unusable \union {None}
    THEN None
    ELSE cfg

\* Mutant: a client that cannot be built stops the server.
LoadOrDie ==
    /\ phase = "loading"
    /\ phase' = IF config[ContentKey] \in Unusable THEN "down" ELSE "serving"
    /\ client' = IF config[ContentKey] \in Unusable THEN None ELSE NewClient(config)
    /\ behind' = FALSE
    /\ crashes' = 0
    /\ UNCHANGED <<schema, next, migrated, config, saving, limiter, tangled>>

\* buildEffectiveConfig and NewClient.  An error of NewClient is only logged.
\* Without the table nothing is stored, and the failed query gives as much.
Load ==
    /\ phase = "loading"
    /\ phase' = "serving"
    /\ client' = NewClient(config)
    /\ behind' = FALSE
    /\ crashes' = 0
    /\ UNCHANGED <<schema, next, migrated, config, saving, limiter, tangled>>

\* server_config cannot be read: no client until the next save or start.
LoadFails ==
    /\ phase = "loading"
    /\ phase' = "serving"
    /\ client' = None
    /\ behind' = TRUE
    /\ crashes' = 0
    /\ UNCHANGED <<schema, next, migrated, config, saving, limiter, tangled>>

\* What is in memory is lost with the process.
Ends ==
    /\ phase' = "down"
    /\ client' = None
    /\ form' = [s \in Saves |-> None]
    /\ todo' = [s \in Saves |-> {}]
    /\ alone' = {}
    /\ next' = 1
    /\ migrated' = FALSE
    /\ behind' = FALSE
    /\ Limiter!Stop
    /\ UNCHANGED <<schema, config>>

Crash ==
    /\ phase # "down"
    /\ crashes < MaxCrashes
    /\ crashes' = crashes + 1
    /\ Ends
    /\ tangled' = (tangled \/ Saving # {})

\* A signal: no new requests, and those in progress are waited for.
Shutdown ==
    /\ phase = "serving"
    /\ phase' = "stopping"
    /\ UNCHANGED <<schema, next, crashes, migrated, config, client, saving, limiter,
                   tangled, behind>>

\* Mutant: the listener is closed, not shut down.
ExitAtOnce ==
    /\ phase = "stopping"
    /\ Ends
    /\ UNCHANGED <<crashes, tangled>>

\* Within the 30 seconds; after them it is a crash.
Exit ==
    /\ phase = "stopping"
    /\ Saving = {}
    /\ Ends
    /\ UNCHANGED <<crashes, tangled>>

-----------------------------------------------------------------------------
(* Requests, all of them through the limiter.                              *)

\* Any request but a save, and any that the limiter refuses.
Request(k) ==
    /\ phase = "serving"
    /\ Limiter!Allow(k)
    /\ UNCHANGED <<process, config, client, saving, tangled, behind>>

Tick ==
    /\ phase = "serving"
    /\ Limiter!Tick
    /\ UNCHANGED <<process, config, client, saving, tangled, behind>>

Cleanup ==
    /\ phase = "serving"
    /\ Limiter!Cleanup
    /\ UNCHANGED <<process, config, client, saving, tangled, behind>>

ConfigSave(k, s, f) ==
    /\ phase = "serving"
    /\ form[s] = None
    /\ Limiter!Allow(k)
    /\ answer'[k]
    /\ form' = [form EXCEPT ![s] = f]
    /\ todo' = [todo EXCEPT ![s] = Keys]
    /\ alone' = IF Saving = {} THEN {s} ELSE {}
    /\ UNCHANGED <<process, config, client, tangled, behind>>

\* The map is ranged over in any order; each statement is committed on its own.
SetServerConfig(s, k) ==
    /\ k \in todo[s]
    /\ ConfigTable \in schema
    /\ config' = [config EXCEPT ![k] = form[s]]
    /\ todo' = [todo EXCEPT ![s] = @ \ {k}]
    /\ UNCHANGED <<process, client, form, alone, limiter, tangled, behind>>

EndSave(s) ==
    /\ form' = [form EXCEPT ![s] = None]
    /\ todo' = [todo EXCEPT ![s] = {}]
    /\ alone' = alone \ {s}

\* A statement fails, or has no answer in time: the rest is not written, and the
\* client is not replaced.
SaveFails(s, k) ==
    /\ k \in todo[s]
    /\ EndSave(s)
    /\ config' \in {config} \union
         {[config EXCEPT ![k] = f] : f \in IF ConfigTable \in schema THEN {form[s]} ELSE {}}
    /\ tangled' = (tangled \/ config' # config \/ todo[s] # Keys \/ s \notin alone)
    /\ behind' = (behind \/ config' # config \/ todo[s] # Keys \/ s \notin alone)
    /\ UNCHANGED <<process, client, limiter>>

\* Mutant: a client is built only if there is none.
ReloadOnce(s) ==
    LET built == NewClient([k \in Keys |-> form[s]])
    IN /\ form[s] # None
       /\ todo[s] = {}
       /\ client' = IF client = None THEN built ELSE client
       /\ EndSave(s)
       /\ tangled' = (s \notin alone)
       /\ behind' = (s \notin alone)
       /\ UNCHANGED <<process, config, limiter>>

\* The client is built from the form, not from what is stored; when none can be
\* built, the old one stays.
ReloadAPNs(s) ==
    LET built == NewClient([k \in Keys |-> form[s]])
    IN /\ form[s] # None
       /\ todo[s] = {}
       /\ client' = IF built = None THEN client ELSE built
       /\ EndSave(s)
       /\ tangled' = (s \notin alone)
       /\ behind' = (s \notin alone)
       /\ UNCHANGED <<process, config, limiter>>

-----------------------------------------------------------------------------

Start == Connect \/ Migrate \/ MigrateFails \/ MigrationsEnd \/ Load \/ LoadFails

Next ==
    \/ Start \/ Crash \/ Shutdown \/ Exit \/ Tick \/ Cleanup
    \/ \E k \in Clients : Request(k) \/ \E s \in Saves, f \in Forms : ConfigSave(k, s, f)
    \/ \E s \in Saves : ReloadAPNs(s) \/ \E k \in Keys : SetServerConfig(s, k) \/ SaveFails(s, k)

\* The container is always restarted (docker-compose.yml), and main runs on.
Spec == Init /\ [][Next]_vars
FairSpec == Spec /\ WF_vars(Start)

-----------------------------------------------------------------------------
(* Properties.                                                             *)

\* Statements take effect in their order, and a server that has seen no error
\* serves on the whole schema, whatever starts came before (db.go, 47-79).
SchemaInOrder ==
    /\ schema = 1 .. Cardinality(schema)
    /\ migrated /\ Running => schema = 1 .. Statements

\* Unless saves overlapped or one failed half-way, what is stored is one form,
\* whenever the server was stopped (handler.go, 304-311).
StoredIsOneForm ==
    Saving = {} /\ ~tangled => \E f \in Forms \union {None} : config = [k \in Keys |-> f]

\* Under the same conditions, and if it could read the configuration, a running
\* server uses the client that a restart would build, if it would build one
\* (server.go, 26-36 and 75-84).
ClientIsStored ==
    Running /\ Saving = {} /\ ~tangled /\ ~behind => NewClient(config) \in {None, client}

\* The limiter acts as one token bucket for every client, from each start of the
\* process on (ratelimit.go, 29-66).
ActsAsTokenBucket == Limiter!ActsAsTokenBucket

\* Whatever is stored and whatever fails, a server that is down serves again
\* (main.go, 20-60).
StartsAgain == phase = "down" ~> phase = "serving"
=============================================================================
