--------------------------- MODULE SchemaBootstrap ---------------------------
(***************************************************************************)
(* The start of a backend container: init_db waits for the database and    *)
(* brings its schema to head, then the server takes over.  Alembic's       *)
(* version table tells a fresh database from one that has a schema.  A     *)
(* migration is one transaction; creating the tables and stamping the      *)
(* version are two.                                                        *)
(*                                                                         *)
(* There is one migration.  It adds webhook_events, and the columns that   *)
(* tie payment_attempts to the gateway.                                    *)
(***************************************************************************)
VARIABLES
  process,   \* "down"; "connected", "baseline", "prepared": init_db; "up": serving
  schema     \* the payment_attempts table, whether webhook_events exists, the version

server == <<process, schema>>

Fresh == [attempts |-> "none", events |-> FALSE, version |-> "absent"]

\* create_all creates the tables that are missing, and no column of one that exists.
CreateAll(s) ==
  [s EXCEPT !.attempts = IF @ = "none" THEN "head" ELSE @, !.events = TRUE]

Stamp(s) == [s EXCEPT !.version = "head"]

\* upgrade of 8ace040fcca1
AddRazorpayIntegration(s) ==
  [s EXCEPT !.attempts = "head", !.events = TRUE, !.version = "head"]

\* downgrade of 8ace040fcca1: the version table stays, empty.
DropRazorpayIntegration(s) ==
  [s EXCEPT !.attempts = "base", !.events = FALSE, !.version = "base"]

AtHead == Stamp(CreateAll(Fresh))

\* What a container may find: nothing, the tables create_all made on a developer's machine,
\* a database the migration was taken back from, or one an earlier container prepared.
Databases == {Fresh, CreateAll(Fresh), DropRazorpayIntegration(AtHead), AtHead}

\* At most 30 tries; when they run out the container exits and has changed nothing.
WaitForDatabase ==
  /\ process = "down"
  /\ process' = "connected"
  /\ UNCHANGED schema

UpgradeSchema ==
  /\ process = "connected" /\ schema.version # "absent"
  /\ schema' = IF schema.version = "base" THEN AddRazorpayIntegration(schema) ELSE schema
  /\ process' = "prepared"

\* Mutant: the stamp first.
BaselineStampFirst(s) == <<Stamp(s), CreateAll(Stamp(s))>>

\* The schema after each of the two transactions that prepare a fresh database.
Baseline(s) == <<CreateAll(s), Stamp(CreateAll(s))>>

BeginBaseline ==
  /\ process = "connected" /\ schema.version = "absent"
  /\ schema' = Baseline(schema)[1]
  /\ process' = "baseline"

EndBaseline ==
  /\ process = "baseline"
  /\ schema' = Baseline(schema)[2]
  /\ process' = "prepared"

EnsureSchemaAtHead == UpgradeSchema \/ BeginBaseline \/ EndBaseline

\* uvicorn, whose lifespan starts the scheduler.
Serve ==
  /\ process = "prepared"
  /\ process' = "up"
  /\ UNCHANGED schema

SchemaTypeOK ==
  /\ process \in {"down", "connected", "baseline", "prepared", "up"}
  /\ schema \in [attempts: {"none", "base", "head"}, events: BOOLEAN,
                 version: {"absent", "base", "head"}]
=============================================================================
