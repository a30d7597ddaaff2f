-------------------------------- MODULE Startup --------------------------------
(***************************************************************************)
(* Opening the database: db/mod.rs and flowd's main.rs for the native      *)
(* daemon, host.ts for the one in JavaScript.  The schema script, the      *)
(* fixture and the pragma that records the version are statements, each a  *)
(* transaction of its own, and any process may die between two of them or  *)
(* find another one at work in the same file.                              *)
(***************************************************************************)
EXTENDS Naturals

CONSTANTS
  Openers,     \* processes that open the file
  Native,      \* those that are flowd; the others are flowd.js
  Seeders,     \* those that are started with --seed
  Statements,  \* statements of the schema script
  Inserts      \* statements of the fixture

ASSUME StartupAssumption ==
  /\ Native \subseteq Openers /\ Seeders \subseteq Openers
  /\ Statements \in Nat \ {0} /\ Inserts \in Nat \ {0}

VARIABLES
  schema,   \* how many statements of the script the file has seen
  fixture,  \* how many inserts of the fixture
  version,  \* PRAGMA user_version
  stage,    \* process -> where in opening the database it is
  at,       \* process -> the statement of script or fixture it runs next
  past      \* not in the code: whether a process has died at it, whether flowd has seeded

startupVars == <<schema, fixture, version, stage, at, past>>

Stages == {"down", "migrating", "stamping", "seeding", "serving", "failed"}

\* A file that does not exist is created empty.
StartupInit ==
  /\ schema = 0 /\ fixture = 0 /\ version = 0
  /\ stage = [d \in Openers |-> "down"] /\ at = [d \in Openers |-> 1] /\ past = {}

Enters(d, s) == stage' = [stage EXCEPT ![d] = s] /\ at' = [at EXCEPT ![d] = 1]

\* flowd records the version before it seeds, on every start; flowd.js seeds a file it has
\* made, and records the version last.
SeedsAlways(d) == d \in Seeders \cap Native
SeedsNew(d) == d \in Seeders \ Native

AfterSchema(d) == IF SeedsNew(d) THEN "seeding" ELSE "stamping"

AfterStamp(d) == IF SeedsAlways(d) THEN "seeding" ELSE "serving"

\* Mutant: both the host and the store it opens run the fixture.
AfterSeedAgain(d) == IF SeedsNew(d) /\ version < 1 THEN "seeding" ELSE "serving"

AfterSeed(d) == IF SeedsNew(d) THEN "stamping" ELSE "serving"

\* The next statement of a script of so many: there is more, it was the last, or what it makes
\* is there already and the open fails with it.
Statement(d, size, done, then) ==
  \/ done < at[d] /\ at[d] < size /\ at' = [at EXCEPT ![d] = @ + 1] /\ stage' = stage
  \/ done < at[d] /\ at[d] = size /\ Enters(d, then)
  \/ done >= at[d] /\ Enters(d, "failed")

Reached(d, done) == IF at[d] > done THEN at[d] ELSE done

\* Mutant: the version first, the script afterwards.
StartStamps(d) ==
  /\ stage[d] \in {"down", "failed"} /\ version' = 1
  /\ Enters(d, IF version < 1 THEN "migrating" ELSE AfterStamp(d))
  /\ UNCHANGED <<schema, fixture, past>>

\* The process starts and reads the version.
Start(d) ==
  /\ stage[d] \in {"down", "failed"}
  /\ Enters(d, IF version < 1 THEN "migrating" ELSE AfterStamp(d))
  /\ UNCHANGED <<schema, fixture, version, past>>

\* Mutant: a script that makes what is not there yet.
MigrateWhatIsMissing(d) ==
  /\ stage[d] = "migrating" /\ Statement(d, Statements, 0, AfterSchema(d))
  /\ schema' = Reached(d, schema) /\ UNCHANGED <<fixture, version, past>>

Migrate(d) ==
  /\ stage[d] = "migrating" /\ Statement(d, Statements, schema, AfterSchema(d))
  /\ schema' = Reached(d, schema) /\ UNCHANGED <<fixture, version, past>>

\* Mutant: the version is set on another connection and lost.
StampNothing(d) ==
  /\ stage[d] = "stamping" /\ version' = version /\ Enters(d, AfterStamp(d))
  /\ UNCHANGED <<schema, fixture, past>>

Stamp(d) ==
  /\ stage[d] = "stamping" /\ version' = 1 /\ Enters(d, AfterStamp(d))
  /\ UNCHANGED <<schema, fixture, past>>

Seed(d) ==
  /\ stage[d] = "seeding" /\ Statement(d, Inserts, fixture, AfterSeed(d))
  /\ past' = past \cup (IF SeedsAlways(d) THEN {"flowd seeded"} ELSE {})
  /\ fixture' = Reached(d, fixture) /\ UNCHANGED <<schema, version>>

\* The daemon is stopped while it serves; whenever else it goes down, it dies.
Stop(d) == stage[d] = "serving" /\ Enters(d, "down") /\ UNCHANGED <<schema, fixture, version, past>>

Die(d) ==
  /\ stage[d] \notin {"down", "failed", "serving"} /\ Enters(d, "down")
  /\ past' = past \cup {"died"} /\ UNCHANGED <<schema, fixture, version>>

Working(d) == Migrate(d) \/ Stamp(d) \/ Seed(d)

StartupNext == \E d \in Openers : Start(d) \/ Working(d) \/ Stop(d) \/ Die(d)

StartupSpec == StartupInit /\ [][StartupNext]_startupVars

\* A process that is opening the file goes on with it; nobody need start or stop.
FairStartup == \A d \in Openers : WF_startupVars(Working(d))

-----------------------------------------------------------------------------
\* Types; and nobody is past the end of a script.
StartupTypeOK ==
  /\ schema \in 0 .. Statements /\ fixture \in 0 .. Inserts /\ version \in 0 .. 1
  /\ past \subseteq {"died", "flowd seeded"} /\ stage \in [Openers -> Stages]
  /\ \A d \in Openers : at[d] \in 1 .. Statements \cup 1 .. Inserts

\* Nobody serves a database that lacks a part of the schema, whoever else is making or has
\* half made it: neither does anyone who only reads the version.
ServesWholeSchema ==
  /\ \A d \in Openers : stage[d] = "serving" => schema = Statements
  /\ version = 1 => schema = Statements

\* What flowd.js serves has all of the fixture or none of it, unless flowd has a hand in it.
ServesWholeFixture ==
  \A d \in Openers : stage[d] = "serving" /\ "flowd seeded" \notin past => fixture \in {0, Inserts}

\* As long as no process dies at it, opening fails because another one is at the file, or has
\* just made what this one was about to make, and for no other reason. After a death between
\* two statements every open fails.
FailsOnlyInCompany ==
  [][\A d \in Openers : stage'[d] = "failed" /\ stage[d] # "failed" /\ "died" \notin past =>
       version = 1 \/ \E e \in Openers \ {d} : stage[e] \notin {"down", "failed"}]_startupVars

\* Of several that open a new file at once one comes to serve, whoever gets in whose way.
SomebodyServes ==
  version = 0 /\ (\E d \in Openers : stage[d] \notin {"down", "failed"})
    ~> "died" \in past \/ \E d \in Openers : stage[d] = "serving"
=============================================================================
