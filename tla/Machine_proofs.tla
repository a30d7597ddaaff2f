---------------------------- MODULE Machine_proofs ----------------------------
(***************************************************************************)
(* The processes of a machine, however many: whoever serves can be found,  *)
(* and no crash and no race among those that open a new file lets one of   *)
(* them serve it with a part of the schema missing, or the daemon in       *)
(* JavaScript with a part of the fixture.                                  *)
(***************************************************************************)
EXTENDS Machine, TLAPS

-----------------------------------------------------------------------------
(* The way to a daemon.                                                      *)

\* Who listens has the port, from listen() on; who serves wrote the session file last; and
\* who drains has had a signal.
Stands(d) ==
  /\ life[d] \in {"bound", "serving"} => port = d
  /\ life[d] = "serving" => session = [pid |-> d, token |-> token[d]]
  /\ life[d] = "draining" => signals[d] >= 1

DaemonsTyped ==
  /\ life \in [Daemons -> Lives] /\ token \in [Daemons -> Daemons]
  /\ signals \in [Daemons -> 0 .. MaxSignals] /\ session \in Sessions \cup {NoSession}

FoundInv == DaemonsTyped /\ \A d \in Daemons : Stands(d)

\* Nobody is not a daemon.
LEMMA Apart == MaxSignals \in Nat /\ Nobody \notin Daemons
  BY ElectionAssumption

\* A signal more is within the bound.
LEMMA OneMore ==
  ASSUME NEW n \in 0 .. MaxSignals, n < MaxSignals
  PROVE  n + 1 \in 0 .. MaxSignals
  BY Apart

\* At the start nobody has the port.
LEMMA InitFound == ElectionInit => FoundInv
<1> SUFFICES ASSUME ElectionInit PROVE FoundInv
  OBVIOUS
<1>1. DaemonsTyped
  <2>1. life \in [Daemons -> Lives]
    BY DEF ElectionInit, Lives
  <2>2. token \in [Daemons -> Daemons] /\ session \in Sessions \cup {NoSession}
    BY DEF ElectionInit
  <2>3. signals \in [Daemons -> 0 .. MaxSignals]
    BY Apart DEF ElectionInit
  <2> QED
    BY <2>1, <2>2, <2>3 DEF DaemonsTyped
<1>2. ASSUME NEW d \in Daemons PROVE Stands(d)
  BY DEF ElectionInit, Stands
<1> QED
  BY <1>1, <1>2 DEF FoundInv

\* A step of one daemon.
LEMMA FoundDaemon ==
  ASSUME MaxSignals = 1, FoundInv, NEW d \in Daemons,
         Defer(d) \/ Prepare(d) \/ Listen(d) \/ Register(d) \/ Exit(d) \/ Shutdown(d) \/ DaemonDies(d)
  PROVE  FoundInv'
<1> USE DEF FoundInv, DaemonsTyped, Stands, Lives, Sessions, Becomes, doorVars
<1>1. CASE Defer(d)
  BY <1>1 DEF Defer
<1>2. CASE Prepare(d)
  BY <1>2 DEF Prepare
<1>3. CASE Listen(d)
  <2>1. CASE port = Nobody
    BY <1>3, <2>1, Apart DEF Listen
  <2>2. CASE port # Nobody
    BY <1>3, <2>2 DEF Listen
  <2> QED
    BY <2>1, <2>2
<1>4. CASE Register(d)
  BY <1>4 DEF Register
<1>5. CASE Exit(d)
  BY <1>5 DEF Exit
<1>6. CASE Shutdown(d)
  <2>1. signals[d] = 0 /\ life[d] = "serving" /\ port = d
    BY <1>6 DEF Shutdown
  <2>2. DaemonsTyped'
    BY <1>6, <2>1 DEF Shutdown
  <2>3. ASSUME NEW e \in Daemons PROVE Stands(e)'
    <3>1. CASE e = d
      BY <1>6, <2>1, <3>1 DEF Shutdown
    <3>2. CASE e # d
      BY <1>6, <2>1, <3>2 DEF Shutdown
    <3> QED
      BY <3>1, <3>2
  <2> QED
    BY <2>2, <2>3
<1>7. CASE DaemonDies(d)
  BY <1>7 DEF DaemonDies
<1> QED
  BY <1>1, <1>2, <1>3, <1>4, <1>5, <1>6, <1>7

\* A daemon that is launched has neither port nor file yet.
LEMMA FoundLaunch ==
  ASSUME FoundInv, NEW d \in Daemons, Launch(d), UNCHANGED <<token, signals, port, session>>
  PROVE  FoundInv'
  BY DEF Launch, Becomes, FoundInv, DaemonsTyped, Stands, Lives

\* What front doors do besides leaves the daemons alone.
LEMMA FoundSame ==
  ASSUME FoundInv, UNCHANGED daemonVars
  PROVE  FoundInv'
  BY DEF daemonVars, FoundInv, DaemonsTyped, Stands

\* Of all steps, only those of daemons touch what FoundInv is about.
LEMMA FoundNext ==
  ASSUME MaxSignals = 1, FoundInv, ElectionNext
  PROVE  FoundInv'
<1>1. ASSUME NEW c \in Doors, DoorStep(c) \/ DoorDies(c) PROVE FoundInv'
  <2>1. CASE Spawn(c)
    <3>1. CASE \E d \in Daemons : Launch(d)
      BY <2>1, <3>1, FoundLaunch DEF Spawn
    <3>2. CASE UNCHANGED <<life, seen>>
      BY <2>1, <3>2, FoundSame DEF Spawn, daemonVars
    <3> QED
      BY <2>1, <3>1, <3>2 DEF Spawn
  <2>2. ~Spawn(c) => UNCHANGED daemonVars
    BY <1>1 DEF DoorStep, DoorDies, ReadSession, Found, WantLock, Acquire, Steal, PollAgain
  <2> QED
    BY <2>1, <2>2, FoundSame
<1>2. ASSUME NEW d \in Daemons, DaemonStep(d) \/ UserStarts(d) \/ Shutdown(d) \/ DaemonDies(d) PROVE FoundInv'
  <2>1. CASE UserStarts(d)
    BY <2>1, FoundLaunch DEF UserStarts
  <2> QED
    BY <1>2, <2>1, FoundDaemon DEF DaemonStep
<1> QED
  BY <1>1, <1>2 DEF ElectionNext

\* If nobody sends a daemon a second signal, the daemon that serves is the one in the session
\* file, however many others start, stop or are killed, and however the lock is fought for.
THEOREM ServerIsFound ==
  ASSUME MaxSignals = 1
  PROVE  ElectionSpec => []ServingIsFound
<1>1. FoundInv => ServingIsFound
  <2> SUFFICES ASSUME FoundInv, NEW d \in Daemons, life[d] = "serving"
               PROVE  session # NoSession /\ session.pid = d
    BY DEF ServingIsFound
  <2>1. session = [pid |-> d, token |-> token[d]] /\ token[d] \in Daemons
    BY DEF FoundInv, DaemonsTyped, Stands
  <2>2. session \in [pid : Daemons, token : Daemons]
    BY <2>1
  <2> QED
    BY <2>1, <2>2, ElectionAssumption
<1>2. FoundInv /\ ElectionNext => FoundInv'
  BY FoundNext
<1>3. FoundInv /\ UNCHANGED electionVars => FoundInv'
  BY FoundSame DEF electionVars
<1> QED
  BY <1>1, <1>2, <1>3, InitFound, PTL DEF ElectionSpec

\* Types, of the doors as well: whoever is in the part of ensureDaemon that try and finally
\* enclose, and nobody else, has opened the lock file.
LEMMA DoorsTyped ==
  ASSUME ElectionTypeOK, [ElectionNext]_electionVars
  PROVE  ElectionTypeOK'
<1> USE ElectionAssumption DEF ElectionTypeOK, Sessions, Lives, Places, Goes, Becomes, Leave, doorVars, daemonVars
<1>1. ASSUME NEW c \in Doors, ReadSession(c) PROVE ElectionTypeOK'
  BY <1>1 DEF ReadSession, ReadsSession
<1>2. ASSUME NEW c \in Doors, Found(c) PROVE ElectionTypeOK'
  BY <1>2 DEF Found
<1>3. ASSUME NEW c \in Doors, WantLock(c) PROVE ElectionTypeOK'
  BY <1>3 DEF WantLock
<1>4. ASSUME NEW c \in Doors, Acquire(c) PROVE ElectionTypeOK'
  <2>1. lock' \in Doors \cup {Nobody} /\ door' = [door EXCEPT ![c] = "locked"] /\ holds' = holds \cup {c}
    BY <1>4 DEF Acquire
  <2>2. holds' = {b \in Doors : door'[b] \in {"locked", "rechecking", "waiting", "polling"}}
    <3>1. \A b \in Doors : door'[b] = IF b = c THEN "locked" ELSE door[b]
      BY <2>1
    <3> QED
      BY <2>1, <3>1
  <2> QED
    BY <1>4, <2>1, <2>2 DEF Acquire
<1>5. ASSUME NEW c \in Doors, Steal(c) PROVE ElectionTypeOK'
  BY <1>5 DEF Steal
<1>6. ASSUME NEW c \in Doors, Spawn(c) PROVE ElectionTypeOK'
  <2>1. /\ door[c] = "rechecking" /\ door' = [door EXCEPT ![c] = "waiting"]
        /\ UNCHANGED <<holds, lock, token, signals, port, session>>
    BY <1>6 DEF Spawn
  <2>2. /\ life' \in [Daemons -> Lives]
        /\ seen' \in [Doors \cup Daemons -> Sessions \cup {NoSession}]
    <3>1. CASE \E d \in Daemons : Launch(d)
      <4>1. PICK d \in Daemons : Launch(d)
        BY <3>1
      <4>2. life' = [life EXCEPT ![d] = "probing"] /\ seen' = [seen EXCEPT ![d] = session]
        BY <4>1 DEF Launch, ReadsSession
      <4> QED
        BY <4>2
    <3> QED
      BY <1>6, <3>1 DEF Spawn
  <2>3. holds' = {b \in Doors : door'[b] \in {"locked", "rechecking", "waiting", "polling"}}
    BY <2>1
  <2> QED
    BY <2>1, <2>2, <2>3
<1>7. ASSUME NEW c \in Doors, PollAgain(c) PROVE ElectionTypeOK'
  <2>1. door[c] = "polling" /\ UNCHANGED <<daemonVars, seen>>
    BY <1>7 DEF PollAgain
  <2>2. CASE door' = [door EXCEPT ![c] = "waiting"] /\ UNCHANGED <<holds, lock>>
    <3>1. holds' = {b \in Doors : door'[b] \in {"locked", "rechecking", "waiting", "polling"}}
      BY <2>1, <2>2
    <3> QED
      BY <2>1, <2>2, <3>1
  <2>3. CASE Leave(c, "failed")
    <3>1. holds' = {b \in Doors : door'[b] \in {"locked", "rechecking", "waiting", "polling"}}
      BY <2>1, <2>3
    <3> QED
      BY <2>1, <2>3, <3>1
  <2> QED
    BY <1>7, <2>2, <2>3 DEF PollAgain
<1>8. ASSUME NEW c \in Doors, DoorDies(c) PROVE ElectionTypeOK'
  BY <1>8 DEF DoorDies
<1>9. ASSUME NEW d \in Daemons, UserStarts(d) PROVE ElectionTypeOK'
  BY <1>9 DEF UserStarts, Launch, ReadsSession
<1>10. ASSUME NEW d \in Daemons, Defer(d) \/ Exit(d) PROVE ElectionTypeOK'
  BY <1>10 DEF Defer, Exit
<1>11. ASSUME NEW d \in Daemons, Prepare(d) PROVE ElectionTypeOK'
  <2>1. token' \in [Daemons -> Daemons] /\ life' \in [Daemons -> Lives]
    BY <1>11 DEF Prepare
  <2>2. UNCHANGED <<door, holds, lock, signals, port, session, seen>>
    BY <1>11 DEF Prepare
  <2> QED
    BY <2>1, <2>2
<1>12. ASSUME NEW d \in Daemons, Listen(d) PROVE ElectionTypeOK'
  BY <1>12 DEF Listen
<1>13. ASSUME NEW d \in Daemons, Register(d) PROVE ElectionTypeOK'
  BY <1>13 DEF Register
<1>14. ASSUME NEW d \in Daemons, DaemonDies(d) PROVE ElectionTypeOK'
  BY <1>14 DEF DaemonDies
<1>15. ASSUME NEW d \in Daemons, Shutdown(d) PROVE ElectionTypeOK'
  <2>1. signals' \in [Daemons -> 0 .. MaxSignals]
    <3>1. signals[d] \in 0 .. MaxSignals /\ signals[d] < MaxSignals /\ signals' = [signals EXCEPT ![d] = signals[d] + 1]
      BY <1>15 DEF Shutdown
    <3>2. signals[d] + 1 \in 0 .. MaxSignals
      BY <3>1, OneMore
    <3> QED
      BY <3>1, <3>2
  <2>2. life' \in [Daemons -> Lives] /\ port' \in Daemons \cup {Nobody} /\ session' = NoSession
    BY <1>15 DEF Shutdown
  <2> QED
    BY <1>15, <2>1, <2>2 DEF Shutdown
<1>16. CASE UNCHANGED electionVars
  BY <1>16 DEF electionVars
<1> QED
  BY <1>1, <1>2, <1>3, <1>4, <1>5, <1>6, <1>7, <1>8, <1>9, <1>10, <1>11, <1>12,
     <1>13, <1>14, <1>15, <1>16
     DEF ElectionNext, DoorStep, DaemonStep

-----------------------------------------------------------------------------
(* The way into the database.                                                *)

\* Neither script is empty.
LEMMA Sizes == Statements \in Nat /\ Statements >= 1 /\ Inserts \in Nat /\ Inserts >= 1
  BY StartupAssumption

\* Done with the script of the schema.
Migrated == {"stamping", "seeding", "serving"}

OpenersTyped ==
  /\ schema \in 0 .. Statements /\ fixture \in 0 .. Inserts /\ version \in 0 .. 1
  /\ past \subseteq {"died", "flowd seeded"}
  /\ stage \in [Openers -> Stages] /\ at \in [Openers -> Nat]

\* Who migrates is at most one statement ahead of the file. Who has migrated found, or made,
\* the whole script. Until the version is recorded only flowd.js seeds, and what it runs next
\* is the first insert that is missing.
Opening(d) ==
  /\ at[d] >= 1
  /\ stage[d] = "migrating" => at[d] <= schema + 1 /\ at[d] <= Statements
  /\ stage[d] \in Migrated => schema = Statements
  /\ stage[d] = "stamping" => version = 0 /\ fixture \in {0, Inserts}
  /\ stage[d] = "seeding" => /\ d \in Seeders /\ at[d] <= Inserts
                             /\ IF d \in Native THEN version = 1 ELSE version = 0 /\ at[d] = fixture + 1
  /\ stage[d] = "serving" => version = 1
  /\ stage[d] \notin {"migrating", "seeding"} => at[d] = 1

\* The one that runs ahead of all others.
Leads(d) ==
  /\ stage[d] \in {"migrating", "stamping", "seeding"}
  /\ stage[d] = "migrating" => at[d] = schema + 1

\* Of those that migrate one alone comes to the end, so that until the version is recorded
\* nobody but it runs the fixture; and as long as nobody dies the file goes no further than
\* the one that leads, which is not the one that fails.
FileInv ==
  /\ version = 1 => schema = Statements
  /\ schema < Statements => fixture = 0
  /\ version = 0 => "flowd seeded" \notin past
  /\ version = 1 /\ "flowd seeded" \notin past => fixture \in {0, Inserts}
  /\ version = 0 => \A d, e \in Openers : stage[d] \in Migrated /\ stage[e] \in Migrated => d = e
  /\ version = 0 /\ "died" \notin past /\ schema > 0 => \E d \in Openers : Leads(d)

OpenInv == OpenersTyped /\ FileInv /\ \A d \in Openers : Opening(d)

\* A daemon begins without a statement run, on a file without a version.
LEMMA InitOpen == StartupInit => OpenInv
<1> SUFFICES ASSUME StartupInit PROVE OpenInv
  OBVIOUS
<1> USE StartupAssumption DEF StartupInit
<1>1. OpenersTyped
  BY DEF OpenersTyped, Stages
<1>2. FileInv
  BY DEF FileInv, Migrated
<1>3. \A d \in Openers : Opening(d)
  BY DEF Opening, Migrated
<1> QED
  BY <1>1, <1>2, <1>3 DEF OpenInv

\* Where everybody is after one has entered a stage.
LEMMA Entered ==
  ASSUME OpenersTyped, NEW d \in Openers, NEW s \in Stages, Enters(d, s)
  PROVE  /\ stage' \in [Openers -> Stages] /\ at' \in [Openers -> Nat]
         /\ \A e \in Openers : /\ stage'[e] = IF e = d THEN s ELSE stage[e]
                               /\ at'[e] = IF e = d THEN 1 ELSE at[e]
<1>1. stage' = [stage EXCEPT ![d] = s] /\ at' = [at EXCEPT ![d] = 1]
  BY DEF Enters
<1>2. stage \in [Openers -> Stages] /\ at \in [Openers -> Nat]
  BY DEF OpenersTyped
<1> HIDE DEF Stages
<1> QED
  BY <1>1, <1>2

\* The start of a process reads the version and leaves the file alone.
LEMMA StartOpens ==
  ASSUME OpenInv, NEW d \in Openers, Start(d)
  PROVE  OpenInv'
<1> USE DEF OpenInv
<1>1. PICK s \in {"migrating", "seeding", "serving"} :
        /\ Enters(d, s)
        /\ s = "migrating" => version < 1
        /\ s = "seeding" => ~(version < 1) /\ d \in Seeders \cap Native
        /\ s = "serving" => ~(version < 1)
  <2>1. Enters(d, IF version < 1 THEN "migrating" ELSE AfterStamp(d))
    BY DEF Start
  <2>2. CASE version < 1
    BY <2>1, <2>2
  <2>3. CASE ~(version < 1) /\ SeedsAlways(d)
    BY <2>1, <2>3 DEF AfterStamp, SeedsAlways
  <2>4. CASE ~(version < 1) /\ ~SeedsAlways(d)
    BY <2>1, <2>4 DEF AfterStamp
  <2> QED
    BY <2>2, <2>3, <2>4
<1>2. s \in Stages
  BY DEF Stages
<1>3. /\ stage' \in [Openers -> Stages] /\ at' \in [Openers -> Nat]
      /\ \A e \in Openers : /\ stage'[e] = IF e = d THEN s ELSE stage[e]
                            /\ at'[e] = IF e = d THEN 1 ELSE at[e]
  BY <1>1, <1>2, Entered
<1>4. /\ UNCHANGED <<schema, fixture, version, past>> /\ stage[d] \in {"down", "failed"}
      /\ version \in 0 .. 1 /\ schema \in 0 .. Statements
  BY StartupAssumption DEF Start, OpenersTyped
<1>5. OpenersTyped'
  BY <1>3, <1>4 DEF OpenersTyped
<1>6. ASSUME NEW e \in Openers PROVE Opening(e)'
  <2>1. CASE e # d
    BY <2>1, <1>3, <1>4 DEF Opening, Migrated
  <2>2. CASE e = d
    <3>1. /\ at'[d] = 1 /\ stage'[d] = s
          /\ s \in {"seeding", "serving"} => version = 1
      BY <1>1, <1>3, <1>4
    <3>2. s \in Migrated => schema = Statements
      BY <1>1, <3>1 DEF FileInv, Migrated
    <3> QED
      BY <2>2, <1>1, <1>4, <3>1, <3>2, Sizes DEF Opening, Migrated
  <2> QED
    BY <2>1, <2>2
<1>7. FileInv'
  <2>1. ASSUME version = 0, NEW e \in Openers, stage'[e] \in Migrated PROVE stage[e] \in Migrated /\ e # d
    BY <2>1, <1>1, <1>3, <1>4 DEF Migrated
  <2>2. ASSUME NEW e \in Openers, Leads(e) PROVE Leads(e)'
    BY <2>2, <1>3, <1>4 DEF Leads
  <2> QED
    BY <1>4, <2>1, <2>2 DEF FileInv
<1> QED
  BY <1>5, <1>6, <1>7

\* Who has migrated is ahead of all others.
LEMMA AheadWhenMigrated ==
  ASSUME NEW d \in Openers, stage'[d] = "stamping" \/ stage'[d] = "seeding"
  PROVE  Leads(d)'
<1>1. stage'[d] # "migrating" /\ stage'[d] \in {"migrating", "stamping", "seeding"}
  OBVIOUS
<1> QED
  BY <1>1 DEF Leads

\* What the provers need of numbers in the two that follow.
LEMMA NoneBelow == 0 # 1 /\ 1 # 0 /\ ~(Statements < Statements)
  BY Sizes

\* With the version recorded all of the schema is there; and of the fixture all or nothing, as
\* far as flowd has no hand in it.
LEMMA WhenRecorded ==
  ASSUME version' = 1, schema' = Statements,
         "flowd seeded" \in past' \/ fixture' = 0 \/ fixture' = Inserts
  PROVE  FileInv'
<1>1. version' # 0 /\ ~(Statements < Statements)
  BY NoneBelow
<1>2. CASE "flowd seeded" \in past'
  BY <1>1, <1>2 DEF FileInv
<1>3. CASE fixture' = 0 \/ fixture' = Inserts
  BY <1>1, <1>3 DEF FileInv
<1> QED
  BY <1>2, <1>3

\* Without a version, one has migrated.
LEMMA WhenAlone ==
  ASSUME version' = 0, schema' = Statements, "flowd seeded" \notin past',
         NEW d \in Openers, stage'[d] = "stamping" \/ stage'[d] = "seeding",
         \A e \in Openers \ {d} : stage'[e] \notin Migrated
  PROVE  FileInv'
<1>1. version' # 1 /\ ~(Statements < Statements)
  BY NoneBelow
<1>2. Leads(d)'
  BY AheadWhenMigrated
<1>3. \A c, e \in Openers : stage'[c] \in Migrated /\ stage'[e] \in Migrated => c = e
  OBVIOUS
<1> QED
  BY <1>1, <1>2, <1>3 DEF FileInv

\* Before the end of the script there is no version and no fixture.
LEMMA Untouched ==
  ASSUME FileInv, version \in 0 .. 1, schema # Statements, schema < Statements
  PROVE  version = 0 /\ fixture = 0
<1>1. version # 1
  BY DEF FileInv
<1>2. fixture = 0
  BY DEF FileInv
<1> QED
  BY <1>1, <1>2

\* A statement of the script: one more, the last, or one that is there already.
LEMMA MigrateOpens ==
  ASSUME OpenInv, NEW d \in Openers, Migrate(d)
  PROVE  OpenInv'
<1> USE DEF OpenInv
<1>1. /\ stage[d] = "migrating" /\ UNCHANGED <<fixture, version, past>>
      /\ schema' = IF at[d] > schema THEN at[d] ELSE schema
      /\ at[d] <= schema + 1 /\ at[d] <= Statements /\ at[d] >= 1
      /\ Statement(d, Statements, schema, AfterSchema(d))
  BY DEF Migrate, Reached, Opening
<1>2. /\ version \in 0 .. 1 /\ schema \in 0 .. Statements /\ fixture \in 0 .. Inserts
      /\ stage \in [Openers -> Stages] /\ at \in [Openers -> Nat]
  BY DEF OpenersTyped
<1>3. CASE schema < at[d] /\ at[d] < Statements /\ at' = [at EXCEPT ![d] = @ + 1] /\ stage' = stage
  <2>1. schema' = at[d] /\ schema' = schema + 1 /\ schema' < Statements
    BY <1>1, <1>2, <1>3, Sizes
  <2>2. \A e \in Openers : stage'[e] = stage[e] /\ at'[e] = IF e = d THEN at[d] + 1 ELSE at[e]
    BY <1>2, <1>3
  <2>3. OpenersTyped'
    <3>1. schema' \in 0 .. Statements
      BY <1>1, <1>2, <2>1, Sizes
    <3>2. at' \in [Openers -> Nat] /\ stage' \in [Openers -> Stages]
      BY <1>2, <1>3
    <3> QED
      BY <1>1, <3>1, <3>2 DEF OpenersTyped
  <2>4. ASSUME NEW e \in Openers PROVE Opening(e)'
    BY <1>1, <1>2, <2>1, <2>2, Sizes DEF Opening, Migrated
  <2>5. Leads(d)'
    BY <1>1, <2>1, <2>2 DEF Leads
  <2>6. FileInv'
    <3>1. schema < Statements /\ schema # Statements /\ schema' # Statements
      BY <1>2, <2>1, Sizes
    <3>2. version = 0 /\ fixture = 0
      BY <1>2, <3>1, Untouched
    <3>3. "flowd seeded" \notin past /\ \A e \in Openers : stage'[e] = stage[e]
      BY <2>2, <3>2 DEF FileInv
    <3> QED
      BY <1>1, <2>5, <3>1, <3>2, <3>3 DEF FileInv
  <2> QED
    BY <2>3, <2>4, <2>6
<1>4. CASE schema < at[d] /\ at[d] = Statements /\ Enters(d, AfterSchema(d))
  <2>1. /\ schema' = Statements /\ schema' = schema + 1 /\ version = 0 /\ fixture = 0
        /\ \A e \in Openers : stage[e] \notin Migrated
    <3>1. schema < Statements /\ schema' = Statements /\ schema + 1 = Statements
      BY <1>1, <1>2, <1>4, Sizes
    <3>2. version = 0 /\ fixture = 0
      BY <3>1, <1>2, Sizes, Untouched
    <3>3. \A e \in Openers : stage[e] \notin Migrated
      BY <3>1, <1>2, Sizes DEF Opening
    <3> QED
      BY <1>2, <3>1, <3>2, <3>3
  <2>2. PICK s \in {"seeding", "stamping"} : Enters(d, s) /\ (s = "seeding" => d \in Seeders \ Native)
    BY <1>4 DEF AfterSchema, SeedsNew
  <2>3. s \in Stages
    BY DEF Stages
  <2>4. /\ stage' \in [Openers -> Stages] /\ at' \in [Openers -> Nat]
        /\ \A e \in Openers : /\ stage'[e] = IF e = d THEN s ELSE stage[e]
                              /\ at'[e] = IF e = d THEN 1 ELSE at[e]
    BY <2>2, <2>3, Entered
  <2>5. OpenersTyped'
    <3>1. schema' \in 0 .. Statements
      BY <2>1, Sizes
    <3> QED
      BY <1>1, <2>4, <3>1 DEF OpenersTyped
  <2>6. ASSUME NEW e \in Openers PROVE Opening(e)'
    <3>1. CASE e = d
      BY <1>1, <2>1, <2>2, <2>4, <3>1, Sizes DEF Opening, Migrated
    <3>2. CASE e # d
      BY <1>1, <1>2, <2>1, <2>4, <3>2, Sizes DEF Opening, Migrated
    <3> QED
      BY <3>1, <3>2
  <2>7. Leads(d)'
    <3>1. stage'[d] = "stamping" \/ stage'[d] = "seeding"
      BY <2>4
    <3> QED
      BY <2>1, <2>4, <3>1, Sizes, AheadWhenMigrated
  <2>8. FileInv'
    BY <1>1, <1>2, <2>1, <2>4, <2>7 DEF FileInv
  <2> QED
    BY <2>5, <2>6, <2>8
<1>5. CASE schema >= at[d] /\ Enters(d, "failed")
  <2>1. schema' = schema
    BY <1>1, <1>2, <1>5
  <2>2. "failed" \in Stages
    BY DEF Stages
  <2>3. /\ stage' \in [Openers -> Stages] /\ at' \in [Openers -> Nat]
        /\ \A e \in Openers : /\ stage'[e] = IF e = d THEN "failed" ELSE stage[e]
                              /\ at'[e] = IF e = d THEN 1 ELSE at[e]
    BY <1>5, <2>2, Entered
  <2>4. OpenersTyped'
    BY <1>1, <2>1, <2>3 DEF OpenersTyped
  <2>5. ASSUME NEW e \in Openers PROVE Opening(e)'
    BY <1>1, <1>2, <2>1, <2>3 DEF Opening, Migrated
  <2>6. ASSUME NEW e \in Openers, Leads(e) PROVE Leads(e)'
    BY <1>1, <1>2, <1>5, <2>1, <2>3, <2>6 DEF Leads
  <2>7. \A e \in Openers : stage'[e] \in Migrated => stage[e] \in Migrated
    BY <2>3 DEF Migrated
  <2>8. FileInv'
    BY <1>1, <1>2, <2>1, <2>6, <2>7 DEF FileInv
  <2> QED
    BY <2>4, <2>5, <2>8
<1> QED
  BY <1>1, <1>3, <1>4, <1>5 DEF Statement

\* The version.
LEMMA StampOpens ==
  ASSUME OpenInv, NEW d \in Openers, Stamp(d)
  PROVE  OpenInv'
<1> USE DEF OpenInv
<1>1. /\ stage[d] = "stamping" /\ version' = 1 /\ Enters(d, AfterStamp(d)) /\ UNCHANGED <<schema, fixture, past>>
      /\ version = 0 /\ schema = Statements /\ fixture \in {0, Inserts}
  BY DEF Stamp, Opening, Migrated
<1>2. /\ schema \in 0 .. Statements /\ fixture \in 0 .. Inserts
      /\ stage \in [Openers -> Stages] /\ at \in [Openers -> Nat]
  BY DEF OpenersTyped
<1>3. PICK s \in {"seeding", "serving"} : Enters(d, s) /\ (s = "seeding" => d \in Seeders \cap Native)
  BY <1>1 DEF AfterStamp, SeedsAlways
<1>4. s \in Stages
  BY DEF Stages
<1>5. /\ stage' \in [Openers -> Stages] /\ at' \in [Openers -> Nat]
      /\ \A e \in Openers : /\ stage'[e] = IF e = d THEN s ELSE stage[e]
                            /\ at'[e] = IF e = d THEN 1 ELSE at[e]
  BY <1>3, <1>4, Entered
<1>6. OpenersTyped'
  <2>1. version' \in 0 .. 1
    BY <1>1
  <2> QED
    BY <1>1, <1>5, <2>1 DEF OpenersTyped
<1>7. ASSUME NEW e \in Openers PROVE Opening(e)'
  <2>1. CASE e = d
    BY <1>1, <1>3, <1>5, <2>1, Sizes DEF Opening, Migrated
  <2>2. CASE e # d
    <3>1. stage[e] \notin Migrated /\ stage'[e] = stage[e] /\ at'[e] = at[e]
      BY <1>1, <1>5, <2>2 DEF FileInv, Migrated
    <3> QED
      BY <1>1, <1>2, <3>1 DEF Opening, Migrated
  <2> QED
    BY <2>1, <2>2
<1>8. FileInv'
  <2>1. version' = 1 /\ version' # 0 /\ schema' = schema /\ fixture' = fixture
    BY <1>1
  <2>2. schema = Statements /\ ~(schema < Statements) /\ fixture \in {0, Inserts}
    BY <1>1, Sizes
  <2> QED
    BY <2>1, <2>2 DEF FileInv
<1> QED
  BY <1>6, <1>7, <1>8

\* Until the version is recorded it is flowd.js alone that seeds, and nothing stands in its way.
LEMMA SeedOpens ==
  ASSUME OpenInv, NEW d \in Openers, Seed(d)
  PROVE  OpenInv'
<1> USE DEF OpenInv
<1>1. /\ stage[d] = "seeding" /\ UNCHANGED <<schema, version>>
      /\ fixture' = IF at[d] > fixture THEN at[d] ELSE fixture
      /\ at[d] >= 1 /\ at[d] <= Inserts /\ schema = Statements /\ d \in Seeders
      /\ IF d \in Native THEN version = 1 ELSE version = 0 /\ at[d] = fixture + 1
      /\ Statement(d, Inserts, fixture, AfterSeed(d))
  BY DEF Seed, Reached, Opening, Migrated
<1>2. /\ version \in 0 .. 1 /\ fixture \in 0 .. Inserts /\ schema \in 0 .. Statements
      /\ stage \in [Openers -> Stages] /\ at \in [Openers -> Nat]
  BY DEF OpenersTyped
<1>3. at[d] \in Nat /\ fixture \in Nat /\ fixture <= Inserts /\ schema \in Nat
  BY <1>2, Sizes
<1>3a. fixture' \in 0 .. Inserts /\ fixture' >= at[d] /\ fixture' \in Nat
  BY <1>1, <1>3, Sizes
<1>4. /\ past' \subseteq {"died", "flowd seeded"}
      /\ IF d \in Native THEN "flowd seeded" \in past' ELSE past' = past
  BY <1>1 DEF Seed, SeedsAlways, OpenersTyped
\* flowd: nothing is said of the fixture any more.
<1>5. ASSUME d \in Native PROVE version = 1 /\ FileInv'
  <2>1. version = 1 /\ version' = 1 /\ schema' = Statements
    BY <1>1, <1>5
  <2>2. "flowd seeded" \in past'
    BY <1>4, <1>5
  <2> QED
    BY <2>1, <2>2, WhenRecorded
\* flowd.js: nobody else has migrated.
<1>6. ASSUME d \notin Native
      PROVE  /\ version = 0 /\ past' = past /\ fixture < at[d] /\ fixture' = at[d]
             /\ \A e \in Openers \ {d} : stage[e] \notin Migrated
  <2>1. version = 0 /\ at[d] = fixture + 1
    BY <1>1, <1>6
  <2>2. \A e \in Openers \ {d} : stage[e] \notin Migrated
    BY <1>1, <2>1 DEF FileInv, Migrated
  <2>3. past' = past
    BY <1>4, <1>6
  <2>4. fixture < at[d] /\ fixture' = at[d]
    BY <1>1, <1>3, <2>1
  <2> QED
    BY <2>1, <2>2, <2>3, <2>4
<1>7. CASE fixture < at[d] /\ at[d] < Inserts /\ at' = [at EXCEPT ![d] = @ + 1] /\ stage' = stage
  <2>1. /\ at' \in [Openers -> Nat] /\ stage' \in [Openers -> Stages] /\ fixture' = at[d]
        /\ \A e \in Openers : stage'[e] = stage[e] /\ at'[e] = IF e = d THEN at[d] + 1 ELSE at[e]
    BY <1>1, <1>2, <1>7
  <2>2. OpenersTyped'
    BY <1>1, <1>3a, <1>4, <2>1 DEF OpenersTyped
  <2>3. ASSUME NEW e \in Openers PROVE Opening(e)'
    <3>1. CASE e = d
      BY <1>1, <1>2, <1>7, <2>1, <3>1, Sizes DEF Opening, Migrated
    <3>2. CASE e # d /\ d \in Native
      <4>1. /\ stage'[e] = stage[e] /\ at'[e] = at[e] /\ version = 1
            /\ UNCHANGED <<schema, version>>
        BY <1>1, <1>5, <2>1, <3>2
      <4> QED
        BY <4>1 DEF Opening, Migrated
    <3>3. CASE e # d /\ d \notin Native
      BY <1>1, <1>6, <2>1, <3>3 DEF Opening, Migrated
    <3> QED
      BY <3>1, <3>2, <3>3
  <2>4. \A e \in Openers : Leads(e) => Leads(e)'
    <3> SUFFICES ASSUME NEW e \in Openers, Leads(e) PROVE Leads(e)'
      OBVIOUS
    <3>1. /\ stage'[e] = stage[e] /\ schema' = schema
          /\ e # d => at'[e] = at[e]
          /\ schema \in Nat /\ at[e] \in Nat
      BY <1>1, <1>3, <1>2, <2>1
    <3> QED
      BY <1>1, <3>1 DEF Leads
  <2>5. FileInv'
    <3>1. CASE d \in Native
      BY <1>5, <3>1
    <3>2. CASE d \notin Native
      <4>1. /\ version' = 0 /\ schema' = Statements /\ "flowd seeded" \notin past'
            /\ stage'[d] = "seeding" /\ \A e \in Openers \ {d} : stage'[e] \notin Migrated
        BY <1>1, <1>6, <2>1, <3>2 DEF FileInv
      <4> QED
        BY <4>1, WhenAlone
    <3> QED
      BY <3>1, <3>2
  <2> QED
    BY <2>2, <2>3, <2>5
<1>8. CASE at[d] = Inserts /\ fixture < at[d] /\ Enters(d, AfterSeed(d))
  <2>1. PICK s \in {"stamping", "serving"} :
          Enters(d, s) /\ s = IF d \in Native THEN "serving" ELSE "stamping"
    BY <1>1, <1>8 DEF AfterSeed, SeedsNew
  <2>2. s \in Stages
    BY DEF Stages
  <2>3. /\ stage' \in [Openers -> Stages] /\ at' \in [Openers -> Nat]
        /\ \A e \in Openers : /\ stage'[e] = IF e = d THEN s ELSE stage[e]
                              /\ at'[e] = IF e = d THEN 1 ELSE at[e]
    BY <2>1, <2>2, Entered
  <2>4. OpenersTyped' /\ fixture' = Inserts
    <3>1. fixture' = Inserts
      BY <1>1, <1>8
    <3> QED
      BY <1>1, <1>3a, <1>4, <2>3, <3>1 DEF OpenersTyped
  <2>5. ASSUME NEW e \in Openers PROVE Opening(e)'
    <3>1. CASE e = d
      BY <1>1, <1>6, <2>1, <2>3, <2>4, <3>1 DEF Opening, Migrated
    <3>2. CASE e # d /\ d \in Native
      <4>1. /\ stage'[e] = stage[e] /\ at'[e] = at[e] /\ version = 1
            /\ UNCHANGED <<schema, version>>
        BY <1>1, <1>5, <2>3, <3>2
      <4> QED
        BY <4>1 DEF Opening, Migrated
    <3>3. CASE e # d /\ d \notin Native
      BY <1>1, <1>6, <2>3, <3>3 DEF Opening, Migrated
    <3> QED
      BY <3>1, <3>2, <3>3
  <2>6. FileInv'
    <3>1. CASE d \in Native
      BY <1>5, <3>1
    <3>2. CASE d \notin Native
      <4>1. /\ version' = 0 /\ schema' = Statements /\ "flowd seeded" \notin past'
            /\ stage'[d] = "stamping" /\ \A e \in Openers \ {d} : stage'[e] \notin Migrated
        BY <1>1, <1>6, <2>1, <2>3, <3>2 DEF FileInv
      <4> QED
        BY <4>1, WhenAlone
    <3> QED
      BY <3>1, <3>2
  <2> QED
    BY <2>4, <2>5, <2>6
<1>9. CASE fixture >= at[d] /\ Enters(d, "failed")
  <2>1. d \in Native /\ fixture' = fixture
    BY <1>1, <1>2, <1>6, <1>9
  <2>2. "failed" \in Stages
    BY DEF Stages
  <2>3. /\ stage' \in [Openers -> Stages] /\ at' \in [Openers -> Nat]
        /\ \A e \in Openers : /\ stage'[e] = IF e = d THEN "failed" ELSE stage[e]
                              /\ at'[e] = IF e = d THEN 1 ELSE at[e]
    BY <1>9, <2>2, Entered
  <2>4. OpenersTyped'
    BY <1>1, <1>3a, <1>4, <2>3 DEF OpenersTyped
  <2>5. ASSUME NEW e \in Openers PROVE Opening(e)'
    BY <1>1, <2>1, <2>3 DEF Opening, Migrated
  <2>6. FileInv'
    BY <1>5, <2>1
  <2> QED
    BY <2>4, <2>5, <2>6
<1> QED
  BY <1>1, <1>7, <1>8, <1>9 DEF Statement

\* Whoever stops serves, and whoever dies is remembered.
LEMMA DownOpens ==
  ASSUME OpenInv, NEW d \in Openers, Stop(d) \/ Die(d)
  PROVE  OpenInv'
<1> USE DEF OpenInv
<1>1. /\ Enters(d, "down") /\ UNCHANGED <<schema, fixture, version>>
      /\ \/ stage[d] = "serving" /\ past' = past
         \/ past' = past \cup {"died"}
  BY DEF Stop, Die
<1>2. "down" \in Stages
  BY DEF Stages
<1>3. /\ stage' \in [Openers -> Stages] /\ at' \in [Openers -> Nat]
      /\ \A e \in Openers : /\ stage'[e] = IF e = d THEN "down" ELSE stage[e]
                            /\ at'[e] = IF e = d THEN 1 ELSE at[e]
  BY <1>1, <1>2, Entered
<1>4. OpenersTyped'
  BY <1>1, <1>3 DEF OpenersTyped
<1>5. ASSUME NEW e \in Openers PROVE Opening(e)'
  BY <1>1, <1>3 DEF Opening, Migrated
<1>6. FileInv'
  <2>1. \A e \in Openers : stage'[e] \in Migrated => stage[e] \in Migrated
    BY <1>3 DEF Migrated
  <2>2. "flowd seeded" \in past' <=> "flowd seeded" \in past
    BY <1>1
  <2>3. CASE past' = past \cup {"died"}
    BY <1>1, <2>1, <2>2, <2>3 DEF FileInv
  <2>4. CASE stage[d] = "serving" /\ past' = past
    <3>1. version = 1
      BY <2>4 DEF Opening
    <3>2. schema = Statements /\ ("flowd seeded" \in past \/ fixture = 0 \/ fixture = Inserts)
      BY <3>1 DEF FileInv
    <3> QED
      BY <1>1, <2>2, <3>1, <3>2, WhenRecorded
  <2> QED
    BY <1>1, <2>3, <2>4
<1> QED
  BY <1>4, <1>5, <1>6

\* Every step of every process keeps it.
LEMMA NextOpens == OpenInv /\ [StartupNext]_startupVars => OpenInv'
<1> SUFFICES ASSUME OpenInv, [StartupNext]_startupVars PROVE OpenInv'
  OBVIOUS
<1>1. ASSUME NEW d \in Openers, Start(d) \/ Working(d) \/ Stop(d) \/ Die(d) PROVE OpenInv'
  BY <1>1, StartOpens, MigrateOpens, StampOpens, SeedOpens, DownOpens DEF Working
<1>2. CASE UNCHANGED startupVars
  BY <1>2 DEF OpenInv, OpenersTyped, FileInv, Opening, Leads, Migrated, startupVars
<1> QED
  BY <1>1, <1>2 DEF StartupNext

\* However many processes open the file, whenever they die and whatever they seed: what is
\* served, and what the version vouches for, is the whole schema of migrations/0001.
THEOREM WholeSchemaServed == StartupSpec => []ServesWholeSchema
<1>1. OpenInv => ServesWholeSchema
  BY DEF OpenInv, FileInv, Opening, Migrated, ServesWholeSchema
<1> QED
  BY InitOpen, NextOpens, <1>1, PTL DEF StartupSpec

\* And, unless flowd has run the fixture too, all of the fixture or none of it: flowd.js records
\* the version last, so that a file with half a fixture is opened by nobody.
THEOREM WholeFixtureServed == StartupSpec => []ServesWholeFixture
<1>1. OpenInv => ServesWholeFixture
  BY DEF OpenInv, FileInv, Opening, ServesWholeFixture
<1> QED
  BY InitOpen, NextOpens, <1>1, PTL DEF StartupSpec

\* As long as nobody dies, whoever fails at an open was overtaken by another process, which is
\* still at it or has recorded the version.
THEOREM FailsWhenOvertaken == StartupSpec => FailsOnlyInCompany
<1>1. ASSUME OpenInv, StartupNext, NEW d \in Openers, stage'[d] = "failed", stage[d] # "failed",
             "died" \notin past, version # 1
      PROVE  \E e \in Openers \ {d} : stage[e] \notin {"down", "failed"}
  <2>1. OpenersTyped /\ FileInv /\ Opening(d) /\ version = 0
    <3>1. OpenersTyped /\ FileInv /\ Opening(d) /\ version # 1
      BY <1>1 DEF OpenInv
    <3>2. version \in 0 .. 1
      BY <3>1 DEF OpenersTyped
    <3>3. version = 0
      BY <3>1, <3>2
    <3> QED
      BY <3>1, <3>3
  <2>2. Migrate(d) \/ Seed(d)
    <3>1. PICK e \in Openers : Start(e) \/ Working(e) \/ Stop(e) \/ Die(e)
      BY <1>1 DEF StartupNext
    <3>2. stage'[d] = "failed" /\ stage[d] # "failed" /\ stage \in [Openers -> Stages]
      BY <1>1, <2>1 DEF OpenersTyped
    <3>3. CASE Start(e) \/ Stamp(e) \/ Stop(e) \/ Die(e)
      BY <3>2, <3>3 DEF Start, Stamp, Stop, Die, Enters, AfterStamp
    <3>4. CASE Migrate(e) \/ Seed(e)
      <4>1. d = e
        BY <3>2, <3>4 DEF Migrate, Seed, Statement, Enters
      <4> QED
        BY <3>4, <4>1
    <3> QED
      BY <3>1, <3>3, <3>4 DEF Working
  <2>3. CASE Migrate(d)
    <3>1. stage[d] = "migrating" /\ schema >= at[d]
      BY <1>1, <2>1, <2>3 DEF Migrate, Statement, Enters, AfterSchema, OpenersTyped
    <3>2. at[d] >= 1 /\ at[d] \in Nat /\ schema \in Nat
      <4>1. at \in [Openers -> Nat] /\ schema \in 0 .. Statements
        BY <2>1 DEF OpenersTyped
      <4> QED
        BY <2>1, <4>1, Sizes DEF Opening
    <3>3. schema > 0 /\ at[d] # schema + 1
      BY <3>1, <3>2
    <3>4. PICK e \in Openers : Leads(e)
      BY <1>1, <2>1, <3>3 DEF FileInv
    <3>5. e # d /\ stage[e] \in {"migrating", "stamping", "seeding"}
      BY <3>1, <3>3, <3>4 DEF Leads
    <3> QED
      BY <3>5
  <2>4. CASE Seed(d)
    <3>1. stage[d] = "seeding" /\ fixture >= at[d]
      BY <1>1, <2>1, <2>4 DEF Seed, Statement, Enters, AfterSeed, OpenersTyped
    <3>2. at[d] = fixture + 1 /\ fixture \in Nat
      <4>1. fixture \in 0 .. Inserts
        BY <2>1 DEF OpenersTyped
      <4> QED
        BY <2>1, <3>1, <4>1, Sizes DEF Opening
    <3> QED
      BY <3>1, <3>2
  <2> QED
    BY <2>2, <2>3, <2>4
<1>2. OpenInv /\ [StartupNext]_startupVars =>
        [\A d \in Openers : stage'[d] = "failed" /\ stage[d] # "failed" /\ "died" \notin past =>
           version = 1 \/ \E e \in Openers \ {d} : stage[e] \notin {"down", "failed"}]_startupVars
  BY <1>1
<1> QED
  BY InitOpen, NextOpens, <1>2, PTL DEF StartupSpec, FailsOnlyInCompany

-----------------------------------------------------------------------------
(* The two together.                                                         *)

\* Types of the whole machine, with what belongs to them: the lock file is let go of on every
\* way out of ensureDaemon, and nobody is past the end of a script.
THEOREM MachineTypes == MachineSpec => []MachineTypeOK
<1> DEFINE Inv == ElectionTypeOK /\ OpenInv
<1>1. MachineInit => Inv
  <2>1. ElectionInit => ElectionTypeOK
    <3> SUFFICES ASSUME ElectionInit PROVE ElectionTypeOK
      OBVIOUS
    <3>1. signals \in [Daemons -> 0 .. MaxSignals]
      BY Apart DEF ElectionInit
    <3>2. holds = {c \in Doors : door[c] \in {"locked", "rechecking", "waiting", "polling"}}
      BY DEF ElectionInit
    <3> QED
      BY <3>1, <3>2 DEF ElectionInit, ElectionTypeOK, Places, Lives
  <2> QED
    BY <2>1, InitOpen DEF MachineInit
<1>2. Inv /\ [MachineNext]_<<electionVars, startupVars, scene>> => Inv'
  <2> SUFFICES ASSUME Inv, [MachineNext]_<<electionVars, startupVars, scene>> PROVE Inv'
    OBVIOUS
  <2>1. [ElectionNext]_electionVars /\ [StartupNext]_startupVars
    BY DEF MachineNext
  <2> QED
    BY <2>1, DoorsTyped, NextOpens
<1>3. Inv => MachineTypeOK
  <2> SUFFICES ASSUME OpenInv PROVE StartupTypeOK
    BY DEF MachineTypeOK
  <2>1. ASSUME NEW d \in Openers PROVE at[d] \in 1 .. Statements \cup 1 .. Inserts
    <3>1. Opening(d) /\ at[d] \in Nat
      BY DEF OpenInv, OpenersTyped
    <3>2. /\ at[d] >= 1
          /\ stage[d] = "migrating" => at[d] <= Statements
          /\ stage[d] = "seeding" => at[d] <= Inserts
          /\ stage[d] \notin {"migrating", "seeding"} => at[d] = 1
      BY <3>1 DEF Opening
    <3> QED
      BY <3>1, <3>2, Sizes
  <2> QED
    BY <2>1 DEF OpenInv, OpenersTyped, StartupTypeOK
<1> QED
  BY <1>1, <1>2, <1>3, PTL DEF MachineSpec
=============================================================================
