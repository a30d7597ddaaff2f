------------------------------- MODULE Election -------------------------------
(***************************************************************************)
(* How front doors (flow ui, flowcli, an MCP server) find the daemon of a  *)
(* machine or start one: session.ts and the life of flowd.js in index.ts.  *)
(* What they share is a session file, a lock file and a port.  Every       *)
(* await is a step boundary, and other processes act in between.           *)
(*                                                                         *)
(* Time is left out: a deadline may have passed whenever one is set, which *)
(* is so in the code too, where a holder may keep the lock for longer than *)
(* the 8 seconds after which it is taken for stale.                        *)
(***************************************************************************)
EXTENDS Naturals, FiniteSets

CONSTANTS
  Doors,       \* calls of ensureDaemon, each in a process of its own
  Daemons,     \* processes of flowd.js, each started once
  NoSession,   \* there is no session file
  Nobody,      \* there is no lock file; nobody listens
  MaxSignals,  \* bound: signals a daemon is sent
  Faults       \* what may happen: "crash", "door dies", "user starts", "slow"

ASSUME ElectionAssumption ==
  /\ MaxSignals \in Nat /\ Nobody \notin Doors \cup Daemons
  /\ NoSession \notin [pid : Daemons, token : Daemons] /\ Doors \cap Daemons = {}
  /\ Faults \subseteq {"crash", "door dies", "user starts", "slow"}

VARIABLES
  session,  \* the session file: which daemon wrote it, and the token
  lock,     \* whose lock file there is
  port,     \* who listens on the port
  door,     \* door -> where in ensureDaemon it is
  seen,     \* door or daemon -> the session it read and is probing
  holds,    \* doors that have opened the lock file and will remove it
  life,     \* daemon -> where in its life it is
  token,    \* daemon -> the token it asks for; a fresh one is named for its daemon
  signals   \* daemon -> how often it was told to stop

doorVars == <<door, holds, lock>>
daemonVars == <<life, token, signals, port, session>>
electionVars == <<doorVars, daemonVars, seen>>

Lives == {"new", "probing", "listening", "bound", "serving", "draining", "gone"}
Places == {"start", "probing", "locking", "locked", "rechecking", "waiting", "polling",
           "ready", "failed", "dead"}
Sessions == [pid : Daemons, token : Daemons]

ElectionInit ==
  /\ session = NoSession /\ lock = Nobody /\ port = Nobody
  /\ door = [c \in Doors |-> "start"] /\ holds = {}
  /\ seen = [p \in Doors \cup Daemons |-> NoSession]
  /\ life = [d \in Daemons |-> "new"] /\ token = [d \in Daemons |-> d]
  /\ signals = [d \in Daemons |-> 0]

\* probe(): something answers, an error included: the request is made without the token.
Answers(p) == seen[p] # NoSession /\ port # Nobody

\* Nothing answers, or not within 1.5 seconds.
Silent(p) == ~Answers(p) \/ "slow" \in Faults

ReadsSession(p) == seen' = [seen EXCEPT ![p] = session]

-----------------------------------------------------------------------------
(* A daemon.                                                                 *)

Becomes(d, l) == life' = [life EXCEPT ![d] = l]

Launch(d) ==
  /\ life[d] = "new" /\ Becomes(d, "probing") /\ ReadsSession(d)

\* Started by hand.
UserStarts(d) ==
  "user starts" \in Faults /\ Launch(d) /\ UNCHANGED <<doorVars, token, signals, port, session>>

\* isAnotherDaemonLive: nothing to do.
Defer(d) ==
  /\ life[d] = "probing" /\ Answers(d) /\ Becomes(d, "gone")
  /\ UNCHANGED <<doorVars, token, signals, port, session, seen>>

\* stablePortToken reads the session file anew; the database is opened, listen is called.
Prepare(d) ==
  /\ life[d] = "probing" /\ Silent(d) /\ Becomes(d, "listening")
  /\ token' = [token EXCEPT ![d] = IF session = NoSession THEN d ELSE session.token]
  /\ UNCHANGED <<doorVars, signals, port, session, seen>>

\* The port is there for one; the error nobody handles ends the other.
Listen(d) ==
  /\ life[d] = "listening"
  /\ \/ port = Nobody /\ port' = d /\ Becomes(d, "bound")
     \/ port # Nobody /\ port' = port /\ Becomes(d, "gone")
  /\ UNCHANGED <<doorVars, token, signals, session, seen>>

\* writeSession, once it listens.
Register(d) ==
  /\ life[d] = "bound" /\ Becomes(d, "serving")
  /\ session' = [pid |-> d, token |-> token[d]]
  /\ UNCHANGED <<doorVars, token, signals, port, seen>>

\* clearSession and server.close in one turn.  The handler stays: it runs again at a second
\* signal while open streams keep the process.
Shutdown(d) ==
  /\ signals[d] < MaxSignals /\ signals' = [signals EXCEPT ![d] = @ + 1]
  /\ life[d] \in {"serving", "draining"} /\ session' = NoSession
  /\ port' = (IF port = d THEN Nobody ELSE port) /\ Becomes(d, "draining")
  /\ UNCHANGED <<doorVars, token, seen>>

\* Mutant: the file is removed at the end again.
ExitClears(d) ==
  /\ life[d] = "draining" /\ Becomes(d, "gone") /\ session' = NoSession
  /\ UNCHANGED <<doorVars, token, signals, port, seen>>

\* The last connection is closed, then the database.
Exit(d) ==
  /\ life[d] = "draining" /\ Becomes(d, "gone")
  /\ UNCHANGED <<doorVars, token, signals, port, session, seen>>

DaemonDies(d) ==
  /\ "crash" \in Faults /\ life[d] \notin {"new", "gone"} /\ Becomes(d, "gone")
  /\ port' = (IF port = d THEN Nobody ELSE port)
  /\ UNCHANGED <<doorVars, token, signals, session, seen>>

-----------------------------------------------------------------------------
(* A front door.                                                             *)

Goes(c, s) == door' = [door EXCEPT ![c] = s]

\* Mutant: a way out that does not pass the finally.
LeaveLocked(c, s) == Goes(c, s) /\ UNCHANGED <<holds, lock>>

\* The way out: what was locked is unlocked, whosever lock file it is by now.
Leave(c, s) ==
  /\ Goes(c, s) /\ holds' = holds \ {c}
  /\ lock' = IF c \in holds THEN Nobody ELSE lock

\* Before the lock, under the lock, and after the spawn.
ReadSession(c) ==
  /\ \/ door[c] = "start" /\ Goes(c, "probing")
     \/ door[c] = "locked" /\ Goes(c, "rechecking")
     \/ door[c] = "waiting" /\ Goes(c, "polling")
  /\ ReadsSession(c) /\ UNCHANGED <<holds, lock, daemonVars>>

\* Mutant: whoever waited too long for the lock goes on waiting.
StealNever(c) == FALSE /\ UNCHANGED electionVars

Found(c) ==
  /\ door[c] \in {"probing", "rechecking", "polling"} /\ Answers(c) /\ Leave(c, "ready")
  /\ UNCHANGED <<daemonVars, seen>>

WantLock(c) ==
  /\ door[c] = "probing" /\ Silent(c) /\ Goes(c, "locking")
  /\ UNCHANGED <<holds, lock, daemonVars, seen>>

Acquire(c) ==
  /\ door[c] = "locking" /\ lock = Nobody
  /\ lock' = c /\ holds' = holds \cup {c} /\ Goes(c, "locked")
  /\ UNCHANGED <<daemonVars, seen>>

\* Past the deadline the file is removed, and the loop tries again.
Steal(c) ==
  /\ door[c] = "locking" /\ lock # Nobody /\ lock' = Nobody
  /\ UNCHANGED <<door, holds, daemonVars, seen>>

Spawn(c) ==
  /\ door[c] = "rechecking" /\ Silent(c) /\ Goes(c, "waiting")
  /\ \/ \E d \in Daemons : Launch(d)
     \/ (\A d \in Daemons : life[d] # "new") /\ UNCHANGED <<life, seen>>  \* it dies at once
  /\ UNCHANGED <<holds, lock, token, signals, port, session>>

PollAgain(c) ==
  /\ door[c] = "polling" /\ Silent(c)
  /\ \/ Goes(c, "waiting") /\ UNCHANGED <<holds, lock>>
     \/ Leave(c, "failed")  \* "did not become ready in time"
  /\ UNCHANGED <<daemonVars, seen>>

\* A front door is killed: its lock file stays.
DoorDies(c) ==
  /\ "door dies" \in Faults /\ door[c] \notin {"start", "ready", "failed", "dead"}
  /\ Goes(c, "dead") /\ holds' = holds \ {c}
  /\ UNCHANGED <<lock, daemonVars, seen>>

DaemonStep(d) == Defer(d) \/ Prepare(d) \/ Listen(d) \/ Register(d) \/ Exit(d)

DoorStep(c) ==
  ReadSession(c) \/ Found(c) \/ WantLock(c) \/ Acquire(c) \/ Steal(c) \/ Spawn(c) \/ PollAgain(c)

ElectionNext ==
  \/ \E c \in Doors : DoorStep(c) \/ DoorDies(c)
  \/ \E d \in Daemons : DaemonStep(d) \/ UserStarts(d) \/ Shutdown(d) \/ DaemonDies(d)

ElectionSpec == ElectionInit /\ [][ElectionNext]_electionVars

\* Event loops turn, and deadlines pass: the poll gives up some day.
FairElection ==
  /\ \A d \in Daemons : WF_electionVars(DaemonStep(d))
  /\ \A c \in Doors :
       /\ WF_electionVars(DoorStep(c)) /\ SF_electionVars(PollAgain(c) /\ door'[c] = "failed")

-----------------------------------------------------------------------------
\* Types; and who has opened the lock file will let it go, on every way out.
ElectionTypeOK ==
  /\ session \in Sessions \cup {NoSession} /\ lock \in Doors \cup {Nobody}
  /\ port \in Daemons \cup {Nobody}
  /\ door \in [Doors -> Places] /\ seen \in [Doors \cup Daemons -> Sessions \cup {NoSession}]
  /\ life \in [Daemons -> Lives] /\ token \in [Daemons -> Daemons]
  /\ signals \in [Daemons -> 0 .. MaxSignals]
  /\ holds = {c \in Doors : door[c] \in {"locked", "rechecking", "waiting", "polling"}}

\* Whoever serves is in the session file, where the front doors look for it, however many
\* daemons were started, killed and told to stop around it.
ServingIsFound ==
  \A d \in Daemons : life[d] = "serving" => session # NoSession /\ session.pid = d

\* ensureDaemon comes to an end, whoever died with the lock: with a session or with an error.
DoorsGetThrough ==
  \A c \in Doors : door[c] = "probing" ~> door[c] \in {"ready", "failed", "dead"}
=============================================================================
