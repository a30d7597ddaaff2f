------------------------------- MODULE WebBoard -------------------------------
(***************************************************************************)
(* The browser client's connection to the daemon and the board it fills    *)
(* (flowui's state.svelte.ts).  JavaScript runs one piece of code at a     *)
(* time, from one await to the next: a step of the module is such a piece. *)
(* Every call ends in an answer, a transport drop or another error.        *)
(***************************************************************************)
EXTENDS Naturals, FiniteSets

CONSTANTS
  Projects,  \* projects of the daemon
  Home,      \* app.projectId when the page is opened
  Ops,       \* loads, refreshes and retries that can be under way at the same time
  Timers,    \* timers that can be pending or have their tick under way
  Nothing,   \* no timer, no board
  Faults     \* what may happen: "down" the daemon goes away, "error" another error

VARIABLES
  up,              \* whether the daemon is there
  project,         \* app.projectId
  shown,           \* the project that app.nodes, deps and activity are of
  connection,      \* app.connection
  timers,          \* timers that have yet to fire
  reconnectTimer,  \* the handle of one
  calls            \* load, refresh or retry, or tick of a timer -> what it waits for

webVars == <<up, project, shown, connection, timers, reconnectTimer, calls>>

Callers == Ops \cup Timers

\* A call that was on its way when the daemon went is lost.
Idle == [kind |-> "none", stage |-> "none", project |-> Home, lost |-> FALSE]
Waiting(kind, stage, p) == [kind |-> kind, stage |-> stage, project |-> p, lost |-> FALSE]

\* boot asks for the projects, then loads the one that is open.
WebInit ==
  /\ up \in IF "down" \in Faults THEN BOOLEAN ELSE {TRUE}
  /\ project = Home /\ shown = Nothing /\ connection = "connected"
  /\ timers = {} /\ reconnectTimer = Nothing
  /\ \E o \in Ops : calls = [c \in Callers |-> IF c = o THEN Waiting("load", "projects", Home) ELSE Idle]

Ends(c) == calls' = [calls EXCEPT ![c] = Idle]

-----------------------------------------------------------------------------
(* The user and the daemon.                                                  *)

Load(o, p) ==
  /\ calls[o] = Idle /\ project' = p
  /\ calls' = [calls EXCEPT ![o] = Waiting("load", "core", p)]
  /\ UNCHANGED <<up, shown, connection, timers, reconnectTimer>>

\* A write was answered, and what is open is read again.
Refresh(o) ==
  /\ calls[o] = Idle
  /\ calls' = [calls EXCEPT ![o] = Waiting("refresh", "core", project)]
  /\ UNCHANGED <<up, project, shown, connection, timers, reconnectTimer>>

\* The button of the banner.
Retry(o) ==
  /\ calls[o] = Idle /\ connection = "disconnected"
  /\ calls' = [calls EXCEPT ![o] = Waiting("retry", "projects", project)]
  /\ UNCHANGED <<up, project, shown, connection, timers, reconnectTimer>>

Down ==
  /\ "down" \in Faults /\ up /\ up' = FALSE
  /\ calls' = [c \in Callers |-> IF calls[c] = Idle THEN Idle ELSE [calls[c] EXCEPT !.lost = TRUE]]
  /\ UNCHANGED <<project, shown, connection, timers, reconnectTimer>>

Up == ~up /\ up' = TRUE /\ UNCHANGED <<project, shown, connection, timers, reconnectTimer, calls>>

-----------------------------------------------------------------------------
(* The poll.                                                                 *)

\* setTimeout(tick) with the handle kept, also where one is kept already.
SetTimer ==
  \E t \in Timers \ timers :
    calls[t] = Idle /\ timers' = timers \cup {t} /\ reconnectTimer' = t

\* Mutant: the handle is kept when the timer fires.
FireKept(t) ==
  /\ t \in timers /\ timers' = timers \ {t} /\ reconnectTimer' = reconnectTimer
  /\ calls' = [calls EXCEPT ![t] = Waiting("tick", "projects", project)]
  /\ UNCHANGED <<up, project, shown, connection>>

\* tick: whichever timer fires, it is the handle that is cleared.
Fire(t) ==
  /\ t \in timers /\ timers' = timers \ {t} /\ reconnectTimer' = Nothing
  /\ calls' = [calls EXCEPT ![t] = Waiting("tick", "projects", project)]
  /\ UNCHANGED <<up, project, shown, connection>>

ScheduleReconnect ==
  /\ connection' = "disconnected"
  /\ IF reconnectTimer = Nothing THEN SetTimer ELSE UNCHANGED <<timers, reconnectTimer>>

-----------------------------------------------------------------------------
(* The ends of a call.                                                       *)

\* The projects are here: refreshCore reads the project that is open by now.
Listed(c) ==
  /\ calls[c].stage = "projects" /\ up /\ ~calls[c].lost
  /\ calls' = [calls EXCEPT ![c].stage = "core", ![c].project = project]
  /\ UNCHANGED <<up, project, shown, connection, timers, reconnectTimer>>

\* The three reads are here: the board is what was asked for, and the page is in sync.
Read(c) ==
  /\ calls[c].stage = "core" /\ up /\ ~calls[c].lost
  /\ shown' = calls[c].project /\ connection' = "connected" /\ Ends(c)
  /\ UNCHANGED <<up, project, timers, reconnectTimer>>

\* Mutant: the poll gives up after one attempt.
PollsOnce(c) ==
  /\ Ends(c) /\ UNCHANGED <<connection, timers, reconnectTimer>>

\* After a failed tick the next timer is set (it has the name of the last one); a failed retry is only reported.
PollsOn(c) ==
  IF calls[c].kind = "tick"
    THEN timers' = timers \cup {c} /\ reconnectTimer' = c /\ Ends(c) /\ UNCHANGED connection
  ELSE Ends(c) /\ UNCHANGED <<connection, timers, reconnectTimer>>

Polling(c) == calls[c].kind \in {"tick", "retry"}

Drops(c) ==
  /\ calls[c] # Idle /\ (calls[c].lost \/ ~up)
  /\ IF Polling(c) THEN PollsOn(c) ELSE ScheduleReconnect /\ Ends(c)
  /\ UNCHANGED <<up, project, shown>>

\* Any other error shows a message, and leaves the connection as it is.
Errs(c) ==
  /\ "error" \in Faults /\ calls[c] # Idle /\ up
  /\ IF Polling(c) THEN PollsOn(c) ELSE Ends(c) /\ UNCHANGED <<connection, timers, reconnectTimer>>
  /\ UNCHANGED <<up, project, shown>>

Settles(c) == Listed(c) \/ Read(c) \/ Drops(c) \/ Errs(c)

WebNext ==
  \/ \E o \in Ops : Refresh(o) \/ Retry(o) \/ \E p \in Projects : Load(o, p)
  \/ \E t \in timers : Fire(t)
  \/ \E c \in Callers : Settles(c)
  \/ Down \/ Up

WebSpec == WebInit /\ [][WebNext]_webVars

\* A call ends, and a timer fires. Nothing is assumed of the daemon or the user.
FairWeb ==
  \A c \in Callers : WF_webVars(Settles(c)) /\ \A t \in Timers : WF_webVars(Fire(t))

-----------------------------------------------------------------------------
\* Types; and the handle is that of a timer that has yet to fire: one that is left behind would
\* keep scheduleReconnect from polling again.
WebTypeOK ==
  /\ {project, shown} \subseteq Projects \cup {Nothing} /\ connection \in {"connected", "disconnected"}
  /\ timers \subseteq Timers /\ reconnectTimer \in timers \cup {Nothing}
  /\ \A t \in timers : calls[t] = Idle

Ticking == {t \in Timers : calls[t] # Idle}

\* While the page says that it is disconnected a poll is under way or about to start, whatever
\* loads, refreshes and retries end meanwhile.
DownIsPolled == connection = "disconnected" => timers \cup Ticking # {}

\* A daemon that stays, and answers, gets every page back, without anyone touching it.
Reconnects ==
  <>[]up /\ <>[][\A c \in Callers : ~Errs(c)]_webVars => <>[](connection = "connected")
=============================================================================
