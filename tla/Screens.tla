-------------------------------- MODULE Screens --------------------------------
(***************************************************************************)
(* What users look at: the board of the terminal client (module CliBoard), *)
(* its key u (CliUndo) and the board of the browser client (WebBoard).     *)
(* They share nothing; which one a behaviour is about is chosen at the     *)
(* start.                                                                  *)
(***************************************************************************)
EXTENDS CliBoard, FiniteSets

CONSTANTS
  Tasks, Owner, None, Answers, Keys, UndoFaults,  \* of CliUndo
  Ops, Timers, WebFaults                          \* of WebBoard

VARIABLES
  scene,
  status, listed, lastStatus, requested, before,         \* of CliUndo
  up, current, shown, connection, timers, reconnectTimer, calls           \* of WebBoard

undoVars == <<status, listed, lastStatus, requested, before>>
webVars == <<up, current, shown, connection, timers, reconnectTimer, calls>>

KeyU == INSTANCE CliUndo WITH
  Faults <- UndoFaults, board <- listed, running <- requested

Web == INSTANCE WebBoard WITH Faults <- WebFaults, project <- current

\* Tasks and steps are different nodes, and a board has finitely many; a timer is none of the
\* operations.
ASSUME ScreensAssumption ==
  /\ IsFiniteSet(DOMAIN Owner) /\ Tasks \cap DOMAIN Owner = {}
  /\ None \notin [id : Tasks, to : KeyU!Settable]
  /\ Nothing \notin Timers /\ Ops \cap Timers = {}

\* No page is open.
WebClosed ==
  /\ up = TRUE /\ current = Home /\ shown = Nothing /\ connection = "connected"
  /\ timers = {} /\ reconnectTimer = Nothing
  /\ calls = [c \in Ops \cup Timers |-> Web!Idle]

ScreensInit ==
  /\ scene \in {"terminal", "key u", "browser"}
  /\ BoardInit /\ KeyU!UndoInit
  /\ IF scene = "browser" THEN Web!WebInit ELSE WebClosed

ScreensNext ==
  /\ \/ scene = "terminal" /\ BoardNext /\ UNCHANGED <<undoVars, webVars>>
     \/ scene = "key u" /\ KeyU!UndoNext /\ UNCHANGED <<boardVars, webVars>>
     \/ scene = "browser" /\ Web!WebNext /\ UNCHANGED <<boardVars, undoVars>>
  /\ UNCHANGED scene

\* In the other scenes nothing of these is ever enabled.
ScreensSpec ==
  /\ ScreensInit /\ [][ScreensNext]_<<boardVars, undoVars, webVars, scene>>
  /\ FairBoard /\ Web!FairWeb

-----------------------------------------------------------------------------
\* Types; who holds the lock of the store reads; what u is going to do can be done; and the
\* handle of the poll is that of a timer that has yet to fire, without which nobody would poll
\* again.
ScreensTypeOK == BoardTypeOK /\ KeyU!UndoTypeOK /\ Web!WebTypeOK

\* u takes the latest change back, if that was all that happened.
UndoReverses == KeyU!UndoReverses

\* A task becomes DONE by a cascade only when the steps that the user had it close are closed,
\* whatever fails and whatever runs at the same time.
ClosesStepsFirst == KeyU!ClosesStepsFirst

\* No step leaves the page disconnected without a poll that is under way or about to start.
StaysPolled == [][Web!DownIsPolled']_webVars

\* A daemon that stays gets the page back, without anyone touching it.
Reconnects == Web!Reconnects

\* No page stays disconnected from a daemon that is there, whatever ends when.
StaysReachable == StaysPolled /\ Reconnects
=============================================================================
