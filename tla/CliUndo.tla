-------------------------------- MODULE CliUndo --------------------------------
(***************************************************************************)
(* Changing a status and taking it back in the terminal client             *)
(* (flowcli's ui/update.go and ui/cascade.go).  The key u has one level,   *)
(* in memory: the node whose status was changed last and what it was.  A   *)
(* command is a sequence of requests and runs in a goroutine of its own.   *)
(***************************************************************************)
EXTENDS Naturals, FiniteSets, Sequences, SequencesExt

CONSTANTS
  Tasks,     \* the tasks of the board
  Owner,     \* step -> the task it belongs to
  Commands,  \* commands that can be under way at the same time
  None,      \* no change to undo
  Answers,   \* what the user says to "close the open steps too?": "close", "leave"
  Keys,      \* other keys that are pressed: "delete"
  Faults     \* what may happen to a request: "error"

StepIds == DOMAIN Owner
Nodes == Tasks \cup StepIds

VARIABLES
  status,      \* node -> its declared status at the daemon, or that it is gone
  board,       \* the same, as the client shows it
  lastStatus,  \* Model.lastStatus
  running,     \* command -> the requests it has yet to make; idle without any
  before       \* history: what the daemon had before the latest change, as a set; {} unless
               \* that change, of one status, and u are all that has happened since

undoVars == <<status, board, lastStatus, running, before>>

Settable == {"OPEN", "DEFERRED", "DONE"}
Gone == "GONE"

Request(n, to) == [id |-> n, to |-> to]

\* A command that is under way ends with a refresh. A cascade stops at the first request that
\* fails; `closes` are the steps it was to close.
Idle == [requests |-> <<>>, refresh |-> FALSE, stops |-> FALSE, closes |-> {}]

UndoInit ==
  /\ status = [n \in Nodes |-> "OPEN"] /\ board = status
  /\ lastStatus = None /\ before = {}
  /\ running = [c \in Commands |-> Idle]

Runs(c, command) == running[c] = Idle /\ running' = [running EXCEPT ![c] = command]

Only(n, to) == [Idle EXCEPT !.requests = <<Request(n, to)>>, !.refresh = TRUE]

AllIdle == \A c \in Commands : running[c] = Idle

Alone(history) == IF AllIdle THEN history ELSE {}

\* Mutant: what the node is to become is remembered.
RemembersNew(n, to, closes) ==
  lastStatus' = Request(n, to) /\ before' = Alone(IF closes = {} THEN {status} ELSE {})

\* The steps that are closed along with it are not remembered.
Remembers(n, to, closes) ==
  lastStatus' = Request(n, board[n]) /\ before' = Alone(IF closes = {} THEN {status} ELSE {})

StepsOf(n) == {s \in StepIds : Owner[s] = n /\ board[s] # Gone}
OpenSteps(n) == {s \in StepsOf(n) : board[s] # "DONE"}

\* What is chosen for a step is chosen for its task. Without open steps (dependents, which the
\* preview lists as well, are not modelled) the change is made at once.
ChooseStatus(c, n, to) ==
  /\ board[n] # Gone /\ (to = "DONE" => OpenSteps(n) = {})
  /\ Remembers(n, to, {}) /\ Runs(c, Only(n, to))
  /\ UNCHANGED <<status, board>>

\* The requests that mark these done, one after the other.
Marking(ns) == [i \in DOMAIN ns |-> Request(ns[i], "DONE")]

\* The steps that are to be closed, then the subject.
Closing(n, steps) == Marking(Append(SetToSeq(steps), n))

ApplyCascade(c, n, answer) ==
  LET closes == IF answer = "close" THEN OpenSteps(n) ELSE {} IN
  /\ board[n] # Gone /\ OpenSteps(n) # {} /\ Remembers(n, "DONE", closes)
  /\ Runs(c, [requests |-> Closing(n, closes), refresh |-> TRUE, stops |-> TRUE, closes |-> closes])
  /\ UNCHANGED <<status, board>>

\* The key u.
Undo(c) ==
  /\ lastStatus # None /\ lastStatus' = None
  /\ Runs(c, Only(lastStatus.id, lastStatus.to))
  /\ before' = Alone(before) /\ UNCHANGED <<status, board>>

\* A leaf without edges goes at once, anything else once the user has agreed.
Delete(c, n) ==
  /\ "delete" \in Keys /\ board[n] # Gone
  /\ Runs(c, Only(n, Gone))
  /\ before' = {}
  /\ UNCHANGED <<status, board, lastStatus>>

-----------------------------------------------------------------------------

Applied(request) ==
  LET below == {s \in StepIds : request.to = Gone /\ Owner[s] = request.id} IN
  [n \in Nodes |-> IF n \in {request.id} \cup below THEN request.to ELSE status[n]]

\* The next request of a command: the daemon does it, unless the node is gone.
Send(c) ==
  LET r == running[c] IN
  /\ r.requests # <<>> /\ status[Head(r.requests).id] # Gone
  /\ status' = Applied(Head(r.requests))
  /\ running' = [running EXCEPT ![c].requests = Tail(@)]
  /\ UNCHANGED <<board, lastStatus, before>>

\* Mutant: the cascade goes on after an error.
SendFailsOn(c) ==
  LET r == running[c] IN
  /\ r.requests # <<>> /\ ("error" \in Faults \/ status[Head(r.requests).id] = Gone)
  /\ running' = [running EXCEPT ![c].requests = Tail(@)]
  /\ before' = {} /\ UNCHANGED <<status, board, lastStatus>>

\* An error ends a cascade without a refresh; the other commands pass over it.
SendFails(c) ==
  LET r == running[c] IN
  /\ r.requests # <<>> /\ ("error" \in Faults \/ status[Head(r.requests).id] = Gone)
  /\ running' = [running EXCEPT ![c] = IF r.stops THEN Idle ELSE [r EXCEPT !.requests = Tail(@)]]
  /\ before' = {} /\ UNCHANGED <<status, board, lastStatus>>

Refresh(c) ==
  /\ running[c].refresh /\ running[c].requests = <<>>
  /\ board' = status /\ running' = [running EXCEPT ![c] = Idle]
  /\ UNCHANGED <<status, lastStatus, before>>

UndoNext ==
  \E c \in Commands :
    \/ \E n \in Tasks :
         \/ \E to \in Settable : ChooseStatus(c, n, to)
         \/ \E answer \in Answers : ApplyCascade(c, n, answer)
    \/ \E n \in Nodes : Delete(c, n)
    \/ Undo(c) \/ Send(c) \/ SendFails(c) \/ Refresh(c)

UndoSpec == UndoInit /\ [][UndoNext]_undoVars

-----------------------------------------------------------------------------
\* Types; and what is remembered for the key u is a status that can be set.
UndoTypeOK ==
  /\ {status, board} \cup before \subseteq [Nodes -> Settable \cup {Gone}]
  /\ lastStatus = None \/ lastStatus \in [id : Tasks, to : Settable]
  /\ \A c \in Commands : Len(running[c].requests) <= Cardinality(StepIds) + 1

\* u takes the latest change back: once it is through, every node has the status it had. That
\* is, if the change was one of a single status that nothing refused, was over before anything
\* else began, and nothing was deleted since.
UndoReverses ==
  lastStatus = None /\ AllIdle => before \subseteq {status}

\* A task becomes DONE by a cascade only when the steps that the user had it close are closed,
\* whatever fails and whatever runs at the same time.
ClosesStepsFirst ==
  [][\A c \in Commands, n \in Tasks : LET r == running[c] IN
       /\ r.requests # <<>> /\ Head(r.requests) = Request(n, "DONE")
       /\ running'[c] # r /\ status'[n] = "DONE" /\ status[n] # "DONE"
       => \A s \in r.closes : status'[s] \in {"DONE", Gone}]_undoVars
=============================================================================
