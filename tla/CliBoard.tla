------------------------------- MODULE CliBoard -------------------------------
(***************************************************************************)
(* The terminal client's view of a project: the snapshot that its store    *)
(* keeps between reads (flowcli's store/grpc.go) and the board that its    *)
(* commands fill (ui/model.go, ui/update.go).  Bubble Tea runs every       *)
(* command in a goroutine of its own and hands over what they return in    *)
(* whatever order they end.                                                *)
(*                                                                         *)
(* What a project contains is the number of writes it has seen.            *)
(***************************************************************************)
EXTENDS Naturals, Sequences

CONSTANTS
  Projects,   \* projects of the daemon
  Home,       \* the one that is open when the program starts
  Commands,   \* commands that can be under way at the same time
  Nothing,    \* no snapshot, no board, no command
  MaxRev,     \* bound on the writes to a project
  Faults      \* what may happen to a call: "no answer" to a read, "lost reply" to a write

ASSUME BoardAssumption ==
  /\ Home \in Projects /\ Nothing \notin Commands /\ MaxRev \in Nat
  /\ Faults \subseteq {"no answer", "lost reply"}

VARIABLES
  rev,       \* project -> writes that the daemon has committed
  cached,    \* GRPC.cached
  mu,        \* GRPC.mu: the command that holds it while it asks for a snapshot
  answer,    \* what the daemon read for the command in mu
  project,   \* Model.projectID
  board,     \* Model.nodes, deps and activity: the three snapshots they are taken from
  running,   \* command -> what it does next, and what it has read
  told       \* project -> the latest own write whose success was reported

boardVars == <<rev, cached, mu, answer, project, board, running, told>>

Snapshots == [project : Projects, rev : Nat]
Steps == {"idle", "write", "invalidate", "read", "deliver"}
Reads == 3  \* Nodes, Dependencies, Activity

Idle == [step |-> "idle", project |-> Home, target |-> Home, wrote |-> 0, got |-> <<>>]

BoardInit ==
  /\ rev = [p \in Projects |-> 0] /\ told = rev
  /\ cached = Nothing /\ mu = Nothing /\ answer = Nothing
  /\ project = Home /\ board = Nothing
  /\ running = [c \in Commands |-> Idle]

Goes(c, step) == running' = [running EXCEPT ![c].step = step]
Ends(c) == running' = [running EXCEPT ![c] = Idle]

-----------------------------------------------------------------------------
(* What the user and other clients do.                                       *)

Started(c, step, p, target) ==
  /\ running[c] = Idle
  /\ running' = [running EXCEPT ![c] = [Idle EXCEPT !.step = step, !.project = p, !.target = target]]

\* A project is picked: the command reads the project that is open from now on.
Open(c, p) ==
  /\ project' = p /\ Started(c, "read", p, p)
  /\ UNCHANGED <<rev, cached, mu, answer, board, told>>

\* A key that writes: to a node that the board shows, or a new one in the open project.
Change(c) ==
  /\ \E p \in {project} \cup IF board = Nothing THEN {} ELSE {board[1].project} :
       Started(c, "write", project, p)
  /\ UNCHANGED <<rev, cached, mu, answer, project, board, told>>

\* An agent writes.
Elsewhere(p) ==
  /\ rev[p] < MaxRev /\ rev' = [rev EXCEPT ![p] = @ + 1]
  /\ UNCHANGED <<cached, mu, answer, project, board, running, told>>

-----------------------------------------------------------------------------
(* The store.                                                                *)

\* The daemon commits the write and says so.
Write(c) ==
  LET p == running[c].target IN
  /\ running[c].step = "write" /\ rev[p] < MaxRev
  /\ rev' = [rev EXCEPT ![p] = @ + 1]
  /\ running' = [running EXCEPT ![c].step = "invalidate", ![c].wrote = rev[p] + 1]
  /\ UNCHANGED <<cached, mu, answer, project, board, told>>

\* Some commands end with an error; the others pass over it and refresh, and nobody has told
\* them of a write.
AfterError(c) == Ends(c) \/ Goes(c, "read")

\* The daemon refuses.
Refused(c) ==
  /\ running[c].step = "write" /\ AfterError(c)
  /\ UNCHANGED <<rev, cached, mu, answer, project, board, told>>

\* It commits, and nobody hears of it.
ReplyLost(c) ==
  LET p == running[c].target IN
  /\ "lost reply" \in Faults /\ running[c].step = "write" /\ rev[p] < MaxRev
  /\ rev' = [rev EXCEPT ![p] = @ + 1] /\ AfterError(c)
  /\ UNCHANGED <<cached, mu, answer, project, board, told>>

\* Mutant: the cache is dropped without the lock.
InvalidateUnlocked(c) ==
  LET p == running[c].target IN
  /\ running[c].step = "invalidate" /\ Goes(c, "read")
  /\ cached' = Nothing
  /\ told' = [told EXCEPT ![p] = IF @ < running[c].wrote THEN running[c].wrote ELSE @]
  /\ UNCHANGED <<rev, mu, answer, project, board>>

\* Mutant: an operation that forgets to invalidate.
InvalidateNothing(c) ==
  LET p == running[c].target IN
  /\ running[c].step = "invalidate" /\ Goes(c, "read")
  /\ told' = [told EXCEPT ![p] = IF @ < running[c].wrote THEN running[c].wrote ELSE @]
  /\ UNCHANGED <<rev, cached, mu, answer, project, board>>

\* invalidate waits for a fetch that is under way.
Invalidate(c) ==
  LET p == running[c].target IN
  /\ running[c].step = "invalidate" /\ mu = Nothing /\ Goes(c, "read")
  /\ cached' = Nothing
  /\ told' = [told EXCEPT ![p] = IF @ < running[c].wrote THEN running[c].wrote ELSE @]
  /\ UNCHANGED <<rev, mu, answer, project, board>>

\* Mutant: the parts in the wrong order.
TakesBackwards(c, snapshot) ==
  LET got == <<snapshot>> \o running[c].got IN
  running' = [running EXCEPT ![c].got = got,
                             ![c].step = IF Len(got) = Reads THEN "deliver" ELSE "read"]

\* The reading of a command: once it has read for nodes, dependencies and activity its message
\* is on its way.
Takes(c, snapshot) ==
  LET got == Append(running[c].got, snapshot) IN
  running' = [running EXCEPT ![c].got = got,
                             ![c].step = IF Len(got) = Reads THEN "deliver" ELSE "read"]

\* snapshot: what is cached is returned, whatever project it is of.
Hit(c) ==
  /\ running[c].step = "read" /\ mu = Nothing /\ cached # Nothing
  /\ Takes(c, cached)
  /\ UNCHANGED <<rev, cached, mu, answer, project, board, told>>

\* Nothing cached: the lock is kept until the answer is here.
Fetch(c) ==
  /\ running[c].step = "read" /\ mu = Nothing /\ cached = Nothing /\ mu' = c
  /\ UNCHANGED <<rev, cached, answer, project, board, running, told>>

\* The daemon reads.
GetSnapshot ==
  /\ mu # Nothing /\ answer = Nothing
  /\ answer' = [project |-> running[mu].project, rev |-> rev[running[mu].project]]
  /\ UNCHANGED <<rev, cached, mu, project, board, running, told>>

Fetched(c) ==
  /\ mu = c /\ answer # Nothing
  /\ cached' = answer /\ answer' = Nothing /\ mu' = Nothing
  /\ Takes(c, answer)
  /\ UNCHANGED <<rev, project, board, told>>

\* Mutant: the early return keeps the lock.
FetchFailsLocked(c) ==
  /\ "no answer" \in Faults /\ mu = c
  /\ answer' = Nothing /\ mu' = mu /\ Ends(c)
  /\ UNCHANGED <<rev, cached, project, board, told>>

\* No answer: the command ends without a word to the board (or with an error on the screen,
\* which is not modelled), and the cache stays empty.
FetchFails(c) ==
  /\ "no answer" \in Faults /\ mu = c
  /\ answer' = Nothing /\ mu' = Nothing /\ Ends(c)
  /\ UNCHANGED <<rev, cached, project, board, told>>

\* Update gets the message of a load or a refresh.
Deliver(c) ==
  /\ running[c].step = "deliver"
  /\ board' = running[c].got /\ Ends(c)
  /\ UNCHANGED <<rev, cached, mu, answer, project, told>>

-----------------------------------------------------------------------------

\* The steps of a command that wait for the lock, and the others.
Locking(c) == Invalidate(c) \/ Hit(c) \/ Fetch(c)
Answering(c) ==
  Write(c) \/ Refused(c) \/ ReplyLost(c) \/ (mu = c /\ GetSnapshot) \/ Fetched(c) \/ FetchFails(c) \/ Deliver(c)

BoardNext ==
  \/ \E c \in Commands :
       Change(c) \/ Locking(c) \/ Answering(c) \/ \E p \in Projects : Open(c, p)
  \/ \E p \in Projects : Elsewhere(p)

BoardSpec == BoardInit /\ [][BoardNext]_boardVars

\* A call is answered or fails, a message is delivered, and nobody waits for ever for a lock
\* that others get again and again (sync.Mutex hands it over to who has waited long).
FairBoard ==
  \A c \in Commands : WF_boardVars(Answering(c)) /\ SF_boardVars(Locking(c))

-----------------------------------------------------------------------------
\* Types; and the lock is held by a command that reads, while nothing is cached.
BoardTypeOK ==
  /\ rev \in [Projects -> 0 .. MaxRev] /\ told \in [Projects -> 0 .. MaxRev]
  /\ project \in Projects /\ {cached, answer} \subseteq Snapshots \cup {Nothing}
  /\ board = Nothing \/ board \in [1 .. Reads -> Snapshots]
  /\ \A c \in Commands : running[c].step \in Steps
  /\ mu # Nothing => running[mu].step = "read" /\ cached = Nothing

\* The cache never lacks an own write that was reported done, also when a snapshot read before
\* the write arrives after it.
CacheHasOwnWrites == cached # Nothing => cached.rev >= told[cached.project]

\* What one command reads for the three parts of the board it reads in the order of the
\* project's history, whatever other commands invalidate in between.
LoadsGoForward ==
  \A c \in Commands : LET got == running[c].got IN
    \A i, j \in DOMAIN got : i < j /\ got[i].project = got[j].project => got[i].rev <= got[j].rev

\* No command stays under way, and the lock is never left behind.
CommandsEnd == \A c \in Commands : running[c].step # "idle" ~> running[c].step = "idle"

\* "Writes clear the cache so the next refresh re-fetches": what a command hands over after it
\* wrote is not from before that write.
RefreshShowsTheWrite ==
  \A c \in Commands : LET r == running[c] IN
    r.step = "deliver" => \A i \in 1 .. Reads : r.got[i].project = r.target => r.got[i].rev >= r.wrote
=============================================================================
