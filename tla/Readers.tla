-------------------------------- MODULE Readers --------------------------------
(***************************************************************************)
(* Clients that read while others write: an agent that follows a project   *)
(* by polling from a cursor (flowmcp's get_project and poll_changes), and  *)
(* one that pages back through the history (list_events).                  *)
(*                                                                         *)
(* The clients are not in the repository; flowmcp's tools, which hand on   *)
(* their arguments and the replies, say how they are meant to be used.     *)
(***************************************************************************)
EXTENDS FlowReads, SeedMC

VARIABLES
  cursor,   \* the agent's: what it passes to the next poll
  heard,    \* seqs of events of Travel that it was given or that its snapshot covers
  changed,  \* not in the code: seq of the latest commit that changed the picture of Travel
  before,   \* where the pager's next page ends; 0 before the first
  listed,   \* seqs the pager was given
  there,    \* seqs there were when it began
  pages     \* "more" or "done"

pollVars == <<cursor, heard>>
pageVars == <<before, listed, there, pages>>
readerVars == <<pollVars, changed, pageVars>>

ReaderInit ==
  /\ SeedInit
  /\ cursor = 0 /\ heard = {} /\ changed = 0
  /\ before = 0 /\ listed = {} /\ there = EventsIn(Travel) /\ pages = "more"

-----------------------------------------------------------------------------
(* The others. What they connect or place lies in one project.               *)

In(p) == {n \in Live : nodes[n].project = p}

\* What another client does in a project, without keys.
WriteIn(p) ==
  \/ \E parent \in In(p) \cup {NoNode}, kind \in Kinds : CreateNode(p, parent, kind, NoKey)
  \/ \E seq \in EventsIn(p) : Undo(p, seq, NoKey)
  \/ \E n \in In(p) :
       \/ DeleteNode(n, FALSE, NoKey)
       \/ \E status \in {"OPEN", "DONE"} : SetStatus(n, status, NoKey)
       \/ \E parent \in In(p) : MoveNode(n, parent, "STEP", NoKey)
       \/ \E m \in In(p) : AddDependency(n, m, NoKey)

\* Remember when the picture of Travel last changed.
Remember == changed' = IF Picture(Travel)' # Picture(Travel) THEN lastSeq' ELSE changed

\* Requests that are refused change nothing that a reader sees.
Others ==
  /\ \E p \in DOMAIN projects : WriteIn(p)
  /\ reply'.ok
  /\ Remember /\ UNCHANGED <<now, pollVars, pageVars>>

-----------------------------------------------------------------------------
(* The agent that polls.                                                     *)

\* get_project.
GetProject ==
  /\ cursor' = Snapshot(Travel).seq /\ heard' = heard \cup EventsIn(Travel)
  /\ UNCHANGED <<vars, changed, pageVars>>

Poll(limit) ==
  LET answer == PollChanges(Travel, cursor, limit) IN
  /\ cursor' = answer.seq /\ heard' = heard \cup answer.events
  /\ UNCHANGED <<vars, changed, pageVars>>

PollNext == Others \/ GetProject \/ \E limit \in {0, 1} : Poll(limit)

-----------------------------------------------------------------------------
(* The client that pages.                                                    *)

NextPage(limit) ==
  LET answer == ListEvents(Travel, NoNode, before, limit) IN
  /\ pages = "more"
  /\ listed' = listed \cup answer.events
  /\ before' = IF answer.events = {} THEN before ELSE Min(answer.events)
  /\ there' = IF before = 0 THEN EventsIn(Travel) ELSE there
  /\ pages' = IF answer.more THEN "more" ELSE "done"
  /\ UNCHANGED <<vars, pollVars, changed>>

PageNext == Others \/ \E limit \in {0, 1, 2} : NextPage(limit)

-----------------------------------------------------------------------------
\* An agent that polls misses nothing: what its cursor has passed, it was given, or was
\* covered by the snapshot it began with. Other projects share the numbers, pages are cut
\* short, and cascades thin out the log meanwhile. An agent that takes the cursor of its own
\* write passes over what others logged since its last poll.
HearsEverything == \A s \in EventsIn(Travel) : s <= cursor => s \in heard

\* "No events = nothing changed" (flowmcp/src/tools/reads.ts:116): when a poll finds nothing,
\* the picture of the project is that of the cursor. A change whose event has gone with its
\* node leaves a later one. Across projects it does not hold: the change of a blocker is
\* logged in the blocker's project only.
NoNewsIsNoChange == EventsAfter(Travel, cursor) = {} => changed <= cursor

\* Paging back ends with everything there was when it began, as far as it still exists.
PagesMissNothing == pages = "done" => EventsIn(Travel) \cap there \subseteq listed

\* Whoever follows a project and whoever goes back through it gets all that is there.
NothingIsMissed == HearsEverything /\ PagesMissNothing

\* Polling never gives an event twice.
PollsRepeatNothing ==
  [][\A limit \in {0, 1} : Poll(limit) => PollChanges(Travel, cursor, limit).events \cap heard = {}]_
    <<vars, readerVars>>

\* No page repeats what an earlier one gave or what was logged since: the pages go down.
PagesRepeatNothing ==
  [][\A limit \in {0, 1, 2} : NextPage(limit) =>
       \A s \in ListEvents(Travel, NoNode, before, limit).events, t \in listed : s < t]_
    <<vars, readerVars>>

\* And nothing twice.
NothingComesTwice == PollsRepeatNothing /\ PagesRepeatNothing
=============================================================================
