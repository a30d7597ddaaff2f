-------------------------------- MODULE WatchJs --------------------------------
(***************************************************************************)
(* The change stream of the JavaScript daemon (flowdjs): dispatch and      *)
(* publish in one turn of the event loop (service.ts), the bus (bus.ts),   *)
(* the Watch generator, and a client as in module Watch.                   *)
(*                                                                         *)
(* The generator is suspended at each yield until the transport asks for   *)
(* more; other requests run in between.  The client and the transport are  *)
(* not in the repository.                                                  *)
(***************************************************************************)
EXTENDS EventLog, Sequences, FiniteSets, FiniteSetsExt

CONSTANTS
  Watched,      \* the project the client watches
  Slots,        \* responses the transport holds before it stops asking
  ReplayLimit   \* the longest replay that does not ask for a resync

VARIABLES
  generator,  \* "none", "created", "replaying" (suspended at the replay's yield) or "live"
  from,       \* from_seq of the stream
  queue,      \* what the listener has put into the queue
  wire,       \* responses yielded, on the way to the client
  since,      \* not in the code: the last seq when the listener was added
  cursor,     \* the client's: seq of the latest response or snapshot
  known,      \* seqs the client has seen, or had in a snapshot
  resync      \* the client was told to take a new snapshot

streamVars == <<generator, from, queue, wire, since>>
clientVars == <<cursor, known, resync>>
jsVars == <<logVars, streamVars, clientVars>>

Response(seqs, asks) == [seqs |-> seqs, resync |-> asks]
Heartbeat == Response({}, FALSE)

\* A database with one event, and a client that has not read anything yet.
JsInit ==
  /\ last = 1 /\ log = [s \in {1} |-> Watched]
  /\ generator = "none" /\ from = 0 /\ queue = <<>> /\ wire = <<>> /\ since = 0
  /\ cursor = 0 /\ known = {} /\ resync = TRUE

-----------------------------------------------------------------------------
\* Mutant: nobody is called while there is something in the queue.
ListeningWhenIdle == generator = "live" /\ queue = <<>>

\* The bus calls the listener between bus.add and bus.remove.
Listening == generator = "live"

\* A unary write: dispatch and publish in one turn. A cascade takes at most one of the
\* earlier events here.
Write ==
  \E p \in Projects, new \in Seqs, gone \in SUBSET DOMAIN log :
    /\ Cardinality(gone) <= 1
    /\ AppendEvents(p, new, DOMAIN log \ gone)
    /\ queue' = IF Listening /\ p = Watched
                  THEN queue \o <<Response((last + 1) .. new, FALSE)>> ELSE queue
    /\ UNCHANGED <<generator, from, wire, since, clientVars>>

Open ==
  /\ generator = "none" /\ ~resync
  /\ generator' = "created" /\ from' = cursor
  /\ UNCHANGED <<logVars, queue, wire, since, clientVars>>

\* PollChanges: what the log has for the project beyond the cursor.
Missed == {s \in DOMAIN log : log[s] = Watched /\ s > from}

\* The oldest ReplayLimit of a set of seqs.
Page(seqs) == {s \in seqs : Cardinality({t \in seqs : t <= s}) <= ReplayLimit}

\* bus.add.
Listen == generator' = "live" /\ since' = last

\* The first next(): up to the yield of the replay, or to the queue when there is none.
Start ==
  /\ generator = "created"
  /\ IF from > 0 /\ Missed # {}
       THEN /\ generator' = "replaying" /\ since' = since
            /\ wire' = wire \o <<Response(Page(Missed), Cardinality(Missed) > ReplayLimit)>>
       ELSE Listen /\ wire' = wire
  /\ UNCHANGED <<logVars, from, queue, clientVars>>

HasRoom == Len(wire) < Slots

\* The transport asks for what comes after the replay.
Resume ==
  /\ generator = "replaying" /\ HasRoom
  /\ Listen
  /\ UNCHANGED <<logVars, from, queue, wire, clientVars>>

\* One item of the queue.
Yield ==
  /\ generator = "live" /\ HasRoom /\ queue # <<>>
  /\ wire' = wire \o <<Head(queue)>> /\ queue' = Tail(queue)
  /\ UNCHANGED <<logVars, generator, from, since, clientVars>>

\* The heartbeat of every 30 seconds: bounded to one in the queue.
Beat ==
  /\ generator = "live"
  /\ \A i \in DOMAIN queue : queue[i] # Heartbeat
  /\ queue' = queue \o <<Heartbeat>>
  /\ UNCHANGED <<logVars, generator, from, wire, since, clientVars>>

-----------------------------------------------------------------------------
\* get_snapshot: all there is, and MAX(seq) as the cursor.
Snapshot ==
  /\ generator = "none" /\ resync
  /\ known' = 1 .. last /\ cursor' = Max(DOMAIN log) /\ resync' = FALSE
  /\ UNCHANGED <<logVars, streamVars>>

\* The stream is gone: `finally` removes the listener.
NoStream ==
  /\ generator' = "none" /\ queue' = <<>> /\ wire' = <<>>
  /\ UNCHANGED <<from, since>>

\* A response: its seq is the cursor, unless it brings no events.
Take ==
  /\ wire # <<>>
  /\ LET r == Head(wire) IN
     /\ known' = known \cup r.seqs
     /\ cursor' = IF r.seqs = {} THEN cursor ELSE Max(r.seqs)
     /\ resync' = r.resync
     /\ IF r.resync THEN NoStream
        ELSE wire' = Tail(wire) /\ UNCHANGED <<generator, from, queue, since>>
  /\ UNCHANGED logVars

\* The client goes, the connection breaks, or the daemon restarts.
Abort == generator # "none" /\ NoStream /\ UNCHANGED <<logVars, clientVars>>

JsNext ==
  \/ Write \/ Open \/ Start \/ Resume \/ Yield \/ Beat
  \/ Snapshot \/ Take \/ Abort

JsSpec == JsInit /\ [][JsNext]_jsVars

\* The event loop serves the generator, and a client that holds a stream open reads it.
FairJs == WF_jsVars(Start) /\ WF_jsVars(Resume) /\ WF_jsVars(Yield) /\ WF_jsVars(Take)

-----------------------------------------------------------------------------
Pending == wire \o queue

Owed(s) == s \in DOMAIN log /\ log[s] = Watched /\ s \notin known

OnItsWay(s) ==
  \/ \E i \in DOMAIN Pending : s \in Pending[i].seqs
  \/ generator = "created" /\ from > 0 /\ s > from

WillResync == resync \/ \E i \in DOMAIN wire : wire[i].resync

\* A stream delivers the changes in the order of their seqs, each one once: what is pending
\* ascends and starts above the cursor that the client would reconnect with.
StreamInOrder ==
  /\ \A i, j \in DOMAIN Pending : i < j =>
       \A s \in Pending[i].seqs, t \in Pending[j].seqs : s < t
  /\ \A i \in DOMAIN Pending : \A s \in Pending[i].seqs : s > cursor

\* From the moment the listener is on the bus no change is left out.
LiveHasNoGap ==
  generator = "live" /\ ~WillResync =>
    \A s \in DOMAIN log : Owed(s) /\ s > since => OnItsWay(s)

\* What a live stream owes the client, and the ends that this can come to.
Promised(s) == Owed(s) /\ s > since /\ generator = "live"
Settled(s) == ~Owed(s) \/ generator = "none"

\* "A client that reconnects sends its last seq and gets everything after it; if the gap is
\* too large the server answers with a Resync instead" (0001_initial_schema.sql:208-210).
\* The listener is added when the generator goes on after the replay: what is written while
\* it is suspended there is in neither.
ReconnectGetsEverything ==
  generator \in {"created", "live"} /\ ~WillResync =>
    \A s \in DOMAIN log : Owed(s) => OnItsWay(s)
=============================================================================
