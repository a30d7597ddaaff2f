--------------------------------- MODULE Watch ---------------------------------
(***************************************************************************)
(* The change stream of the native daemon (flowd): handlers that commit a  *)
(* write and publish it afterwards (store/mod.rs), the broadcast ring they *)
(* publish to, the task that serves one Watch stream (grpc/mod.rs), and a  *)
(* client that follows the protocol: snapshot, watch from its cursor,      *)
(* reconnect with the cursor of the latest response.                       *)
(*                                                                         *)
(* The log is that of EventLog, which the store implements.  The client is *)
(* not in the repository.                                                  *)
(***************************************************************************)
EXTENDS EventLog, Sequences, FiniteSets, FiniteSetsExt

CONSTANTS
  Watched,      \* the project the client watches
  Handlers,     \* bound on the writes that are committed and not yet published
  Capacity,     \* slots of the broadcast ring
  Slots,        \* slots of the channel to the stream, and one more in the task's hand
  ReplayLimit,  \* the longest replay that does not ask for a resync
  MaxOpens      \* bound on the streams the client opens

ASSUME WatchAssumption ==
  /\ Watched \in Projects
  /\ Seqs \subseteq Nat /\ 1 \in Seqs /\ \A s \in Seqs : 0 .. s \subseteq Seqs
  /\ {Handlers, Capacity, Slots, ReplayLimit, MaxOpens} \subseteq Nat \ {0}

VARIABLES
  unpublished,  \* mutations that are committed and whose handler is about to publish
  ring,         \* mutations published since the daemon started, oldest first
  phase,        \* of the stream's task: "none", "opened", "live" or "broken off"
  from,         \* from_seq of the stream
  next,         \* index in the ring of what the receiver reads next
  channel,      \* responses on the way to the client
  cursor,       \* the client's: seq of the latest response or snapshot
  known,        \* seqs the client has seen, or had in a snapshot
  resync,       \* the client was told to take a new snapshot
  opens,        \* streams opened so far
  dropped       \* not in the code: seqs of changes that the daemon gave up on

daemonVars == <<unpublished, ring>>
streamVars == <<phase, from, next, channel, opens>>
clientVars == <<cursor, known, resync>>
watchVars == <<logVars, daemonVars, streamVars, clientVars, dropped>>

Mutation(p, seqs) == [project |-> p, seqs |-> seqs]
Response(seqs, asks) == [seqs |-> seqs, resync |-> asks]
Heartbeat == Response({}, FALSE)
Lagged == Response({}, TRUE)

\* A database with one event, and a client that has not read anything yet.
WatchInit ==
  /\ last = 1 /\ log = [s \in {1} |-> Watched]
  /\ unpublished = {} /\ ring = <<>>
  /\ phase = "none" /\ from = 0 /\ next = 1 /\ channel = <<>> /\ opens = 0
  /\ cursor = 0 /\ known = {} /\ resync = TRUE
  /\ dropped = {}

-----------------------------------------------------------------------------
(* Writers.                                                                  *)

\* offload(...): the store commits, under its lock, on a thread of the blocking pool. A
\* cascade takes at most one of the earlier events here.
Commit ==
  \E p \in Projects, new \in Seqs, gone \in SUBSET DOMAIN log :
    /\ Cardinality(unpublished) < Handlers
    /\ Cardinality(gone) <= 1
    /\ AppendEvents(p, new, DOMAIN log \ gone)
    /\ unpublished' = unpublished \cup {Mutation(p, (last + 1) .. new)}
    /\ UNCHANGED <<ring, streamVars, clientVars, dropped>>

\* publish: after the lock is released, so in any order.
Publish ==
  \E m \in unpublished :
    /\ unpublished' = unpublished \ {m}
    /\ ring' = ring \o <<m>>
    /\ UNCHANGED <<logVars, streamVars, clientVars, dropped>>

\* The handler's future is dropped while it waits for the blocking pool, as its caller is
\* gone: the write is committed and nobody publishes it.
Abandon ==
  \E m \in unpublished :
    /\ unpublished' = unpublished \ {m}
    /\ dropped' = dropped \cup m.seqs
    /\ UNCHANGED <<logVars, ring, streamVars, clientVars>>

-----------------------------------------------------------------------------
(* The Watch stream.                                                         *)

\* The handler subscribes before it spawns the task that replays.
Subscribe == Len(ring) + 1

Open ==
  /\ phase = "none" /\ ~resync /\ opens < MaxOpens
  /\ phase' = "opened" /\ from' = cursor /\ next' = Subscribe /\ channel' = <<>>
  /\ opens' = opens + 1
  /\ UNCHANGED <<logVars, daemonVars, clientVars, dropped>>

\* Mutant: the cursor is taken for the first seq that is missing.
MissedBeyond == {s \in DOMAIN log : log[s] = Watched /\ s > from + 1}

\* events_after: what the log has for the project beyond the cursor.
Missed == {s \in DOMAIN log : log[s] = Watched /\ s > from}

\* A seq of 0 asks for no replay. A replay that is too long is sent all the same.
Replay ==
  /\ phase = "opened" /\ phase' = "live"
  /\ channel' = IF from > 0 /\ Missed # {}
                  THEN channel \o <<Response(Missed, Cardinality(Missed) > ReplayLimit)>>
                  ELSE channel
  /\ UNCHANGED <<logVars, daemonVars, from, next, opens, clientVars, dropped>>

\* The error of a read that fails is ignored.
ReplayFails ==
  /\ phase = "opened" /\ from > 0 /\ phase' = "live"
  /\ dropped' = dropped \cup Missed
  /\ UNCHANGED <<logVars, daemonVars, from, next, channel, opens, clientVars>>

\* Mutant: the bound is off by one.
HasRoomForOneMore == Len(channel) <= Slots

HasRoom == Len(channel) < Slots

\* The ring has overwritten what the receiver would read next.
Overrun == Len(ring) - next >= Capacity

\* rx.recv(): a change of the project is passed on, others are skipped.
Receive ==
  /\ phase = "live" /\ HasRoom /\ next <= Len(ring) /\ ~Overrun
  /\ next' = next + 1
  /\ channel' = IF ring[next].project = Watched
                  THEN channel \o <<Response(ring[next].seqs, FALSE)>> ELSE channel
  /\ UNCHANGED <<logVars, daemonVars, phase, from, opens, clientVars, dropped>>

\* Mutant: the receiver goes on with the oldest slot that is left, as recv() allows.
FallBehindQuietly ==
  /\ phase = "live" /\ HasRoom /\ Overrun
  /\ next' = Len(ring) - Capacity + 1
  /\ UNCHANGED <<logVars, daemonVars, phase, from, channel, opens, clientVars, dropped>>

\* Lagged: the client is told, and the stream ends.
FallBehind ==
  /\ phase = "live" /\ HasRoom /\ Overrun
  /\ phase' = "broken off"
  /\ channel' = channel \o <<Lagged>>
  /\ UNCHANGED <<logVars, daemonVars, from, next, opens, clientVars, dropped>>

\* The heartbeat of every 30 seconds: bounded to one on its way.
Beat ==
  /\ phase = "live" /\ HasRoom
  /\ \A i \in DOMAIN channel : channel[i] # Heartbeat
  /\ channel' = channel \o <<Heartbeat>>
  /\ UNCHANGED <<logVars, daemonVars, phase, from, next, opens, clientVars, dropped>>

-----------------------------------------------------------------------------
(* The client and its connection.                                            *)

\* get_snapshot: all there is, and MAX(seq) as the cursor.
Snapshot ==
  /\ phase = "none" /\ resync
  /\ known' = 1 .. last
  /\ cursor' = Max(DOMAIN log)
  /\ resync' = FALSE
  /\ UNCHANGED <<logVars, daemonVars, streamVars, dropped>>

NoStream == phase' = "none" /\ channel' = <<>> /\ UNCHANGED <<from, next, opens>>

\* A response: its seq is the cursor, unless it brings no events.
Take ==
  /\ channel # <<>>
  /\ LET r == Head(channel) IN
     /\ known' = known \cup r.seqs
     /\ cursor' = IF r.seqs = {} THEN cursor ELSE Max(r.seqs)
     /\ resync' = r.resync
     /\ IF r.resync THEN NoStream
        ELSE channel' = Tail(channel) /\ UNCHANGED <<phase, from, next, opens>>
  /\ UNCHANGED <<logVars, daemonVars, dropped>>

\* The connection is lost with all that is on the way.
Disconnect ==
  /\ phase # "none" /\ NoStream
  /\ UNCHANGED <<logVars, daemonVars, clientVars, dropped>>

\* The daemon restarts: the ring and the handlers are gone, the database stays.
Restart ==
  /\ unpublished' = {} /\ ring' = <<>> /\ NoStream
  /\ UNCHANGED <<logVars, clientVars, dropped>>

-----------------------------------------------------------------------------

WatchNext ==
  \/ Commit \/ Publish \/ Abandon
  \/ Open \/ Replay \/ ReplayFails \/ Receive \/ FallBehind \/ Beat
  \/ Snapshot \/ Take \/ Disconnect \/ Restart

WatchSpec == WatchInit /\ [][WatchNext]_watchVars

\* The daemon's tasks run, and a client that holds a stream open reads it. The task waits
\* for the ring and the heartbeat at once: select! takes either when both are ready, so the
\* ring is not passed over forever (strong fairness, as heartbeats also fill the channel).
FairWatch ==
  /\ WF_watchVars(Publish) /\ WF_watchVars(Replay) /\ WF_watchVars(Take)
  /\ SF_watchVars(Receive \/ FallBehind)

-----------------------------------------------------------------------------
WatchTypeOK ==
  /\ last \in Seqs /\ DOMAIN log \subseteq 1 .. last /\ \A s \in DOMAIN log : log[s] \in Projects
  /\ unpublished \subseteq [project : Projects, seqs : SUBSET Seqs]
  /\ ring \in Seq([project : Projects, seqs : SUBSET Seqs])
  /\ phase \in {"none", "opened", "live", "broken off"}
  /\ from \in Seqs /\ cursor \in Seqs /\ next \in Nat \ {0}
  /\ channel \in Seq([seqs : SUBSET Seqs, resync : BOOLEAN]) /\ Len(channel) <= Slots
  /\ known \subseteq Seqs /\ dropped \subseteq Seqs
  /\ resync \in BOOLEAN /\ opens \in Nat

Holds(queue, s) == \E i \in DOMAIN queue : s \in queue[i].seqs
Asks(queue) == \E i \in DOMAIN queue : queue[i].resync

\* In the ring where the receiver has yet to read.
Unread(s) == \E i \in DOMAIN ring : i >= next /\ s \in ring[i].seqs

\* Somewhere between the log and the client: in the channel, in the ring, with a handler that
\* is about to publish, or waiting for the replay.
OnItsWay(s) ==
  \/ Holds(channel, s)
  \/ Unread(s)
  \/ \E m \in unpublished : s \in m.seqs
  \/ phase = "opened" /\ from > 0 /\ s > from

\* What the client of an open stream has been promised and has not been told to fetch.
Owed(s) == s \in DOMAIN log /\ log[s] = Watched /\ s \notin known /\ s \notin dropped

\* The client will hear that it must take a snapshot.
WillResync == resync \/ Asks(channel) \/ (phase = "live" /\ Overrun)

\* A stream has no gap: whatever the replay, the live changes, their order and the lag of
\* the receiver, a change that is newer than the stream's cursor is known to the client or
\* on its way, or the client is going to be told to start again.
StreamHasNoGap ==
  phase \in {"opened", "live"} /\ ~WillResync =>
    \A s \in DOMAIN log : Owed(s) /\ s > from => OnItsWay(s)

\* What an open stream owes the client, and the ends that this can come to: the change is known
\* or given up on, or the client is to resync, or its stream is gone.
Promised(s) == Owed(s) /\ s > from /\ phase \in {"opened", "live"}
Settled(s) == ~Owed(s) \/ resync \/ phase = "none"

\* "A client that reconnects sends its last seq and gets everything after it; if the gap is
\* too large the server answers with a Resync instead" (0001_initial_schema.sql:208-210).
\* Two handlers may publish in the other order than they committed: a client that has the
\* later change and not the earlier one when its stream breaks never gets the earlier one.
ReconnectGetsEverything ==
  phase \in {"opened", "live"} /\ ~WillResync => \A s \in DOMAIN log : Owed(s) => OnItsWay(s)
=============================================================================
