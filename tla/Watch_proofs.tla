----------------------------- MODULE Watch_proofs -----------------------------
(***************************************************************************)
(* A stream of flowd has no gap that the client is not told of: for any    *)
(* number of projects, handlers, events and streams, and any size of the   *)
(* ring, the channel and the replay.  A stream of flowd.js is in order and *)
(* without repetition, and without a gap once its listener is added.       *)
(***************************************************************************)
EXTENDS Streams, SequenceTheorems, WellFoundedInduction, TLAPS

Mutations == [project : Projects, seqs : SUBSET Seqs]
Responses == [seqs : SUBSET Seqs, resync : BOOLEAN]

-----------------------------------------------------------------------------
(* The largest of some seqs.                                                 *)

\* A set of naturals has a smallest member.
LEMMA Least ==
  ASSUME NEW T \in SUBSET Nat, T # {}
  PROVE  \E x \in T : \A y \in T : x <= y
<1>1. \E x \in T : \A y \in T : ~ (<<y, x>> \in OpToRel(<, Nat))
  BY NatLessThanWellFounded, WFMin
<1>2. ASSUME NEW x \in T, NEW y \in T, ~ (<<y, x>> \in OpToRel(<, Nat)) PROVE x <= y
  BY <1>2 DEF OpToRel
<1> QED
  BY <1>1, <1>2

\* So a set of naturals with a bound has a largest, and Max is in the set.
LEMMA Largest ==
  ASSUME NEW T, T # {}, NEW b \in Nat, T \subseteq 1 .. b
  PROVE  Max(T) \in T
<1> DEFINE U == {c \in Nat : \E t \in T : c = b - t}
<1>1. U \in SUBSET Nat
  OBVIOUS
<1>2. U # {}
  <2>1. PICK t \in T : TRUE
    OBVIOUS
  <2>2. b - t \in U
    BY <2>1
  <2> QED
    BY <2>2
<1>3. PICK u \in U : \A v \in U : u <= v
  <2> HIDE DEF U
  <2> QED
    BY <1>1, <1>2, Least
<1>4. PICK x \in T : u = b - x
  OBVIOUS
<1>5. ASSUME NEW y \in T PROVE x >= y
  <2>1. b - y \in U
    OBVIOUS
  <2>2. b - x <= b - y
    BY <1>3, <1>4, <2>1
  <2> QED
    BY <2>2
<1> QED
  BY <1>5 DEF Max

-----------------------------------------------------------------------------
(* Queues.                                                                   *)

\* A queue with one more element.
LEMMA Appended ==
  ASSUME NEW S, NEW q \in Seq(S), NEW e \in S
  PROVE  /\ q \o <<e>> \in Seq(S) /\ Len(q \o <<e>>) = Len(q) + 1
         /\ DOMAIN (q \o <<e>>) = DOMAIN q \cup {Len(q) + 1}
         /\ (q \o <<e>>)[Len(q) + 1] = e
         /\ \A i \in DOMAIN q : (q \o <<e>>)[i] = q[i]
  OBVIOUS

\* What it holds,
LEMMA AppendedHolds ==
  ASSUME NEW S, NEW q \in Seq(S), NEW e \in S, NEW s
  PROVE  Holds(q \o <<e>>, s) <=> Holds(q, s) \/ s \in e.seqs
  BY Appended DEF Holds

\* and whether it asks for a resync.
LEMMA AppendedAsks ==
  ASSUME NEW q \in Seq(Responses), NEW e \in Responses
  PROVE  Asks(q \o <<e>>) <=> Asks(q) \/ e.resync
<1> DEFINE a == q \o <<e>>
<1>1. /\ DOMAIN a = DOMAIN q \cup {Len(q) + 1} /\ a[Len(q) + 1] = e
      /\ \A i \in DOMAIN q : a[i] = q[i]
  BY Appended
<1> HIDE DEF a
<1>2. Asks(a) <=> Asks(q) \/ e.resync
  <2>1. Asks(a) => Asks(q) \/ e.resync
    BY <1>1, Zenon DEF Asks
  <2>2. Asks(q) => Asks(a)
    BY <1>1, Zenon DEF Asks
  <2>3. e.resync => Asks(a)
    BY <1>1, Zenon DEF Asks
  <2> QED
    BY <2>1, <2>2, <2>3
<1> QED
  BY <1>2 DEF a

\* A queue without its first element.
LEMMA Taken ==
  ASSUME NEW S, NEW q \in Seq(S), q # <<>>
  PROVE  /\ Head(q) \in S /\ Head(q) = q[1] /\ 1 \in DOMAIN q
         /\ Tail(q) \in Seq(S) /\ Len(Tail(q)) = Len(q) - 1
         /\ \A i \in DOMAIN Tail(q) : i + 1 \in DOMAIN q /\ Tail(q)[i] = q[i + 1]
         /\ \A i \in DOMAIN q : i = 1 \/ (i - 1 \in DOMAIN Tail(q) /\ q[i] = Tail(q)[i - 1])
  OBVIOUS

\* What it held,
LEMMA TakenHolds ==
  ASSUME NEW q \in Seq(Responses), q # <<>>, NEW s
  PROVE  Holds(q, s) <=> s \in Head(q).seqs \/ Holds(Tail(q), s)
  BY Taken DEF Holds

\* and whether it asked for a resync.
LEMMA TakenAsks ==
  ASSUME NEW q \in Seq(Responses), q # <<>>
  PROVE  Asks(q) <=> Head(q).resync \/ Asks(Tail(q))
<1>1. /\ Head(q) = q[1] /\ 1 \in DOMAIN q
      /\ \A i \in DOMAIN Tail(q) : i + 1 \in DOMAIN q /\ Tail(q)[i] = q[i + 1]
      /\ \A i \in DOMAIN q : i = 1 \/ (i - 1 \in DOMAIN Tail(q) /\ q[i] = Tail(q)[i - 1])
  BY Taken
<1> QED
  BY <1>1, Zenon DEF Asks

-----------------------------------------------------------------------------
(* The invariant.                                                            *)

\* What a mutation says of the events that are left of it.
Truthful(m, upTo, events) ==
  m.seqs \subseteq 1 .. upTo /\ \A s \in m.seqs \cap DOMAIN events : events[s] = m.project

\* What the code keeps besides: the log has its newest event, a mutation tells the truth about
\* it, a stream that is being opened has a cursor and nothing sent, and a client has either a
\* cursor or no stream.
WatchShape ==
  /\ last \in DOMAIN log
  /\ \A m \in unpublished : Truthful(m, last, log)
  /\ \A i \in DOMAIN ring : Truthful(ring[i], last, log)
  /\ \A i \in DOMAIN channel : channel[i].seqs \subseteq 1 .. last
  /\ resync => phase = "none"
  /\ phase = "none" => channel = <<>>
  /\ ~resync => cursor > 0
  /\ phase = "opened" => from > 0 /\ channel = <<>>
  /\ phase \in {"opened", "live"} => next <= Len(ring) + 1

\* Inductive: the gap alone is not, as it takes the newest event in the log, positive cursors
\* and truthful mutations to see that a step opens none.
WatchInv == WatchTypeOK /\ WatchShape /\ StreamHasNoGap

\* The seqs there are, up to the latest.
LEMMA SeqsBelow ==
  ASSUME WatchTypeOK
  PROVE  last \in Nat /\ 0 .. last \subseteq Seqs /\ Seqs \subseteq Nat
  BY WatchAssumption DEF WatchTypeOK

\* The channel is a queue of responses that holds no more than its slots.
LEMMA ChannelBounded ==
  ASSUME WatchTypeOK
  PROVE  /\ channel \in Seq(Responses) /\ Len(channel) \in Nat
         /\ Len(channel) <= Slots /\ Slots \in Nat \ {0}
<1>1. channel \in Seq(Responses) /\ Len(channel) <= Slots
  BY DEF WatchTypeOK, Responses
<1> QED
  BY <1>1, WatchAssumption

\* New events are with their handler; a cascade takes events away.
LEMMA CommitKeeps ==
  ASSUME WatchInv, Commit
  PROVE  WatchInv'
<1>1. PICK p \in Projects, new \in Seqs, gone \in SUBSET DOMAIN log :
        /\ AppendEvents(p, new, DOMAIN log \ gone)
        /\ unpublished' = unpublished \cup {Mutation(p, (last + 1) .. new)}
        /\ UNCHANGED <<ring, streamVars, clientVars, dropped>>
  BY DEF Commit
<1> DEFINE kept == DOMAIN log \ gone
<1>2. /\ new > last /\ last' = new
      /\ log' = [s \in kept \cup (last + 1) .. new |-> IF s <= last THEN log[s] ELSE p]
  BY <1>1 DEF AppendEvents
<1>3. last \in Nat /\ new \in Nat /\ DOMAIN log \subseteq 1 .. last /\ 0 .. new \subseteq Seqs
      /\ Seqs \subseteq Nat
  BY WatchAssumption DEF WatchInv, WatchTypeOK
<1>4. /\ DOMAIN log' \subseteq 1 .. last' /\ last' \in DOMAIN log'
      /\ \A s \in DOMAIN log' : s \in Nat /\ log'[s] \in Projects
      /\ \A s \in DOMAIN log' : s <= last => s \in DOMAIN log /\ log'[s] = log[s]
      /\ \A s \in DOMAIN log' : s > last => s \in (last + 1) .. new /\ log'[s] = p
  <2>1. DOMAIN log' = kept \cup (last + 1) .. new
    BY <1>2
  <2>2. \A s \in DOMAIN log' : log'[s] = IF s <= last THEN log[s] ELSE p
    BY <1>2
  <2>3. \A s \in DOMAIN log : log[s] \in Projects
    BY DEF WatchInv, WatchTypeOK
  <2> QED
    BY <1>2, <1>3, <2>1, <2>2, <2>3
<1>5. UNCHANGED <<ring, phase, from, next, channel, opens, cursor, known, resync, dropped>>
  BY <1>1 DEF streamVars, clientVars
<1>6. WatchTypeOK'
  <2>1. Mutation(p, (last + 1) .. new) \in Mutations
    BY <1>3 DEF Mutation, Mutations
  <2>2. unpublished' \subseteq Mutations
    BY <1>1, <2>1 DEF WatchInv, WatchTypeOK, Mutations
  <2> QED
    BY <1>2, <1>4, <1>5, <2>2 DEF WatchInv, WatchTypeOK, Mutations
<1>7. WatchShape'
  <2>1. ASSUME NEW m, Truthful(m, last, log) PROVE Truthful(m, last', log')
    BY <1>2, <1>3, <1>4, <2>1 DEF Truthful
  <2>2. Truthful(Mutation(p, (last + 1) .. new), last', log')
    BY <1>2, <1>3, <1>4 DEF Truthful, Mutation
  <2>3. \A i \in DOMAIN channel : channel[i].seqs \subseteq 1 .. last'
    BY <1>2, <1>3 DEF WatchInv, WatchShape
  <2> QED
    BY <1>1, <1>4, <1>5, <2>1, <2>2, <2>3 DEF WatchInv, WatchShape
<1>8. StreamHasNoGap'
  <2>1. WillResync' <=> WillResync
    BY <1>5 DEF WillResync, Overrun
  <2>2. \A s : OnItsWay(s) => OnItsWay(s)'
    BY <1>1, <1>5 DEF OnItsWay, Unread
  <2>3. \A s \in (last + 1) .. new : OnItsWay(s)'
    <3>1. PICK m \in unpublished' : m = Mutation(p, (last + 1) .. new)
      BY <1>1
    <3>2. m.seqs = (last + 1) .. new
      BY <3>1 DEF Mutation
    <3> QED
      BY <3>2 DEF OnItsWay
  <2> QED
    BY <1>4, <1>5, <1>3, <2>1, <2>2, <2>3 DEF WatchInv, StreamHasNoGap, Owed
<1> QED
  BY <1>6, <1>7, <1>8 DEF WatchInv

\* A mutation goes from its handler to the end of the ring, which an open stream has yet to read.
LEMMA PublishKeeps ==
  ASSUME WatchInv, Publish
  PROVE  WatchInv'
<1>1. PICK m \in unpublished : unpublished' = unpublished \ {m} /\ ring' = ring \o <<m>>
  BY DEF Publish
<1>2. UNCHANGED <<last, log, phase, from, next, channel, opens, cursor, known, resync, dropped>>
  BY DEF Publish, logVars, streamVars, clientVars
<1>3. m \in Mutations /\ ring \in Seq(Mutations) /\ next \in Nat /\ Capacity \in Nat
  BY WatchAssumption DEF WatchInv, WatchTypeOK, Mutations
<1>4. /\ ring' \in Seq(Mutations) /\ Len(ring') = Len(ring) + 1 /\ Len(ring) \in Nat
      /\ DOMAIN ring' = DOMAIN ring \cup {Len(ring) + 1} /\ ring'[Len(ring) + 1] = m
      /\ \A i \in DOMAIN ring : ring'[i] = ring[i]
  BY <1>1, <1>3, Appended
<1>5. WatchTypeOK'
  BY <1>1, <1>2, <1>4 DEF WatchInv, WatchTypeOK, Mutations
<1>6. WatchShape'
  BY <1>1, <1>2, <1>3, <1>4 DEF WatchInv, WatchShape
<1>7. StreamHasNoGap'
  <2>1. WillResync => WillResync'
    BY <1>2, <1>3, <1>4 DEF WillResync, Overrun
  <2>2. ASSUME NEW s, OnItsWay(s), phase \in {"opened", "live"} PROVE OnItsWay(s)'
    <3>1. CASE Holds(channel, s) \/ (phase = "opened" /\ from > 0 /\ s > from)
      BY <1>2, <3>1 DEF OnItsWay
    <3>2. CASE Unread(s)
      <4>1. Unread(s)'
        BY <1>2, <1>4, <3>2 DEF Unread
      <4> QED
        BY <4>1 DEF OnItsWay
    <3>3. CASE s \in m.seqs
      <4>1. Len(ring) + 1 >= next
        BY <2>2, <1>3, <1>4 DEF WatchInv, WatchShape
      <4>2. Unread(s)'
        BY <1>2, <1>4, <3>3, <4>1 DEF Unread
      <4> QED
        BY <4>2 DEF OnItsWay
    <3>4. CASE \E k \in unpublished' : s \in k.seqs
      BY <3>4 DEF OnItsWay
    <3> QED
      BY <1>1, <2>2, <3>1, <3>2, <3>3, <3>4 DEF OnItsWay
  <2> QED
    BY <1>2, <2>1, <2>2 DEF WatchInv, StreamHasNoGap, Owed
<1> QED
  BY <1>5, <1>6, <1>7 DEF WatchInv

\* A change that nobody will publish is given up on.
LEMMA AbandonKeeps ==
  ASSUME WatchInv, Abandon
  PROVE  WatchInv'
<1>1. PICK m \in unpublished :
        unpublished' = unpublished \ {m} /\ dropped' = dropped \cup m.seqs
  BY DEF Abandon
<1>2. UNCHANGED <<last, log, ring, phase, from, next, channel, opens, cursor, known, resync>>
  BY DEF Abandon, logVars, streamVars, clientVars
<1>3. WatchTypeOK'
  BY <1>1, <1>2 DEF WatchInv, WatchTypeOK
<1>4. WatchShape'
  BY <1>1, <1>2 DEF WatchInv, WatchShape
<1>5. StreamHasNoGap'
  <2>1. WillResync' <=> WillResync
    BY <1>2 DEF WillResync, Overrun
  <2>2. ASSUME NEW s, OnItsWay(s), s \notin dropped' PROVE OnItsWay(s)'
    BY <1>1, <1>2, <2>2 DEF OnItsWay, Unread
  <2> QED
    BY <1>1, <1>2, <2>1, <2>2 DEF WatchInv, StreamHasNoGap, Owed
<1> QED
  BY <1>3, <1>4, <1>5 DEF WatchInv

\* What is beyond the cursor waits for the replay.
LEMMA OpenKeeps ==
  ASSUME WatchInv, Open
  PROVE  WatchInv'
<1>1. /\ phase = "none" /\ ~resync /\ phase' = "opened" /\ from' = cursor
      /\ next' = Len(ring) + 1 /\ channel' = <<>> /\ opens' = opens + 1
      /\ UNCHANGED <<last, log, unpublished, ring, cursor, known, resync, dropped>>
  BY DEF Open, Subscribe, logVars, daemonVars, clientVars
<1>2. Len(ring) \in Nat /\ cursor \in Seqs /\ cursor > 0 /\ Slots \in Nat
  BY <1>1, WatchAssumption DEF WatchInv, WatchTypeOK, WatchShape
<1>3. WatchTypeOK'
  BY <1>1, <1>2 DEF WatchInv, WatchTypeOK
<1>4. WatchShape'
  BY <1>1, <1>2 DEF WatchInv, WatchShape
<1>5. StreamHasNoGap'
  BY <1>1, <1>2 DEF StreamHasNoGap, OnItsWay
<1> QED
  BY <1>3, <1>4, <1>5 DEF WatchInv

\* What sending a response does to the channel.
LEMMA SentTo ==
  ASSUME WatchInv, NEW r \in Responses, r.seqs \subseteq 1 .. last, channel' = channel \o <<r>>
  PROVE  /\ channel' \in Seq(Responses) /\ Len(channel') = Len(channel) + 1
         /\ \A i \in DOMAIN channel' : channel'[i].seqs \subseteq 1 .. last
         /\ \A s : Holds(channel', s) <=> Holds(channel, s) \/ s \in r.seqs
         /\ Asks(channel') <=> Asks(channel) \/ r.resync
<1>1. channel \in Seq(Responses)
  BY DEF WatchInv, WatchTypeOK, Responses
<1>2. /\ channel' \in Seq(Responses) /\ Len(channel') = Len(channel) + 1
      /\ DOMAIN channel' = DOMAIN channel \cup {Len(channel) + 1}
      /\ channel'[Len(channel) + 1] = r
      /\ \A i \in DOMAIN channel : channel'[i] = channel[i]
  BY <1>1, Appended
<1>3. \A i \in DOMAIN channel' : channel'[i].seqs \subseteq 1 .. last
  BY <1>2 DEF WatchInv, WatchShape
<1>4. \A s : Holds(channel', s) <=> Holds(channel, s) \/ s \in r.seqs
  BY <1>1, AppendedHolds
<1>5. Asks(channel') <=> Asks(channel) \/ r.resync
  BY <1>1, AppendedAsks
<1> QED
  BY <1>2, <1>3, <1>4, <1>5

\* What a replay brings are events of the log.
LEMMA MissedSeqs ==
  ASSUME WatchInv
  PROVE  Missed \subseteq 1 .. last /\ Missed \subseteq Seqs
<1>1. DOMAIN log \subseteq 1 .. last
  BY DEF WatchInv, WatchTypeOK
<1>2. last \in Nat /\ 0 .. last \subseteq Seqs
  BY SeqsBelow DEF WatchInv
<1>3. Missed \subseteq DOMAIN log
  BY DEF Missed
<1>4. 1 .. last \subseteq 0 .. last
  BY <1>2
<1> QED
  BY <1>1, <1>2, <1>3, <1>4

\* The replay sends all of it, whatever has been written and deleted since the stream was opened.
LEMMA ReplayKeeps ==
  ASSUME WatchInv, Replay
  PROVE  WatchInv'
<1> DEFINE r == Response(Missed, Cardinality(Missed) > ReplayLimit)
<1>1. /\ phase = "opened" /\ phase' = "live"
      /\ UNCHANGED <<last, log, unpublished, ring, from, next, opens, cursor, known, resync, dropped>>
  BY DEF Replay, logVars, daemonVars, clientVars
<1>2. from > 0 /\ channel = <<>> /\ Slots \in Nat \ {0} /\ Len(channel) = 0
  BY <1>1, WatchAssumption DEF WatchInv, WatchShape
<1>3. channel' = IF Missed # {} THEN channel \o <<r>> ELSE channel
  BY <1>2 DEF Replay
<1>4. Missed \subseteq 1 .. last /\ Missed \subseteq Seqs
  BY MissedSeqs
<1>5. r \in Responses /\ r.seqs = Missed
  BY <1>4 DEF Response, Responses
<1> HIDE DEF r
<1>6. /\ channel' \in Seq(Responses) /\ Len(channel') <= Slots
      /\ \A i \in DOMAIN channel' : channel'[i].seqs \subseteq 1 .. last
      /\ \A s \in Missed : Holds(channel', s)
      /\ Asks(channel) => Asks(channel')
  <2>1. CASE Missed # {}
    <3>1. channel' = channel \o <<r>>
      BY <1>3, <2>1
    <3>2. r.seqs \subseteq 1 .. last
      BY <1>4, <1>5
    <3>3. /\ channel' \in Seq(Responses) /\ Len(channel') = Len(channel) + 1
          /\ \A i \in DOMAIN channel' : channel'[i].seqs \subseteq 1 .. last
          /\ \A s : Holds(channel', s) <=> Holds(channel, s) \/ s \in r.seqs
          /\ Asks(channel') <=> Asks(channel) \/ r.resync
      BY <1>5, <3>1, <3>2, SentTo
    <3> QED
      BY <1>2, <1>5, <3>3
  <2>2. CASE Missed = {}
    <3>1. channel' = channel
      BY <1>3, <2>2
    <3>2. channel \in Seq(Responses) /\ Len(channel) <= Slots
      BY DEF WatchInv, WatchTypeOK, Responses
    <3> QED
      BY <2>2, <3>1, <3>2 DEF WatchInv, WatchShape
  <2> QED
    BY <2>1, <2>2
<1>7. WatchTypeOK'
  BY <1>1, <1>6 DEF WatchInv, WatchTypeOK, Responses
<1>8. WatchShape'
  BY <1>1, <1>6 DEF WatchInv, WatchShape
<1>9. StreamHasNoGap'
  <2>1. ASSUME NEW s \in DOMAIN log, Owed(s), s > from PROVE s \in Missed
    BY <2>1 DEF Owed, Missed
  <2> QED
    BY <1>1, <1>6, <2>1 DEF StreamHasNoGap, Owed, OnItsWay
<1> QED
  BY <1>7, <1>8, <1>9 DEF WatchInv

\* Or gives up on all of it.
LEMMA ReplayFailsKeeps ==
  ASSUME WatchInv, ReplayFails
  PROVE  WatchInv'
<1>1. /\ phase = "opened" /\ phase' = "live" /\ dropped' = dropped \cup Missed
      /\ UNCHANGED <<last, log, unpublished, ring, from, next, channel, opens, cursor, known, resync>>
  BY DEF ReplayFails, logVars, daemonVars, clientVars
<1>2. Missed \subseteq Seqs
  BY MissedSeqs
<1>3. WatchTypeOK'
  BY <1>1, <1>2 DEF WatchInv, WatchTypeOK
<1>4. WatchShape'
  BY <1>1 DEF WatchInv, WatchShape
<1>5. StreamHasNoGap'
  BY <1>1 DEF StreamHasNoGap, Owed, Missed
<1> QED
  BY <1>3, <1>4, <1>5 DEF WatchInv

\* A change of the watched project goes from the ring to the channel; one of another project holds no event of the watched one.
LEMMA ReceiveKeeps ==
  ASSUME WatchInv, Receive
  PROVE  WatchInv'
<1> DEFINE m == ring[next]
           r == Response(m.seqs, FALSE)
<1>1. /\ phase = "live" /\ HasRoom /\ next <= Len(ring) /\ next' = next + 1 /\ ~Overrun
      /\ channel' = IF m.project = Watched THEN channel \o <<r>> ELSE channel
      /\ UNCHANGED <<last, log, unpublished, ring, phase, from, opens, cursor, known, resync, dropped>>
  BY DEF Receive, logVars, daemonVars, clientVars
<1>2. /\ next \in DOMAIN ring /\ m \in Mutations /\ Truthful(m, last, log)
      /\ next \in Nat \ {0} /\ Len(ring) \in Nat
  <2>1. ring \in Seq(Mutations) /\ next \in Nat \ {0}
    BY DEF WatchInv, WatchTypeOK, Mutations
  <2>2. next \in DOMAIN ring
    BY <1>1, <2>1
  <2> QED
    BY <2>1, <2>2 DEF WatchInv, WatchShape
<1>3. r \in Responses /\ r.seqs = m.seqs /\ r.resync = FALSE /\ m.seqs \subseteq 1 .. last
  BY <1>2 DEF Response, Responses, Mutations, Truthful
<1> HIDE DEF m, r
<1>4. /\ channel' \in Seq(Responses) /\ Len(channel') <= Slots
      /\ \A i \in DOMAIN channel' : channel'[i].seqs \subseteq 1 .. last
      /\ \A s : Holds(channel, s) => Holds(channel', s)
      /\ m.project = Watched => \A s \in m.seqs : Holds(channel', s)
      /\ Asks(channel) => Asks(channel')
  <2>1. Slots \in Nat /\ Len(channel) \in Nat /\ Len(channel) < Slots
    BY <1>1, WatchAssumption DEF WatchInv, WatchTypeOK, HasRoom
  <2>2. CASE m.project = Watched
    BY <1>1, <1>3, <2>1, <2>2, SentTo
  <2>3. CASE m.project # Watched
    BY <1>1, <2>1, <2>3 DEF WatchInv, WatchShape, WatchTypeOK, Responses
  <2> QED
    BY <2>2, <2>3
<1>5. WatchTypeOK'
  BY <1>1, <1>2, <1>4 DEF WatchInv, WatchTypeOK, Responses
<1>6. WatchShape'
  BY <1>1, <1>2, <1>4 DEF WatchInv, WatchShape
<1>7. StreamHasNoGap'
  <2>1. WillResync => WillResync'
    BY <1>1, <1>4 DEF WillResync
  <2>2. ASSUME NEW s \in DOMAIN log, log[s] = Watched, OnItsWay(s) PROVE OnItsWay(s)'
    <3>1. CASE Holds(channel, s) \/ \E k \in unpublished : s \in k.seqs
      BY <1>1, <1>4, <3>1 DEF OnItsWay
    <3>2. CASE Unread(s)
      <4>1. PICK i \in DOMAIN ring : i >= next /\ s \in ring[i].seqs
        BY <3>2 DEF Unread
      <4>2. CASE i = next
        <5>1. s \in m.seqs
          BY <4>1, <4>2 DEF m
        <5>2. m.project = Watched
          BY <1>2, <2>2, <5>1 DEF Truthful
        <5> QED
          BY <1>4, <5>1, <5>2 DEF OnItsWay
      <4>3. CASE i # next
        <5>1. i >= next + 1
          BY <1>2, <4>1, <4>3
        <5>2. Unread(s)'
          BY <1>1, <4>1, <5>1 DEF Unread
        <5> QED
          BY <5>2 DEF OnItsWay
      <4> QED
        BY <4>2, <4>3
    <3> QED
      BY <1>1, <2>2, <3>1, <3>2 DEF OnItsWay
  <2> QED
    BY <1>1, <2>1, <2>2 DEF WatchInv, StreamHasNoGap, Owed
<1> QED
  BY <1>5, <1>6, <1>7 DEF WatchInv

\* A stream that is broken off promises nothing.
LEMMA FallBehindKeeps ==
  ASSUME WatchInv, FallBehind
  PROVE  WatchInv'
<1>1. /\ HasRoom /\ phase' = "broken off" /\ channel' = channel \o <<Lagged>> /\ phase = "live"
      /\ UNCHANGED <<last, log, unpublished, ring, from, next, opens, cursor, known, resync, dropped>>
  BY DEF FallBehind, logVars, daemonVars, clientVars
<1>2. Lagged \in Responses /\ Lagged.seqs = {}
  BY DEF Lagged, Response, Responses
<1>3. /\ channel' \in Seq(Responses) /\ Len(channel') = Len(channel) + 1
      /\ \A i \in DOMAIN channel' : channel'[i].seqs \subseteq 1 .. last
  BY <1>1, <1>2, SentTo
<1>4. Len(channel') <= Slots
  <2>1. Len(channel) < Slots /\ Len(channel') = Len(channel) + 1
    BY <1>1, <1>3 DEF HasRoom
  <2>2. Len(channel) \in Nat /\ Slots \in Nat
    BY ChannelBounded DEF WatchInv
  <2> QED
    BY <2>1, <2>2
<1>5. WatchTypeOK'
  BY <1>1, <1>3, <1>4 DEF WatchInv, WatchTypeOK, Responses
<1>6. WatchShape'
  BY <1>1, <1>3 DEF WatchInv, WatchShape
<1>7. StreamHasNoGap'
  BY <1>1 DEF StreamHasNoGap
<1> QED
  BY <1>5, <1>6, <1>7 DEF WatchInv

\* A heartbeat brings nothing and loses nothing.
LEMMA BeatKeeps ==
  ASSUME WatchInv, Beat
  PROVE  WatchInv'
<1>1. /\ phase = "live" /\ HasRoom /\ channel' = channel \o <<Heartbeat>>
      /\ UNCHANGED <<last, log, unpublished, ring, phase, from, next, opens, cursor, known, resync,
                     dropped>>
  BY DEF Beat, logVars, daemonVars, clientVars
<1>2. Heartbeat \in Responses /\ Heartbeat.seqs = {}
  BY DEF Heartbeat, Response, Responses
<1>3. /\ channel' \in Seq(Responses) /\ Len(channel') = Len(channel) + 1
      /\ \A i \in DOMAIN channel' : channel'[i].seqs \subseteq 1 .. last
      /\ \A s : Holds(channel', s) <=> Holds(channel, s) \/ s \in Heartbeat.seqs
      /\ Asks(channel') <=> Asks(channel) \/ Heartbeat.resync
  BY <1>1, <1>2, SentTo
<1>4. Len(channel') <= Slots
  <2>1. Len(channel) < Slots /\ Len(channel') = Len(channel) + 1
    BY <1>1, <1>3 DEF HasRoom
  <2>2. Len(channel) \in Nat /\ Slots \in Nat
    BY ChannelBounded DEF WatchInv
  <2> QED
    BY <2>1, <2>2
<1>5. WatchTypeOK'
  BY <1>1, <1>3, <1>4 DEF WatchInv, WatchTypeOK, Responses
<1>6. WatchShape'
  BY <1>1, <1>3 DEF WatchInv, WatchShape
<1>7. StreamHasNoGap'
  <2>1. WillResync => WillResync'
    BY <1>1, <1>3 DEF WillResync, Overrun
  <2>2. ASSUME NEW s, OnItsWay(s) PROVE OnItsWay(s)'
    BY <1>1, <1>3, <2>2 DEF OnItsWay, Unread
  <2> QED
    BY <1>1, <2>1, <2>2 DEF WatchInv, StreamHasNoGap, Owed
<1> QED
  BY <1>5, <1>6, <1>7 DEF WatchInv

\* A client with a snapshot has a cursor above 0, as the log is never empty.
LEMMA SnapshotKeeps ==
  ASSUME WatchInv, Snapshot
  PROVE  WatchInv'
<1>1. /\ phase = "none" /\ known' = 1 .. last /\ cursor' = Max(DOMAIN log) /\ resync' = FALSE
      /\ UNCHANGED <<last, log, unpublished, ring, phase, from, next, channel, opens, dropped>>
  BY DEF Snapshot, logVars, daemonVars, streamVars
<1>2. last \in Nat /\ 0 .. last \subseteq Seqs /\ Seqs \subseteq Nat
  BY SeqsBelow DEF WatchInv
<1>3. DOMAIN log \subseteq 1 .. last /\ DOMAIN log # {}
  BY DEF WatchInv, WatchTypeOK, WatchShape
<1>4. cursor' \in 1 .. last
  BY <1>1, <1>2, <1>3, Largest
<1>5. cursor' \in Seqs /\ cursor' > 0 /\ known' \subseteq Seqs
  BY <1>1, <1>2, <1>4
<1>6. WatchTypeOK'
  BY <1>1, <1>5 DEF WatchInv, WatchTypeOK
<1>7. WatchShape'
  BY <1>1, <1>5 DEF WatchInv, WatchShape
<1>8. StreamHasNoGap'
  BY <1>1 DEF StreamHasNoGap
<1> QED
  BY <1>6, <1>7, <1>8 DEF WatchInv

\* A stream that is gone promises nothing.
LEMMA EndOfStreamKeeps ==
  ASSUME WatchInv, NoStream, UNCHANGED <<last, log, dropped>>,
         unpublished' \subseteq unpublished, ring' \in {ring, <<>>},
         known' \subseteq Seqs, cursor' \in Seqs, resync' \in BOOLEAN, ~resync' => cursor' > 0
  PROVE  WatchInv'
<1>1. phase' = "none" /\ channel' = <<>> /\ UNCHANGED <<from, next, opens>>
  BY DEF NoStream
<1>2. Slots \in Nat /\ channel' \in Seq(Responses) /\ Len(channel') <= Slots
  BY <1>1, WatchAssumption
<1>3. WatchTypeOK'
  <2>1. ring' \in Seq(Mutations)
    <3>1. CASE ring' = ring
      BY <3>1 DEF WatchInv, WatchTypeOK, Mutations
    <3>2. CASE ring' = <<>>
      BY <3>2
    <3> QED
      BY <3>1, <3>2
  <2> QED
    BY <1>1, <1>2, <2>1 DEF WatchInv, WatchTypeOK, Responses, Mutations
<1>4. WatchShape'
  BY <1>1, <1>2 DEF WatchInv, WatchShape
<1>5. StreamHasNoGap'
  BY <1>1 DEF StreamHasNoGap
<1> QED
  BY <1>3, <1>4, <1>5 DEF WatchInv

\* What the client takes from the channel is known to it.
LEMMA TakeKeeps ==
  ASSUME WatchInv, Take
  PROVE  WatchInv'
<1> DEFINE r == Head(channel)
<1>1. /\ channel # <<>> /\ known' = known \cup r.seqs
      /\ cursor' = (IF r.seqs = {} THEN cursor ELSE Max(r.seqs)) /\ resync' = r.resync
      /\ UNCHANGED <<last, log, unpublished, ring, dropped>>
  BY DEF Take, logVars, daemonVars
<1>2. IF r.resync THEN NoStream ELSE channel' = Tail(channel) /\ UNCHANGED <<phase, from, next, opens>>
  BY DEF Take
<1>3. channel \in Seq(Responses)
  BY DEF WatchInv, WatchTypeOK, Responses
<1>4. /\ r \in Responses /\ 1 \in DOMAIN channel /\ r = channel[1]
      /\ Tail(channel) \in Seq(Responses) /\ Len(Tail(channel)) = Len(channel) - 1
      /\ \A i \in DOMAIN Tail(channel) : i + 1 \in DOMAIN channel /\ Tail(channel)[i] = channel[i + 1]
  BY <1>1, <1>3, Taken
<1>5. last \in Nat /\ 0 .. last \subseteq Seqs /\ Seqs \subseteq Nat
  BY SeqsBelow DEF WatchInv
<1>6. r.seqs \subseteq 1 .. last /\ r.resync \in BOOLEAN /\ r.seqs \subseteq Seqs
  BY <1>4 DEF WatchInv, WatchShape, Responses
<1>7. ~resync
  BY <1>1 DEF WatchInv, WatchShape
<1>8. cursor' \in Seqs /\ cursor' > 0
  <2>1. CASE r.seqs = {}
    BY <1>1, <1>7, <2>1 DEF WatchInv, WatchShape, WatchTypeOK
  <2>2. CASE r.seqs # {}
    <3>1. Max(r.seqs) \in 1 .. last
      BY <1>5, <1>6, <2>2, Largest
    <3> QED
      BY <1>1, <1>5, <2>2, <3>1
  <2> QED
    BY <2>1, <2>2
<1>9. known' \subseteq Seqs
  BY <1>1, <1>6 DEF WatchInv, WatchTypeOK
<1>10. CASE r.resync
  BY <1>1, <1>2, <1>6, <1>8, <1>9, <1>10, EndOfStreamKeeps
<1>11. CASE ~r.resync
  <2>1. channel' = Tail(channel) /\ UNCHANGED <<phase, from, next, opens>> /\ resync' = FALSE
    BY <1>1, <1>2, <1>6, <1>11
  <2>2. WatchTypeOK'
    <3>1. channel' \in Seq(Responses) /\ Len(channel') <= Slots
      BY <1>4, <2>1, ChannelBounded DEF WatchInv
    <3> QED
      BY <1>1, <1>8, <1>9, <2>1, <3>1 DEF WatchInv, WatchTypeOK, Responses
  <2>3. WatchShape'
    <3>1. \A i \in DOMAIN channel' : channel'[i].seqs \subseteq 1 .. last
      BY <1>4, <2>1 DEF WatchInv, WatchShape
    <3>2. phase # "none" /\ phase # "opened"
      BY <1>1 DEF WatchInv, WatchShape
    <3> QED
      BY <1>1, <1>8, <2>1, <3>1, <3>2 DEF WatchInv, WatchShape
  <2>4. StreamHasNoGap'
    <3>1. Asks(channel) <=> r.resync \/ Asks(Tail(channel))
      BY <1>1, <1>3, TakenAsks
    <3>2. WillResync => WillResync'
      BY <1>1, <1>7, <1>11, <2>1, <3>1 DEF WillResync, Overrun
    <3>3. ASSUME NEW s, OnItsWay(s), s \notin known' PROVE OnItsWay(s)'
      <4>1. Holds(channel, s) <=> s \in r.seqs \/ Holds(Tail(channel), s)
        BY <1>1, <1>3, TakenHolds
      <4> QED
        BY <1>1, <2>1, <3>3, <4>1 DEF OnItsWay, Unread
    <3> QED
      BY <1>1, <2>1, <3>2, <3>3 DEF WatchInv, StreamHasNoGap, Owed
  <2> QED
    BY <2>2, <2>3, <2>4 DEF WatchInv
<1> QED
  BY <1>10, <1>11

\* A connection that breaks, or a restart, ends the stream.
LEMMA DisconnectKeeps ==
  ASSUME WatchInv, Disconnect \/ Restart
  PROVE  WatchInv'
<1>1. /\ NoStream /\ UNCHANGED <<last, log, dropped, known, cursor, resync>>
      /\ unpublished' \subseteq unpublished /\ ring' \in {ring, <<>>}
  BY DEF Disconnect, Restart, logVars, daemonVars, clientVars
<1>2. known' \subseteq Seqs /\ cursor' \in Seqs /\ resync' \in BOOLEAN /\ (~resync' => cursor' > 0)
  BY <1>1 DEF WatchInv, WatchTypeOK, WatchShape
<1> QED
  BY <1>1, <1>2, EndOfStreamKeeps

\* The first state.
LEMMA InitHolds == WatchInit => WatchInv
<1> SUFFICES ASSUME WatchInit PROVE WatchInv
  OBVIOUS
<1>1. 0 \in Seqs /\ 1 \in Seqs /\ Slots \in Nat /\ Watched \in Projects
  <2>1. 1 \in Nat /\ 0 .. 1 \subseteq Seqs
    BY WatchAssumption
  <2> QED
    BY <2>1, WatchAssumption
<1>2. WatchTypeOK
  BY <1>1 DEF WatchInit, WatchTypeOK
<1>3. WatchShape
  BY DEF WatchInit, WatchShape
<1>4. StreamHasNoGap
  BY DEF WatchInit, StreamHasNoGap
<1> QED
  BY <1>2, <1>3, <1>4 DEF WatchInv

\* Every step.
LEMMA NextKeeps == WatchInv /\ [WatchNext]_watchVars => WatchInv'
<1> SUFFICES ASSUME WatchInv, [WatchNext]_watchVars PROVE WatchInv'
  OBVIOUS
<1>1. CASE UNCHANGED watchVars
  <2>1. UNCHANGED <<last, log, unpublished, ring, phase, from, next, channel, opens, cursor, known,
                    resync, dropped>>
    BY <1>1 DEF watchVars, logVars, daemonVars, streamVars, clientVars
  <2>2. WatchTypeOK'
    BY <2>1 DEF WatchInv, WatchTypeOK
  <2>3. WatchShape'
    BY <2>1 DEF WatchInv, WatchShape
  <2>4. StreamHasNoGap'
    BY <2>1 DEF WatchInv, StreamHasNoGap, WillResync, Overrun, Owed, OnItsWay, Unread
  <2> QED
    BY <2>2, <2>3, <2>4 DEF WatchInv
<1> QED
  BY <1>1, CommitKeeps, PublishKeeps, AbandonKeeps, OpenKeeps, ReplayKeeps, ReplayFailsKeeps,
     ReceiveKeeps, FallBehindKeeps, BeatKeeps, SnapshotKeeps, TakeKeeps, DisconnectKeeps
     DEF WatchNext

-----------------------------------------------------------------------------
(* The stream of flowd.js.                                                   *)

\* What is pending ascends and starts above the cursor.
Ascends(q, above) ==
  /\ \A i, j \in DOMAIN q : i < j => \A s \in q[i].seqs, t \in q[j].seqs : s < t
  /\ \A i \in DOMAIN q : \A s \in q[i].seqs : s > above

\* Types of the log, of the client and of the stream; what is pending is in the log's range; a
\* stream that has not started has sent nothing, and its cursor is the client's; and the listener
\* was added with all its changes to come.
JsShape ==
  /\ last \in Seqs /\ last \in DOMAIN log /\ DOMAIN log \subseteq 1 .. last
  /\ \A s \in DOMAIN log : log[s] \in Projects
  /\ generator \in {"none", "created", "replaying", "live"}
  /\ from \in Seqs /\ cursor \in Seqs /\ cursor <= last /\ known \subseteq Seqs /\ resync \in BOOLEAN
  /\ wire \in Seq(Responses) /\ queue \in Seq(Responses)
  /\ \A i \in DOMAIN Js!Pending : Js!Pending[i].seqs \subseteq 1 .. last
  /\ resync => generator = "none"
  /\ generator = "none" => wire = <<>>
  /\ generator = "created" => wire = <<>> /\ from = cursor
  /\ generator # "live" => queue = <<>>

JsInv == JsShape /\ Ascends(Js!Pending, cursor) /\ Js!LiveHasNoGap

\* What is pending is a queue.
LEMMA PendingQueue ==
  ASSUME wire \in Seq(Responses), queue \in Seq(Responses)
  PROVE  /\ Js!Pending \in Seq(Responses)
         /\ queue = <<>> => Js!Pending = wire
         /\ Asks(wire) => Asks(Js!Pending)
<1>1. Js!Pending = wire \o queue
  BY DEF Js!Pending
<1>2. Js!Pending \in Seq(Responses) /\ (queue = <<>> => Js!Pending = wire)
  BY <1>1, ConcatProperties, ConcatEmptySeq
<1>3. \A i \in DOMAIN wire : i \in DOMAIN Js!Pending /\ Js!Pending[i] = wire[i]
  BY <1>1
<1> QED
  BY <1>2, <1>3, Zenon DEF Asks

\* A response at the end of a queue that ascends, all of it above what the queue holds.
LEMMA AppendedAscends ==
  ASSUME NEW q \in Seq(Responses), NEW e \in Responses, NEW above \in Nat, NEW b \in Nat,
         above <= b, Ascends(q, above), Seqs \subseteq Nat,
         \A i \in DOMAIN q : q[i].seqs \subseteq 1 .. b,
         \A s \in e.seqs : s > b
  PROVE  Ascends(q \o <<e>>, above)
<1> DEFINE a == q \o <<e>>
           k == Len(q) + 1
<1>1. /\ DOMAIN a = DOMAIN q \cup {k} /\ a[k] = e /\ DOMAIN q = 1 .. Len(q) /\ Len(q) \in Nat
      /\ \A i \in DOMAIN q : a[i] = q[i]
  BY Appended
<1>2. \A i \in DOMAIN q : i < k /\ ~(k < i)
  BY <1>1
<1>3. e.seqs \subseteq Nat /\ \A i \in DOMAIN q : q[i].seqs \subseteq Nat
  <2>1. \A r \in Responses : r.seqs \subseteq Nat
    BY DEF Responses
  <2>2. \A i \in DOMAIN q : q[i] \in Responses
    OBVIOUS
  <2> QED
    BY <2>1, <2>2
<1>4. \A s \in e.seqs : s > above
  BY <1>3
<1>5. \A i \in DOMAIN q : \A s \in q[i].seqs, t \in e.seqs : s < t
  <2> SUFFICES ASSUME NEW i \in DOMAIN q, NEW s \in q[i].seqs, NEW t \in e.seqs PROVE s < t
    OBVIOUS
  <2>1. s \in Nat /\ s <= b /\ t \in Nat /\ t > b
    BY <1>3
  <2> QED
    BY <2>1
<1>6. ~(k < k)
  BY <1>1
<1> HIDE DEF a, k
<1>7. \A i \in DOMAIN a : \A s \in a[i].seqs : s > above
  BY <1>1, <1>4 DEF Ascends
<1>8. \A i, j \in DOMAIN a : i < j => \A s \in a[i].seqs, t \in a[j].seqs : s < t
  <2> SUFFICES ASSUME NEW i \in DOMAIN a, NEW j \in DOMAIN a, i < j PROVE \A s \in a[i].seqs, t \in a[j].seqs : s < t
    OBVIOUS
  <2>1. CASE i \in DOMAIN q /\ j \in DOMAIN q
    BY <1>1, <2>1 DEF Ascends
  <2>2. CASE i \in DOMAIN q /\ j = k
    BY <1>1, <1>5, <2>2
  <2>3. CASE i = k
    BY <1>1, <1>2, <1>6, <2>3
  <2> QED
    BY <1>1, <2>1, <2>2, <2>3
<1> QED
  BY <1>7, <1>8 DEF Ascends, a

\* Without its first response a queue ascends above what that one brought.
LEMMA TakenAscends ==
  ASSUME NEW q \in Seq(Responses), q # <<>>, NEW above, Ascends(q, above), NEW c,
         c = above \/ c \in Head(q).seqs
  PROVE  Ascends(Tail(q), c)
<1>1. /\ Head(q) = q[1] /\ 1 \in DOMAIN q
      /\ \A i \in DOMAIN Tail(q) : /\ i + 1 \in DOMAIN q /\ Tail(q)[i] = q[i + 1]
                                   /\ i \in Nat /\ 1 < i + 1
  BY Taken
<1>2. \A i, j \in DOMAIN Tail(q) : i < j => i + 1 < j + 1
  BY <1>1
<1>3. \A i \in DOMAIN Tail(q) : \A s \in Tail(q)[i].seqs : s > c
  <2> SUFFICES ASSUME NEW i \in DOMAIN Tail(q), NEW s \in Tail(q)[i].seqs PROVE s > c
    OBVIOUS
  <2>1. CASE c = above
    BY <1>1, <2>1 DEF Ascends
  <2>2. CASE c \in Head(q).seqs
    <3>1. c < s
      BY <1>1, <2>2 DEF Ascends
    <3> QED
      BY <3>1
  <2> QED
    BY <2>1, <2>2
<1>4. \A i, j \in DOMAIN Tail(q) : i < j => \A s \in Tail(q)[i].seqs, t \in Tail(q)[j].seqs : s < t
  BY <1>1, <1>2 DEF Ascends
<1> QED
  BY <1>3, <1>4 DEF Ascends

\* The seqs there are.
LEMMA JsNumbers ==
  ASSUME JsShape
  PROVE  /\ last \in Nat \ {0} /\ 0 .. last \subseteq Seqs /\ Seqs \subseteq Nat
         /\ cursor \in Nat /\ from \in Nat
         /\ \A s \in DOMAIN log : s \in Nat /\ s <= last
  BY WatchAssumption DEF JsShape

\* A stream that is gone promises nothing.
LEMMA JsEnds ==
  ASSUME JsInv, Js!NoStream, UNCHANGED logVars, known' \subseteq Seqs, cursor' \in Seqs, cursor' <= last,
         resync' \in BOOLEAN
  PROVE  JsInv'
<1>1. generator' = "none" /\ queue' = <<>> /\ wire' = <<>> /\ from' = from /\ since' = since
      /\ last' = last /\ log' = log
  BY DEF Js!NoStream, logVars
<1>2. queue' \in Seq(Responses) /\ wire' \in Seq(Responses) /\ Js!Pending' = <<>> /\ DOMAIN Js!Pending' = {}
  BY <1>1 DEF Js!Pending
<1>3. JsShape'
  BY <1>1, <1>2 DEF JsInv, JsShape
<1>4. Ascends(Js!Pending, cursor)'
  BY <1>2 DEF Ascends
<1>5. Js!LiveHasNoGap'
  BY <1>1 DEF Js!LiveHasNoGap
<1> QED
  BY <1>3, <1>4, <1>5 DEF JsInv

\* A write is with the listener before anyone else runs.
LEMMA JsWriteKeeps == ASSUME JsInv, Js!Write PROVE JsInv'
<1>1. PICK p \in Projects, new \in Seqs, gone \in SUBSET DOMAIN log :
        /\ Js!AppendEvents(p, new, DOMAIN log \ gone)
        /\ queue' = IF Js!Listening /\ p = Watched
                      THEN queue \o <<Js!Response((last + 1) .. new, FALSE)>> ELSE queue
        /\ UNCHANGED <<generator, from, wire, since, cursor, known, resync>>
  BY DEF Js!Write, Js!clientVars
<1> DEFINE kept == DOMAIN log \ gone
           e == Js!Response((last + 1) .. new, FALSE)
<1>2. /\ new > last /\ last' = new
      /\ log' = [s \in kept \cup (last + 1) .. new |-> IF s <= last THEN log[s] ELSE p]
  BY <1>1 DEF Js!AppendEvents
<1>3. last \in Nat /\ new \in Nat /\ DOMAIN log \subseteq 1 .. last /\ 0 .. new \subseteq Seqs
      /\ Seqs \subseteq Nat /\ cursor \in Nat /\ cursor <= last
  BY WatchAssumption DEF JsInv, JsShape
<1>4. /\ DOMAIN log' \subseteq 1 .. last' /\ last' \in DOMAIN log'
      /\ \A s \in DOMAIN log' : s \in Nat /\ log'[s] \in Projects
      /\ \A s \in DOMAIN log' : s <= last => s \in DOMAIN log /\ log'[s] = log[s]
      /\ \A s \in DOMAIN log' : s > last => s \in (last + 1) .. new /\ log'[s] = p
  <2>1. DOMAIN log' = kept \cup (last + 1) .. new
    BY <1>2
  <2>2. \A s \in DOMAIN log' : log'[s] = IF s <= last THEN log[s] ELSE p
    BY <1>2
  <2>3. \A s \in DOMAIN log : log[s] \in Projects
    BY DEF JsInv, JsShape
  <2> QED
    BY <1>2, <1>3, <2>1, <2>2, <2>3
<1>5. e \in Responses /\ e.seqs = (last + 1) .. new /\ e.resync = FALSE
  <2>1. (last + 1) .. new \in SUBSET Seqs
    BY <1>3
  <2> QED
    BY <2>1 DEF Js!Response, Responses
<1> HIDE DEF e, kept
<1>6. /\ wire \in Seq(Responses) /\ queue \in Seq(Responses) /\ wire' = wire
      /\ Js!Pending \in Seq(Responses) /\ Ascends(Js!Pending, cursor)
      /\ \A i \in DOMAIN Js!Pending : Js!Pending[i].seqs \subseteq 1 .. last
  BY <1>1, PendingQueue DEF JsInv, JsShape
<1>7. CASE Js!Listening /\ p = Watched
  <2>1. queue' = queue \o <<e>> /\ queue' \in Seq(Responses)
    BY <1>1, <1>5, <1>6, <1>7, Appended DEF e
  <2>2. Js!Pending' = Js!Pending \o <<e>>
    <3>1. <<e>> \in Seq(Responses)
      BY <1>5
    <3>2. (wire \o queue) \o <<e>> = wire \o (queue \o <<e>>)
      BY <1>6, <3>1, ConcatAssociative
    <3> QED
      BY <1>6, <2>1, <3>2 DEF Js!Pending
  <2>3. \A s \in e.seqs : s > last
    BY <1>3, <1>5
  <2>4. Ascends(Js!Pending', cursor)
    BY <1>3, <1>5, <1>6, <2>2, <2>3, AppendedAscends
  <2>5. \A i \in DOMAIN Js!Pending' : Js!Pending'[i].seqs \subseteq 1 .. new
    <3>1. \A i \in DOMAIN Js!Pending' :
            \/ i \in DOMAIN Js!Pending /\ Js!Pending'[i] = Js!Pending[i]
            \/ Js!Pending'[i] = e
      BY <1>5, <1>6, <2>2, Appended
    <3>2. 1 .. last \subseteq 1 .. new /\ (last + 1) .. new \subseteq 1 .. new
      BY <1>2, <1>3
    <3> QED
      BY <1>5, <1>6, <3>1, <3>2
  <2>6. JsShape'
    <3>1. cursor <= new
      BY <1>2, <1>3
    <3> QED
      BY <1>1, <1>2, <1>4, <1>6, <1>7, <2>1, <2>5, <3>1 DEF JsInv, JsShape, Js!Listening
  <2>7. Js!LiveHasNoGap'
    <3> SUFFICES ASSUME ~Js!WillResync, NEW s \in DOMAIN log', log'[s] = Watched, s \notin known, s > since
                 PROVE  Holds(Js!Pending', s)
      BY <1>1 DEF Js!LiveHasNoGap, Js!WillResync, Js!Owed, Js!OnItsWay, Holds
    <3>1. CASE s <= last
      <4>1. s \in DOMAIN log /\ log[s] = Watched
        BY <1>4, <3>1
      <4>2. Holds(Js!Pending, s)
        BY <1>7, <4>1 DEF JsInv, Js!LiveHasNoGap, Js!Owed, Js!OnItsWay, Js!Listening, Holds
      <4> QED
        BY <1>5, <1>6, <2>2, <4>2, AppendedHolds
    <3>2. CASE s > last
      <4>1. s \in e.seqs
        BY <1>4, <1>5, <3>2
      <4> QED
        BY <1>5, <1>6, <2>2, <4>1, AppendedHolds
    <3> QED
      BY <1>3, <1>4, <3>1, <3>2
  <2> QED
    BY <1>1, <2>4, <2>6, <2>7 DEF JsInv
<1>8. CASE ~(Js!Listening /\ p = Watched)
  <2>1. queue' = queue /\ Js!Pending' = Js!Pending
    BY <1>1, <1>8 DEF Js!Pending
  <2>2. JsShape'
    <3>1. cursor <= new /\ 1 .. last \subseteq 1 .. new
      BY <1>2, <1>3
    <3> QED
      BY <1>1, <1>2, <1>4, <1>6, <2>1, <3>1 DEF JsInv, JsShape
  <2>3. Js!LiveHasNoGap'
    <3> SUFFICES ASSUME generator = "live", ~Js!WillResync, NEW s \in DOMAIN log', log'[s] = Watched,
                        s \notin known, s > since
                 PROVE  Holds(Js!Pending, s)
      BY <1>1, <2>1 DEF Js!LiveHasNoGap, Js!WillResync, Js!Owed, Js!OnItsWay, Holds
    <3>1. s <= last
      BY <1>3, <1>4, <1>8 DEF Js!Listening
    <3>2. s \in DOMAIN log /\ log[s] = Watched
      BY <1>4, <3>1
    <3> QED
      BY <3>2 DEF JsInv, Js!LiveHasNoGap, Js!Owed, Js!OnItsWay, Holds
  <2> QED
    BY <1>1, <1>6, <2>1, <2>2, <2>3 DEF JsInv
<1> QED
  BY <1>7, <1>8

\* A new stream has the client's cursor and nothing sent.
LEMMA JsOpenKeeps == ASSUME JsInv, Js!Open PROVE JsInv'
<1>1. /\ generator = "none" /\ ~resync /\ generator' = "created" /\ from' = cursor
      /\ UNCHANGED <<log, last, queue, wire, since, cursor, known, resync>>
  BY DEF Js!Open, logVars, Js!logVars, Js!clientVars
<1>2. Js!Pending' = Js!Pending
  BY <1>1 DEF Js!Pending
<1>3. JsShape'
  BY <1>1, <1>2 DEF JsInv, JsShape
<1>4. Js!LiveHasNoGap'
  BY <1>1 DEF Js!LiveHasNoGap
<1> QED
  BY <1>1, <1>2, <1>3, <1>4 DEF JsInv

\* From the moment the listener is added there is nothing to send but what is yet to come.
LEMMA JsListens ==
  ASSUME JsInv, Js!Listen, generator # "live", resync = FALSE,
         UNCHANGED <<log, last, from, wire, queue, cursor, known, resync>>
  PROVE  JsInv'
<1>1. generator' = "live" /\ since' = last /\ queue = <<>>
  BY DEF Js!Listen, JsInv, JsShape
<1>2. Js!Pending' = Js!Pending
  BY DEF Js!Pending
<1>3. JsShape'
  BY <1>1, <1>2 DEF JsInv, JsShape
<1>4. Js!LiveHasNoGap'
  <2>1. \A s \in DOMAIN log : ~(s > last)
    BY JsNumbers DEF JsInv
  <2> QED
    BY <1>1, <2>1 DEF Js!LiveHasNoGap
<1> QED
  BY <1>2, <1>3, <1>4 DEF JsInv

\* The replay is the first thing that a stream sends.
LEMMA JsStartKeeps == ASSUME JsInv, Js!Start PROVE JsInv'
<1>0. generator = "created" /\ wire = <<>> /\ queue = <<>> /\ from = cursor /\ resync = FALSE
  BY DEF Js!Start, JsInv, JsShape
<1>1. UNCHANGED <<log, last, from, queue, cursor, known, resync>>
  BY DEF Js!Start, Js!logVars, Js!clientVars
<1>2. CASE from > 0 /\ Js!Missed # {}
  <2> DEFINE e == Js!Response(Js!Page(Js!Missed), Js!Cardinality(Js!Missed) > ReplayLimit)
  <2>1. generator' = "replaying" /\ since' = since /\ wire' = wire \o <<e>>
    BY <1>2 DEF Js!Start
  <2>2. Js!Missed \subseteq 1 .. last /\ \A s \in Js!Missed : s > cursor
    BY <1>0, JsNumbers DEF Js!Missed, JsInv, JsShape
  <2>3. Js!Page(Js!Missed) \subseteq Js!Missed
    BY DEF Js!Page
  <2>4. e.seqs = Js!Page(Js!Missed) /\ e \in Responses
    <3>1. Js!Page(Js!Missed) \in SUBSET Seqs
      <4>1. last \in Nat /\ 0 .. last \subseteq Seqs
        BY JsNumbers DEF JsInv
      <4>2. 1 .. last \subseteq 0 .. last
        BY <4>1
      <4> QED
        BY <2>2, <2>3, <4>1, <4>2
    <3> QED
      BY <3>1 DEF Js!Response, Responses
  <2> HIDE DEF e
  <2>5. wire' = <<e>> /\ wire' \in Seq(Responses)
    BY <1>0, <2>1, <2>4
  <2>6. Js!Pending' = <<e>> /\ DOMAIN Js!Pending' = {1} /\ Js!Pending'[1] = e
    <3>1. <<e>> \o <<>> = <<e>>
      BY <2>4
    <3> QED
      BY <1>0, <1>1, <2>5, <3>1 DEF Js!Pending
  <2>7. JsShape'
    BY <1>0, <1>1, <2>1, <2>2, <2>3, <2>4, <2>5, <2>6 DEF JsInv, JsShape
  <2>8. Ascends(Js!Pending', cursor)
    <3>1. \A i, j \in DOMAIN Js!Pending' : ~(i < j)
      BY <2>6
    <3>2. \A i \in DOMAIN Js!Pending' : \A s \in Js!Pending'[i].seqs : s > cursor
      BY <2>2, <2>3, <2>4, <2>6
    <3> QED
      BY <3>1, <3>2 DEF Ascends
  <2>9. Js!LiveHasNoGap'
    BY <2>1 DEF Js!LiveHasNoGap
  <2> QED
    BY <1>1, <2>7, <2>8, <2>9 DEF JsInv
<1>3. CASE ~(from > 0 /\ Js!Missed # {})
  <2>1. Js!Listen /\ wire' = wire
    BY <1>3 DEF Js!Start
  <2> QED
    BY <1>0, <1>1, <2>1, JsListens
<1> QED
  BY <1>2, <1>3

\* The listener is added, and what is committed from here on is queued.
LEMMA JsResumeKeeps == ASSUME JsInv, Js!Resume PROVE JsInv'
<1>1. /\ Js!Listen /\ generator = "replaying"
      /\ UNCHANGED <<log, last, from, wire, queue, cursor, known, resync>>
  BY DEF Js!Resume, Js!logVars, Js!clientVars
<1>2. resync = FALSE
  BY <1>1 DEF JsInv, JsShape
<1> QED
  BY <1>1, <1>2, JsListens

\* An item of the queue moves on, behind all that was sent.
LEMMA JsYieldKeeps == ASSUME JsInv, Js!Yield PROVE JsInv'
<1>1. /\ generator = "live" /\ queue # <<>> /\ wire' = wire \o <<Head(queue)>> /\ queue' = Tail(queue)
      /\ UNCHANGED <<log, last, generator, from, since, cursor, known, resync>>
  BY DEF Js!Yield, Js!logVars, Js!clientVars
<1>2. wire \in Seq(Responses) /\ queue \in Seq(Responses)
  BY DEF JsInv, JsShape
<1>3. Head(queue) \in Responses /\ Tail(queue) \in Seq(Responses) /\ queue = <<Head(queue)>> \o Tail(queue)
  BY <1>1, <1>2
<1>4. wire' \in Seq(Responses) /\ queue' \in Seq(Responses)
  BY <1>1, <1>2, <1>3, Appended
<1>5. Js!Pending' = Js!Pending
  <2>1. <<Head(queue)>> \in Seq(Responses)
    BY <1>3
  <2>2. (wire \o <<Head(queue)>>) \o Tail(queue) = wire \o (<<Head(queue)>> \o Tail(queue))
    BY <1>2, <1>3, <2>1, ConcatAssociative
  <2>3. Js!Pending' = (wire \o <<Head(queue)>>) \o Tail(queue)
    BY <1>1 DEF Js!Pending
  <2> QED
    BY <1>3, <2>2, <2>3 DEF Js!Pending
<1>6. Asks(wire) => Asks(wire')
  BY <1>1, <1>2, <1>3, AppendedAsks
<1>7. Js!WillResync => Js!WillResync'
  BY <1>1, <1>6 DEF Js!WillResync, Asks
<1>8. Js!LiveHasNoGap'
  BY <1>1, <1>5, <1>7 DEF JsInv, Js!LiveHasNoGap, Js!Owed, Js!OnItsWay
<1>9. JsShape'
  BY <1>1, <1>4, <1>5 DEF JsInv, JsShape
<1> QED
  BY <1>1, <1>5, <1>8, <1>9 DEF JsInv

\* A heartbeat brings nothing.
LEMMA JsBeatKeeps == ASSUME JsInv, Js!Beat PROVE JsInv'
<1>1. /\ generator = "live" /\ queue' = queue \o <<Js!Heartbeat>>
      /\ UNCHANGED <<log, last, generator, from, wire, since, cursor, known, resync>>
  BY DEF Js!Beat, Js!logVars, Js!clientVars
<1>2. Js!Heartbeat \in Responses /\ Js!Heartbeat.seqs = {}
  BY DEF Js!Heartbeat, Js!Response, Responses
<1>3. wire \in Seq(Responses) /\ queue \in Seq(Responses) /\ Js!Pending \in Seq(Responses)
  BY PendingQueue DEF JsInv, JsShape
<1>4. queue' \in Seq(Responses)
  BY <1>1, <1>2, <1>3, Appended
<1>5. Js!Pending' = Js!Pending \o <<Js!Heartbeat>>
  <2>1. <<Js!Heartbeat>> \in Seq(Responses)
    BY <1>2
  <2>2. (wire \o queue) \o <<Js!Heartbeat>> = wire \o (queue \o <<Js!Heartbeat>>)
    BY <1>3, <2>1, ConcatAssociative
  <2> QED
    BY <1>1, <2>2 DEF Js!Pending
<1>6. \A i \in DOMAIN Js!Pending' : \/ i \in DOMAIN Js!Pending /\ Js!Pending'[i] = Js!Pending[i]
                                    \/ Js!Pending'[i] = Js!Heartbeat
  BY <1>2, <1>3, <1>5, Appended
<1>7. JsShape'
  BY <1>1, <1>2, <1>4, <1>6 DEF JsInv, JsShape
<1>8. Ascends(Js!Pending', cursor)
  <2>1. \A s \in Js!Heartbeat.seqs : s > last
    BY <1>2
  <2>2. /\ last \in Nat /\ cursor \in Nat /\ cursor <= last /\ Seqs \subseteq Nat
        /\ \A i \in DOMAIN Js!Pending : Js!Pending[i].seqs \subseteq 1 .. last
    BY JsNumbers DEF JsInv, JsShape
  <2> QED
    BY <1>2, <1>3, <1>5, <2>1, <2>2, AppendedAscends DEF JsInv
<1>9. Js!LiveHasNoGap'
  <2>1. \A s : Holds(Js!Pending, s) => Holds(Js!Pending', s)
    BY <1>2, <1>3, <1>5, AppendedHolds
  <2> QED
    BY <1>1, <2>1 DEF JsInv, Js!LiveHasNoGap, Js!WillResync, Js!Owed, Js!OnItsWay, Holds
<1> QED
  BY <1>1, <1>7, <1>8, <1>9 DEF JsInv

\* The largest of some seqs.
LEMMA JsLargest ==
  ASSUME NEW T, T # {}, NEW b \in Nat, T \subseteq 1 .. b
  PROVE  Js!Max(T) \in T
<1>1. Js!Max(T) = Max(T)
  BY DEF Js!Max, Max
<1> QED
  BY <1>1, Largest

\* A snapshot is taken while there is no stream.
LEMMA JsSnapshotKeeps == ASSUME JsInv, Js!Snapshot PROVE JsInv'
<1>1. /\ generator = "none" /\ known' = 1 .. last /\ cursor' = Js!Max(DOMAIN log) /\ resync' = FALSE
      /\ UNCHANGED <<log, last, generator, from, queue, wire, since>>
  BY DEF Js!Snapshot, Js!logVars, Js!streamVars
<1>2. /\ last \in Nat /\ 0 .. last \subseteq Seqs /\ DOMAIN log # {} /\ DOMAIN log \subseteq 1 .. last
  BY JsNumbers DEF JsInv, JsShape
<1>3. cursor' \in 1 .. last
  BY <1>1, <1>2, JsLargest
<1>4. cursor' \in Seqs /\ cursor' <= last /\ known' \subseteq Seqs
  BY <1>1, <1>2, <1>3
<1>5. queue = <<>> /\ wire = <<>> /\ Js!Pending' = <<>> /\ DOMAIN Js!Pending' = {}
  BY <1>1 DEF JsInv, JsShape, Js!Pending
<1>6. JsShape'
  BY <1>1, <1>4, <1>5 DEF JsInv, JsShape
<1>7. Ascends(Js!Pending, cursor)'
  BY <1>5 DEF Ascends
<1>8. Js!LiveHasNoGap'
  BY <1>1 DEF Js!LiveHasNoGap
<1> QED
  BY <1>6, <1>7, <1>8 DEF JsInv

\* What the client takes is known to it, and is the oldest of what is pending.
LEMMA JsTakeKeeps == ASSUME JsInv, Js!Take PROVE JsInv'
<1> DEFINE r == Head(wire)
<1>1. /\ wire # <<>> /\ known' = known \cup r.seqs
      /\ cursor' = (IF r.seqs = {} THEN cursor ELSE Js!Max(r.seqs)) /\ resync' = r.resync
      /\ last' = last /\ log' = log /\ UNCHANGED logVars
  BY DEF Js!Take, Js!logVars, logVars
<1>2. wire \in Seq(Responses) /\ queue \in Seq(Responses) /\ Js!Pending \in Seq(Responses)
  BY PendingQueue DEF JsInv, JsShape
<1>3. r \in Responses /\ wire = <<r>> \o Tail(wire) /\ Tail(wire) \in Seq(Responses)
  BY <1>1, <1>2
<1>4. Js!Pending = <<r>> \o (Tail(wire) \o queue)
  <2>1. <<r>> \in Seq(Responses)
    BY <1>3
  <2>2. (<<r>> \o Tail(wire)) \o queue = <<r>> \o (Tail(wire) \o queue)
    BY <1>2, <1>3, <2>1, ConcatAssociative
  <2> QED
    BY <1>3, <2>2 DEF Js!Pending
<1> HIDE DEF r
<1>5. Js!Pending # <<>> /\ Head(Js!Pending) = r /\ Tail(Js!Pending) = Tail(wire) \o queue
  <2> DEFINE q == Tail(wire) \o queue
  <2>1. q \in Seq(Responses)
    BY <1>2, <1>3, ConcatProperties
  <2> HIDE DEF q
  <2>2. <<r>> \o q # <<>> /\ Head(<<r>> \o q) = r /\ Tail(<<r>> \o q) = q
    BY <1>3, <2>1
  <2> QED
    BY <1>4, <2>2 DEF q
<1>6. /\ Js!Pending[1] = r /\ 1 \in DOMAIN Js!Pending
      /\ \A i \in DOMAIN Tail(Js!Pending) : i + 1 \in DOMAIN Js!Pending /\ Tail(Js!Pending)[i] = Js!Pending[i + 1]
  BY <1>2, <1>5, Taken
<1>7. last \in Nat /\ cursor \in Nat /\ 0 .. last \subseteq Seqs /\ Seqs \subseteq Nat /\ r.seqs \subseteq 1 .. last
      /\ cursor <= last /\ cursor \in Seqs /\ known \subseteq Seqs
  BY <1>6, JsNumbers DEF JsInv, JsShape
<1>8. cursor' = cursor \/ cursor' \in r.seqs
  BY <1>1, <1>7, JsLargest
<1>9. cursor' \in Seqs /\ cursor' <= last /\ known' \subseteq Seqs /\ resync' \in BOOLEAN
  <2>1. 1 .. last \subseteq 0 .. last /\ \A s \in 1 .. last : s <= last
    BY <1>7
  <2>2. r.resync \in BOOLEAN
    BY <1>3 DEF Responses
  <2> QED
    BY <1>1, <1>7, <1>8, <2>1, <2>2
<1>10. CASE r.resync
  <2>1. Js!NoStream
    BY <1>10 DEF Js!Take, r
  <2> QED
    BY <1>1, <1>9, <2>1, JsEnds
<1>11. CASE ~r.resync
  <2>1. wire' = Tail(wire) /\ UNCHANGED <<generator, from, queue, since>>
    BY <1>11 DEF Js!Take, r
  <2>2. Js!Pending' = Tail(Js!Pending)
    BY <1>5, <2>1 DEF Js!Pending
  <2>3. generator \notin {"none", "created"} /\ ~resync
    BY <1>1 DEF JsInv, JsShape
  <2>4. resync' = FALSE
    BY <1>1, <1>9, <1>11
  <2>5. JsShape'
    <3>1. \A i \in DOMAIN Js!Pending' : Js!Pending'[i].seqs \subseteq 1 .. last
      BY <1>6, <2>2 DEF JsInv, JsShape
    <3> QED
      BY <1>1, <1>3, <1>9, <2>1, <2>3, <2>4, <3>1 DEF JsInv, JsShape
  <2>6. Ascends(Js!Pending', cursor')
    BY <1>2, <1>5, <1>8, <2>2, TakenAscends DEF JsInv
  <2>7. Js!LiveHasNoGap'
    <3>1. Asks(wire) <=> Asks(Tail(wire))
      BY <1>1, <1>2, <1>11, TakenAsks DEF r
    <3>2. Js!WillResync => Js!WillResync'
      BY <2>1, <2>3, <3>1 DEF Js!WillResync, Asks
    <3>3. \A s : Holds(Js!Pending, s) <=> s \in r.seqs \/ Holds(Tail(Js!Pending), s)
      BY <1>2, <1>5, TakenHolds
    <3> QED
      BY <1>1, <2>1, <2>2, <3>2, <3>3 DEF JsInv, Js!LiveHasNoGap, Js!Owed, Js!OnItsWay, Holds
  <2> QED
    BY <2>5, <2>6, <2>7 DEF JsInv
<1> QED
  BY <1>10, <1>11

\* A stream that ends has nothing on its way.
LEMMA JsAbortKeeps == ASSUME JsInv, Js!Abort PROVE JsInv'
<1>1. Js!NoStream /\ UNCHANGED logVars /\ UNCHANGED <<cursor, known, resync>>
  BY DEF Js!Abort, Js!logVars, logVars, Js!clientVars
<1> QED
  BY <1>1, JsEnds DEF JsInv, JsShape

\* There is no stream.
LEMMA JsAtFirst == Js!JsInit => JsInv
<1> SUFFICES ASSUME Js!JsInit PROVE JsInv
  OBVIOUS
<1>1. 0 \in Seqs /\ 1 \in Seqs /\ Watched \in Projects
  <2>1. 1 \in Nat /\ 0 .. 1 \subseteq Seqs
    BY WatchAssumption
  <2> QED
    BY <2>1, WatchAssumption
<1>2. /\ last = 1 /\ log = [s \in {1} |-> Watched] /\ generator = "none" /\ from = 0
      /\ queue = <<>> /\ wire = <<>> /\ cursor = 0 /\ known = {} /\ resync = TRUE
  BY DEF Js!JsInit
<1>3. Js!Pending = <<>> /\ DOMAIN Js!Pending = {} /\ <<>> \in Seq(Responses)
  BY <1>2 DEF Js!Pending
<1>4. JsShape
  BY <1>1, <1>2, <1>3 DEF JsShape
<1>5. Js!LiveHasNoGap
  BY <1>2 DEF Js!LiveHasNoGap
<1> QED
  BY <1>3, <1>4, <1>5 DEF JsInv, Ascends

\* All of them.
LEMMA JsStays == ASSUME JsInv, [Js!JsNext]_<<logVars, jsOwn, from, clientVars>> PROVE JsInv'
<1>1. CASE UNCHANGED <<logVars, jsOwn, from, clientVars>>
  <2>1. UNCHANGED <<last, log, generator, from, queue, wire, since, cursor, known, resync>>
    BY <1>1 DEF logVars, jsOwn, clientVars
  <2>2. Js!Pending' = Js!Pending
    BY <2>1 DEF Js!Pending
  <2> QED
    BY <2>1, <2>2 DEF JsInv, JsShape, Js!LiveHasNoGap, Js!WillResync, Js!Owed, Js!OnItsWay
<1> QED
  BY <1>1, JsWriteKeeps, JsOpenKeeps, JsStartKeeps, JsResumeKeeps, JsYieldKeeps, JsBeatKeeps, JsSnapshotKeeps,
     JsTakeKeeps, JsAbortKeeps DEF Js!JsNext

-----------------------------------------------------------------------------
(* One client, at either daemon.                                             *)

\* At flowd the stream of flowd.js is not there, and the other way round.
StreamsInv ==
  /\ host \in {"flowd", "flowdjs"}
  /\ host = "flowd" => WatchInv /\ generator = "none" /\ wire = <<>> /\ queue = <<>>
  /\ host = "flowdjs" => /\ JsInv
                         /\ unpublished = {} /\ ring = <<>> /\ phase = "none" /\ next = 1 /\ channel = <<>>
                         /\ opens = 0 /\ dropped = {}

\* Both streams keep their invariants, and the one that is not watched rests.
LEMMA StreamsHold == StreamsSpec => []StreamsInv
<1>1. StreamsInit => StreamsInv
  BY InitHolds, JsAtFirst DEF StreamsInit, StreamsInv, WatchInit, Js!JsInit
<1>2. ASSUME StreamsInv, [StreamsNext]_<<watchVars, jsOwn, host>> PROVE StreamsInv'
  <2>1. CASE host = "flowd"
    <3>1. [WatchNext]_watchVars /\ UNCHANGED jsOwn /\ UNCHANGED host
      BY <1>2, <2>1 DEF StreamsNext
    <3> QED
      BY <1>2, <2>1, <3>1, NextKeeps DEF StreamsInv, jsOwn
  <2>2. CASE host = "flowdjs"
    <3>1. [Js!JsNext]_<<logVars, jsOwn, from, clientVars>> /\ UNCHANGED flowdOwn /\ UNCHANGED host
      BY <1>2, <2>2 DEF StreamsNext, watchVars, streamVars, daemonVars, flowdOwn
    <3> QED
      BY <1>2, <2>2, <3>1, JsStays DEF StreamsInv, flowdOwn, daemonVars
  <2> QED
    BY <1>2, <2>1, <2>2 DEF StreamsInv
<1>3. StreamsInv /\ [StreamsNext]_<<watchVars, jsOwn, host>> => StreamsInv'
  BY <1>2
<1> QED
  BY <1>1, <1>3, PTL DEF StreamsSpec

\* The daemon's and the client's state keep their types, and the channel never holds more
\* than it has slots for.
THEOREM WatchTypes == StreamsSpec => []WatchTypeOK
<1>1. StreamsInv => WatchTypeOK
  <2> SUFFICES ASSUME StreamsInv, host = "flowdjs" PROVE WatchTypeOK
    BY DEF StreamsInv, WatchInv
  <2>1. /\ JsShape /\ unpublished = {} /\ ring = <<>> /\ phase = "none" /\ next = 1 /\ channel = <<>>
        /\ opens = 0 /\ dropped = {}
    BY DEF StreamsInv, JsInv
  <2>2. Slots \in Nat
    BY WatchAssumption
  <2> QED
    BY <2>1, <2>2 DEF JsShape, WatchTypeOK
<1> QED
  BY <1>1, StreamsHold, PTL

\* Within a stream of flowd no change is skipped without a word, in whatever order writes commit
\* and publish, whenever the stream subscribes, replays and reads, and however far it falls behind.
THEOREM NoSilentGap == StreamsSpec => []StreamHasNoGap
<1>1. StreamsInv => StreamHasNoGap
  BY DEF StreamsInv, WatchInv, StreamHasNoGap
<1> QED
  BY <1>1, StreamsHold, PTL

\* Within a stream of flowd.js changes arrive in the order of their seqs, each one once, from the
\* replay on; and from the moment the listener is added none is left out.
THEOREM JsStreamsAreWhole == StreamsSpec => []JsStreamIsWhole
<1>1. StreamsInv => JsStreamIsWhole
  <2> SUFFICES ASSUME StreamsInv PROVE JsStreamIsWhole
    OBVIOUS
  <2>1. CASE host = "flowd"
    <3>1. generator = "none" /\ Js!Pending = <<>> /\ DOMAIN Js!Pending = {}
      BY <2>1 DEF StreamsInv, Js!Pending
    <3> QED
      BY <3>1 DEF JsStreamIsWhole, JsStreamInOrder, JsLiveHasNoGap, Js!StreamInOrder, Js!LiveHasNoGap
  <2>2. CASE host = "flowdjs"
    BY <2>2 DEF StreamsInv, JsInv, Ascends, JsStreamIsWhole, JsStreamInOrder, JsLiveHasNoGap, Js!StreamInOrder
  <2> QED
    BY <2>1, <2>2 DEF StreamsInv
<1> QED
  BY <1>1, StreamsHold, PTL
=============================================================================
