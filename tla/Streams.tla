-------------------------------- MODULE Streams --------------------------------
(***************************************************************************)
(* One client that watches a project, at either daemon: flowd (module      *)
(* Watch) or flowd.js (module WatchJs).  The log, the client and the       *)
(* cursor its stream began with are the same for both.                     *)
(***************************************************************************)
EXTENDS Watch

VARIABLES
  host,                         \* the daemon
  generator, queue, wire, since \* what flowd.js has in place of the ring and the channel

Js == INSTANCE WatchJs

jsOwn == <<generator, queue, wire, since>>
flowdOwn == <<daemonVars, phase, next, channel, opens, dropped>>

StreamsInit == host \in {"flowd", "flowdjs"} /\ WatchInit /\ Js!JsInit

StreamsNext ==
  /\ \/ host = "flowd" /\ WatchNext /\ UNCHANGED jsOwn
     \/ host = "flowdjs" /\ Js!JsNext /\ UNCHANGED flowdOwn
  /\ UNCHANGED host

\* What the fairness of one host is about is never enabled at the other.
StreamsSpec ==
  StreamsInit /\ [][StreamsNext]_<<watchVars, jsOwn, host>> /\ FairWatch /\ Js!FairJs

-----------------------------------------------------------------------------
\* flowd.js sends changes in the order of their seqs, each one once: what is pending ascends and
\* starts above the cursor that the client would reconnect with.
JsStreamInOrder == Js!StreamInOrder

\* And it leaves none out from the moment the listener is on the bus.
JsLiveHasNoGap == Js!LiveHasNoGap

\* The change from the replay to the live events neither reorders, repeats nor loses one.
JsStreamIsWhole == JsStreamInOrder /\ JsLiveHasNoGap

HostPromised(s) == IF host = "flowd" THEN Promised(s) ELSE Js!Promised(s)
HostSettled(s) == IF host = "flowd" THEN Settled(s) ELSE Js!Settled(s)

\* As long as the stream is held open and the daemon gives up on nothing, a change reaches the
\* client, or the word that it must resync does.
ChangesArrive == \A s \in Seqs \ {0} : HostPromised(s) ~> HostSettled(s)
=============================================================================
