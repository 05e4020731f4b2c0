------------------------------ MODULE EventStreams -----------------------------
(***************************************************************************)
(* Server-sent events: createSseResponse (lib/streams/sse.ts) and the four *)
(* producers that run behind it, each holding something of the server for  *)
(* as long as its client stays: a Kafka consumer, the interval that polls  *)
(* the alert bridge, the timer of the pipeline's snapshots, a watch on a   *)
(* pod's log.  The client may leave at any time, also before the stream is *)
(* made and between two awaits of the producer's start.                    *)
(*                                                                         *)
(* A connection is:                                                        *)
(*   kind      what it is for, once it is made                             *)
(*   at        the await its producer is at, "open" when it has started,   *)
(*             "over" when the stream was closed because it failed         *)
(*   here      whether the client is there (the signal is not aborted)     *)
(*   noticed   whether stop has run, and when: a history                   *)
(*   beats     whether the heartbeat interval runs                         *)
(*   cleanup   whether the producer's thunk has been handed to the factory *)
(*   held      whether the producer holds what it serves the client from   *)
(***************************************************************************)
EXTENDS Naturals, FiniteSets

CONSTANTS
  Conns,         \* the connections, each made at most once
  MaxConsumers   \* MAX_ACTIVE_CONSUMERS

Kinds == {"topic", "incidents", "pipeline", "logs"}

VARIABLES
  conn,     \* the connections
  drained   \* whether the process was told to end

vars == <<conn, drained>>

Starting == {"connect", "subscribe", "run", "prime", "attach"}
Unmade   == [kind |-> "none", at |-> "none", here |-> TRUE, noticed |-> "no",
             beats |-> FALSE, cleanup |-> FALSE, held |-> FALSE]

TypeOK ==
  /\ conn \in [Conns -> [kind : Kinds \union {"none"}, here : BOOLEAN,
                         at : {"none", "open", "over"} \union Starting,
                         noticed : {"no", "starting", "open"},
                         beats : BOOLEAN, cleanup : BOOLEAN, held : BOOLEAN]]
  /\ drained \in BOOLEAN

Init ==
  /\ conn = [c \in Conns |-> Unmade]
  /\ drained = FALSE

Set(c, r)     == conn' = [conn EXCEPT ![c] = r]
ActiveConsumers == {c \in Conns : conn[c].kind = "topic" /\ conn[c].held}

\* (variant) stop leaves the thunk uncalled
StopForgets(r) == [r EXCEPT !.beats = FALSE,
                            !.noticed = IF r.at \in Starting THEN "starting" ELSE "open"]

(* stop: the heartbeat ends, the thunk is called if there is one already,  *)
(* the stream is closed.                                                   *)
Stop(r) == [r EXCEPT !.beats = FALSE, !.held = @ /\ ~r.cleanup,
                     !.noticed = IF r.at \in Starting THEN "starting" ELSE "open"]

Failed(r) == [Stop(r) EXCEPT !.at = "over"]

--------------------------------------------------------------------------------
(* createSseResponse: the listener, the first comment, the heartbeat, and  *)
(* the producer's code up to its first await.                              *)

Opened(c, k) == [conn[c] EXCEPT !.kind = k, !.beats = TRUE]

\* (variant) a consumer is counted when it has connected
OpenTopicUncounted(c) ==
  /\ conn[c].at = "none"
  /\ IF Cardinality(ActiveConsumers) > MaxConsumers
     THEN Set(c, Failed(Opened(c, "topic")))
     ELSE Set(c, [Opened(c, "topic") EXCEPT !.at = "connect", !.held = TRUE])
  /\ UNCHANGED drained

(* startKafkaSseConsumer: refused at the cap, else counted before it is    *)
(* connected.                                                              *)
OpenTopic(c) ==
  /\ conn[c].at = "none"
  /\ IF Cardinality(ActiveConsumers) >= MaxConsumers
     THEN Set(c, Failed(Opened(c, "topic")))
     ELSE Set(c, [Opened(c, "topic") EXCEPT !.at = "connect", !.held = TRUE])
  /\ UNCHANGED drained

(* The incidents' first poll and the log's request are awaited; the        *)
(* pipeline's first snapshot is not.                                       *)
OpenIncidents(c) ==
  /\ conn[c].at = "none"
  /\ Set(c, [Opened(c, "incidents") EXCEPT !.at = "prime"])
  /\ UNCHANGED drained

OpenLog(c) ==
  /\ conn[c].at = "none"
  /\ Set(c, [Opened(c, "logs") EXCEPT !.at = "attach"])
  /\ UNCHANGED drained

OpenPipeline(c) ==
  /\ conn[c].at = "none"
  /\ Set(c, [Opened(c, "pipeline") EXCEPT !.at = "open", !.cleanup = TRUE, !.held = conn[c].here])
  /\ UNCHANGED drained

--------------------------------------------------------------------------------
(* The producers' awaits.                                                  *)

(* connect: a failure gives the place back.                                *)
Connects(c) ==
  /\ conn[c].at = "connect"
  /\ \/ Set(c, [conn[c] EXCEPT !.at = "subscribe"])
     \/ Set(c, Failed([conn[c] EXCEPT !.held = FALSE]))
  /\ UNCHANGED drained

(* subscribe and run: a failure closes the stream and gives nothing back.  *)
Subscribes(c) ==
  /\ \/ conn[c].at = "subscribe" /\ Set(c, [conn[c] EXCEPT !.at = "run"])
     \/ conn[c].at \in {"subscribe", "run"} /\ Set(c, Failed(conn[c]))
  /\ UNCHANGED drained

(* run has returned: the abort listener is added, which an abort that has  *)
(* been does not call, and the thunk is returned.                          *)
Consumes(c) ==
  /\ conn[c].at = "run"
  /\ Set(c, [conn[c] EXCEPT !.at = "open", !.cleanup = TRUE])
  /\ UNCHANGED drained

(* The first poll has ended, in whichever way: the interval is set.        *)
Primes(c) ==
  /\ conn[c].at = "prime"
  /\ Set(c, [conn[c] EXCEPT !.at = "open", !.cleanup = TRUE, !.held = TRUE])
  /\ UNCHANGED drained

(* The log's request has answered; if it failed, its error is a line and   *)
(* the stream stays open with nothing behind it.                           *)
Attaches(c) ==
  /\ conn[c].at = "attach"
  /\ \E ok \in BOOLEAN : Set(c, [conn[c] EXCEPT !.at = "open", !.cleanup = TRUE, !.held = ok])
  /\ UNCHANGED drained

(* The pod's log ends.                                                     *)
LogEnds(c) ==
  /\ conn[c].kind = "logs" /\ conn[c].at = "open" /\ conn[c].held
  /\ Set(c, [conn[c] EXCEPT !.held = FALSE])
  /\ UNCHANGED drained

(* A heartbeat that finds the client gone, the abort having come before    *)
(* there was a listener for it.                                            *)
Beat(c) ==
  /\ conn[c].beats /\ ~conn[c].here
  /\ Set(c, Stop(conn[c]))
  /\ UNCHANGED drained

(* The client goes: stop is called by the listener, if there is one yet.   *)
Leave(c) ==
  /\ conn[c].here
  /\ LET gone == [conn[c] EXCEPT !.here = FALSE]
     IN Set(c, IF conn[c].at = "none" THEN gone ELSE Stop(gone))
  /\ UNCHANGED drained

(* SIGTERM: once, every consumer is disconnected.                          *)
Drain ==
  /\ ~drained
  /\ drained' = TRUE
  /\ conn' = [c \in Conns |-> [conn[c] EXCEPT !.held = @ /\ conn[c].kind # "topic"]]

Open(c) == OpenTopic(c) \/ OpenIncidents(c) \/ OpenLog(c) \/ OpenPipeline(c)
Proceed(c) == \/ Connects(c) \/ Subscribes(c) \/ Consumes(c)
              \/ Primes(c) \/ Attaches(c) \/ Beat(c)

Next == \/ \E c \in Conns : Open(c) \/ Proceed(c) \/ LogEnds(c) \/ Leave(c)
        \/ Drain

Spec == Init /\ [][Next]_vars

--------------------------------------------------------------------------------
(* The consumers alive are within the cap, those included whose client is  *)
(* gone or whose start failed (kafka-sse.ts).                              *)
ConsumersCapped == Cardinality(ActiveConsumers) <= MaxConsumers

(* What a client that is gone leaves behind, its start being over and no   *)
(* heartbeat left to notice: only one that left while its producer was     *)
(* still starting, or whose consumer could not subscribe (sse.ts).         *)
LeaksOnlyFromStart ==
  \A c \in Conns :
    /\ conn[c].at = "open" /\ ~conn[c].here /\ ~conn[c].beats /\ conn[c].held
         => conn[c].noticed = "starting"
    /\ conn[c].at = "over" /\ conn[c].held => conn[c].kind = "topic"
================================================================================
