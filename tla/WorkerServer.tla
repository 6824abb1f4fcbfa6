---------------------------- MODULE WorkerServer ----------------------------
(***************************************************************************)
(* The exchange between the profiling library of a process and the         *)
(* profiler: over a listening socket that the main profiler process holds  *)
(* and whose connections a thread of the current worker serves, one        *)
(* request and one reply with the file descriptors of the ring buffer.     *)
(***************************************************************************)
EXTENDS Naturals, FiniteSets

CONSTANTS
  Clients,
  kMaxConn        \* connections the kernel keeps for a later accept

ASSUME kMaxConnAssumption == kMaxConn \in Nat \ {0}

VARIABLES
  listening,      \* the server socket exists
  server,         \* the server thread of the worker: down, up, shutting_down
  conn            \* the connection of each client

serverVars == <<listening, server, conn>>

\* end: none, queued (for accept), polled (by the server thread) or closed (by the
\* server); message: what the client can read, or the server has to read, a
\* hangup of the client included.
NoConn == [end |-> "none", message |-> "none"]

ServerInit ==
  /\ listening = FALSE
  /\ server = "down"
  /\ conn = [c \in Clients |-> NoConn]

Polled == {c \in Clients : conn[c].end = "polled"}
Queued == {c \in Clients : conn[c].end = "queued"}
-----------------------------------------------------------------------------
(* The client                                                              *)

\* create_client_socket; a full queue makes connect wait, and its timeout is
\* that of the caller.
create_client_socket(c) ==
  /\ conn[c] = NoConn /\ listening /\ Cardinality(Queued) < kMaxConn
  /\ conn' = [conn EXCEPT ![c] = [end |-> "queued", message |-> "none"]]

\* get_profiler_info: send of a RequestMessage.
send_request(c) ==
  /\ conn[c].end \in {"queued", "polled"}
  /\ conn' = [conn EXCEPT ![c].message = "request"]

\* receive of the ReplyMessage, and the end of the connection.
receive_reply(c) ==
  /\ conn[c].message = "reply"
  /\ conn' = [conn EXCEPT ![c] = NoConn]

\* The connection ended without a reply, or the timeout expired.
receive_failed(c) ==
  /\ conn[c].message # "reply"
  /\ conn' = [conn EXCEPT ![c] = IF conn[c].end \in {"queued", "polled"}
                                   THEN [conn[c] EXCEPT !.message = "hangup"] ELSE NoConn]
-----------------------------------------------------------------------------
(* The server thread                                                       *)

Free == UNCHANGED <<listening, server>>

start_worker_server ==
  /\ listening /\ server = "down"
  /\ server' = "up"
  /\ UNCHANGED <<listening, conn>>

accept(c) ==
  /\ server = "up" /\ conn[c].end = "queued"
  /\ conn' = [conn EXCEPT ![c].end = "polled"]
  /\ Free

\* A request is answered, unless sending fails, and the connection is closed.
serve(c) == \E sent \in BOOLEAN :
  /\ server # "down" /\ conn[c].end = "polled" /\ conn[c].message = "request"
  /\ conn' = [conn EXCEPT ![c] = [end |-> "closed", message |-> IF sent THEN "reply" ELSE "none"]]
  /\ Free

MutantDrop(c) ==   \* looks at connections only while it accepts new ones
  /\ server = "up" /\ conn[c].end = "polled" /\ conn[c].message = "hangup"
  /\ conn' = [conn EXCEPT ![c] = NoConn]
  /\ Free

\* Nothing can be received from a client that is gone.
drop(c) ==
  /\ server # "down" /\ conn[c].end = "polled" /\ conn[c].message = "hangup"
  /\ conn' = [conn EXCEPT ![c] = NoConn]
  /\ Free

\* ~WorkerServer: SIGUSR1, read from a signalfd by the same poll.
shut_down ==
  /\ server = "up"
  /\ server' = "shutting_down"
  /\ UNCHANGED <<listening, conn>>

\* The end of the loop, for which the worker waits (join).
LoopEnds == server = "shutting_down" /\ Polled = {}

server_ends ==
  /\ LoopEnds
  /\ server' = "down"
  /\ UNCHANGED <<listening, conn>>

\* The connections of a process that ends.
Dropped(cs) ==
  [c \in Clients |-> IF c \notin cs THEN conn[c]
                     ELSE IF conn[c].message = "hangup" THEN NoConn
                     ELSE [end |-> "closed", message |-> "none"]]

server_killed ==
  /\ server # "down"
  /\ server' = "down"
  /\ conn' = Dropped(Polled)
  /\ UNCHANGED listening

\* The end of the last process that holds the socket.
SocketGone ==
  /\ listening' = FALSE
  /\ server' = "down"
  /\ conn' = Dropped(Polled \cup Queued)

Serving == \E c \in Clients : accept(c) \/ serve(c) \/ drop(c)
=============================================================================
