-------------------------------- MODULE Rps --------------------------------
(***************************************************************************)
(* The load generator echo/rps.c: one main thread and one thread for each  *)
(* connection, which asks, waits for the echo and asks again until the     *)
(* main thread ends the measurement.  The network between the generator    *)
(* and an echo server is here too: it is reliable and keeps the order of   *)
(* one connection.  A request fits one segment, so it arrives as a whole,  *)
(* and <<c, n>> stands for the bytes of the n-th request of client c.      *)
(*                                                                         *)
(* Sections under worker_lock or res_lock are one step each.               *)
(***************************************************************************)
EXTENDS Integers, Sequences, FiniteSets

CONSTANTS
  Clients,      \* the conf_conn threads
  MAX_THREAD,   \* size of pt[]
  MaxRequests,  \* bound: requests of one client before the time is over
  Servers,      \* the servers to measure
  MaxRefusals   \* bound: connections the system refuses to hand out

ASSUME RpsAssumption ==
  /\ IsFiniteSet(Clients) /\ MAX_THREAD \in Nat /\ MaxRequests \in Nat
  /\ Cardinality(Clients) <= MAX_THREAD
  /\ Servers \subseteq {"epoll", "esca", "uring"} /\ MaxRefusals \in Nat

VARIABLES
  mpc,            \* where the main thread is
  cpc,            \* where each client thread is
  ready, shut,    \* the flags of the main thread
  asked,          \* history: requests sent by each client
  local_success,  \* of each client
  total_success,
  backlog,        \* connections the server has still to accept
  c2s, s2c,       \* bytes under way on each connection, both ways
  hup,            \* the client's end of each connection is closed
  server,         \* what is measured: the "epoll" server, the same preloaded
                  \* with libesca ("esca"), or the "uring" server
  gone,           \* why the server has ended, "no" while it runs
  refusals        \* how many more connections the system refuses the server

counts  == <<asked, local_success, total_success>>
threads == <<mpc, cpc, ready, shut>>
net     == <<backlog, c2s, s2c, hup>>
fate    == <<server, gone, refusals>>
rpsVars == <<threads, counts, net, fate>>

nothing == <<>>  \* no bytes

RpsInit ==
  /\ mpc = "create" /\ cpc = [c \in Clients |-> "unborn"]
  /\ ready = FALSE /\ shut = FALSE
  /\ asked = [c \in Clients |-> 0]
  /\ local_success = [c \in Clients |-> 0] /\ total_success = 0
  /\ backlog = <<>> /\ hup = [c \in Clients |-> FALSE]
  /\ c2s = [c \in Clients |-> <<>>] /\ s2c = [c \in Clients |-> <<>>]
  /\ server \in Servers /\ gone = "no" /\ refusals \in 0 .. MaxRefusals
-----------------------------------------------------------------------------
\* The main thread creates the client threads one by one.
create_worker(c) ==
  /\ mpc = "create" /\ cpc[c] = "unborn"
  /\ cpc' = [cpc EXCEPT ![c] = "start"]
  /\ UNCHANGED <<mpc, ready, shut, counts, net, fate>>

\* Faulty variant of broadcast: one waiting thread is woken, not all.
broadcast_one ==
  /\ mpc = "create" /\ \A c \in Clients : cpc[c] # "unborn"
  /\ ready' = TRUE
  /\ cpc' = IF \E c \in Clients : cpc[c] = "blocked"
            THEN [cpc EXCEPT ![CHOOSE c \in Clients : cpc[c] = "blocked"] = "start"]
            ELSE cpc
  /\ mpc' = "sleep"
  /\ UNCHANGED <<shut, counts, net, fate>>

\* ready is set and everybody waiting for it is woken, under worker_lock.
broadcast ==
  /\ mpc = "create" /\ \A c \in Clients : cpc[c] # "unborn"
  /\ ready' = TRUE
  /\ cpc' = [c \in Clients |-> IF cpc[c] = "blocked" THEN "start" ELSE cpc[c]]
  /\ mpc' = "sleep"
  /\ UNCHANGED <<shut, counts, net, fate>>

\* The time is over.
stop ==
  /\ mpc = "sleep"
  /\ shut' = TRUE
  /\ mpc' = "join"
  /\ UNCHANGED <<cpc, ready, counts, net, fate>>

\* Faulty variant of join: the result is summed up without waiting.
join_none ==
  /\ mpc = "join"
  /\ mpc' = "report"
  /\ UNCHANGED <<cpc, ready, shut, counts, net, fate>>

\* All of pt[] is joined, the entries no thread was created for too: those are
\* null, and what pthread_join does with them is undefined.
join ==
  /\ mpc = "join" /\ \A c \in Clients : cpc[c] = "done"
  /\ mpc' \in IF Cardinality(Clients) < MAX_THREAD THEN {"report", "crashed"}
              ELSE {"report"}
  /\ UNCHANGED <<cpc, ready, shut, counts, net, fate>>
-----------------------------------------------------------------------------
\* while (!ready) pthread_cond_wait(...)
wait_ready(c) ==
  /\ cpc[c] = "start"
  /\ cpc' = [cpc EXCEPT ![c] = IF ready THEN "connect" ELSE "blocked"]
  /\ UNCHANGED <<mpc, ready, shut, counts, net, fate>>

connect(c) ==
  /\ cpc[c] = "connect" /\ gone = "no"
  /\ backlog' = Append(backlog, c)
  /\ cpc' = [cpc EXCEPT ![c] = "loop"]
  /\ UNCHANGED <<mpc, ready, shut, counts, c2s, s2c, hup, fate>>

ask(c) ==
  /\ cpc[c] = "loop" /\ ~shut
  /\ asked[c] < MaxRequests
  /\ asked' = [asked EXCEPT ![c] = @ + 1]
  /\ c2s' = [c2s EXCEPT ![c] = Append(@, <<c, asked[c] + 1>>)]
  /\ cpc' = [cpc EXCEPT ![c] = "recv"]
  /\ UNCHANGED <<mpc, ready, shut, local_success, total_success>>
  /\ UNCHANGED <<backlog, s2c, hup, fate>>

\* The echo is received and counted, whatever it says.
answer(c) ==
  /\ cpc[c] = "recv" /\ s2c[c] # <<>>
  /\ s2c' = [s2c EXCEPT ![c] = Tail(@)]
  /\ local_success' = [local_success EXCEPT ![c] = @ + 1]
  /\ cpc' = [cpc EXCEPT ![c] = "loop"]
  /\ UNCHANGED <<mpc, ready, shut, asked, total_success>>
  /\ UNCHANGED <<backlog, c2s, hup, fate>>

\* The server has ended: recv returns 0, counted as a success, or fails.
lost(c) ==
  /\ cpc[c] = "recv" /\ s2c[c] = <<>> /\ gone # "no"
  /\ \E n \in {0, 1} : local_success' = [local_success EXCEPT ![c] = @ + n]
  /\ cpc' = [cpc EXCEPT ![c] = "loop"]
  /\ UNCHANGED <<mpc, ready, shut, asked, total_success, net, fate>>

\* total_success is updated under res_lock, then the connection is closed.
finish(c) ==
  /\ cpc[c] = "loop" /\ shut
  /\ total_success' = total_success + local_success[c]
  /\ hup' = [hup EXCEPT ![c] = TRUE]
  /\ cpc' = [cpc EXCEPT ![c] = "done"]
  /\ UNCHANGED <<mpc, ready, shut, asked, local_success>>
  /\ UNCHANGED <<backlog, c2s, s2c, fate>>

(***************************************************************************)
(* The whole generator ends: exit(-1) because a thread, a socket or a      *)
(* connection is refused, or SIGPIPE when a client sends to a server that  *)
(* has ended.  The system closes the connections.                          *)
(***************************************************************************)
die ==
  /\ \/ mpc = "create"
     \/ \E c \in Clients : cpc[c] = "connect"
     \/ gone # "no" /\ \E c \in Clients : cpc[c] = "loop"
  /\ mpc # "exited"
  /\ mpc' = "exited"
  /\ cpc' = [c \in Clients |-> "done"]
  /\ hup' = [c \in Clients |-> TRUE]
  /\ UNCHANGED <<ready, shut, counts, backlog, c2s, s2c, fate>>

Main == (\E c \in Clients : create_worker(c)) \/ broadcast \/ stop \/ join

Client(c) ==
  wait_ready(c) \/ connect(c) \/ ask(c) \/ answer(c) \/ lost(c) \/ finish(c)

\* A client of a server that has ended cannot connect: it exits.
Refused == gone # "no" /\ (\E c \in Clients : cpc[c] = "connect") /\ die

RpsNext == Main \/ (\E c \in Clients : Client(c)) \/ die
-----------------------------------------------------------------------------
\* What a server sees and does of a connection: there is something to read,
\* bytes or the end of the stream; bytes are taken; bytes are sent, and lost if
\* the client is gone.
Readable(c) == c2s[c] # <<>> \/ hup[c]
Deliver(c, bytes) ==
  s2c' = IF hup[c] THEN s2c ELSE [s2c EXCEPT ![c] = Append(@, bytes)]
Take(c) == c2s' = [c2s EXCEPT ![c] = Tail(@)]
=============================================================================
