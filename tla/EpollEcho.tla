----------------------------- MODULE EpollEcho -----------------------------
(***************************************************************************)
(* The echo server echo/epoll_echo_server.c, with either of the libraries  *)
(* it is run with: the dummy one, whose batch_start and batch_flush do     *)
(* nothing and whose send is the system call; or libesca, whose send       *)
(* (wrapper/echo.c) writes an entry that points into the server's one      *)
(* buffer, for the module's worker to perform later.  The ring of entries  *)
(* is EscaTable's subject: here it is the sequence of calls it implements, *)
(* and the worker is awake or asleep.                                      *)
(***************************************************************************)
EXTENDS Rps

CONSTANTS
  NoTimeoutInSegment  \* assumption on the timing: the worker's idle time does
                      \* not run out between batch_start and batch_flush

VARIABLES
  events,      \* what epoll_wait returned and is still to be handled
  in_segment,  \* between batch_start and batch_flush
  conns,       \* connections epoll watches
  reported,    \* arrivals on each connection when it was last reported
  buffer,      \* the bytes of the one buffer
  queue,       \* connections whose send is queued, its bytes still in buffer
  awake        \* the worker is not asleep

epollVars == <<events, in_segment, conns, reported, buffer, queue, awake>>

listen == "listen"

ASSUME ListenAssumption == listen \notin Clients

EpollInit ==
  /\ events = {} /\ in_segment = FALSE /\ conns = {}
  /\ reported = [c \in Clients |-> 0]
  /\ buffer = nothing /\ queue = <<>> /\ awake = (server = "esca")

\* Segments and ends of stream that have arrived on a connection.
Arrivals(c) == asked[c] + IF hup[c] THEN 1 ELSE 0

\* The listening socket is reported while a connection waits, a connection only
\* when something has arrived since it was last reported (EPOLLET).
Ready == {c \in conns : Readable(c) /\ Arrivals(c) > reported[c]}
         \cup (IF backlog # <<>> THEN {listen} ELSE {})
-----------------------------------------------------------------------------
\* epoll_wait returns, and batch_start wakes a sleeping worker.
epoll_wait ==
  /\ ~in_segment /\ Ready # {}
  /\ events' = Ready
  /\ reported' = [c \in Clients |-> IF c \in Ready THEN Arrivals(c) ELSE reported[c]]
  /\ in_segment' = TRUE
  /\ awake' = (server = "esca")
  /\ UNCHANGED <<conns, buffer, queue, rpsVars>>

\* One connection is accepted for each report of the listening socket.
\* EPOLL_CTL_ADD reports what has already arrived.
accept4 ==
  /\ listen \in events
  /\ backlog' = Tail(backlog)
  /\ conns' = conns \cup {Head(backlog)}
  /\ events' = events \ {listen}
  /\ UNCHANGED <<in_segment, reported, buffer, queue, awake>>
  /\ UNCHANGED <<threads, counts, c2s, s2c, hup, fate>>

\* error(): the server ends when the system refuses a connection.
accept4_error ==
  /\ listen \in events /\ refusals > 0
  /\ refusals' = refusals - 1
  /\ gone' = "refused"
  /\ UNCHANGED <<epollVars, server, threads, counts, net>>

\* Faulty variant of recv_send: an interrupted receive sends the buffer again.
recv_send_twice(c) ==
  /\ c \in events /\ c2s[c] # <<>>
  /\ buffer' = Head(c2s[c]) /\ Take(c)
  /\ IF server = "esca" THEN queue' = queue \o <<c, c>> /\ s2c' = s2c
     ELSE queue' = queue /\ Deliver(c, buffer')
  /\ events' = events \ {c}
  /\ UNCHANGED <<in_segment, conns, reported, awake>>
  /\ UNCHANGED <<threads, counts, backlog, hup, fate>>

\* A request is received into the buffer and sent back: at once, or by an entry
\* for the worker that holds the buffer's address.
recv_send(c) ==
  /\ c \in events /\ c2s[c] # <<>>
  /\ buffer' = Head(c2s[c]) /\ Take(c)
  /\ IF server = "esca" THEN queue' = Append(queue, c) /\ s2c' = s2c
     ELSE queue' = queue /\ Deliver(c, buffer')
  /\ events' = events \ {c}
  /\ UNCHANGED <<in_segment, conns, reported, awake>>
  /\ UNCHANGED <<threads, counts, backlog, hup, fate>>

\* The end of the stream: the connection is shut down and forgotten.
recv_end(c) ==
  /\ c \in events /\ c2s[c] = <<>>
  /\ conns' = conns \ {c}
  /\ events' = events \ {c}
  /\ UNCHANGED <<in_segment, reported, buffer, queue, awake, rpsVars>>

\* All events handled.
batch_flush ==
  /\ in_segment /\ events = {}
  /\ in_segment' = FALSE
  /\ UNCHANGED <<events, conns, reported, buffer, queue, awake, rpsVars>>

EpollServer ==
  /\ gone = "no"
  /\ \/ epoll_wait \/ accept4 \/ accept4_error \/ batch_flush
     \/ \E c \in Clients : recv_send(c) \/ recv_end(c)
-----------------------------------------------------------------------------
\* The worker performs the oldest queued send with what the buffer holds now.
Perform ==
  /\ gone = "no" /\ awake /\ queue # <<>>
  /\ Deliver(Head(queue), buffer)
  /\ queue' = Tail(queue)
  /\ UNCHANGED <<events, in_segment, conns, reported, buffer, awake>>
  /\ UNCHANGED <<threads, counts, backlog, c2s, hup, fate>>

\* The worker has polled an empty ring for the idle time, and sleeps.
Sleep ==
  /\ gone = "no" /\ awake /\ queue = <<>>
  /\ NoTimeoutInSegment => ~in_segment
  /\ awake' = FALSE
  /\ UNCHANGED <<events, in_segment, conns, reported, buffer, queue, rpsVars>>

EpollNext == server \in {"epoll", "esca"} /\ (EpollServer \/ Perform \/ Sleep)
=============================================================================
