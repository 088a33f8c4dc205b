----------------------------- MODULE EchoBench -----------------------------
(***************************************************************************)
(* The load generator with each of the three servers it measures: the      *)
(* epoll server as it is, the epoll server preloaded with libesca, and the *)
(* io_uring server.                                                        *)
(***************************************************************************)
EXTENDS EpollEcho, UringEcho

vars == <<rpsVars, epollVars, uringVars>>

Init == RpsInit /\ EpollInit /\ UringInit

Next ==
  \/ RpsNext /\ UNCHANGED <<epollVars, uringVars>>
  \/ EpollNext /\ UNCHANGED uringVars
  \/ UringNext /\ UNCHANGED epollVars

(***************************************************************************)
(* The threads of the generator, the server, an awake worker and the       *)
(* kernel are scheduled again and again; a worker need never sleep, and    *)
(* connections need never be refused.                                      *)
(***************************************************************************)
Fairness ==
  /\ WF_vars(Main /\ UNCHANGED <<epollVars, uringVars>>)
  /\ WF_vars(Refused /\ UNCHANGED <<epollVars, uringVars>>)
  /\ \A c \in Clients : WF_vars(Client(c) /\ UNCHANGED <<epollVars, uringVars>>)
  /\ WF_vars(server # "uring" /\ EpollServer /\ UNCHANGED uringVars)
  /\ WF_vars(server # "uring" /\ Perform /\ UNCHANGED uringVars)
  /\ WF_vars(server = "uring" /\ UringServer /\ UNCHANGED epollVars)
  /\ WF_vars(server = "uring" /\ UringKernel /\ UNCHANGED epollVars)

Spec == Init /\ [][Next]_vars /\ Fairness
-----------------------------------------------------------------------------
Finished == mpc \in {"report", "crashed", "exited"}

\* How many elements of a sequence, from position j on or in all, are in S.
CountFrom(seq, j, S) == Cardinality({i \in 1 .. Len(seq) : j <= i /\ seq[i] \in S})
Count(seq, S) == CountFrom(seq, 1, S)

\* How many of these entries and completions are in the rings of the io_uring
\* server or with the kernel.
InRings(entries, cqes) ==
  Count(cq, cqes) + Count(sq, entries) + Cardinality(ops \cap entries)

\* The receives of client c that brought a request, and the sends of an echo.
Requests(c) == {Cqe("READ", c, b, "ok") : b \in Bids}
Sends(c)    == {WRITE(c, b) : b \in Bids}

\* How many requests or echoes of client c are somewhere between its send and
\* its recv.
UnderWay(c) ==
  Len(c2s[c]) + Len(s2c[c]) + Count(queue, {c}) + InRings(Sends(c), Requests(c))

(***************************************************************************)
(* No request is lost, and none is echoed twice: while a client waits in   *)
(* recv exactly one request or echo of its own is under way, and none      *)
(* otherwise, whichever server it talks to (rps.c 94-95, the send of       *)
(* epoll_echo_server.c 94, the handlers of io_uring_echo_server.c).        *)
(***************************************************************************)
OneEcho ==
  gone = "no" => \A c \in Clients :
    ~hup[c] => UnderWay(c) = IF cpc[c] = "recv" THEN 1 ELSE 0

(***************************************************************************)
(* A client receives its own bytes from the epoll server on plain system   *)
(* calls and from the io_uring server, whose buffers are not reused before *)
(* the send that reads them is over.  With libesca the entry only points   *)
(* to the server's one buffer and the property does not hold.              *)
(***************************************************************************)
OwnBytes ==
  server # "esca" => \A c \in Clients : \A i \in 1 .. Len(s2c[c]) :
    s2c[c][i] = <<c, asked[c]>>

\* The entries and the completions that hold buffer b.
EntriesWith(b) == {WRITE(c, b) : c \in Clients} \cup {PROV_BUF(b)}
CqesWith(b)    == {Cqe("READ", c, b, r) : c \in Clients, r \in {"ok", "end"}}
                  \cup {Cqe("WRITE", c, b, "ok") : c \in Clients}

(***************************************************************************)
(* Each buffer of the io_uring server is in one place: in the kernel's     *)
(* group, in a completed receive, in a send, or in an entry that provides  *)
(* it again.  None leaks, and none is provided while it is in use.         *)
(***************************************************************************)
BuffersAccounted ==
  gone = "no" => \A b \in Bids :
    (IF b \in group THEN 1 ELSE 0) + InRings(EntriesWith(b), CqesWith(b)) = 1

(***************************************************************************)
(* "bufs in automatic buffer selection empty, this should not happen"      *)
(* (io_uring_echo_server.c 133): it does not when there is a buffer for    *)
(* each connection, and the entries of one round fit the submission ring   *)
(* (io_uring_get_sqe never returns NULL) when it has two for each.         *)
(***************************************************************************)
ServerSurvives ==
  /\ gone = "nobufs" => size.bufs < Cardinality(Clients)
  /\ gone = "sqfull" => size.sqes < 2 * Cardinality(Clients)

\* n is the sum of f over S: what adding up in some order comes to.
IsSum(n, f, S) ==
  \E order \in [1 .. Cardinality(S) -> S], sum \in [0 .. Cardinality(S) -> 0 .. n] :
    /\ \A c \in S : \E i \in DOMAIN order : order[i] = c
    /\ sum[0] = 0 /\ sum[Cardinality(S)] = n
    /\ \A i \in DOMAIN order : sum[i] = sum[i - 1] + f[order[i]]

(***************************************************************************)
(* The generator reports what happened (rps.c 103-105, 143-152): when it   *)
(* has joined its threads and the server has lived, the total counts every *)
(* request of every client, and each of them has been answered.            *)
(***************************************************************************)
ReportComplete ==
  mpc = "report" /\ gone = "no" => IsSum(total_success, asked, Clients)

(***************************************************************************)
(* "waiting for all workers to finish the measurement" (rps.c 142) ends:   *)
(* once the measurement has begun it ends, with the report or with the     *)
(* generator.                                                              *)
(***************************************************************************)
BenchEnds == mpc = "sleep" ~> Finished
=============================================================================
