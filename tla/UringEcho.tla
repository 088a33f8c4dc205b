----------------------------- MODULE UringEcho -----------------------------
(***************************************************************************)
(* The echo server echo/io_uring_echo_server.c and the part of io_uring it *)
(* uses.  The server's one loop submits what it has prepared, waits for a  *)
(* completion and handles every completion there is.  A receive takes a    *)
(* buffer of the group the server has provided to the kernel; the send of  *)
(* the echo holds the buffer, and the server provides it again afterwards. *)
(***************************************************************************)
EXTENDS Rps

CONSTANTS
  Sizes  \* the [bufs, sqes] to try: BUFFERS_COUNT and the submission entries

ASSUME SizesAssumption == Sizes \subseteq [bufs : Nat \ {0}, sqes : Nat \ {0}]

VARIABLES
  size,     \* the member of Sizes this server is built with
  reaping,  \* in the loop over the completions
  sq,       \* submission entries prepared, in order
  ops,      \* entries the kernel is working on
  cq,       \* completions, in order
  group,    \* buffers the kernel may choose from
  bufs      \* the bytes of each buffer

uringVars == <<size, reaping, sq, ops, cq, group, bufs>>

Bids == 0 .. size.bufs - 1
NoBid == -1

\* Submission entries; completions have the same user_data and a result.
ACCEPT      == [type |-> "ACCEPT"]
READ(c)     == [type |-> "READ", fd |-> c]
WRITE(c, b) == [type |-> "WRITE", fd |-> c, bid |-> b]
PROV_BUF(b) == [type |-> "PROV_BUF", bid |-> b]
Cqe(type, c, b, res) == [type |-> type, fd |-> c, bid |-> b, res |-> res]

\* The start-up provides all buffers, and prepares the first accept.
UringInit ==
  /\ size \in Sizes
  /\ reaping = FALSE /\ sq = <<ACCEPT>> /\ ops = {} /\ cq = <<>>
  /\ group = Bids /\ bufs = [b \in Bids |-> nothing]
-----------------------------------------------------------------------------
\* io_uring_submit_and_wait: the entries are issued in order.  Buffers are
\* provided at once, everything else may take its time.
submit ==
  /\ ~reaping /\ sq # <<>>
  /\ sq' = Tail(sq)
  /\ LET e == Head(sq) IN
       IF e.type = "PROV_BUF"
       THEN /\ group' = group \cup {e.bid}
            /\ cq' = Append(cq, Cqe("PROV_BUF", nothing, e.bid, "ok"))
            /\ ops' = ops
       ELSE ops' = ops \cup {e} /\ UNCHANGED <<group, cq>>
  /\ UNCHANGED <<size, reaping, bufs, rpsVars>>

wait_cqe ==
  /\ ~reaping /\ sq = <<>> /\ cq # <<>>
  /\ reaping' = TRUE
  /\ UNCHANGED <<size, sq, ops, cq, group, bufs, rpsVars>>

\* io_uring_get_sqe for each of the entries; it returns NULL when the ring is
\* full, and the server crashes.
add(entries) ==
  IF Len(sq) + Len(entries) <= size.sqes
  THEN sq' = sq \o entries /\ gone' = gone
  ELSE sq' = sq /\ gone' = "sqfull"

\* What the server prepares when it sees a completion e.
OnAccept(e) == (IF e.res = "ok" THEN <<READ(e.fd)>> ELSE <<>>) \o <<ACCEPT>>

\* Faulty variants of OnRead: the buffer of a failed receive is kept, or the
\* buffer is provided again together with the send that reads it.
OnReadKeep(e) == IF e.res = "ok" THEN <<WRITE(e.fd, e.bid)>> ELSE <<>>
OnReadEarly(e) ==
  (IF e.res = "ok" THEN <<WRITE(e.fd, e.bid)>> ELSE <<>>) \o <<PROV_BUF(e.bid)>>

OnRead(e) ==
  IF e.res = "ok" THEN <<WRITE(e.fd, e.bid)>> ELSE <<PROV_BUF(e.bid)>>

\* Faulty variant of OnWrite: the next receive comes before the buffer.
OnWriteReadFirst(e) == <<READ(e.fd), PROV_BUF(e.bid)>>

OnWrite(e) == <<PROV_BUF(e.bid), READ(e.fd)>>

Entries(e) == CASE e.type = "ACCEPT" -> OnAccept(e)
                [] e.type = "READ"   -> OnRead(e)
                [] e.type = "WRITE"  -> OnWrite(e)
                [] OTHER             -> <<>>

\* One completion of the loop: it ends the server when no buffer was left.
for_each_cqe ==
  /\ reaping /\ cq # <<>>
  /\ cq' = Tail(cq)
  /\ IF Head(cq).res = "ENOBUFS" THEN gone' = "nobufs" /\ sq' = sq
     ELSE add(Entries(Head(cq)))
  /\ UNCHANGED <<size, reaping, ops, group, bufs, server, refusals>>
  /\ UNCHANGED <<threads, counts, net>>

cq_advance ==
  /\ reaping /\ cq = <<>>
  /\ reaping' = FALSE
  /\ UNCHANGED <<size, sq, ops, cq, group, bufs, rpsVars>>

UringServer == gone = "no" /\ (submit \/ wait_cqe \/ for_each_cqe \/ cq_advance)
-----------------------------------------------------------------------------
\* The kernel completes an operation e with a completion.
Complete(e, cqe) ==
  /\ e \in ops
  /\ ops' = ops \ {e}
  /\ cq' = Append(cq, cqe)
  /\ UNCHANGED <<size, reaping, sq, server, threads, counts, gone>>

KernelAccept ==
  /\ backlog # <<>> /\ backlog' = Tail(backlog)
  /\ Complete(ACCEPT, Cqe("ACCEPT", Head(backlog), NoBid, "ok"))
  /\ UNCHANGED <<group, bufs, refusals, c2s, s2c, hup>>

\* The system refuses a descriptor, and the connection keeps waiting.
KernelRefuse ==
  /\ backlog # <<>> /\ refusals > 0 /\ refusals' = refusals - 1
  /\ Complete(ACCEPT, Cqe("ACCEPT", nothing, NoBid, "error"))
  /\ UNCHANGED <<group, bufs, net>>

KernelNoBufs(c) ==
  /\ Readable(c) /\ group = {}
  /\ Complete(READ(c), Cqe("READ", c, NoBid, "ENOBUFS"))
  /\ UNCHANGED <<group, bufs, refusals, net>>

\* Bytes are received into a buffer of the group; at the end of the stream a
\* buffer is taken too.
KernelRead(c) ==
  /\ Readable(c)
  /\ \E b \in group :
       /\ group' = group \ {b}
       /\ IF c2s[c] # <<>>
          THEN /\ bufs' = [bufs EXCEPT ![b] = Head(c2s[c])] /\ Take(c)
               /\ Complete(READ(c), Cqe("READ", c, b, "ok"))
          ELSE /\ UNCHANGED <<bufs, c2s>>
               /\ Complete(READ(c), Cqe("READ", c, b, "end"))
  /\ UNCHANGED <<refusals, backlog, s2c, hup>>

KernelWrite(c, b) ==
  /\ Deliver(c, bufs[b])
  /\ Complete(WRITE(c, b), Cqe("WRITE", c, b, "ok"))
  /\ UNCHANGED <<group, bufs, refusals, backlog, c2s, hup>>

UringKernel ==
  /\ gone = "no"
  /\ \/ KernelAccept \/ KernelRefuse
     \/ \E c \in Clients : \/ KernelNoBufs(c) \/ KernelRead(c)
                           \/ \E b \in Bids : KernelWrite(c, b)

UringNext == server = "uring" /\ (UringServer \/ UringKernel)
=============================================================================
