---------------------------- MODULE CallBuffers ----------------------------
(***************************************************************************)
(* The memory a queued call refers to.  A wrapper returns before its call  *)
(* is performed, so it copies what the caller may change: mcached.c copies *)
(* a message into three pools (bytes, iovecs, headers), ngx_tls.c copies   *)
(* bytes, lighty.c keeps the file offset in an array with an element for   *)
(* each entry of a table.  The pools are used round and round, and nothing *)
(* tells a wrapper that the worker is done with a piece of a pool.         *)
(*                                                                         *)
(* A byte is <<n, k, b>>: byte b of piece k of call n.                     *)
(***************************************************************************)
EXTENDS Integers, Sequences

CONSTANTS
  Ratios,                       \* kernel workers per user worker, to try
  MAX_TABLE_LEN, MAX_TABLE_ENTRY,
  MAX_POOL_SIZE,                \* bytes in mpool
  MAX_POOL_IOV_SIZE, MAX_POOL_MSG_SIZE,  \* powers of two, so & MASK is % SIZE
  Longest,                      \* workload: most bytes of a copy
  MaxPieces,                    \* workload: most pieces of a message
  MaxOutstanding,               \* workload: calls the program lets wait in a table
  MaxCalls                      \* bound: calls made

N        == MAX_TABLE_LEN * MAX_TABLE_ENTRY
Lens     == 1 .. Longest
Messages == UNION {[1 .. n -> Lens] : n \in 1 .. MaxPieces}   \* lengths of their pieces

ASSUME BuffersAssumption ==
  /\ Ratios \subseteq Nat \ {0} /\ MaxCalls \in Nat
  /\ MAX_TABLE_LEN \in Nat \ {0} /\ MAX_TABLE_ENTRY \in Nat \ {0}
  /\ MaxOutstanding \in 0 .. N - 1
  /\ MAX_POOL_SIZE \in Nat /\ Longest \in 1 .. MAX_POOL_SIZE /\ MaxPieces \in Nat \ {0}
  /\ MAX_POOL_IOV_SIZE \in Nat \ {0} /\ MAX_POOL_MSG_SIZE \in Nat \ {0}

VARIABLES
  target,       \* the wrapper file the library is built with
  RATIO,
  mpool, iovpool, msgpool,               \* the pools
  pool_offset, iov_offset, msg_offset,   \* where each is used next
  sending,      \* the sendmsg under way, <<>> if there is none
  off_arr,      \* lighty.c: an offset for each entry of each table
  offset,       \* lighty's own offset in the file it sends
  tail,         \* tail position of each table
  queues,       \* calls written to each table and not yet performed
  calls,        \* number of calls made
  alloc         \* history: bytes, iovecs and headers used since the start

pools == <<mpool, iovpool, msgpool, pool_offset, iov_offset, msg_offset, alloc,
           sending>>
vars  == <<target, RATIO, pools, off_arr, offset, tail, queues, calls>>

Workers == 0 .. RATIO - 1

Init ==
  /\ target \in {"mcached", "ngx_tls", "lighty"} /\ RATIO \in Ratios
  /\ mpool = [a \in 0 .. MAX_POOL_SIZE - 1 |-> <<>>]
  /\ iovpool = [i \in 0 .. MAX_POOL_IOV_SIZE - 1 |-> <<>>]
  /\ msgpool = [i \in 0 .. MAX_POOL_MSG_SIZE - 1 |-> <<>>]
  /\ pool_offset = 0 /\ iov_offset = 0 /\ msg_offset = 0 /\ sending = <<>>
  /\ off_arr = [k \in Workers |-> [e \in 0 .. N - 1 |-> 0]] /\ offset = 0
  /\ tail = [k \in Workers |-> [table |-> 0, entry |-> 0]] /\ queues = [k \in Workers |-> <<>>]
  /\ calls = 0 /\ alloc = [bytes |-> 0, iovs |-> 0, msgs |-> 0]
-----------------------------------------------------------------------------
Bytes(n, k, len) == [b \in 1 .. len |-> <<n, k, b>>]

\* memcpy into the pool.
Copy(pool, at, bytes) ==
  [a \in DOMAIN pool |-> IF a \in at .. at + Len(bytes) - 1
                         THEN bytes[a - at + 1] ELSE pool[a]]

\* Faulty variant of PoolStart: the length is forgotten in the test.
PoolStartLate(off, len) == IF off > MAX_POOL_SIZE THEN 0 ELSE off

\* Faulty variant of PoolStart: a copy that just fits is moved to the start.
PoolStartEarly(off, len) == IF off + len >= MAX_POOL_SIZE THEN 0 ELSE off

\* Where a copy of len bytes goes: to the start of the pool if it does not fit.
PoolStart(off, len) == IF off + len > MAX_POOL_SIZE THEN 0 ELSE off

\* What a copy uses up, the bytes left free at the end of the pool included.
Spent(off, len) ==
  len + IF PoolStart(off, len) = off THEN 0 ELSE MAX_POOL_SIZE - off

\* The position after t in a ring of tables.
update_index(t) ==
  IF t.entry < MAX_TABLE_ENTRY - 1 THEN [table |-> t.table, entry |-> t.entry + 1]
  ELSE [table |-> (t.table + 1) % MAX_TABLE_LEN, entry |-> 0]

\* The program lets no more calls wait: an entry stays free (MaxOutstanding < N),
\* so the full test finds nothing to wait for and the table is the queue of
\* OffloadQueue.
MayCall(k) == calls < MaxCalls /\ Len(queues[k]) < MaxOutstanding

\* The entry at the tail is filled, the tail moves on and the entry is busy.
Submit(k, call) ==
  /\ calls' = calls + 1
  /\ tail' = [tail EXCEPT ![k] = update_index(@)]
  /\ queues' = [queues EXCEPT ![k] = Append(@, call)]
  /\ UNCHANGED <<target, RATIO>>

\* sendmsg(sockfd, msg) with pieces of the lengths lens, to table k: "check out
\* of bound".  The workers go on while the pieces are copied.
mcached_sendmsg(k, lens) ==
  /\ target = "mcached" /\ sending = <<>> /\ MayCall(k)
  /\ msg_offset' = msg_offset % MAX_POOL_MSG_SIZE
  /\ iov_offset' = iov_offset % MAX_POOL_IOV_SIZE
  /\ sending' = [table |-> k, lens |-> lens, at |-> alloc, iov |-> iov_offset', meant |-> <<>>]
  /\ UNCHANGED <<target, RATIO, mpool, iovpool, msgpool, pool_offset, alloc,
                 off_arr, offset, tail, queues, calls>>

\* A turn of its loop: the next piece is copied and gets an iovec.
sendmsg_piece ==
  LET p   == Len(sending.meant) + 1
      len == sending.lens[p]
      at  == PoolStart(pool_offset, len)
      io  == iov_offset % MAX_POOL_IOV_SIZE
      src == Bytes(calls + 1, p, len)
  IN  /\ sending # <<>> /\ p <= Len(sending.lens)
      /\ mpool' = Copy(mpool, at, src)
      /\ iovpool' = [iovpool EXCEPT ![io] = [base |-> at, len |-> len]]
      /\ pool_offset' = at + len /\ iov_offset' = io + 1
      /\ alloc' = [bytes |-> alloc.bytes + Spent(pool_offset, len), iovs |-> alloc.iovs + 1,
                   msgs |-> alloc.msgs]
      /\ sending' = [table |-> sending.table, lens |-> sending.lens, at |-> sending.at,
                     iov |-> sending.iov, meant |-> Append(sending.meant, src)]
      /\ UNCHANGED <<target, RATIO, msgpool, msg_offset, off_arr, offset, tail, queues, calls>>

\* After the loop: the header is filled and the call is queued.
sendmsg_submit ==
  /\ sending # <<>> /\ Len(sending.meant) = Len(sending.lens)
  /\ msgpool' = [msgpool EXCEPT ![msg_offset] =
                   [iov |-> sending.iov, iovlen |-> Len(sending.meant)]]
  /\ msg_offset' = msg_offset + 1
  /\ alloc' = [bytes |-> alloc.bytes, iovs |-> alloc.iovs, msgs |-> alloc.msgs + 1]
  /\ Submit(sending.table, [msg |-> msg_offset, at |-> sending.at, iov |-> sending.iov,
                            meant |-> sending.meant])
  /\ sending' = <<>>
  /\ UNCHANGED <<mpool, iovpool, pool_offset, iov_offset, off_arr, offset>>

\* write(fd, buf, len): the bytes are copied, and the offset moves on.
ngx_tls_write(k, len) ==
  LET at == PoolStart(pool_offset, len)
      n  == calls + 1
  IN  /\ target = "ngx_tls" /\ MayCall(k)
      /\ mpool' = Copy(mpool, at, Bytes(n, 1, len))
      /\ pool_offset' = at + len
      /\ alloc' = [bytes |-> alloc.bytes + Spent(pool_offset, len), iovs |-> alloc.iovs,
                   msgs |-> alloc.msgs]
      /\ Submit(k, [base |-> at, len |-> len, at |-> alloc,
                    meant |-> Bytes(n, 1, len)])
      /\ UNCHANGED <<iovpool, msgpool, iov_offset, msg_offset, sending, off_arr, offset>>

\* Faulty variant of OffIndex: the table is forgotten.
OffIndexEntry(i, j) == j

\* The element of off_arr for entry j of table i.
OffIndex(i, j) == i * MAX_TABLE_ENTRY + j

\* sendfile64(out_fd, in_fd, &offset, len): the offset is kept for the worker
\* and advanced for the caller.
lighty_sendfile64(k, len) ==
  LET e == OffIndex(tail[k].table, tail[k].entry)
  IN  /\ target = "lighty" /\ MayCall(k)
      /\ off_arr' = [off_arr EXCEPT ![k][e] = offset]
      /\ offset' = offset + len
      /\ Submit(k, [off |-> e, len |-> len, meant |-> offset])
      /\ UNCHANGED pools

\* What the kernel reads for a queued call c of table k, at this moment.
Iovec(i)  == IF i \in DOMAIN iovpool THEN iovpool[i] ELSE <<>>
At(a, len) == [b \in 1 .. len |-> mpool[a + b - 1]]
Reads(k, c) ==
  CASE target = "lighty"  -> off_arr[k][c.off]
    [] target = "ngx_tls" -> At(c.base, c.len)
    [] target = "mcached" ->
         [i \in 1 .. msgpool[c.msg].iovlen |->
            LET v == Iovec(msgpool[c.msg].iov + i - 1)
            IN  IF v = <<>> THEN <<>> ELSE At(v.base, v.len)]

\* The worker of table k performs the oldest call; sendfile advances the offset
\* it was given.
worker(k) ==
  /\ queues[k] # <<>>
  /\ queues' = [queues EXCEPT ![k] = Tail(@)]
  /\ LET c == Head(queues[k]) IN
       off_arr' = IF target = "lighty" THEN [off_arr EXCEPT ![k][c.off] = @ + c.len]
                  ELSE off_arr
  /\ UNCHANGED <<target, RATIO, pools, offset, tail, calls>>

Next ==
  \/ \E k \in Workers :
       \/ \E lens \in Messages : mcached_sendmsg(k, lens)
       \/ \E len \in Lens : ngx_tls_write(k, len) \/ lighty_sendfile64(k, len)
       \/ worker(k)
  \/ sendmsg_piece
  \/ sendmsg_submit

Spec == Init /\ [][Next]_vars
-----------------------------------------------------------------------------
\* The offsets stay inside the pools: no copy runs past the end of mpool, which
\* is what the test before each memcpy is for, and no index past its array.
OffsetsInPools ==
  /\ pool_offset \in 0 .. MAX_POOL_SIZE
  /\ iov_offset \in 0 .. MAX_POOL_IOV_SIZE
  /\ msg_offset \in 0 .. MAX_POOL_MSG_SIZE
  /\ \A k \in Workers :
       tail[k] \in [table : 0 .. MAX_TABLE_LEN - 1, entry : 0 .. MAX_TABLE_ENTRY - 1]

Queued(k) == {queues[k][i] : i \in 1 .. Len(queues[k])}

\* No pool has gone round since call c was queued.
NotLapped(c) ==
  target = "lighty" \/ /\ alloc.bytes - c.at.bytes <= MAX_POOL_SIZE
                       /\ alloc.iovs - c.at.iovs <= MAX_POOL_IOV_SIZE
                       /\ alloc.msgs - c.at.msgs <= MAX_POOL_MSG_SIZE

\* The iovecs of call c do not run over the end of iovpool.  "check out of
\* bound" (mcached.c 13) keeps each index in the array, and not the message.
InOnePiece(c) ==
  target = "mcached" => c.iov + Len(c.meant) <= MAX_POOL_IOV_SIZE

(***************************************************************************)
(* What a wrapper was given is what the kernel will read, at every moment  *)
(* until the call is performed and however late that is: for a sendfile of *)
(* lighttpd always, for a copy in the pools as long as they have not gone  *)
(* round and the message does not run over the end of iovpool.             *)
(***************************************************************************)
SentAsMeant ==
  \A k \in Workers : \A c \in Queued(k) :
    NotLapped(c) /\ InOnePiece(c) => Reads(k, c) = c.meant

(***************************************************************************)
(* With one kernel worker, and pools as large as the calls that may wait   *)
(* can need, no pool goes round past a queued call: a copy leaves less     *)
(* than one piece free at the end of mpool (the test before the memcpy).   *)
(* (With two workers it does not hold: one table can stand still while     *)
(* calls to the other go round the pools.)                                 *)
(***************************************************************************)
PoolsHoldTable ==
  /\ RATIO = 1
  /\ MaxOutstanding <= MAX_POOL_MSG_SIZE
  /\ MaxOutstanding * MaxPieces <= MAX_POOL_IOV_SIZE
  /\ MaxOutstanding * MaxPieces * Longest + Longest - 1 <= MAX_POOL_SIZE
  => \A k \in Workers : \A c \in Queued(k) : NotLapped(c)
=============================================================================
