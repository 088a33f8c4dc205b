-------------------------- MODULE CallBuffersProof --------------------------
(***************************************************************************)
(* The pools of CallBuffers: the types, where the copies go and what a     *)
(* further copy leaves as it is; then that what a queued call refers to is *)
(* there until the call is performed, and that a pool as large as the      *)
(* table does not go round past a queued call.                             *)
(***************************************************************************)
EXTENDS CallBuffers, TLAPS

Alloc     == [bytes : Nat, iovs : Nat, msgs : Nat]
Byte      == Nat \X Nat \X Nat
Pieces    == {m \in Seq(Byte) : Len(m) >= 1}
Mem       == [0 .. MAX_POOL_SIZE - 1 -> Byte \cup {<<>>}]
Iovecs    == {<<>>} \cup [base : Nat, len : Lens]
IovMem    == [0 .. MAX_POOL_IOV_SIZE - 1 -> Iovecs]
Headers   == {<<>>} \cup [iov : Nat, iovlen : Nat]
HeaderMem == [0 .. MAX_POOL_MSG_SIZE - 1 -> Headers]
Positions == [table : 0 .. MAX_TABLE_LEN - 1, entry : 0 .. MAX_TABLE_ENTRY - 1]

McachedCall == [msg : 0 .. MAX_POOL_MSG_SIZE - 1, at : Alloc,
                iov : 0 .. MAX_POOL_IOV_SIZE - 1, meant : Seq(Pieces)]
TlsCall     == [base : Nat, len : Lens, at : Alloc, meant : Pieces]
LightyCall  == [off : 0 .. N - 1, len : Lens, meant : Nat]

\* What a sendmsg under way consists of.
SendType == [table : Workers, lens : Messages, at : Alloc,
             iov : 0 .. MAX_POOL_IOV_SIZE - 1, meant : Seq(Pieces)]

TypeOK ==
  /\ target \in {"mcached", "ngx_tls", "lighty"} /\ RATIO \in Nat \ {0}
  /\ mpool \in Mem
  /\ iovpool \in IovMem
  /\ msgpool \in HeaderMem
  /\ pool_offset \in 0 .. MAX_POOL_SIZE
  /\ iov_offset \in 0 .. MAX_POOL_IOV_SIZE
  /\ msg_offset \in 0 .. MAX_POOL_MSG_SIZE
  /\ off_arr \in [Workers -> [0 .. N - 1 -> Nat]] /\ offset \in Nat
  /\ tail \in [Workers -> Positions]
  /\ calls \in Nat /\ alloc \in Alloc
  /\ target = "mcached" => queues \in [Workers -> Seq(McachedCall)]
  /\ target = "ngx_tls" => queues \in [Workers -> Seq(TlsCall)]
  /\ target = "lighty"  => queues \in [Workers -> Seq(LightyCall)]
  /\ sending # <<>> => /\ target = "mcached" /\ sending \in SendType
                       /\ Len(sending.meant) <= Len(sending.lens)
                       /\ msg_offset < MAX_POOL_MSG_SIZE
-----------------------------------------------------------------------------
(* The operators *)

\* The sizes are numbers.
LEMMA Sizes ==
  /\ MAX_POOL_SIZE \in Nat /\ MAX_POOL_IOV_SIZE \in Nat /\ MAX_POOL_MSG_SIZE \in Nat
  /\ Longest \in Nat /\ MaxPieces \in Nat
BY BuffersAssumption

\* So is what has been used.
LEMMA AllocParts ==
  \A al \in Alloc : al.bytes \in Nat /\ al.iovs \in Nat /\ al.msgs \in Nat
BY DEF Alloc

\* A piece has a byte at least.
LEMMA PieceSeq ==
  \A m \in Pieces : m \in Seq(Byte) /\ Len(m) \in Nat \ {0}
BY DEF Pieces

\* A message is a sequence of lengths, with a piece at least and MaxPieces at most.
LEMMA MessageSeq ==
  ASSUME NEW lens \in Messages
  PROVE  lens \in Seq(Lens) /\ Len(lens) \in 1 .. MaxPieces
<1>1. PICK n \in 1 .. MaxPieces : lens \in [1 .. n -> Lens]
  BY DEF Messages
<1>2. n \in Nat /\ MaxPieces \in Nat
  BY BuffersAssumption
<1>3. lens \in Seq(Lens)
  BY <1>1, <1>2
<1> QED BY <1>1, <1>2, <1>3

\* The bytes of a piece.
LEMMA BytesType ==
  ASSUME NEW n \in Nat, NEW k \in Nat, NEW len \in Nat
  PROVE  /\ Bytes(n, k, len) \in Seq(Byte) /\ Len(Bytes(n, k, len)) = len
         /\ len # 0 => Bytes(n, k, len) \in Pieces
<1>1. Bytes(n, k, len) \in [1 .. len -> Byte]
  BY DEF Bytes, Byte
<1> QED BY <1>1 DEF Bytes, Pieces

\* A copy is put where it fits, at the offset or at the start of the pool.
LEMMA PoolStartFits ==
  ASSUME NEW off \in 0 .. MAX_POOL_SIZE, NEW len \in Lens
  PROVE  /\ PoolStart(off, len) \in {0, off}
         /\ PoolStart(off, len) + len \in 1 .. MAX_POOL_SIZE
         /\ len \in Nat \ {0}
         /\ Spent(off, len) \in Nat
BY BuffersAssumption DEF PoolStart, Spent, Lens

\* memcpy changes the bytes it copies to and no others.
LEMMA CopyType ==
  ASSUME NEW pool \in Mem,
         NEW at \in Nat, NEW bytes \in Seq(Byte), at + Len(bytes) <= MAX_POOL_SIZE
  PROVE  /\ Copy(pool, at, bytes) \in Mem
         /\ \A b \in 1 .. Len(bytes) : Copy(pool, at, bytes)[at + b - 1] = bytes[b]
         /\ \A a \in 0 .. MAX_POOL_SIZE - 1 :
              a < at \/ at + Len(bytes) <= a => Copy(pool, at, bytes)[a] = pool[a]
<1>1. MAX_POOL_SIZE \in Nat /\ Len(bytes) \in Nat
  BY BuffersAssumption
<1>2. \A a \in at .. at + Len(bytes) - 1 : bytes[a - at + 1] \in Byte
  BY <1>1
<1>3. Copy(pool, at, bytes) \in Mem
  BY <1>1, <1>2 DEF Copy, Mem
<1>4. \A b \in 1 .. Len(bytes) :
        at + b - 1 \in 0 .. MAX_POOL_SIZE - 1 /\ at + b - 1 \in at .. at + Len(bytes) - 1
        /\ at + b - 1 - at + 1 = b
  BY <1>1
<1> QED BY <1>1, <1>3, <1>4 DEF Copy, Mem

\* x & MASK, for an offset that may be one past the end.
LEMMA Masked ==
  ASSUME NEW size \in Nat \ {0}, NEW x \in 0 .. size
  PROVE  x % size = IF x = size THEN 0 ELSE x
BY SMTT(30), Z3

\* The position after t is a position of the ring.
LEMMA UpdateIndexType ==
  ASSUME NEW t \in Positions
  PROVE  update_index(t) \in Positions
BY BuffersAssumption DEF update_index, Positions
-----------------------------------------------------------------------------
(* Types, and with them OffsetsInPools *)

\* The start of a sendmsg keeps the types: the masks put the offsets in range.
LEMMA SendmsgType ==
  ASSUME TypeOK, NEW k \in Workers, NEW lens \in Messages, mcached_sendmsg(k, lens)
  PROVE  TypeOK'
<1>1. /\ iov_offset' \in 0 .. MAX_POOL_IOV_SIZE - 1 /\ msg_offset' \in 0 .. MAX_POOL_MSG_SIZE - 1
      /\ iov_offset' \in 0 .. MAX_POOL_IOV_SIZE /\ msg_offset' \in 0 .. MAX_POOL_MSG_SIZE
      /\ msg_offset' < MAX_POOL_MSG_SIZE
  <2>1. iov_offset \in 0 .. MAX_POOL_IOV_SIZE /\ msg_offset \in 0 .. MAX_POOL_MSG_SIZE
    BY DEF TypeOK
  <2>2. /\ iov_offset' = iov_offset % MAX_POOL_IOV_SIZE
        /\ msg_offset' = msg_offset % MAX_POOL_MSG_SIZE
    BY DEF mcached_sendmsg
  <2> QED BY <2>1, <2>2, Masked, BuffersAssumption
<1>2. lens \in Seq(Lens) /\ Len(lens) \in 1 .. MaxPieces
  BY MessageSeq
<1>3. /\ sending' \in SendType /\ Len(sending'.meant) <= Len(sending'.lens)
  BY <1>1, <1>2, BuffersAssumption DEF TypeOK, mcached_sendmsg, SendType
<1>4. Workers' = Workers /\ SendType' = SendType
  BY DEF mcached_sendmsg, Workers, SendType
<1> QED BY <1>1, <1>3, <1>4 DEF TypeOK, mcached_sendmsg

\* A turn of the loop keeps the types: the copy fits.
LEMMA PieceType ==
  ASSUME TypeOK, sendmsg_piece
  PROVE  TypeOK'
<1> DEFINE p   == Len(sending.meant) + 1
           len == sending.lens[p]
           at  == PoolStart(pool_offset, len)
           src == Bytes(calls + 1, p, len)
<1>1. /\ sending \in SendType /\ sending # <<>> /\ p <= Len(sending.lens)
      /\ sending.lens \in Messages /\ sending.meant \in Seq(Pieces) /\ p \in Nat \ {0}
  BY SMTT(60), Z3 DEF TypeOK, sendmsg_piece, SendType
<1>a. /\ pool_offset \in 0 .. MAX_POOL_SIZE /\ calls + 1 \in Nat /\ alloc \in Alloc
      /\ iov_offset \in 0 .. MAX_POOL_IOV_SIZE
      /\ mpool \in Mem
  BY DEF TypeOK
<1>2. sending.lens \in Seq(Lens)
  BY <1>1, MessageSeq
<1>3. len \in Lens
  BY <1>1, <1>2
<1>4. at \in Nat /\ at + len \in 1 .. MAX_POOL_SIZE /\ len \in Nat \ {0} /\ Spent(pool_offset, len) \in Nat
  <2> HIDE DEF p, len
  <2>1. /\ PoolStart(pool_offset, len) \in {0, pool_offset}
        /\ PoolStart(pool_offset, len) + len \in 1 .. MAX_POOL_SIZE
        /\ len \in Nat \ {0} /\ Spent(pool_offset, len) \in Nat
    BY <1>a, <1>3, PoolStartFits
  <2> QED BY <1>a, <2>1
<1>5. src \in Pieces /\ src \in Seq(Byte) /\ Len(src) = len
  <2>1. p \in Nat /\ len \in Nat /\ len # 0 /\ calls + 1 \in Nat
    BY <1>a, <1>1, <1>4
  <2> HIDE DEF p, len
  <2> QED BY <2>1, BytesType, Zenon
<1> HIDE DEF p, len, at, src
<1>6. mpool' \in Mem
  <2>1. mpool' = Copy(mpool, at, src)
    BY DEF sendmsg_piece, at, src, len, p
  <2>2. at + Len(src) <= MAX_POOL_SIZE
    BY <1>4, <1>5, BuffersAssumption
  <2> QED BY <2>1, <2>2, <1>a, <1>4, <1>5, CopyType, Zenon
<1>7. /\ pool_offset' \in 0 .. MAX_POOL_SIZE /\ iov_offset' \in 0 .. MAX_POOL_IOV_SIZE
  <2>1. pool_offset' = at + len /\ iov_offset' = (iov_offset % MAX_POOL_IOV_SIZE) + 1
    BY DEF sendmsg_piece, at, len, p
  <2> QED BY <2>1, <1>a, <1>4, Masked, BuffersAssumption
<1>8. alloc' \in Alloc
  <2>1. alloc' = [bytes |-> alloc.bytes + Spent(pool_offset, len), iovs |-> alloc.iovs + 1,
                  msgs |-> alloc.msgs]
    BY DEF sendmsg_piece, len, p
  <2> QED BY <2>1, <1>a, <1>4 DEF Alloc
<1>9. iovpool' \in IovMem
  <2>1. iovpool' = [iovpool EXCEPT ![iov_offset % MAX_POOL_IOV_SIZE] = [base |-> at, len |-> len]]
    BY DEF sendmsg_piece, at, len, p
  <2>2. [base |-> at, len |-> len] \in Iovecs
    BY <1>3, <1>4 DEF Iovecs
  <2>3. iovpool \in IovMem
    BY DEF TypeOK
  <2> QED BY <2>1, <2>2, <2>3, Zenon DEF IovMem
<1>10. /\ sending' \in SendType /\ Len(sending'.meant) <= Len(sending'.lens)
  <2>1. sending' = [table |-> sending.table, lens |-> sending.lens, at |-> sending.at,
                    iov |-> sending.iov, meant |-> Append(sending.meant, src)]
    BY DEF sendmsg_piece, src, len, p
  <2>2. Append(sending.meant, src) \in Seq(Pieces) /\ Len(Append(sending.meant, src)) = p
    BY <1>1, <1>5 DEF p
  <2> QED BY <2>1, <2>2, <1>1 DEF SendType
<1>11. Workers' = Workers /\ SendType' = SendType /\ UNCHANGED <<target, RATIO, msgpool, msg_offset,
          off_arr, offset, tail, queues, calls>>
  BY DEF sendmsg_piece, Workers, SendType
<1>12. target = "mcached" /\ msg_offset < MAX_POOL_MSG_SIZE
  BY <1>1 DEF TypeOK
<1> QED BY <1>6, <1>7, <1>8, <1>9, <1>10, <1>11, <1>12 DEF TypeOK

\* Queueing a call of the right kind keeps the types of tail and queue.
LEMMA SubmitType ==
  ASSUME TypeOK, NEW k \in Workers, NEW T, NEW call \in T, queues \in [Workers -> Seq(T)],
         Submit(k, call)
  PROVE  /\ queues' \in [Workers -> Seq(T)] /\ tail' \in [Workers -> Positions] /\ calls' \in Nat
         /\ Workers' = Workers /\ target' = target /\ RATIO' = RATIO
<1>1. update_index(tail[k]) \in Positions
  BY UpdateIndexType DEF TypeOK
<1>2. Append(queues[k], call) \in Seq(T)
  OBVIOUS
<1> QED BY <1>1, <1>2 DEF TypeOK, Submit, Workers

\* The end of a sendmsg keeps the types: msg_offset is an index of msgpool.
LEMMA SendmsgSubmitType ==
  ASSUME TypeOK, sendmsg_submit
  PROVE  TypeOK'
<1> DEFINE call == [msg |-> msg_offset, at |-> sending.at, iov |-> sending.iov,
                    meant |-> sending.meant]
<1>1. /\ sending \in SendType /\ sending # <<>> /\ target = "mcached"
      /\ msg_offset < MAX_POOL_MSG_SIZE /\ msg_offset \in 0 .. MAX_POOL_MSG_SIZE
  BY DEF TypeOK, sendmsg_submit
<1>2. call \in McachedCall /\ sending.table \in Workers
  BY <1>1, BuffersAssumption DEF SendType, McachedCall
<1>3. Submit(sending.table, call)
  BY DEF sendmsg_submit
<1> HIDE DEF call
<1>4. /\ queues' \in [Workers -> Seq(McachedCall)] /\ tail' \in [Workers -> Positions]
      /\ calls' \in Nat /\ Workers' = Workers /\ target' = target /\ RATIO' = RATIO
  BY <1>1, <1>2, <1>3, SubmitType DEF TypeOK
<1>5. /\ msgpool' \in HeaderMem
      /\ msg_offset' \in 0 .. MAX_POOL_MSG_SIZE
  <2>1. msgpool \in HeaderMem
    BY DEF TypeOK
  <2>2. [iov |-> sending.iov, iovlen |-> Len(sending.meant)] \in Headers
    BY <1>1 DEF SendType, Headers
  <2>3. /\ msgpool' = [msgpool EXCEPT ![msg_offset] =
                         [iov |-> sending.iov, iovlen |-> Len(sending.meant)]]
        /\ msg_offset' = msg_offset + 1
    BY DEF sendmsg_submit
  <2> QED BY <1>1, <2>1, <2>2, <2>3, BuffersAssumption DEF HeaderMem
<1>6. alloc' \in Alloc
  BY DEF TypeOK, Alloc, sendmsg_submit
<1>7. /\ sending' = <<>> /\ UNCHANGED <<mpool, iovpool, pool_offset, iov_offset, off_arr, offset>>
  BY DEF sendmsg_submit
<1> QED BY <1>1, <1>4, <1>5, <1>6, <1>7 DEF TypeOK

\* write keeps the types.
LEMMA WriteType ==
  ASSUME TypeOK, NEW k \in Workers, NEW len \in Lens, ngx_tls_write(k, len)
  PROVE  TypeOK'
<1> DEFINE at   == PoolStart(pool_offset, len)
           src  == Bytes(calls + 1, 1, len)
           call == [base |-> at, len |-> len, at |-> alloc, meant |-> src]
<1>a. /\ pool_offset \in 0 .. MAX_POOL_SIZE /\ calls + 1 \in Nat /\ alloc \in Alloc
      /\ mpool \in Mem
  BY DEF TypeOK
<1>1. at \in Nat /\ at + len \in 1 .. MAX_POOL_SIZE /\ len \in Nat \ {0} /\ Spent(pool_offset, len) \in Nat
  BY <1>a, PoolStartFits
<1>2. src \in Pieces /\ src \in Seq(Byte) /\ Len(src) = len
  <2>1. 1 \in Nat /\ len \in Nat /\ len # 0 /\ calls + 1 \in Nat
    BY <1>a, <1>1
  <2> QED BY <2>1, BytesType
<1> HIDE DEF at, src
<1>3. call \in TlsCall
  BY <1>a, <1>1, <1>2 DEF TlsCall
<1>4. Submit(k, call)
  BY DEF ngx_tls_write, at, src
<1>5. target = "ngx_tls" /\ mpool' = Copy(mpool, at, src) /\ pool_offset' = at + len
      /\ alloc' = [bytes |-> alloc.bytes + Spent(pool_offset, len), iovs |-> alloc.iovs,
                   msgs |-> alloc.msgs]
      /\ UNCHANGED <<iovpool, msgpool, iov_offset, msg_offset, sending, off_arr, offset>>
  BY DEF ngx_tls_write, at, src
<1> HIDE DEF call
<1>6. /\ queues' \in [Workers -> Seq(TlsCall)] /\ tail' \in [Workers -> Positions]
      /\ calls' \in Nat /\ Workers' = Workers /\ target' = target /\ RATIO' = RATIO
  BY <1>3, <1>4, <1>5, SubmitType DEF TypeOK
<1>7. mpool' \in Mem
  BY <1>a, <1>1, <1>2, <1>5, CopyType, BuffersAssumption
<1>8. alloc' \in Alloc /\ pool_offset' \in 0 .. MAX_POOL_SIZE
  BY <1>a, <1>1, <1>5 DEF Alloc
<1> QED BY <1>5, <1>6, <1>7, <1>8 DEF TypeOK

\* The element of off_arr for a position of the ring.
LEMMA OffIndexType ==
  ASSUME NEW t \in Positions
  PROVE  OffIndex(t.table, t.entry) \in 0 .. N - 1
<1>1. PICK i \in 0 .. MAX_TABLE_LEN - 1, j \in 0 .. MAX_TABLE_ENTRY - 1 : i = t.table /\ j = t.entry
  BY DEF Positions
<1>2. i * MAX_TABLE_ENTRY <= (MAX_TABLE_LEN - 1) * MAX_TABLE_ENTRY
  BY BuffersAssumption, SMTT(30), Z3
<1>3. (MAX_TABLE_LEN - 1) * MAX_TABLE_ENTRY = N - MAX_TABLE_ENTRY /\ N \in Nat
      /\ i * MAX_TABLE_ENTRY \in Nat
  BY BuffersAssumption, SMTT(30), Z3 DEF N
<1> QED BY <1>1, <1>2, <1>3, BuffersAssumption DEF OffIndex

\* sendfile64 keeps the types.
LEMMA SendfileType ==
  ASSUME TypeOK, NEW k \in Workers, NEW len \in Lens, lighty_sendfile64(k, len)
  PROVE  TypeOK'
<1> DEFINE e    == OffIndex(tail[k].table, tail[k].entry)
           call == [off |-> e, len |-> len, meant |-> offset]
<1>1. e \in 0 .. N - 1 /\ len \in Nat
  BY OffIndexType, BuffersAssumption DEF TypeOK, Lens
<1>2. call \in LightyCall
  BY <1>1 DEF TypeOK, LightyCall
<1>3. Submit(k, call) /\ target = "lighty" /\ off_arr' = [off_arr EXCEPT ![k][e] = offset]
      /\ offset' = offset + len /\ UNCHANGED pools
  BY DEF lighty_sendfile64
<1> HIDE DEF e, call
<1>4. /\ queues' \in [Workers -> Seq(LightyCall)] /\ tail' \in [Workers -> Positions]
      /\ calls' \in Nat /\ Workers' = Workers /\ target' = target /\ RATIO' = RATIO
  BY <1>2, <1>3, SubmitType DEF TypeOK
<1>5. off_arr' \in [Workers -> [0 .. N - 1 -> Nat]] /\ offset' \in Nat
  BY <1>1, <1>3 DEF TypeOK
<1> QED BY <1>3, <1>4, <1>5 DEF TypeOK, pools

\* Performing a call keeps the types.
LEMMA WorkerType ==
  ASSUME TypeOK, NEW k \in Workers, worker(k)
  PROVE  TypeOK'
<1>1. /\ UNCHANGED <<target, RATIO, pools, offset, tail, calls>> /\ Workers' = Workers
      /\ SendType' = SendType
  BY DEF worker, Workers, SendType
<1>2. ASSUME NEW T, queues \in [Workers -> Seq(T)]
      PROVE  queues' \in [Workers -> Seq(T)] /\ Head(queues[k]) \in T
  BY <1>2 DEF worker
<1>3. off_arr' \in [Workers -> [0 .. N - 1 -> Nat]]
  <2>1. CASE target # "lighty"
    BY <2>1 DEF worker, TypeOK
  <2>2. CASE target = "lighty"
    <3>1. Head(queues[k]) \in LightyCall
      BY <2>2, <1>2 DEF TypeOK
    <3>2. Head(queues[k]).off \in 0 .. N - 1 /\ Head(queues[k]).len \in Nat
      BY <3>1, BuffersAssumption DEF LightyCall, Lens
    <3>3. off_arr[k] \in [0 .. N - 1 -> Nat]
      BY DEF TypeOK
    <3> QED BY <2>2, <3>2, <3>3 DEF worker, TypeOK
  <2> QED BY <2>1, <2>2
<1>4. /\ target = "mcached" => queues' \in [Workers -> Seq(McachedCall)]
      /\ target = "ngx_tls" => queues' \in [Workers -> Seq(TlsCall)]
      /\ target = "lighty"  => queues' \in [Workers -> Seq(LightyCall)]
  BY <1>2, Zenon DEF TypeOK
<1> QED BY <1>1, <1>3, <1>4 DEF TypeOK, pools

\* Every step keeps the types.
LEMMA TypeStep == TypeOK /\ [Next]_vars => TypeOK'
<1> SUFFICES ASSUME TypeOK, [Next]_vars PROVE TypeOK'
  OBVIOUS
<1>1. CASE UNCHANGED vars
  BY <1>1 DEF TypeOK, vars, pools, Workers, SendType
<1> QED BY <1>1, SendmsgType, PieceType, SendmsgSubmitType, WriteType, SendfileType, WorkerType, Zenon
        DEF Next

\* The variables start with their types.
LEMMA TypeInit == Init => TypeOK
BY BuffersAssumption DEF Init, TypeOK, Workers, N, Positions, Alloc, Mem, IovMem, HeaderMem,
         Iovecs, Headers
-----------------------------------------------------------------------------
(* Rounds of a pool *)

\* n bytes (iovecs, headers) used since the start leave the next one at off.
Lap(n, size, off) == \E q \in Nat : n = q * size + off

\* & MASK starts the next round.
LEMMA LapMask ==
  ASSUME NEW size \in Nat \ {0}, NEW x \in 0 .. size, NEW n \in Nat, Lap(n, size, x)
  PROVE  Lap(n, size, x % size)
<1>1. PICK q \in Nat : n = q * size + x
  BY DEF Lap
<1>2. (q + 1) * size = q * size + size
  OBVIOUS
<1>3. CASE x = size
  <2>1. n = (q + 1) * size + 0 /\ x % size = 0
    BY <1>1, <1>2, <1>3, Masked
  <2>2. q + 1 \in Nat
    OBVIOUS
  <2>3. Lap(n, size, 0)
    BY <2>1, <2>2, Zenon DEF Lap
  <2> QED BY <2>1, <2>3
<1>4. CASE x # size
  BY <1>1, <1>4, Masked, Zenon DEF Lap
<1> QED BY <1>3, <1>4

\* What is used moves the offset on.
LEMMA LapAdd ==
  ASSUME NEW size \in Nat, NEW x \in Nat, NEW n \in Nat, NEW d \in Nat, Lap(n, size, x)
  PROVE  Lap(n + d, size, x + d)
<1>1. PICK q \in Nat : n = q * size + x
  BY DEF Lap
<1>2. q * size \in Nat
  OBVIOUS
<1>3. n + d = q * size + (x + d)
  BY <1>1, <1>2
<1> QED BY <1>3 DEF Lap

\* A later round is a whole pool further.
LEMMA Rounds ==
  ASSUME NEW size \in Nat, NEW p \in Nat, NEW q \in Nat, p < q
  PROVE  p * size + size <= q * size
<1>1. (p + 1) * size <= q * size
  BY SMTT(30), Z3
<1> QED BY <1>1, SMTT(30), Z3

\* An offset inside the pool is determined by what is used.
LEMMA LapUnique ==
  ASSUME NEW size \in Nat, NEW n \in Nat, NEW x \in 0 .. size - 1, NEW y \in 0 .. size - 1,
         Lap(n, size, x), Lap(n, size, y)
  PROVE  x = y
<1>1. PICK p \in Nat : n = p * size + x
  BY ZenonT(60) DEF Lap
<1>2. PICK q \in Nat : n = q * size + y
  BY DEF Lap
<1>3. p * size \in Nat /\ q * size \in Nat
  OBVIOUS
<1>4. CASE p < q
  BY <1>1, <1>2, <1>3, <1>4, Rounds
<1>5. CASE q < p
  BY <1>1, <1>2, <1>3, <1>5, Rounds
<1>6. CASE p = q
  BY <1>1, <1>2, <1>3, <1>6
<1> QED BY <1>4, <1>5, <1>6

\* Two pieces of a pool, used one after the other and within a pool's length, do
\* not overlap.
LEMMA Apart ==
  ASSUME NEW size \in Nat, NEW v \in Nat, NEW w \in Nat, NEW base \in Nat, NEW at \in Nat,
         NEW len \in Nat \ {0}, NEW more \in Nat \ {0},
         Lap(v, size, base), Lap(w, size, at), base + len <= size, at + more <= size,
         v + len <= w, w + more <= v + size
  PROVE  base + len <= at \/ at + more <= base
<1>1. PICK p \in Nat : v = p * size + base
  BY DEF Lap
<1>2. PICK q \in Nat : w = q * size + at
  BY DEF Lap
<1>3. p * size \in Nat /\ q * size \in Nat
  OBVIOUS
<1>4. CASE p < q
  BY <1>1, <1>2, <1>3, <1>4, Rounds
<1>5. CASE q < p
  BY <1>1, <1>2, <1>3, <1>5, Rounds
<1>6. CASE p = q
  BY <1>1, <1>2, <1>3, <1>6
<1> QED BY <1>4, <1>5, <1>6

\* Where a copy goes, counted in bytes used: nothing between what was used and
\* the copy but the bytes left free at the end of the pool.
LEMMA LapCopy ==
  ASSUME NEW n \in Nat, NEW off \in 0 .. MAX_POOL_SIZE, NEW len \in Lens,
         Lap(n, MAX_POOL_SIZE, off)
  PROVE  \E v \in Nat : /\ Lap(v, MAX_POOL_SIZE, PoolStart(off, len)) /\ n <= v
                        /\ n + Spent(off, len) = v + len
                        /\ Lap(v + len, MAX_POOL_SIZE, PoolStart(off, len) + len)
<1>0. MAX_POOL_SIZE \in Nat /\ len \in Nat
  BY BuffersAssumption DEF Lens
<1>1. PICK v \in Nat : Lap(v, MAX_POOL_SIZE, PoolStart(off, len)) /\ n <= v
                       /\ n + Spent(off, len) = v + len
  <2>1. CASE PoolStart(off, len) = off
    BY <1>0, <2>1 DEF Spent
  <2>2. CASE PoolStart(off, len) # off
    <3>1. PICK q \in Nat : n = q * MAX_POOL_SIZE + off
      BY DEF Lap
    <3>2. (q + 1) * MAX_POOL_SIZE = q * MAX_POOL_SIZE + MAX_POOL_SIZE /\ q * MAX_POOL_SIZE \in Nat
      BY <1>0
    <3>3. PoolStart(off, len) = 0
      BY <2>2 DEF PoolStart
    <3>4. n + (MAX_POOL_SIZE - off) = (q + 1) * MAX_POOL_SIZE + 0 /\ n + (MAX_POOL_SIZE - off) \in Nat
      BY <1>0, <3>1, <3>2
    <3>5. Lap(n + (MAX_POOL_SIZE - off), MAX_POOL_SIZE, 0)
      BY <3>4 DEF Lap
    <3>6. Spent(off, len) = len + (MAX_POOL_SIZE - off)
      BY <2>2 DEF Spent
    <3> QED BY <1>0, <3>3, <3>4, <3>5, <3>6
  <2> QED BY <2>1, <2>2
<1>2. PoolStart(off, len) \in Nat
  BY PoolStartFits
<1>3. Lap(v + len, MAX_POOL_SIZE, PoolStart(off, len) + len)
  BY <1>0, <1>1, <1>2, LapAdd
<1> QED BY <1>1, <1>3
-----------------------------------------------------------------------------
(* What a queued call refers to *)

\* The bytes m lie at base in the pool, and were put there after `from' bytes of
\* the `used' bytes so far.
InMem(pool, used, from, base, m) ==
  /\ base + Len(m) <= MAX_POOL_SIZE
  /\ \E v \in Nat : Lap(v, MAX_POOL_SIZE, base) /\ from <= v /\ v + Len(m) <= used
  /\ \A b \in 1 .. Len(m) : pool[base + b - 1] = m[b]

\* A copy leaves the bytes of an earlier one alone, unless the pool has gone round.
LEMMA MemKept ==
  ASSUME NEW pool \in Mem, NEW used \in Nat,
         NEW from \in Nat, NEW base \in Nat, NEW m \in Pieces,
         InMem(pool, used, from, base, m),
         NEW w \in Nat, NEW at \in Nat, NEW src \in Pieces, Lap(w, MAX_POOL_SIZE, at),
         at + Len(src) <= MAX_POOL_SIZE, used <= w, w + Len(src) - from <= MAX_POOL_SIZE
  PROVE  InMem(Copy(pool, at, src), w + Len(src), from, base, m)
<1>1. /\ MAX_POOL_SIZE \in Nat /\ m \in Seq(Byte) /\ src \in Seq(Byte)
      /\ Len(m) \in Nat \ {0} /\ Len(src) \in Nat \ {0}
  BY BuffersAssumption DEF Pieces
<1>2. PICK v \in Nat : Lap(v, MAX_POOL_SIZE, base) /\ from <= v /\ v + Len(m) <= used
  BY DEF InMem
<1>3. base + Len(m) <= MAX_POOL_SIZE
  BY DEF InMem
<1>4. base + Len(m) <= at \/ at + Len(src) <= base
  <2>1. v + Len(m) <= w /\ w + Len(src) <= v + MAX_POOL_SIZE
    BY <1>1, <1>2
  <2> QED BY <1>1, <1>2, <1>3, <2>1, Apart, Zenon
<1>5. \A b \in 1 .. Len(m) : /\ base + b - 1 \in 0 .. MAX_POOL_SIZE - 1
                             /\ base + b - 1 < at \/ at + Len(src) <= base + b - 1
  BY <1>1, <1>3, <1>4, SMTT(30), Z3
<1>6. \A b \in 1 .. Len(m) : Copy(pool, at, src)[base + b - 1] = m[b]
  <2>1. \A a \in 0 .. MAX_POOL_SIZE - 1 :
          a < at \/ at + Len(src) <= a => Copy(pool, at, src)[a] = pool[a]
    BY <1>1, CopyType
  <2> QED BY <1>5, <2>1 DEF InMem
<1> QED BY <1>1, <1>2, <1>3, <1>6, SMTT(60), Z3 DEF InMem

\* The bytes copied are in the pool.
LEMMA MemNew ==
  ASSUME NEW pool \in Mem, NEW from \in Nat,
         NEW w \in Nat, NEW at \in Nat, NEW src \in Pieces, Lap(w, MAX_POOL_SIZE, at),
         at + Len(src) <= MAX_POOL_SIZE, from <= w
  PROVE  InMem(Copy(pool, at, src), w + Len(src), from, at, src)
<1>1. src \in Seq(Byte) /\ Len(src) \in Nat
  BY DEF Pieces
<1>2. \A b \in 1 .. Len(src) : Copy(pool, at, src)[at + b - 1] = src[b]
  BY <1>1, CopyType
<1> QED BY <1>1, <1>2 DEF InMem

\* The iovec in the slot leads to the bytes m.
Iov(pool, iovs, used, from, slot, m) ==
  \E base \in Nat : /\ iovs[slot] = [base |-> base, len |-> Len(m)]
                    /\ InMem(pool, used, from, base, m)

\* No pool has gone round since from.
Fresh(al, from) ==
  /\ al.bytes - from.bytes <= MAX_POOL_SIZE
  /\ al.iovs - from.iovs <= MAX_POOL_IOV_SIZE
  /\ al.msgs - from.msgs <= MAX_POOL_MSG_SIZE

\* The iovecs from iov on of a message, queued or still being copied, lead to its bytes.
Message(pool, iovs, al, from, iov, meant) ==
  /\ Lap(from.iovs, MAX_POOL_IOV_SIZE, iov)
  /\ from.iovs + Len(meant) <= al.iovs
  /\ Fresh(al, from) /\ iov + Len(meant) <= MAX_POOL_IOV_SIZE =>
       \A i \in 1 .. Len(meant) : Iov(pool, iovs, al.bytes, from.bytes, iov + i - 1, meant[i])

\* The header of a queued message leads to its iovecs.
Header(hdrs, al, from, msg, iov, meant) ==
  /\ Lap(from.msgs, MAX_POOL_MSG_SIZE, msg) /\ from.msgs < al.msgs
  /\ Fresh(al, from) => hdrs[msg] = [iov |-> iov, iovlen |-> Len(meant)]

\* What has been used only grows, so a call that is fresh was fresh before.
LEMMA FreshBefore ==
  ASSUME NEW al \in Alloc, NEW bl \in Alloc, NEW from \in Alloc, Fresh(bl, from),
         al.bytes <= bl.bytes, al.iovs <= bl.iovs, al.msgs <= bl.msgs
  PROVE  Fresh(al, from)
BY Sizes, AllocParts DEF Fresh

\* A further piece leaves the iovec of an earlier one and its bytes as they are,
\* unless a pool goes round.
LEMMA IovKept ==
  ASSUME NEW pool \in Mem, NEW iovs \in IovMem, NEW used \in Nat, NEW from \in Nat,
         NEW slot \in 0 .. MAX_POOL_IOV_SIZE - 1, NEW m \in Pieces,
         Iov(pool, iovs, used, from, slot, m),
         NEW w \in Nat, NEW at \in Nat, NEW src \in Pieces, Lap(w, MAX_POOL_SIZE, at),
         at + Len(src) <= MAX_POOL_SIZE, used <= w,
         NEW now \in Nat, now = w + Len(src), now - from <= MAX_POOL_SIZE,
         NEW n \in Nat, Lap(n, MAX_POOL_IOV_SIZE, slot),
         NEW t \in Nat, NEW io \in 0 .. MAX_POOL_IOV_SIZE - 1, Lap(t, MAX_POOL_IOV_SIZE, io),
         n + 1 <= t, t + 1 <= n + MAX_POOL_IOV_SIZE, NEW v
  PROVE  Iov(Copy(pool, at, src), [iovs EXCEPT ![io] = v], now, from, slot, m)
<1>1. PICK base \in Nat : /\ iovs[slot] = [base |-> base, len |-> Len(m)]
                          /\ InMem(pool, used, from, base, m)
  BY Zenon DEF Iov
<1>2. InMem(Copy(pool, at, src), now, from, base, m)
  <2>1. w + Len(src) - from <= MAX_POOL_SIZE
    BY SMTT(60), Z3
  <2>2. InMem(Copy(pool, at, src), w + Len(src), from, base, m)
    BY <1>1, <2>1, MemKept, Zenon
  <2> QED BY <2>2, Zenon
<1>3. slot # io
  <2>1. /\ MAX_POOL_IOV_SIZE \in Nat /\ slot \in Nat /\ io \in Nat /\ 1 \in Nat \ {0}
        /\ slot + 1 <= MAX_POOL_IOV_SIZE /\ io + 1 <= MAX_POOL_IOV_SIZE
    BY Sizes
  <2>2. slot + 1 <= io \/ io + 1 <= slot
    BY <2>1, Apart, Zenon
  <2> QED BY <2>1, <2>2
<1>4. [iovs EXCEPT ![io] = v][slot] = iovs[slot]
  BY <1>3 DEF IovMem
<1> QED BY <1>1, <1>2, <1>4, Zenon DEF Iov

\* What a piece adds to the memory used.
LEMMA UsedGrows ==
  ASSUME NEW al \in Alloc, NEW bl \in Alloc, NEW w \in Nat, NEW src \in Pieces,
         al.bytes <= w, bl.bytes = w + Len(src), bl.iovs = al.iovs + 1, bl.msgs = al.msgs
  PROVE  al.bytes <= bl.bytes /\ al.iovs <= bl.iovs /\ al.msgs <= bl.msgs
<1>1. al.bytes \in Nat /\ al.iovs \in Nat /\ al.msgs \in Nat /\ Len(src) \in Nat
  BY AllocParts, PieceSeq
<1> QED BY <1>1

\* Where the iovec of piece i is, and why a further one is not put in its place.
LEMMA SlotOf ==
  ASSUME NEW iov \in 0 .. MAX_POOL_IOV_SIZE - 1, NEW n \in Nat, NEW len \in Nat, NEW t \in Nat,
         iov + len <= MAX_POOL_IOV_SIZE, n + len <= t,
         NEW now \in Nat, now = t + 1, now - n <= MAX_POOL_IOV_SIZE,
         NEW i \in 1 .. len, Lap(n, MAX_POOL_IOV_SIZE, iov)
  PROVE  /\ iov + i - 1 \in 0 .. MAX_POOL_IOV_SIZE - 1
         /\ n + (i - 1) \in Nat /\ Lap(n + (i - 1), MAX_POOL_IOV_SIZE, iov + i - 1)
         /\ n + (i - 1) + 1 <= t /\ t + 1 <= n + (i - 1) + MAX_POOL_IOV_SIZE
<1>1. MAX_POOL_IOV_SIZE \in Nat /\ i - 1 \in Nat /\ iov \in Nat /\ iov + i - 1 = iov + (i - 1)
  BY Sizes
<1>2. Lap(n + (i - 1), MAX_POOL_IOV_SIZE, iov + i - 1)
  BY <1>1, LapAdd, Zenon
<1> QED BY <1>1, <1>2

\* A further piece leaves a message as it is, unless a pool goes round.
LEMMA MessageKept ==
  ASSUME NEW pool \in Mem, NEW iovs \in IovMem, NEW al \in Alloc,
         NEW from \in Alloc, NEW iov \in 0 .. MAX_POOL_IOV_SIZE - 1, NEW meant \in Seq(Pieces),
         Message(pool, iovs, al, from, iov, meant),
         NEW w \in Nat, NEW at \in Nat, NEW src \in Pieces, Lap(w, MAX_POOL_SIZE, at),
         at + Len(src) <= MAX_POOL_SIZE, al.bytes <= w,
         NEW io \in 0 .. MAX_POOL_IOV_SIZE - 1, Lap(al.iovs, MAX_POOL_IOV_SIZE, io),
         NEW v, NEW bl \in Alloc, bl.bytes = w + Len(src), bl.iovs = al.iovs + 1, bl.msgs = al.msgs
  PROVE  Message(Copy(pool, at, src), [iovs EXCEPT ![io] = v], bl, from, iov, meant)
<1>1. /\ al.bytes \in Nat /\ al.iovs \in Nat /\ from.bytes \in Nat /\ from.iovs \in Nat
      /\ Len(meant) \in Nat
  BY AllocParts
<1>2. Lap(from.iovs, MAX_POOL_IOV_SIZE, iov) /\ from.iovs + Len(meant) <= al.iovs
  BY DEF Message
<1>3. ASSUME Fresh(bl, from), iov + Len(meant) <= MAX_POOL_IOV_SIZE,
             NEW i \in 1 .. Len(meant)
      PROVE  Iov(Copy(pool, at, src), [iovs EXCEPT ![io] = v], bl.bytes, from.bytes,
                 iov + i - 1, meant[i])
  <2>1. Fresh(al, from)
    <3>1. al.bytes <= bl.bytes /\ al.iovs <= bl.iovs /\ al.msgs <= bl.msgs
      BY UsedGrows
    <3> QED BY <1>3, <3>1, FreshBefore
  <2>2. Iov(pool, iovs, al.bytes, from.bytes, iov + i - 1, meant[i])
    BY <2>1, <1>3 DEF Message
  <2>3. meant[i] \in Pieces
    OBVIOUS
  <2>4. /\ bl.bytes - from.bytes <= MAX_POOL_SIZE /\ bl.iovs - from.iovs <= MAX_POOL_IOV_SIZE
        /\ bl.bytes \in Nat /\ bl.iovs \in Nat
    BY <1>3, AllocParts, Zenon DEF Fresh
  <2>5. /\ iov + i - 1 \in 0 .. MAX_POOL_IOV_SIZE - 1
        /\ from.iovs + (i - 1) \in Nat
        /\ Lap(from.iovs + (i - 1), MAX_POOL_IOV_SIZE, iov + i - 1)
        /\ from.iovs + (i - 1) + 1 <= al.iovs
        /\ al.iovs + 1 <= from.iovs + (i - 1) + MAX_POOL_IOV_SIZE
    BY <1>1, <1>2, <1>3, <2>4, SlotOf, ZenonT(60)
  <2> QED BY <1>1, <2>2, <2>3, <2>4, <2>5, IovKept, Zenon
<1>4. from.iovs + Len(meant) <= bl.iovs
  BY <1>1, <1>2, SMTT(30), Z3
<1> QED BY <1>2, <1>3, <1>4, ZenonT(60) DEF Message

\* A further header leaves that of a queued message as it is, unless msgpool goes round.
LEMMA HeaderKept ==
  ASSUME NEW hdrs \in HeaderMem, NEW al \in Alloc,
         NEW from \in Alloc, NEW msg \in 0 .. MAX_POOL_MSG_SIZE - 1, NEW iov, NEW meant,
         Header(hdrs, al, from, msg, iov, meant),
         NEW slot \in 0 .. MAX_POOL_MSG_SIZE - 1, Lap(al.msgs, MAX_POOL_MSG_SIZE, slot),
         NEW v, NEW bl \in Alloc, bl.bytes = al.bytes, bl.iovs = al.iovs, bl.msgs = al.msgs + 1
  PROVE  Header([hdrs EXCEPT ![slot] = v], bl, from, msg, iov, meant)
<1>1. /\ MAX_POOL_MSG_SIZE \in Nat /\ al.bytes \in Nat /\ al.iovs \in Nat /\ al.msgs \in Nat
      /\ from.msgs \in Nat
  BY Sizes, AllocParts
<1>2. Lap(from.msgs, MAX_POOL_MSG_SIZE, msg) /\ from.msgs < al.msgs /\ from.msgs < bl.msgs
  BY <1>1, SMTT(60), Z3 DEF Header
<1>3. ASSUME Fresh(bl, from)
      PROVE  hdrs[msg] = [iov |-> iov, iovlen |-> Len(meant)] /\ slot # msg
  <2>1. al.bytes <= bl.bytes /\ al.iovs <= bl.iovs /\ al.msgs <= bl.msgs
    BY <1>1
  <2>2. hdrs[msg] = [iov |-> iov, iovlen |-> Len(meant)]
    BY <2>1, <1>3, FreshBefore DEF Header
  <2>3. from.msgs + 1 <= al.msgs /\ al.msgs + 1 <= from.msgs + MAX_POOL_MSG_SIZE
    BY <1>1, <1>2, <1>3 DEF Fresh
  <2>4. /\ msg + 1 <= MAX_POOL_MSG_SIZE /\ slot + 1 <= MAX_POOL_MSG_SIZE
        /\ slot \in Nat /\ msg \in Nat /\ 1 \in Nat \ {0}
    BY <1>1
  <2>5. msg + 1 <= slot \/ slot + 1 <= msg
    BY <1>1, <1>2, <2>3, <2>4, Apart, ZenonT(60)
  <2> QED BY <2>2, <2>4, <2>5
<1> QED BY <1>2, <1>3 DEF Header, HeaderMem

\* A header stays as it is while more of the pools is used and msgpool is not written.
LEMMA HeaderLater ==
  ASSUME NEW hdrs, NEW al \in Alloc, NEW bl \in Alloc, NEW from \in Alloc, NEW msg, NEW iov,
         NEW meant, Header(hdrs, al, from, msg, iov, meant),
         al.bytes <= bl.bytes, al.iovs <= bl.iovs, al.msgs <= bl.msgs
  PROVE  Header(hdrs, bl, from, msg, iov, meant)
<1>1. from.msgs < bl.msgs
  BY AllocParts DEF Header
<1>2. Fresh(bl, from) => Fresh(al, from)
  BY FreshBefore
<1> QED BY <1>1, <1>2, Zenon DEF Header

\* So does a message while mpool and iovpool are not written.
LEMMA MessageLater ==
  ASSUME NEW pool, NEW iovs, NEW al \in Alloc, NEW bl \in Alloc, NEW from \in Alloc, NEW iov,
         NEW meant, Message(pool, iovs, al, from, iov, meant),
         bl.bytes = al.bytes, bl.iovs = al.iovs, bl.msgs = al.msgs + 1
  PROVE  Message(pool, iovs, bl, from, iov, meant)
<1>1. al.bytes <= bl.bytes /\ al.iovs <= bl.iovs /\ al.msgs <= bl.msgs
  BY AllocParts
<1>2. Fresh(bl, from) => Fresh(al, from)
  BY <1>1, FreshBefore
<1> QED BY <1>2, Zenon DEF Message

\* A message of which the next piece and its iovec have been put in place.
LEMMA MessageAppend ==
  ASSUME NEW pool \in Mem, NEW iovs \in IovMem, NEW bl \in Alloc, NEW from \in Alloc,
         NEW iov \in 0 .. MAX_POOL_IOV_SIZE - 1, NEW meant \in Seq(Pieces),
         Message(pool, iovs, bl, from, iov, meant), NEW src \in Pieces,
         from.iovs + Len(meant) + 1 <= bl.iovs,
         iov + Len(meant) + 1 <= MAX_POOL_IOV_SIZE =>
           Iov(pool, iovs, bl.bytes, from.bytes, iov + (Len(meant) + 1) - 1, src)
  PROVE  Message(pool, iovs, bl, from, iov, Append(meant, src))
<1> DEFINE more == Append(meant, src)
<1>1. /\ Len(more) = Len(meant) + 1 /\ Len(meant) \in Nat /\ more[Len(meant) + 1] = src
      /\ \A i \in 1 .. Len(meant) : more[i] = meant[i]
  OBVIOUS
<1> HIDE DEF more
<1>2. Lap(from.iovs, MAX_POOL_IOV_SIZE, iov) /\ from.iovs + Len(more) <= bl.iovs
  BY <1>1, AllocParts, SMTT(60), Z3 DEF Message
<1>3. ASSUME Fresh(bl, from), iov + Len(more) <= MAX_POOL_IOV_SIZE, NEW i \in 1 .. Len(more)
      PROVE  Iov(pool, iovs, bl.bytes, from.bytes, iov + i - 1, more[i])
  <2>1. CASE i = Len(meant) + 1
    <3>1. iov + Len(meant) + 1 <= MAX_POOL_IOV_SIZE
      BY <1>1, <1>3, Sizes
    <3> QED BY <1>1, <2>1, <3>1, Zenon
  <2>2. CASE i # Len(meant) + 1
    <3>1. i \in 1 .. Len(meant) /\ iov + Len(meant) <= MAX_POOL_IOV_SIZE
      BY <1>1, <1>3, <2>2, Sizes
    <3>2. Iov(pool, iovs, bl.bytes, from.bytes, iov + i - 1, meant[i])
      BY <1>3, <3>1, Zenon DEF Message
    <3> QED BY <1>1, <3>1, <3>2, ZenonT(60)
  <2> QED BY <2>1, <2>2
<1> QED BY <1>2, <1>3, Zenon DEF Message, more

\* The copies go on where the offsets say.
Laps ==
  /\ Lap(alloc.bytes, MAX_POOL_SIZE, pool_offset)
  /\ Lap(alloc.iovs, MAX_POOL_IOV_SIZE, iov_offset)
  /\ Lap(alloc.msgs, MAX_POOL_MSG_SIZE, msg_offset)

\* A turn of sendmsg's loop, in terms of the bytes and iovecs used.
PieceTo(w, at, src, io) ==
  /\ Lap(w, MAX_POOL_SIZE, at) /\ at + Len(src) <= MAX_POOL_SIZE /\ alloc.bytes <= w
  /\ Lap(alloc.iovs, MAX_POOL_IOV_SIZE, io)
  /\ mpool' = Copy(mpool, at, src)
  /\ iovpool' = [iovpool EXCEPT ![io] = [base |-> at, len |-> Len(src)]]
  /\ alloc'.bytes = w + Len(src) /\ alloc'.iovs = alloc.iovs + 1 /\ alloc'.msgs = alloc.msgs
  /\ pool_offset' = at + Len(src) /\ iov_offset' = io + 1
  /\ sending'.at = sending.at /\ sending'.iov = sending.iov
  /\ sending'.meant = Append(sending.meant, src)

\* Such a turn is one.
LEMMA PieceStep ==
  ASSUME TypeOK, Laps, sendmsg_piece
  PROVE  \E w \in Nat, at \in Nat, src \in Pieces, io \in 0 .. MAX_POOL_IOV_SIZE - 1 :
           PieceTo(w, at, src, io)
<1> DEFINE p   == Len(sending.meant) + 1
           len == sending.lens[p]
           at  == PoolStart(pool_offset, len)
           src == Bytes(calls + 1, p, len)
           io  == iov_offset % MAX_POOL_IOV_SIZE
<1>1. /\ sending \in SendType /\ sending # <<>> /\ p <= Len(sending.lens)
      /\ sending.lens \in Messages /\ p \in Nat \ {0}
  <2>1. sending # <<>> /\ p <= Len(sending.lens)
    BY DEF sendmsg_piece
  <2>2. sending \in SendType
    BY <2>1, Zenon DEF TypeOK
  <2>3. sending.lens \in Messages /\ sending.meant \in Seq(Pieces)
    BY <2>2 DEF SendType
  <2> QED BY <2>1, <2>2, <2>3, SMTT(60), Z3
<1>2. /\ pool_offset \in 0 .. MAX_POOL_SIZE /\ calls + 1 \in Nat /\ alloc \in Alloc
      /\ iov_offset \in 0 .. MAX_POOL_IOV_SIZE
  BY DEF TypeOK
<1>3. len \in Lens
  <2>1. sending.lens \in Seq(Lens)
    BY <1>1, MessageSeq, Zenon
  <2> QED BY <1>1, <2>1
<1>4. /\ mpool' = Copy(mpool, at, src)
      /\ iovpool' = [iovpool EXCEPT ![io] = [base |-> at, len |-> len]]
      /\ alloc' = [bytes |-> alloc.bytes + Spent(pool_offset, len), iovs |-> alloc.iovs + 1,
                   msgs |-> alloc.msgs]
      /\ pool_offset' = at + len /\ iov_offset' = io + 1
      /\ sending' = [table |-> sending.table, lens |-> sending.lens, at |-> sending.at,
                     iov |-> sending.iov, meant |-> Append(sending.meant, src)]
  BY DEF sendmsg_piece
<1> HIDE DEF p, len
<1>5. /\ at \in Nat /\ at + len <= MAX_POOL_SIZE /\ len \in Nat /\ len # 0
  <2>1. PoolStart(pool_offset, len) \in {0, pool_offset} /\ len \in Nat \ {0}
        /\ PoolStart(pool_offset, len) + len \in 1 .. MAX_POOL_SIZE
    BY <1>2, <1>3, PoolStartFits
  <2> QED BY <1>2, <2>1
<1>6. src \in Pieces /\ Len(src) = len
  BY <1>1, <1>2, <1>5, BytesType, ZenonT(60)
<1>7. PICK w \in Nat : Lap(w, MAX_POOL_SIZE, at) /\ alloc.bytes <= w
                       /\ alloc.bytes + Spent(pool_offset, len) = w + len
  BY <1>2, <1>3, AllocParts, LapCopy DEF Laps
<1>8. io \in 0 .. MAX_POOL_IOV_SIZE - 1 /\ Lap(alloc.iovs, MAX_POOL_IOV_SIZE, io)
  <2>1. MAX_POOL_IOV_SIZE \in Nat \ {0} /\ alloc.iovs \in Nat
    BY <1>2, AllocParts, BuffersAssumption
  <2> QED BY <1>2, <2>1, Masked, LapMask DEF Laps
<1> HIDE DEF at, src, io
<1>9. /\ alloc'.bytes = w + len /\ alloc'.iovs = alloc.iovs + 1 /\ alloc'.msgs = alloc.msgs
      /\ sending'.at = sending.at /\ sending'.iov = sending.iov
      /\ sending'.meant = Append(sending.meant, src)
  BY <1>4, <1>7
<1> QED BY <1>4, <1>5, <1>6, <1>7, <1>8, <1>9, Zenon DEF PieceTo

\* A write, in terms of the bytes used.
WriteTo(w, at, src, k, len) ==
  /\ Lap(w, MAX_POOL_SIZE, at) /\ at + Len(src) <= MAX_POOL_SIZE /\ alloc.bytes <= w
  /\ mpool' = Copy(mpool, at, src) /\ Len(src) = len
  /\ alloc'.bytes = w + Len(src) /\ alloc'.iovs = alloc.iovs /\ alloc'.msgs = alloc.msgs
  /\ pool_offset' = at + Len(src)
  /\ queues' = [queues EXCEPT ![k] =
        Append(@, [base |-> at, len |-> len, at |-> alloc, meant |-> src])]

\* Such a write is one.
LEMMA WriteStep ==
  ASSUME TypeOK, Laps, NEW k \in Workers, NEW len \in Lens, ngx_tls_write(k, len)
  PROVE  \E w \in Nat, at \in Nat, src \in Pieces : WriteTo(w, at, src, k, len)
<1> DEFINE at  == PoolStart(pool_offset, len)
           src == Bytes(calls + 1, 1, len)
<1>2. /\ pool_offset \in 0 .. MAX_POOL_SIZE /\ calls + 1 \in Nat /\ alloc \in Alloc
  BY DEF TypeOK
<1>4. /\ mpool' = Copy(mpool, at, src)
      /\ alloc' = [bytes |-> alloc.bytes + Spent(pool_offset, len), iovs |-> alloc.iovs,
                   msgs |-> alloc.msgs]
      /\ pool_offset' = at + len
      /\ queues' = [queues EXCEPT ![k] =
            Append(@, [base |-> at, len |-> len, at |-> alloc, meant |-> src])]
  BY DEF ngx_tls_write, Submit
<1>5. /\ at \in Nat /\ at + len <= MAX_POOL_SIZE /\ len \in Nat /\ len # 0
  <2>1. PoolStart(pool_offset, len) \in {0, pool_offset} /\ len \in Nat \ {0}
        /\ PoolStart(pool_offset, len) + len \in 1 .. MAX_POOL_SIZE
    BY <1>2, PoolStartFits
  <2> QED BY <1>2, <2>1
<1>6. src \in Pieces /\ Len(src) = len
  BY <1>2, <1>5, BytesType, Zenon
<1>7. PICK w \in Nat : Lap(w, MAX_POOL_SIZE, at) /\ alloc.bytes <= w
                       /\ alloc.bytes + Spent(pool_offset, len) = w + len
  BY <1>2, AllocParts, LapCopy DEF Laps
<1> HIDE DEF at, src
<1>9. /\ alloc'.bytes = w + len /\ alloc'.iovs = alloc.iovs /\ alloc'.msgs = alloc.msgs
  BY <1>4, <1>7
<1> QED BY <1>4, <1>5, <1>6, <1>7, <1>9, Zenon DEF WriteTo

\* Every step leaves the offsets where the rounds say.
LEMMA LapsStep ==
  ASSUME TypeOK, TypeOK', Laps, [Next]_vars
  PROVE  Laps'
<1>0. /\ alloc.bytes \in Nat /\ alloc.iovs \in Nat /\ alloc.msgs \in Nat
      /\ iov_offset \in 0 .. MAX_POOL_IOV_SIZE /\ msg_offset \in 0 .. MAX_POOL_MSG_SIZE
      /\ msg_offset \in Nat
      /\ MAX_POOL_SIZE \in Nat /\ MAX_POOL_IOV_SIZE \in Nat \ {0} /\ MAX_POOL_MSG_SIZE \in Nat \ {0}
  <2>1. alloc \in Alloc /\ iov_offset \in 0 .. MAX_POOL_IOV_SIZE
        /\ msg_offset \in 0 .. MAX_POOL_MSG_SIZE
    BY DEF TypeOK
  <2> QED BY <2>1, AllocParts, BuffersAssumption
<1>1. ASSUME NEW k \in Workers, NEW lens \in Messages, mcached_sendmsg(k, lens)
      PROVE  Laps'
  <2>1. /\ iov_offset' = iov_offset % MAX_POOL_IOV_SIZE
        /\ msg_offset' = msg_offset % MAX_POOL_MSG_SIZE /\ UNCHANGED <<alloc, pool_offset>>
    BY <1>1 DEF mcached_sendmsg
  <2>2. /\ Lap(alloc.iovs, MAX_POOL_IOV_SIZE, iov_offset % MAX_POOL_IOV_SIZE)
        /\ Lap(alloc.msgs, MAX_POOL_MSG_SIZE, msg_offset % MAX_POOL_MSG_SIZE)
    BY <1>0, LapMask DEF Laps
  <2> QED BY <2>1, <2>2, Zenon DEF Laps
<1>2. CASE sendmsg_piece
  <2>0. PICK w \in Nat, at \in Nat, src \in Pieces, io \in 0 .. MAX_POOL_IOV_SIZE - 1 :
          PieceTo(w, at, src, io)
    BY <1>2, PieceStep, Zenon
  <2>1. /\ Lap(w, MAX_POOL_SIZE, at) /\ Lap(alloc.iovs, MAX_POOL_IOV_SIZE, io)
        /\ alloc'.bytes = w + Len(src) /\ alloc'.iovs = alloc.iovs + 1
        /\ alloc'.msgs = alloc.msgs
        /\ pool_offset' = at + Len(src) /\ iov_offset' = io + 1
    BY <2>0, Zenon DEF PieceTo
  <2>2. io \in Nat /\ Len(src) \in Nat /\ 1 \in Nat /\ MAX_POOL_IOV_SIZE \in Nat
    BY <1>0, PieceSeq
  <2>3. /\ Lap(w + Len(src), MAX_POOL_SIZE, at + Len(src))
        /\ Lap(alloc.iovs + 1, MAX_POOL_IOV_SIZE, io + 1)
    BY <1>0, <2>1, <2>2, LapAdd, ZenonT(60)
  <2>4. msg_offset' = msg_offset
    BY <1>2 DEF sendmsg_piece
  <2> QED BY <2>1, <2>3, <2>4, ZenonT(30) DEF Laps
<1>3. CASE sendmsg_submit
  <2>1. /\ alloc'.bytes = alloc.bytes /\ alloc'.iovs = alloc.iovs /\ alloc'.msgs = alloc.msgs + 1
        /\ msg_offset' = msg_offset + 1 /\ UNCHANGED <<pool_offset, iov_offset>>
    BY <1>3 DEF sendmsg_submit
  <2>2. Lap(alloc.msgs + 1, MAX_POOL_MSG_SIZE, msg_offset + 1)
    BY <1>0, LapAdd DEF Laps
  <2> QED BY <2>1, <2>2, ZenonT(60) DEF Laps
<1>4. ASSUME NEW k \in Workers, NEW len \in Lens, ngx_tls_write(k, len)
      PROVE  Laps'
  <2>0. PICK w \in Nat, at \in Nat, src \in Pieces : WriteTo(w, at, src, k, len)
    BY <1>4, WriteStep, Zenon
  <2>1. /\ Lap(w, MAX_POOL_SIZE, at) /\ alloc'.bytes = w + Len(src)
        /\ alloc'.iovs = alloc.iovs /\ alloc'.msgs = alloc.msgs
        /\ pool_offset' = at + Len(src)
    BY <2>0, Zenon DEF WriteTo
  <2>2. Lap(w + Len(src), MAX_POOL_SIZE, at + Len(src))
    BY <1>0, <2>1, PieceSeq, LapAdd, ZenonT(60)
  <2>3. UNCHANGED <<iov_offset, msg_offset>>
    BY <1>4, SMTT(30), Z3 DEF ngx_tls_write
  <2> QED BY <2>1, <2>2, <2>3, Zenon DEF Laps
<1>5. CASE UNCHANGED pools
  BY <1>5 DEF pools, Laps
<1>6. ASSUME NEW k \in Workers, NEW len \in Lens, lighty_sendfile64(k, len)
      PROVE  UNCHANGED pools
  BY <1>6 DEF lighty_sendfile64
<1>7. ASSUME NEW k \in Workers, worker(k)
      PROVE  UNCHANGED pools
  BY <1>7 DEF worker
<1>8. UNCHANGED vars => UNCHANGED pools
  BY DEF vars
<1> QED BY <1>1, <1>2, <1>3, <1>4, <1>5, <1>6, <1>7, <1>8, Zenon DEF Next

\* No offset runs over the end of its pool, and the tails are positions of the
\* tables, for every size of the pools: what the tests of mcached.c and ngx_tls.c
\* before each copy are for.
THEOREM OffsetsStayInPools == Spec => []OffsetsInPools
<1>1. TypeOK => OffsetsInPools
  BY DEF TypeOK, OffsetsInPools, Positions
<1> QED BY <1>1, TypeInit, TypeStep, PTL DEF Spec
-----------------------------------------------------------------------------
\* A queue after a submit: the calls it had, and the new one behind them.
LEMMA QueueAppend ==
  ASSUME NEW T, queues \in [Workers -> Seq(T)], NEW k \in Workers, NEW call, Submit(k, call)
  PROVE  /\ Workers' = Workers /\ target' = target /\ RATIO' = RATIO
         /\ Len(queues'[k]) = Len(queues[k]) + 1 /\ queues'[k][Len(queues[k]) + 1] = call
         /\ \A i \in 1 .. Len(queues[k]) : queues'[k][i] = queues[k][i]
         /\ \A j \in Workers \ {k} : queues'[j] = queues[j]
<1>1. queues[k] \in Seq(T) /\ queues'[k] = Append(queues[k], call)
      /\ \A j \in Workers \ {k} : queues'[j] = queues[j]
  BY DEF Submit
<1>2. Workers' = Workers /\ target' = target /\ RATIO' = RATIO
  BY DEF Submit, Workers
<1> DEFINE q == queues[k]
<1> HIDE DEF q
<1>3. q \in Seq(T) => /\ Len(Append(q, call)) = Len(q) + 1 /\ Append(q, call)[Len(q) + 1] = call
                     /\ \A i \in 1 .. Len(q) : Append(q, call)[i] = q[i]
  OBVIOUS
<1> QED BY <1>1, <1>2, <1>3 DEF q

\* A queue after its oldest call has been performed.
LEMMA QueueTail ==
  ASSUME NEW T, queues \in [Workers -> Seq(T)], NEW k \in Workers, worker(k)
  PROVE  /\ Len(queues'[k]) = Len(queues[k]) - 1 /\ Len(queues[k]) \in Nat \ {0}
         /\ \A i \in 1 .. Len(queues'[k]) :
              i + 1 \in 1 .. Len(queues[k]) /\ queues'[k][i] = queues[k][i + 1]
         /\ Head(queues[k]) = queues[k][1]
         /\ \A j \in Workers \ {k} : queues'[j] = queues[j]
<1>1. queues[k] \in Seq(T) /\ queues[k] # <<>> /\ queues'[k] = Tail(queues[k])
      /\ \A j \in Workers \ {k} : queues'[j] = queues[j]
  BY DEF worker
<1> DEFINE q == queues[k]
<1> HIDE DEF q
<1>3. q \in Seq(T) /\ q # <<>> =>
        /\ Len(Tail(q)) = Len(q) - 1 /\ Len(q) \in Nat \ {0} /\ Head(q) = q[1]
        /\ \A i \in 1 .. Len(Tail(q)) : i + 1 \in 1 .. Len(q) /\ Tail(q)[i] = q[i + 1]
  OBVIOUS
<1> QED BY <1>1, <1>3 DEF q

\* The queued message c is held by the pools.
MsgHeld(pool, iovs, hdrs, al, c) ==
  /\ Header(hdrs, al, c.at, c.msg, c.iov, c.meant)
  /\ Message(pool, iovs, al, c.at, c.iov, c.meant)

\* So are all queued messages, and what has been copied of the one under way.
Held ==
  /\ target = "mcached" =>
       \A k \in Workers : \A i \in 1 .. Len(queues[k]) :
         MsgHeld(mpool, iovpool, msgpool, alloc, queues[k][i])
  /\ sending # <<>> =>
       /\ Message(mpool, iovpool, alloc, sending.at, sending.iov, sending.meant)
       /\ sending.at.iovs + Len(sending.meant) = alloc.iovs /\ sending.at.bytes <= alloc.bytes
       /\ sending.at.msgs = alloc.msgs /\ Lap(alloc.msgs, MAX_POOL_MSG_SIZE, msg_offset)

\* What a queued message consists of.
LEMMA McachedParts ==
  ASSUME NEW c \in McachedCall
  PROVE  /\ c.at \in Alloc /\ c.msg \in 0 .. MAX_POOL_MSG_SIZE - 1
         /\ c.iov \in 0 .. MAX_POOL_IOV_SIZE - 1 /\ c.meant \in Seq(Pieces)
BY ZenonT(30) DEF McachedCall

\* The start of a sendmsg writes nothing; no piece has been copied yet.
LEMMA HeldStart ==
  ASSUME TypeOK, TypeOK', Laps', Held, NEW k \in Workers, NEW lens \in Messages,
         mcached_sendmsg(k, lens)
  PROVE  Held'
<1>1. /\ UNCHANGED <<target, RATIO, mpool, iovpool, msgpool, alloc, queues>> /\ Workers' = Workers
      /\ sending'.at = alloc /\ sending'.iov = iov_offset' /\ sending'.meant = <<>>
  BY ZenonT(30) DEF mcached_sendmsg, Workers
<1>2. \A j \in Workers : \A i \in 1 .. Len(queues[j]) :
        target = "mcached" => MsgHeld(mpool, iovpool, msgpool, alloc, queues[j][i])
  BY Zenon DEF Held
<1>3. /\ alloc.iovs \in Nat /\ alloc.iovs + 0 = alloc.iovs /\ alloc.iovs <= alloc.iovs
      /\ alloc.bytes <= alloc.bytes
  <2>1. alloc \in Alloc
    BY DEF TypeOK
  <2> QED BY <2>1, AllocParts
<1>4. Message(mpool, iovpool, alloc, alloc, iov_offset', <<>>)
  <2>1. Len(<<>>) = 0 /\ ~ \E i \in 1 .. 0 : TRUE
    OBVIOUS
  <2>2. Lap(alloc.iovs, MAX_POOL_IOV_SIZE, iov_offset')
    BY <1>1 DEF Laps
  <2> QED BY <1>3, <2>1, <2>2 DEF Message
<1>5. Lap(alloc.msgs, MAX_POOL_MSG_SIZE, msg_offset')
  BY <1>1 DEF Laps
<1>6. Len(<<>>) = 0
  OBVIOUS
<1> QED BY <1>1, <1>2, <1>3, <1>4, <1>5, <1>6 DEF Held

\* A turn of the loop keeps the queued messages as they are, and adds a piece.
LEMMA HeldPiece ==
  ASSUME TypeOK, TypeOK', Laps, Held, sendmsg_piece
  PROVE  Held'
<1>0. PICK w \in Nat, at \in Nat, src \in Pieces, io \in 0 .. MAX_POOL_IOV_SIZE - 1 :
        PieceTo(w, at, src, io)
  BY PieceStep, Zenon
<1>1. /\ Lap(w, MAX_POOL_SIZE, at) /\ at + Len(src) <= MAX_POOL_SIZE /\ alloc.bytes <= w
      /\ Lap(alloc.iovs, MAX_POOL_IOV_SIZE, io)
      /\ mpool' = Copy(mpool, at, src)
      /\ iovpool' = [iovpool EXCEPT ![io] = [base |-> at, len |-> Len(src)]]
      /\ alloc'.bytes = w + Len(src) /\ alloc'.iovs = alloc.iovs + 1
      /\ alloc'.msgs = alloc.msgs
      /\ sending'.at = sending.at /\ sending'.iov = sending.iov
      /\ sending'.meant = Append(sending.meant, src)
  BY <1>0, Zenon DEF PieceTo
<1>2. /\ mpool \in Mem /\ iovpool \in IovMem /\ alloc \in Alloc /\ mpool' \in Mem
      /\ iovpool' \in IovMem /\ alloc' \in Alloc /\ target = "mcached"
      /\ queues \in [Workers -> Seq(McachedCall)] /\ sending \in SendType /\ sending # <<>>
  <2>1. sending # <<>>
    BY ZenonT(30) DEF sendmsg_piece
  <2> QED BY <2>1, Zenon DEF TypeOK
<1>3. /\ UNCHANGED <<target, RATIO, msgpool, msg_offset, queues>> /\ Workers' = Workers
  BY DEF sendmsg_piece, Workers
<1>4. ASSUME NEW from \in Alloc, NEW iov \in 0 .. MAX_POOL_IOV_SIZE - 1, NEW meant \in Seq(Pieces),
             Message(mpool, iovpool, alloc, from, iov, meant)
      PROVE  Message(mpool', iovpool', alloc', from, iov, meant)
  BY <1>1, <1>2, <1>4, MessageKept, Zenon
<1>5. ASSUME NEW k \in Workers, NEW i \in 1 .. Len(queues[k])
      PROVE  MsgHeld(mpool', iovpool', msgpool, alloc', queues[k][i])
  <2> DEFINE c == queues[k][i]
  <2>1. c \in McachedCall
    BY <1>2
  <2>2. MsgHeld(mpool, iovpool, msgpool, alloc, c)
    BY <1>2, Zenon DEF Held
  <2> HIDE DEF c
  <2>3. /\ c.at \in Alloc /\ c.iov \in 0 .. MAX_POOL_IOV_SIZE - 1 /\ c.meant \in Seq(Pieces)
    BY <2>1, McachedParts
  <2>4. Message(mpool', iovpool', alloc', c.at, c.iov, c.meant)
    BY <1>4, <2>2, <2>3, Zenon DEF MsgHeld
  <2>5. Header(msgpool, alloc', c.at, c.msg, c.iov, c.meant)
    <3>1. alloc.bytes <= alloc'.bytes /\ alloc.iovs <= alloc'.iovs /\ alloc.msgs <= alloc'.msgs
      BY <1>1, <1>2, UsedGrows, Zenon
    <3> QED BY <1>2, <2>2, <2>3, <3>1, HeaderLater, Zenon DEF MsgHeld
  <2> QED BY <2>4, <2>5, Zenon DEF MsgHeld, c
<1>6. /\ Message(mpool', iovpool', alloc', sending'.at, sending'.iov, sending'.meant)
      /\ sending'.at.iovs + Len(sending'.meant) = alloc'.iovs /\ sending'.at.bytes <= alloc'.bytes
  <2> DEFINE from  == sending.at
             iov   == sending.iov
             meant == sending.meant
  <2>1. from \in Alloc /\ iov \in 0 .. MAX_POOL_IOV_SIZE - 1 /\ meant \in Seq(Pieces)
    BY <1>2 DEF SendType
  <2>2. /\ Message(mpool, iovpool, alloc, from, iov, meant)
        /\ from.iovs + Len(meant) = alloc.iovs /\ from.bytes <= alloc.bytes
    BY <1>2, Zenon DEF Held
  <2> HIDE DEF from, iov, meant
  <2>3. Message(mpool', iovpool', alloc', from, iov, meant)
    BY <1>4, <2>1, <2>2
  <2>4. /\ from.iovs \in Nat /\ from.bytes \in Nat /\ Len(meant) \in Nat
        /\ alloc.iovs \in Nat /\ alloc.bytes \in Nat /\ MAX_POOL_IOV_SIZE \in Nat /\ iov \in Nat
    BY <1>2, <2>1, AllocParts, Sizes
  <2>5. /\ from.iovs + Len(meant) + 1 <= alloc'.iovs
        /\ from.iovs + Len(Append(meant, src)) = alloc'.iovs
        /\ from.bytes <= alloc'.bytes
    <3>1. Len(Append(meant, src)) = Len(meant) + 1 /\ Len(src) \in Nat
      BY <2>1, PieceSeq
    <3>2. from.iovs + Len(meant) + 1 = alloc.iovs + 1
      BY <2>2, <2>4, Zenon
    <3>3. alloc'.iovs = alloc.iovs + 1 /\ alloc'.bytes = w + Len(src) /\ alloc.bytes <= w
      BY <1>1
    <3>4. from.bytes <= w + Len(src)
      BY <2>2, <2>4, <3>1, <3>3
    <3> QED BY <2>4, <3>1, <3>2, <3>3, <3>4
  <2>6. ASSUME iov + Len(meant) + 1 <= MAX_POOL_IOV_SIZE
        PROVE  Iov(mpool', iovpool', alloc'.bytes, from.bytes, iov + (Len(meant) + 1) - 1, src)
    <3>1. Lap(from.iovs, MAX_POOL_IOV_SIZE, iov)
      BY <2>2, Zenon DEF Message
    <3>2. Lap(alloc.iovs, MAX_POOL_IOV_SIZE, iov + Len(meant))
      <4>1. Lap(from.iovs + Len(meant), MAX_POOL_IOV_SIZE, iov + Len(meant))
        BY <2>4, <3>1, LapAdd, Zenon
      <4> QED BY <2>2, <4>1, Zenon
    <3>3. iov + Len(meant) \in 0 .. MAX_POOL_IOV_SIZE - 1
      BY <2>4, <2>6
    <3>4. io = iov + Len(meant)
      BY <1>1, <2>4, <3>2, <3>3, LapUnique, Zenon
    <3>5. io = iov + (Len(meant) + 1) - 1
      BY <2>4, <3>4
    <3>6. from.bytes <= w
      <4>1. from.bytes <= alloc.bytes /\ alloc.bytes <= w
        BY <1>1, <2>2
      <4> QED BY <2>4, <4>1, SMTT(30), Z3
    <3>7. InMem(Copy(mpool, at, src), w + Len(src), from.bytes, at, src)
      BY <1>1, <1>2, <2>4, <3>6, MemNew, Zenon
    <3>8. iovpool'[io] = [base |-> at, len |-> Len(src)]
      BY <1>1, <1>2 DEF IovMem
    <3>9. Iov(mpool', iovpool', alloc'.bytes, from.bytes, io, src)
      BY <1>1, <3>7, <3>8, Zenon DEF Iov
    <3> QED BY <3>5, <3>9, Zenon
  <2>7. Message(mpool', iovpool', alloc', from, iov, Append(meant, src))
    BY <1>2, <2>1, <2>3, <2>5, <2>6, MessageAppend
  <2> QED BY <1>1, <2>5, <2>7, Zenon DEF from, iov, meant
<1>7. Lap(alloc'.msgs, MAX_POOL_MSG_SIZE, msg_offset') /\ sending'.at.msgs = alloc'.msgs
  BY <1>1, <1>2, <1>3, Zenon DEF Held, Laps
<1> QED BY <1>3, <1>5, <1>6, <1>7, Zenon DEF Held

\* The end of a sendmsg: the header leads to the iovecs of the message.
LEMMA HeldSubmit ==
  ASSUME TypeOK, TypeOK', Held, sendmsg_submit
  PROVE  Held'
<1> DEFINE t    == sending.table
           from == sending.at
           iov  == sending.iov
           meant == sending.meant
           call == [msg |-> msg_offset, at |-> from, iov |-> iov, meant |-> meant]
<1>1. /\ msgpool' = [msgpool EXCEPT ![msg_offset] = [iov |-> iov, iovlen |-> Len(meant)]]
      /\ alloc'.bytes = alloc.bytes /\ alloc'.iovs = alloc.iovs /\ alloc'.msgs = alloc.msgs + 1
      /\ Submit(t, call) /\ sending' = <<>> /\ sending # <<>> /\ UNCHANGED <<mpool, iovpool>>
  BY DEF sendmsg_submit
<1>2. /\ alloc \in Alloc /\ alloc' \in Alloc /\ msgpool \in HeaderMem
      /\ sending \in SendType /\ target = "mcached" /\ queues \in [Workers -> Seq(McachedCall)]
      /\ msg_offset \in 0 .. MAX_POOL_MSG_SIZE /\ msg_offset < MAX_POOL_MSG_SIZE
  BY <1>1, Zenon DEF TypeOK
<1>3. /\ t \in Workers /\ from \in Alloc /\ iov \in 0 .. MAX_POOL_IOV_SIZE - 1
      /\ meant \in Seq(Pieces)
  BY <1>2 DEF SendType
<1>4. msg_offset \in 0 .. MAX_POOL_MSG_SIZE - 1
  BY <1>2, Sizes
<1>5. /\ Message(mpool, iovpool, alloc, from, iov, meant)
      /\ from.msgs = alloc.msgs /\ Lap(alloc.msgs, MAX_POOL_MSG_SIZE, msg_offset)
  BY <1>1, Zenon DEF Held
<1> HIDE DEF t, from, iov, meant
<1>6. MsgHeld(mpool, iovpool, msgpool', alloc', call)
  <2>1. Message(mpool, iovpool, alloc', from, iov, meant)
    BY <1>1, <1>2, <1>3, <1>5, MessageLater, ZenonT(60)
  <2>2. msgpool'[msg_offset] = [iov |-> iov, iovlen |-> Len(meant)]
    BY <1>1, <1>2, <1>4 DEF HeaderMem
  <2>3. from.msgs < alloc'.msgs
    BY <1>1, <1>2, <1>5, AllocParts
  <2>4. Lap(from.msgs, MAX_POOL_MSG_SIZE, msg_offset)
    BY <1>5, Zenon
  <2>5. Header(msgpool', alloc', from, msg_offset, iov, meant)
    BY <2>2, <2>3, <2>4, Zenon DEF Header
  <2>6. call.msg = msg_offset /\ call.at = from /\ call.iov = iov /\ call.meant = meant
    OBVIOUS
  <2> HIDE DEF call
  <2> QED BY <2>1, <2>5, <2>6, Zenon DEF MsgHeld
<1>7. ASSUME NEW c \in McachedCall, MsgHeld(mpool, iovpool, msgpool, alloc, c)
      PROVE  MsgHeld(mpool, iovpool, msgpool', alloc', c)
  <2>1. /\ c.at \in Alloc /\ c.msg \in 0 .. MAX_POOL_MSG_SIZE - 1
    BY McachedParts
  <2>2. Message(mpool, iovpool, alloc', c.at, c.iov, c.meant)
    BY <1>1, <1>2, <1>7, <2>1, MessageLater, Zenon DEF MsgHeld
  <2>3. Header(msgpool, alloc, c.at, c.msg, c.iov, c.meant)
    BY <1>7, Zenon DEF MsgHeld
  <2>4. Header(msgpool', alloc', c.at, c.msg, c.iov, c.meant)
    BY <1>1, <1>2, <1>4, <1>5, <2>1, <2>3, HeaderKept, Zenon
  <2> QED BY <2>2, <2>4, Zenon DEF MsgHeld
<1> HIDE DEF call
<1>8. /\ Workers' = Workers /\ target' = target
      /\ Len(queues'[t]) = Len(queues[t]) + 1 /\ queues'[t][Len(queues[t]) + 1] = call
      /\ \A i \in 1 .. Len(queues[t]) : queues'[t][i] = queues[t][i]
      /\ \A j \in Workers \ {t} : queues'[j] = queues[j]
  BY <1>1, <1>2, <1>3, QueueAppend, Zenon
<1>9. ASSUME NEW j \in Workers, NEW i \in 1 .. Len(queues[j])
      PROVE  MsgHeld(mpool, iovpool, msgpool', alloc', queues[j][i])
  <2>1. queues[j][i] \in McachedCall
    BY <1>2
  <2>2. MsgHeld(mpool, iovpool, msgpool, alloc, queues[j][i])
    BY <1>2, ZenonT(30) DEF Held
  <2> QED BY <1>7, <2>1, <2>2, Zenon
<1>10. ASSUME NEW j \in Workers, NEW i \in 1 .. Len(queues'[j])
       PROVE  MsgHeld(mpool, iovpool, msgpool', alloc', queues'[j][i])
  <2>1. CASE j # t
    <3>1. queues'[j] = queues[j]
      BY <1>8, <2>1, Zenon
    <3> QED BY <1>9, <3>1, Zenon
  <2>2. CASE j = t /\ i = Len(queues[t]) + 1
    BY <1>6, <1>8, <2>2, Zenon
  <2>3. CASE j = t /\ i # Len(queues[t]) + 1
    <3>1. Len(queues[t]) \in Nat /\ i \in 1 .. Len(queues[t]) + 1
      BY <1>2, <1>3, <1>8, <2>3
    <3>2. i \in 1 .. Len(queues[t])
      BY <2>3, <3>1
    <3> QED BY <1>8, <1>9, <2>3, <3>2, Zenon
  <2> QED BY <2>1, <2>2, <2>3
<1> QED BY <1>1, <1>8, <1>10, Zenon DEF Held

\* Performing a call takes it off its queue, and changes no pool.
LEMMA HeldWorker ==
  ASSUME TypeOK, Held, NEW k \in Workers, worker(k)
  PROVE  Held'
<1>1. /\ UNCHANGED <<target, RATIO, mpool, iovpool, msgpool, alloc, msg_offset, sending>>
      /\ Workers' = Workers
  BY SMTT(30), Z3 DEF worker, pools, Workers
<1>2. ASSUME target = "mcached", NEW j \in Workers, NEW i \in 1 .. Len(queues'[j])
      PROVE  MsgHeld(mpool, iovpool, msgpool, alloc, queues'[j][i])
  <2>1. queues \in [Workers -> Seq(McachedCall)]
    BY <1>2, Zenon DEF TypeOK
  <2>2. /\ \A n \in 1 .. Len(queues'[k]) :
             n + 1 \in 1 .. Len(queues[k]) /\ queues'[k][n] = queues[k][n + 1]
        /\ \A m \in Workers \ {k} : queues'[m] = queues[m]
    BY <2>1, QueueTail, Zenon
  <2>3. \A m \in Workers : \A n \in 1 .. Len(queues[m]) :
          MsgHeld(mpool, iovpool, msgpool, alloc, queues[m][n])
    BY <1>2, Zenon DEF Held
  <2>4. CASE j = k
    BY <1>2, <2>2, <2>3, <2>4, Zenon
  <2>5. CASE j # k
    <3>1. queues'[j] = queues[j]
      BY <2>2, <2>5, Zenon
    <3> QED BY <1>2, <2>3, <3>1, Zenon
  <2> QED BY <2>4, <2>5
<1> QED BY <1>1, <1>2, Zenon DEF Held

\* Every step keeps the messages in the pools.
LEMMA HeldStep ==
  ASSUME TypeOK, TypeOK', Laps, Laps', Held, [Next]_vars
  PROVE  Held'
<1>1. ASSUME target # "mcached", UNCHANGED <<target, sending>>
      PROVE  Held'
  <2>1. sending = <<>>
    BY <1>1, Zenon DEF TypeOK
  <2> QED BY <1>1, <2>1, Zenon DEF Held
<1>2. ASSUME NEW k \in Workers, NEW len \in Lens, ngx_tls_write(k, len)
      PROVE  Held'
  <2>1. target # "mcached" /\ UNCHANGED <<target, sending>>
    BY <1>2 DEF ngx_tls_write, Submit
  <2> QED BY <1>1, <2>1, Zenon
<1>3. ASSUME NEW k \in Workers, NEW len \in Lens, lighty_sendfile64(k, len)
      PROVE  Held'
  <2>1. target # "mcached" /\ UNCHANGED <<target, sending>>
    BY <1>3 DEF lighty_sendfile64, Submit, pools
  <2> QED BY <1>1, <2>1, Zenon
<1>4. CASE UNCHANGED vars
  <2>1. /\ UNCHANGED <<target, RATIO, mpool, iovpool, msgpool, alloc, msg_offset, sending, queues>>
        /\ Workers' = Workers
    BY <1>4 DEF vars, pools, Workers
  <2> QED BY <2>1, Zenon DEF Held
<1> QED BY <1>2, <1>3, <1>4, HeldStart, HeldPiece, HeldSubmit, HeldWorker, Zenon DEF Next
-----------------------------------------------------------------------------
(* ngx_tls.c *)

\* The bytes of a queued write are in the pool, unless it has gone round.
BytesHeld(pool, used, c) ==
  /\ c.len = Len(c.meant)
  /\ used - c.at.bytes <= MAX_POOL_SIZE => InMem(pool, used, c.at.bytes, c.base, c.meant)

TlsHeld ==
  target = "ngx_tls" =>
    \A k \in Workers : \A i \in 1 .. Len(queues[k]) : BytesHeld(mpool, alloc.bytes, queues[k][i])

\* What a queued write consists of.
LEMMA TlsParts ==
  ASSUME NEW c \in TlsCall
  PROVE  c.at \in Alloc /\ c.base \in Nat /\ c.meant \in Pieces /\ c.at.bytes \in Nat
<1>1. c.at \in Alloc /\ c.base \in Nat /\ c.meant \in Pieces
  BY DEF TlsCall
<1> QED BY <1>1, AllocParts

\* A further write leaves the bytes of the queued ones as they are.
LEMMA TlsWrite ==
  ASSUME TypeOK, TypeOK', Laps, TlsHeld, NEW k \in Workers, NEW len \in Lens,
         ngx_tls_write(k, len)
  PROVE  TlsHeld'
<1>0. PICK w \in Nat, at \in Nat, src \in Pieces : WriteTo(w, at, src, k, len)
  BY WriteStep, Zenon
<1> DEFINE call == [base |-> at, len |-> len, at |-> alloc, meant |-> src]
<1>1. /\ Lap(w, MAX_POOL_SIZE, at) /\ at + Len(src) <= MAX_POOL_SIZE /\ alloc.bytes <= w
      /\ mpool' = Copy(mpool, at, src) /\ Len(src) = len
      /\ alloc'.bytes = w + Len(src)
      /\ queues' = [queues EXCEPT ![k] = Append(@, call)]
  BY <1>0, Zenon DEF WriteTo
<1>2. /\ mpool \in Mem /\ alloc \in Alloc /\ target = "ngx_tls"
      /\ queues \in [Workers -> Seq(TlsCall)] /\ UNCHANGED <<target, RATIO>>
  <2>1. target = "ngx_tls" /\ UNCHANGED <<target, RATIO>>
    BY DEF ngx_tls_write, Submit
  <2> QED BY <2>1, Zenon DEF TypeOK
<1>3. /\ alloc.bytes \in Nat /\ Len(src) \in Nat /\ MAX_POOL_SIZE \in Nat
  BY <1>2, AllocParts, PieceSeq, Sizes
<1>4. BytesHeld(mpool', alloc'.bytes, call)
  <2>1. InMem(Copy(mpool, at, src), w + Len(src), alloc.bytes, at, src)
    BY <1>1, <1>2, <1>3, MemNew, Zenon
  <2>2. call.len = Len(src) /\ call.at.bytes = alloc.bytes /\ call.base = at /\ call.meant = src
    BY <1>1
  <2> HIDE DEF call
  <2> QED BY <1>1, <2>1, <2>2, Zenon DEF BytesHeld
<1>5. ASSUME NEW c \in TlsCall, BytesHeld(mpool, alloc.bytes, c)
      PROVE  BytesHeld(mpool', alloc'.bytes, c)
  <2>1. c.base \in Nat /\ c.meant \in Pieces /\ c.at.bytes \in Nat
    BY TlsParts
  <2>2. ASSUME w + Len(src) - c.at.bytes <= MAX_POOL_SIZE
        PROVE  InMem(Copy(mpool, at, src), w + Len(src), c.at.bytes, c.base, c.meant)
    <3> DEFINE b == c.at.bytes
    <3>0. b \in Nat /\ w + Len(src) - b <= MAX_POOL_SIZE
      BY <2>1, <2>2
    <3>1. alloc.bytes - b <= MAX_POOL_SIZE
      <4> HIDE DEF b
      <4> QED BY <1>1, <1>3, <3>0, SMTT(30), Z3
    <3>2. InMem(mpool, alloc.bytes, b, c.base, c.meant)
      BY <1>5, <3>1, Zenon DEF BytesHeld
    <3> QED BY <1>1, <1>2, <1>3, <2>1, <2>2, <3>2, MemKept, Zenon
  <2>3. ASSUME alloc'.bytes - c.at.bytes <= MAX_POOL_SIZE
        PROVE  InMem(mpool', alloc'.bytes, c.at.bytes, c.base, c.meant)
    <3>0. alloc'.bytes = w + Len(src)
      BY <1>1, Zenon
    <3>1. w + Len(src) - c.at.bytes <= MAX_POOL_SIZE
      BY <1>3, <2>1, <2>3, <3>0, SMTT(30), Z3
    <3>2. InMem(Copy(mpool, at, src), w + Len(src), c.at.bytes, c.base, c.meant)
      BY <2>2, <3>1, Zenon
    <3> QED BY <1>1, <3>2, Zenon
  <2> QED BY <1>5, <2>3, Zenon DEF BytesHeld
<1> HIDE DEF call
<1>6. /\ Workers' = Workers
      /\ Len(queues'[k]) = Len(queues[k]) + 1 /\ queues'[k][Len(queues[k]) + 1] = call
      /\ \A i \in 1 .. Len(queues[k]) : queues'[k][i] = queues[k][i]
      /\ \A j \in Workers \ {k} : queues'[j] = queues[j]
  <2>1. PICK d : Submit(k, d)
    BY DEF ngx_tls_write
  <2>2. queues' = [queues EXCEPT ![k] = Append(@, d)]
    BY <2>1 DEF Submit
  <2>3. /\ Workers' = Workers
        /\ Len(queues'[k]) = Len(queues[k]) + 1 /\ queues'[k][Len(queues[k]) + 1] = d
        /\ \A i \in 1 .. Len(queues[k]) : queues'[k][i] = queues[k][i]
        /\ \A j \in Workers \ {k} : queues'[j] = queues[j]
    BY <1>2, <2>1, QueueAppend, Zenon
  <2>4. queues'[k][Len(queues[k]) + 1] = call
    <3>1. queues[k] \in Seq(TlsCall) /\ queues'[k] = Append(queues[k], call)
      BY <1>1, <1>2
    <3> QED BY <3>1
  <2> QED BY <2>3, <2>4
<1>7. ASSUME NEW j \in Workers, NEW i \in 1 .. Len(queues[j])
      PROVE  BytesHeld(mpool', alloc'.bytes, queues[j][i])
  <2>1. queues[j][i] \in TlsCall
    BY <1>2
  <2>2. BytesHeld(mpool, alloc.bytes, queues[j][i])
    BY <1>2, Zenon DEF TlsHeld
  <2> QED BY <1>5, <2>1, <2>2, Zenon
<1>8. ASSUME NEW j \in Workers, NEW i \in 1 .. Len(queues'[j])
      PROVE  BytesHeld(mpool', alloc'.bytes, queues'[j][i])
  <2>1. CASE j # k
    <3>1. queues'[j] = queues[j]
      BY <1>6, <2>1, Zenon
    <3> QED BY <1>7, <3>1, Zenon
  <2>2. CASE j = k /\ i = Len(queues[k]) + 1
    BY <1>4, <1>6, <2>2, Zenon
  <2>3. CASE j = k /\ i # Len(queues[k]) + 1
    <3>1. Len(queues[k]) \in Nat /\ i \in 1 .. Len(queues[k]) + 1
      BY <1>2, <1>6, <2>3
    <3>2. i \in 1 .. Len(queues[k])
      BY <2>3, <3>1
    <3> QED BY <1>6, <1>7, <2>3, <3>2, Zenon
  <2> QED BY <2>1, <2>2, <2>3
<1> QED BY <1>6, <1>8, Zenon DEF TlsHeld

\* Every step keeps the bytes of queued writes.
LEMMA TlsStep ==
  ASSUME TypeOK, TypeOK', Laps, TlsHeld, [Next]_vars
  PROVE  TlsHeld'
<1>1. ASSUME target # "ngx_tls", UNCHANGED target
      PROVE  TlsHeld'
  BY <1>1, Zenon DEF TlsHeld
<1>2. ASSUME NEW k \in Workers, NEW lens \in Messages, mcached_sendmsg(k, lens)
      PROVE  TlsHeld'
  BY <1>1, <1>2 DEF mcached_sendmsg
<1>3. CASE sendmsg_piece
  <2>1. target = "mcached" /\ UNCHANGED target
    BY <1>3, Zenon DEF sendmsg_piece, TypeOK
  <2> QED BY <1>1, <2>1, Zenon
<1>4. CASE sendmsg_submit
  <2>1. target = "mcached" /\ UNCHANGED target
    BY <1>4 DEF sendmsg_submit, Submit, TypeOK
  <2> QED BY <1>1, <2>1, Zenon
<1>5. ASSUME NEW k \in Workers, NEW len \in Lens, lighty_sendfile64(k, len)
      PROVE  TlsHeld'
  <2>1. target = "lighty" /\ UNCHANGED target
    BY <1>5 DEF lighty_sendfile64, Submit
  <2> QED BY <1>1, <2>1
<1>6. ASSUME NEW k \in Workers, worker(k)
      PROVE  TlsHeld'
  <2>1. UNCHANGED <<target, RATIO, mpool, alloc>> /\ Workers' = Workers
    BY <1>6 DEF worker, pools, Workers
  <2>2. ASSUME target = "ngx_tls", NEW j \in Workers, NEW i \in 1 .. Len(queues'[j])
        PROVE  BytesHeld(mpool, alloc.bytes, queues'[j][i])
    <3>1. queues \in [Workers -> Seq(TlsCall)]
      BY <2>2, Zenon DEF TypeOK
    <3>2. /\ \A n \in 1 .. Len(queues'[k]) :
               n + 1 \in 1 .. Len(queues[k]) /\ queues'[k][n] = queues[k][n + 1]
          /\ \A m \in Workers \ {k} : queues'[m] = queues[m]
      BY <1>6, <3>1, QueueTail, Zenon
    <3>3. \A m \in Workers : \A n \in 1 .. Len(queues[m]) :
            BytesHeld(mpool, alloc.bytes, queues[m][n])
      BY <2>2, Zenon DEF TlsHeld
    <3>4. CASE j = k
      BY <2>2, <3>2, <3>3, <3>4, Zenon
    <3>5. CASE j # k
      <4>1. queues'[j] = queues[j]
        BY <3>2, <3>5, Zenon
      <4> QED BY <2>2, <3>3, <4>1, Zenon
    <3> QED BY <3>4, <3>5
  <2> QED BY <2>1, <2>2, Zenon DEF TlsHeld
<1>7. CASE UNCHANGED vars
  <2>1. UNCHANGED <<target, RATIO, mpool, alloc, queues>> /\ Workers' = Workers
    BY <1>7 DEF vars, pools, Workers
  <2> QED BY <2>1, Zenon DEF TlsHeld
<1> QED BY <1>2, <1>3, <1>4, <1>5, <1>6, <1>7, TlsWrite, Zenon DEF Next
-----------------------------------------------------------------------------
(* lighty.c *)

\* The element of off_arr for the entry at the tail of table k.
TailIndex(k) == OffIndex(tail[k].table, tail[k].entry)

\* d calls after it, the tail of the ring at element e is at t.
Behind(e, d, t) == e + d \in {t, t + N}

\* The offset of a queued sendfile is in the element of the entry it was put in, and
\* the queue is shorter than the ring.
OffsetsKept ==
  target = "lighty" =>
    \A k \in Workers :
      /\ Len(queues[k]) <= MaxOutstanding
      /\ \A i \in 1 .. Len(queues[k]) :
           /\ Behind(queues[k][i].off, Len(queues[k]) - i + 1, TailIndex(k))
           /\ off_arr[k][queues[k][i].off] = queues[k][i].meant

\* Moving the tail moves the element by one, or from the last to the first.
LEMMA NextIndex ==
  ASSUME NEW t \in Positions
  PROVE  /\ N \in Nat /\ OffIndex(t.table, t.entry) \in 0 .. N - 1
         /\ OffIndex(update_index(t).table, update_index(t).entry) =
              IF OffIndex(t.table, t.entry) = N - 1 THEN 0 ELSE OffIndex(t.table, t.entry) + 1
<1>1. PICK i \in 0 .. MAX_TABLE_LEN - 1, j \in 0 .. MAX_TABLE_ENTRY - 1 : i = t.table /\ j = t.entry
  BY DEF Positions
<1>2. MAX_TABLE_LEN \in Nat \ {0} /\ MAX_TABLE_ENTRY \in Nat \ {0}
  BY BuffersAssumption
<1>3. N \in Nat /\ N = MAX_TABLE_LEN * MAX_TABLE_ENTRY
  BY <1>2 DEF N
<1>4. OffIndex(i, j) \in 0 .. N - 1
  BY <1>1, OffIndexType
<1>5. OffIndex(i, j) = i * MAX_TABLE_ENTRY + j /\ i * MAX_TABLE_ENTRY \in Nat
  BY <1>2 DEF OffIndex
<1>6. CASE j < MAX_TABLE_ENTRY - 1
  <2>1. update_index(t) = [table |-> i, entry |-> j + 1]
    BY <1>1, <1>6 DEF update_index
  <2>2. OffIndex(i, j + 1) = OffIndex(i, j) + 1
    BY <1>5 DEF OffIndex
  <2>3. [table |-> i, entry |-> j + 1] \in Positions
    BY <1>2, <1>6 DEF Positions
  <2>4. OffIndex(i, j + 1) \in 0 .. N - 1
    BY <2>3, OffIndexType
  <2>5. OffIndex(i, j) # N - 1
    BY <1>3, <1>4, <2>2, <2>4, SMTT(30), Z3
  <2> QED BY <1>1, <1>3, <1>4, <2>1, <2>2, <2>5, SMTT(30), Z3
<1>7. CASE j = MAX_TABLE_ENTRY - 1
  <2>1. update_index(t) = [table |-> (i + 1) % MAX_TABLE_LEN, entry |-> 0]
    BY <1>1, <1>2, <1>7 DEF update_index
  <2>2. OffIndex(i, j) + 1 = (i + 1) * MAX_TABLE_ENTRY
    <3>1. (i + 1) * MAX_TABLE_ENTRY = i * MAX_TABLE_ENTRY + MAX_TABLE_ENTRY
      BY <1>2
    <3> QED BY <1>2, <1>5, <1>7, <3>1
  <2>3. CASE i = MAX_TABLE_LEN - 1
    <3>1. (i + 1) % MAX_TABLE_LEN = 0
      <4>1. i + 1 = MAX_TABLE_LEN
        BY <1>2, <2>3
      <4>2. MAX_TABLE_LEN % MAX_TABLE_LEN = 0
        BY <1>2, Masked
      <4> QED BY <4>1, <4>2
    <3>2. OffIndex(i, j) + 1 = N
      <4>1. i + 1 = MAX_TABLE_LEN
        BY <1>2, <2>3
      <4>2. (i + 1) * MAX_TABLE_ENTRY = MAX_TABLE_LEN * MAX_TABLE_ENTRY
        BY <4>1
      <4> QED BY <1>3, <2>2, <4>2, Zenon
    <3>3. OffIndex(0, 0) = 0
      BY <1>2 DEF OffIndex
    <3>4. OffIndex(i, j) = N - 1
      BY <1>3, <1>4, <3>2
    <3> QED BY <1>1, <1>3, <1>4, <2>1, <3>1, <3>3, <3>4
  <2>4. CASE i # MAX_TABLE_LEN - 1
    <3>1. (i + 1) % MAX_TABLE_LEN = i + 1 /\ i + 1 \in 0 .. MAX_TABLE_LEN - 1
      <4>1. i + 1 \in 0 .. MAX_TABLE_LEN /\ i + 1 # MAX_TABLE_LEN
        BY <1>2, <2>4
      <4>2. (i + 1) % MAX_TABLE_LEN = IF i + 1 = MAX_TABLE_LEN THEN 0 ELSE i + 1
        BY <1>2, <4>1, Masked, Zenon
      <4> QED BY <1>2, <4>1, <4>2
    <3>2. OffIndex(i + 1, 0) = OffIndex(i, j) + 1
      <4>1. OffIndex(i + 1, 0) = (i + 1) * MAX_TABLE_ENTRY + 0
        BY DEF OffIndex
      <4>2. (i + 1) * MAX_TABLE_ENTRY \in Nat
        BY <1>2
      <4> QED BY <2>2, <4>1, <4>2
    <3>3. [table |-> i + 1, entry |-> 0] \in Positions
      BY <1>2, <3>1 DEF Positions
    <3>4. OffIndex(i + 1, 0) \in 0 .. N - 1
      BY <3>3, OffIndexType
    <3>5. OffIndex(i, j) # N - 1
      BY <1>3, <1>4, <3>2, <3>4
    <3> QED BY <1>1, <1>3, <1>4, <2>1, <3>1, <3>2, <3>5
  <2> QED BY <2>3, <2>4
<1> QED BY <1>1, <1>2, <1>6, <1>7

\* The tail moves on: the calls before it are one further behind, and none of them
\* has the element at the tail.
LEMMA BehindNext ==
  ASSUME N \in Nat, NEW t \in 0 .. N - 1, NEW u, u = IF t = N - 1 THEN 0 ELSE t + 1,
         NEW e \in 0 .. N - 1, NEW d \in 1 .. N - 2, Behind(e, d, t)
  PROVE  Behind(e, d + 1, u) /\ e # t
BY DEF Behind

\* The call just put in is one before the tail.
LEMMA BehindNew ==
  ASSUME N \in Nat, NEW t \in 0 .. N - 1, NEW u, u = IF t = N - 1 THEN 0 ELSE t + 1
  PROVE  Behind(t, 1, u)
BY DEF Behind

\* Two queued calls have an element each.
LEMMA BehindApart ==
  ASSUME N \in Nat, NEW t \in 0 .. N - 1, NEW e \in 0 .. N - 1, NEW f \in 0 .. N - 1,
         NEW c \in 1 .. N - 1, NEW d \in 1 .. N - 1, c < d, Behind(e, c, t), Behind(f, d, t)
  PROVE  e # f
BY DEF Behind

\* What a queued sendfile consists of.
LEMMA LightyParts ==
  ASSUME NEW c \in LightyCall
  PROVE  c.off \in 0 .. N - 1 /\ c.len \in Nat
BY BuffersAssumption DEF LightyCall, Lens

\* A further sendfile uses an element no queued one has.
LEMMA OffsetsSendfile ==
  ASSUME TypeOK, TypeOK', OffsetsKept, NEW k \in Workers, NEW len \in Lens,
         lighty_sendfile64(k, len)
  PROVE  OffsetsKept'
<1> DEFINE t    == TailIndex(k)
           call == [off |-> t, len |-> len, meant |-> offset]
           n    == Len(queues[k])
<1>1. /\ target = "lighty" /\ Len(queues[k]) < MaxOutstanding
      /\ off_arr' = [off_arr EXCEPT ![k][t] = offset] /\ Submit(k, call)
      /\ tail' = [tail EXCEPT ![k] = update_index(@)]
  BY DEF lighty_sendfile64, TailIndex, MayCall, Submit
<1>2. /\ queues \in [Workers -> Seq(LightyCall)] /\ tail \in [Workers -> Positions]
      /\ off_arr \in [Workers -> [0 .. N - 1 -> Nat]]
  BY <1>1, Zenon DEF TypeOK
<1> HIDE DEF call
<1>3. /\ Workers' = Workers /\ target' = target
      /\ Len(queues'[k]) = n + 1 /\ queues'[k][n + 1] = call
      /\ \A i \in 1 .. n : queues'[k][i] = queues[k][i]
      /\ \A j \in Workers \ {k} : queues'[j] = queues[j]
  BY <1>1, <1>2, QueueAppend, ZenonT(30)
<1>4. /\ N \in Nat /\ t \in 0 .. N - 1 /\ TailIndex(k)' = IF t = N - 1 THEN 0 ELSE t + 1
      /\ MaxOutstanding \in 0 .. N - 1 /\ n \in Nat
  <2>1. tail[k] \in Positions /\ tail'[k] = update_index(tail[k])
    BY <1>1, <1>2
  <2>2. /\ N \in Nat /\ t \in 0 .. N - 1
        /\ OffIndex(tail'[k].table, tail'[k].entry) = IF t = N - 1 THEN 0 ELSE t + 1
    BY <2>1, NextIndex, Zenon DEF TailIndex
  <2>3. queues[k] \in Seq(LightyCall)
    BY <1>2
  <2> QED BY <2>2, <2>3, BuffersAssumption DEF TailIndex
<1>5. /\ off_arr'[k][t] = offset /\ \A e \in (0 .. N - 1) \ {t} : off_arr'[k][e] = off_arr[k][e]
      /\ \A j \in Workers \ {k} : off_arr'[j] = off_arr[j] /\ TailIndex(j)' = TailIndex(j)
  BY <1>1, <1>2, <1>4 DEF TailIndex
<1>6. \A j \in Workers : \A i \in 1 .. Len(queues[j]) :
        /\ Len(queues[j]) <= MaxOutstanding
        /\ Behind(queues[j][i].off, Len(queues[j]) - i + 1, TailIndex(j))
        /\ off_arr[j][queues[j][i].off] = queues[j][i].meant
  BY <1>1, Zenon DEF OffsetsKept
<1>6a. n < MaxOutstanding
  BY <1>1, Zenon
<1>7. ASSUME NEW i \in 1 .. n + 1
      PROVE  /\ Behind(queues'[k][i].off, n + 1 - i + 1, TailIndex(k)')
             /\ off_arr'[k][queues'[k][i].off] = queues'[k][i].meant
  <2>1. CASE i = n + 1
    <3>1. n + 1 - i + 1 = 1
      BY <1>4, <2>1
    <3>2. Behind(t, 1, TailIndex(k)')
      BY <1>4, BehindNew
    <3>3. call.off = t /\ call.meant = offset
      BY DEF call
    <3> QED BY <1>3, <1>5, <2>1, <3>1, <3>2, <3>3, Zenon
  <2>2. CASE i # n + 1
    <3> DEFINE c == queues[k][i]
               d == n - i + 1
    <3>1. i \in 1 .. n /\ d \in 1 .. N - 2 /\ n + 1 - i + 1 = d + 1
      <4> HIDE DEF n
      <4> QED BY <1>4, <1>6a, <2>2
    <3>2. c \in LightyCall
      BY <1>2, <3>1
    <3>3. Behind(c.off, d, t) /\ off_arr[k][c.off] = c.meant
      BY <1>6, <3>1, Zenon
    <3>4. queues'[k][i] = c
      BY <1>3, <3>1, Zenon
    <3> HIDE DEF c, d
    <3>5. c.off \in 0 .. N - 1
      BY <3>2, LightyParts, Zenon
    <3>6. Behind(c.off, d + 1, TailIndex(k)') /\ c.off # t
      BY <1>4, <3>1, <3>3, <3>5, BehindNext, Zenon
    <3>7. off_arr'[k][c.off] = c.meant
      BY <1>5, <3>3, <3>5, <3>6, Zenon
    <3> QED BY <3>1, <3>4, <3>6, <3>7, Zenon
  <2> QED BY <2>1, <2>2, Zenon
<1>8. n + 1 <= MaxOutstanding
  <2> HIDE DEF n
  <2> QED BY <1>4, <1>6a, SMTT(30), Z3
<1>9. ASSUME NEW j \in Workers
      PROVE  /\ Len(queues'[j]) <= MaxOutstanding
             /\ \A i \in 1 .. Len(queues'[j]) :
                  /\ Behind(queues'[j][i].off, Len(queues'[j]) - i + 1, TailIndex(j)')
                  /\ off_arr'[j][queues'[j][i].off] = queues'[j][i].meant
  <2>1. CASE j = k
    <3>1. /\ Len(queues'[k]) <= MaxOutstanding
          /\ \A i \in 1 .. Len(queues'[k]) :
               /\ Behind(queues'[k][i].off, Len(queues'[k]) - i + 1, TailIndex(k)')
               /\ off_arr'[k][queues'[k][i].off] = queues'[k][i].meant
      <4> HIDE DEF n
      <4>1. Len(queues'[k]) = n + 1
        BY <1>3, Zenon
      <4>2. ASSUME NEW i \in 1 .. Len(queues'[k])
            PROVE  /\ Behind(queues'[k][i].off, Len(queues'[k]) - i + 1, TailIndex(k)')
                   /\ off_arr'[k][queues'[k][i].off] = queues'[k][i].meant
        <5>1. i \in 1 .. n + 1
          BY <4>1, Zenon
        <5>2. Len(queues'[k]) - i + 1 = n + 1 - i + 1
          BY <1>4, <4>1
        <5> QED BY <1>7, <5>1, <5>2, Zenon
      <4> QED BY <1>8, <4>1, <4>2, Zenon
    <3> QED BY <2>1, <3>1, Zenon
  <2>2. CASE j # k
    <3>1. queues'[j] = queues[j] /\ off_arr'[j] = off_arr[j] /\ TailIndex(j)' = TailIndex(j)
      BY <1>3, <1>5, <2>2, Zenon
    <3>2. Len(queues[j]) <= MaxOutstanding
      BY <1>1, Zenon DEF OffsetsKept
    <3> QED BY <1>6, <3>1, <3>2, Zenon
  <2> QED BY <2>1, <2>2
<1> QED BY <1>3, <1>9, Zenon DEF OffsetsKept

\* sendfile advances the offset it was given, and that of no other queued call.
LEMMA OffsetsWorker ==
  ASSUME TypeOK, TypeOK', OffsetsKept, NEW k \in Workers, worker(k), target = "lighty"
  PROVE  OffsetsKept'
<1> DEFINE n == Len(queues[k])
           h == queues[k][1]
<1>2. /\ queues \in [Workers -> Seq(LightyCall)] /\ tail \in [Workers -> Positions]
      /\ off_arr \in [Workers -> [0 .. N - 1 -> Nat]]
  BY Zenon DEF TypeOK
<1>3. /\ Len(queues'[k]) = n - 1 /\ n \in Nat \ {0} /\ Head(queues[k]) = h
      /\ \A i \in 1 .. Len(queues'[k]) : i + 1 \in 1 .. n /\ queues'[k][i] = queues[k][i + 1]
      /\ \A j \in Workers \ {k} : queues'[j] = queues[j]
  BY <1>2, QueueTail, Zenon
<1>1. /\ UNCHANGED <<target, RATIO, tail>> /\ Workers' = Workers
      /\ off_arr' = [off_arr EXCEPT ![k][h.off] = @ + h.len]
      /\ \A j \in Workers : TailIndex(j)' = TailIndex(j)
  BY <1>3 DEF worker, Workers, TailIndex
<1>4. h \in LightyCall /\ 1 \in 1 .. n
  BY <1>2, <1>3, SMTT(30), Z3
<1>5. /\ \A e \in (0 .. N - 1) \ {h.off} : off_arr'[k][e] = off_arr[k][e]
      /\ \A j \in Workers \ {k} : off_arr'[j] = off_arr[j]
  BY <1>1, <1>2
<1>6. \A j \in Workers : \A i \in 1 .. Len(queues[j]) :
        /\ Len(queues[j]) <= MaxOutstanding
        /\ Behind(queues[j][i].off, Len(queues[j]) - i + 1, TailIndex(j))
        /\ off_arr[j][queues[j][i].off] = queues[j][i].meant
  BY ZenonT(60) DEF OffsetsKept
<1>7. /\ N \in Nat /\ TailIndex(k) \in 0 .. N - 1 /\ MaxOutstanding \in 0 .. N - 1
      /\ n <= MaxOutstanding
  <2>1. tail[k] \in Positions
    BY <1>2
  <2>2. N \in Nat /\ TailIndex(k) \in 0 .. N - 1
    BY <2>1, NextIndex, Zenon DEF TailIndex
  <2> QED BY <1>4, <1>6, <2>2, BuffersAssumption, Zenon
<1>8. ASSUME NEW i \in 1 .. n - 1
      PROVE  /\ Behind(queues'[k][i].off, n - 1 - i + 1, TailIndex(k)')
             /\ off_arr'[k][queues'[k][i].off] = queues'[k][i].meant
  <2> DEFINE c == queues[k][i + 1]
             d == n - (i + 1) + 1
  <2>1. /\ i + 1 \in 1 .. n /\ d \in 1 .. N - 1 /\ n - 1 - i + 1 = d
        /\ n - 1 + 1 = n /\ n \in 1 .. N - 1 /\ d < n
    <3>1. n \in Nat \ {0}
      BY <1>3
    <3> HIDE DEF n
    <3> QED BY <1>7, <3>1
  <2>2. c \in LightyCall /\ queues'[k][i] = c
    BY <1>2, <1>3, <2>1
  <2>3. /\ Behind(c.off, d, TailIndex(k)) /\ off_arr[k][c.off] = c.meant
        /\ Behind(h.off, n, TailIndex(k))
    BY <1>4, <1>6, <2>1, Zenon
  <2> HIDE DEF c, d, h
  <2>4. c.off \in 0 .. N - 1 /\ h.off \in 0 .. N - 1
    BY <1>4, <2>2, LightyParts, Zenon
  <2>5. c.off # h.off
    BY <1>7, <2>1, <2>3, <2>4, BehindApart
  <2>6. off_arr'[k][c.off] = c.meant
    BY <1>5, <2>3, <2>4, <2>5, Zenon
  <2>7. TailIndex(k)' = TailIndex(k)
    BY <1>1, ZenonT(60)
  <2> QED BY <2>1, <2>2, <2>3, <2>6, <2>7, ZenonT(30)
<1>9. ASSUME NEW j \in Workers
      PROVE  /\ Len(queues'[j]) <= MaxOutstanding
             /\ \A i \in 1 .. Len(queues'[j]) :
                  /\ Behind(queues'[j][i].off, Len(queues'[j]) - i + 1, TailIndex(j)')
                  /\ off_arr'[j][queues'[j][i].off] = queues'[j][i].meant
  <2>1. CASE j = k
    <3>1. n - 1 <= MaxOutstanding
      BY <1>3, <1>7
    <3> QED BY <1>3, <1>8, <2>1, <3>1, ZenonT(60)
  <2>2. CASE j # k
    <3>1. queues'[j] = queues[j] /\ off_arr'[j] = off_arr[j] /\ TailIndex(j)' = TailIndex(j)
      BY <1>1, <1>3, <1>5, <2>2, Zenon
    <3>2. Len(queues[j]) <= MaxOutstanding
      BY Zenon DEF OffsetsKept
    <3> QED BY <1>6, <3>1, <3>2, Zenon
  <2> QED BY <2>1, <2>2
<1> QED BY <1>1, <1>9, Zenon DEF OffsetsKept

\* Every step keeps the offsets of queued sendfiles.
LEMMA OffsetsStep ==
  ASSUME TypeOK, TypeOK', OffsetsKept, [Next]_vars
  PROVE  OffsetsKept'
<1>1. ASSUME target # "lighty", UNCHANGED target
      PROVE  OffsetsKept'
  BY <1>1, Zenon DEF OffsetsKept
<1>2. ASSUME NEW k \in Workers, NEW lens \in Messages, mcached_sendmsg(k, lens)
      PROVE  OffsetsKept'
  BY <1>1, <1>2 DEF mcached_sendmsg
<1>3. CASE sendmsg_piece
  <2>1. target = "mcached" /\ UNCHANGED target
    BY <1>3, Zenon DEF sendmsg_piece, TypeOK
  <2> QED BY <1>1, <2>1, ZenonT(30)
<1>4. CASE sendmsg_submit
  <2>1. target = "mcached" /\ UNCHANGED target
    BY <1>4 DEF sendmsg_submit, Submit, TypeOK
  <2> QED BY <1>1, <2>1, Zenon
<1>5. ASSUME NEW k \in Workers, NEW len \in Lens, ngx_tls_write(k, len)
      PROVE  OffsetsKept'
  <2>1. target = "ngx_tls" /\ UNCHANGED target
    BY <1>5 DEF ngx_tls_write, Submit
  <2> QED BY <1>1, <2>1, SMTT(30), Z3
<1>6. ASSUME NEW k \in Workers, worker(k)
      PROVE  OffsetsKept'
  <2>1. target' = target
    BY <1>6 DEF worker
  <2> QED BY <1>1, <1>6, <2>1, OffsetsWorker, Zenon
<1>7. CASE UNCHANGED vars
  <2>1. UNCHANGED <<target, off_arr, queues>> /\ Workers' = Workers
        /\ \A k \in Workers : TailIndex(k)' = TailIndex(k)
    BY <1>7 DEF vars, Workers, TailIndex
  <2> QED BY <2>1, ZenonT(60) DEF OffsetsKept
<1> QED BY <1>2, <1>3, <1>4, <1>5, <1>6, <1>7, OffsetsSendfile, Zenon DEF Next
-----------------------------------------------------------------------------
(* What the kernel reads *)

\* The inductive invariant behind SentAsMeant.
SentInv == TypeOK /\ Laps /\ Held /\ TlsHeld /\ OffsetsKept

\* Bytes that are in the pool are what is read there.
LEMMA AtMem ==
  ASSUME NEW m \in Pieces, NEW base, NEW used, NEW from, InMem(mpool, used, from, base, m)
  PROVE  At(base, Len(m)) = m
<1>1. m \in Seq(Byte) /\ \A b \in 1 .. Len(m) : mpool[base + b - 1] = m[b]
  BY DEF Pieces, InMem
<1>2. m = [b \in 1 .. Len(m) |-> m[b]]
  BY <1>1
<1>3. At(base, Len(m)) = [b \in 1 .. Len(m) |-> m[b]]
  BY <1>1, Zenon DEF At
<1> QED BY <1>2, <1>3

\* What the kernel reads through an iovec.
Through(slot) == IF Iovec(slot) = <<>> THEN <<>> ELSE At(Iovec(slot).base, Iovec(slot).len)

\* An iovec that leads to the bytes m reads as m.
LEMMA IovReads ==
  ASSUME iovpool \in IovMem, NEW slot \in 0 .. MAX_POOL_IOV_SIZE - 1, NEW m \in Pieces,
         NEW used, NEW from, Iov(mpool, iovpool, used, from, slot, m)
  PROVE  Through(slot) = m
<1>1. PICK base \in Nat : /\ iovpool[slot] = [base |-> base, len |-> Len(m)]
                          /\ InMem(mpool, used, from, base, m)
  BY ZenonT(60) DEF Iov
<1>2. Iovec(slot) = [base |-> base, len |-> Len(m)]
  BY <1>1 DEF Iovec, IovMem
<1>3. [base |-> base, len |-> Len(m)] # <<>>
  <2>1. DOMAIN [base |-> base, len |-> Len(m)] = {"base", "len"} /\ DOMAIN <<>> = {}
    BY SMTT(30), Z3
  <2> QED BY <2>1
<1>4. At(base, Len(m)) = m
  BY <1>1, AtMem, Zenon
<1> QED BY <1>2, <1>3, <1>4 DEF Through

\* A message that is held reads as meant.
LEMMA MessageReads ==
  ASSUME iovpool \in IovMem, target = "mcached", NEW c \in McachedCall, NEW k,
         MsgHeld(mpool, iovpool, msgpool, alloc, c), NotLapped(c), InOnePiece(c)
  PROVE  Reads(k, c) = c.meant
<1> DEFINE m == c.meant
           f == c.iov
<1>1. m \in Seq(Pieces) /\ f \in 0 .. MAX_POOL_IOV_SIZE - 1 /\ MAX_POOL_IOV_SIZE \in Nat
      /\ f + Len(m) <= MAX_POOL_IOV_SIZE /\ Fresh(alloc, c.at)
  <2>1. m \in Seq(Pieces) /\ f \in 0 .. MAX_POOL_IOV_SIZE - 1
    BY McachedParts
  <2>2. target # "lighty"
    OBVIOUS
  <2> QED BY <2>1, <2>2, Sizes, Zenon DEF InOnePiece, NotLapped, Fresh
<1>2. msgpool[c.msg] = [iov |-> f, iovlen |-> Len(m)]
  BY <1>1, Zenon DEF MsgHeld, Header
<1>3. \A i \in 1 .. Len(m) : Iov(mpool, iovpool, alloc.bytes, c.at.bytes, f + i - 1, m[i])
  BY <1>1, Zenon DEF MsgHeld, Message
<1> HIDE DEF m, f
<1>4. ASSUME NEW i \in 1 .. Len(m)
      PROVE  Through(f + i - 1) = m[i]
  <2>1. f + i - 1 \in 0 .. MAX_POOL_IOV_SIZE - 1 /\ m[i] \in Pieces
    BY <1>1, SMTT(30), Z3
  <2> QED BY <1>3, <2>1, IovReads, Zenon
<1>5. msgpool[c.msg].iovlen = Len(m) /\ msgpool[c.msg].iov = f
  BY <1>2
<1>6. Reads(k, c) = [i \in 1 .. Len(m) |-> Through(f + i - 1)]
  BY <1>5 DEF Reads, Through
<1>7. Reads(k, c) = [i \in 1 .. Len(m) |-> m[i]]
  BY <1>4, <1>6
<1>8. m = [i \in 1 .. Len(m) |-> m[i]]
  BY <1>1
<1> QED BY <1>7, <1>8 DEF m

\* So does every queued call.
LEMMA Meant == SentInv => SentAsMeant
<1> SUFFICES ASSUME SentInv, NEW k \in Workers, NEW i \in 1 .. Len(queues[k]),
                    NotLapped(queues[k][i]), InOnePiece(queues[k][i])
             PROVE  Reads(k, queues[k][i]) = queues[k][i].meant
  BY DEF SentAsMeant, Queued
<1> DEFINE c == queues[k][i]
<1>1. /\ TypeOK /\ Held /\ TlsHeld /\ OffsetsKept /\ iovpool \in IovMem
      /\ target \in {"mcached", "ngx_tls", "lighty"}
  BY Zenon DEF SentInv, TypeOK
<1>2. CASE target = "mcached"
  <2>1. queues \in [Workers -> Seq(McachedCall)]
    BY <1>1, <1>2, Zenon DEF TypeOK
  <2>2. c \in McachedCall
    BY <2>1
  <2>3. MsgHeld(mpool, iovpool, msgpool, alloc, c)
    BY <1>1, <1>2, Zenon DEF Held
  <2> QED BY <1>1, <1>2, <2>2, <2>3, MessageReads, Zenon
<1>3. CASE target = "ngx_tls"
  <2>1. queues \in [Workers -> Seq(TlsCall)]
    BY <1>1, <1>3, Zenon DEF TypeOK
  <2>2. c \in TlsCall
    BY <2>1
  <2>3. BytesHeld(mpool, alloc.bytes, c)
    BY <1>1, <1>3, Zenon DEF TlsHeld
  <2>4. alloc.bytes - c.at.bytes <= MAX_POOL_SIZE
    BY <1>3 DEF NotLapped
  <2> HIDE DEF c
  <2>5. InMem(mpool, alloc.bytes, c.at.bytes, c.base, c.meant) /\ c.len = Len(c.meant)
    BY <2>3, <2>4, Zenon DEF BytesHeld
  <2>6. At(c.base, c.len) = c.meant
    BY <2>2, <2>5, TlsParts, AtMem, Zenon
  <2>7. Reads(k, c) = At(c.base, c.len)
    BY <1>3 DEF Reads
  <2> QED BY <2>6, <2>7 DEF c
<1>4. CASE target = "lighty"
  <2>1. off_arr[k][c.off] = c.meant
    BY <1>1, <1>4, Zenon DEF OffsetsKept
  <2> QED BY <1>4, <2>1 DEF Reads
<1> QED BY <1>1, <1>2, <1>3, <1>4

\* The invariant holds at the start: nothing is queued.
LEMMA SentInit == Init => SentInv
<1> SUFFICES ASSUME Init PROVE SentInv
  OBVIOUS
<1>1. TypeOK
  BY TypeInit
<1>2. Laps
  <2>1. /\ alloc.bytes = 0 /\ alloc.iovs = 0 /\ alloc.msgs = 0
        /\ pool_offset = 0 /\ iov_offset = 0 /\ msg_offset = 0
    BY DEF Init
  <2>2. \A size \in Nat : 0 = 0 * size + 0
    OBVIOUS
  <2> QED BY <2>1, <2>2, Sizes, Zenon DEF Laps, Lap
<1>3. sending = <<>> /\ \A k \in Workers : Len(queues[k]) = 0 /\ 1 .. Len(queues[k]) = {}
  BY DEF Init
<1>4. Held /\ TlsHeld
  BY <1>3, Zenon DEF Held, TlsHeld
<1>5. OffsetsKept
  BY <1>3, BuffersAssumption DEF OffsetsKept
<1> QED BY <1>1, <1>2, <1>4, <1>5 DEF SentInv

\* Every step keeps it.
LEMMA SentStep == SentInv /\ [Next]_vars => SentInv'
<1> SUFFICES ASSUME SentInv, [Next]_vars PROVE SentInv'
  OBVIOUS
<1>1. TypeOK /\ Laps /\ Held /\ TlsHeld /\ OffsetsKept
  BY DEF SentInv
<1>2. TypeOK'
  BY <1>1, TypeStep
<1>3. Laps'
  BY <1>1, <1>2, LapsStep
<1> QED BY <1>1, <1>2, <1>3, HeldStep, TlsStep, OffsetsStep DEF SentInv

\* What a wrapper was given is what the kernel will read, for any number of workers
\* and calls and pools of any size: always for a sendfile of lighttpd, for a copy in
\* the pools as long as they have not gone round and the message does not run over the
\* end of iovpool.
THEOREM KernelReadsWhatWasMeant == Spec => []SentAsMeant
BY SentInit, SentStep, Meant, PTL DEF Spec
-----------------------------------------------------------------------------
(***************************************************************************)
(* Pools as large as the table: with one kernel worker none of them goes   *)
(* round past a queued call, so that what is queued is what is sent.       *)
(***************************************************************************)

\* One worker, and pools with room for the calls that may wait.
Roomy ==
  /\ RATIO = 1
  /\ MaxOutstanding <= MAX_POOL_MSG_SIZE
  /\ MaxOutstanding * MaxPieces <= MAX_POOL_IOV_SIZE
  /\ MaxOutstanding * MaxPieces * Longest + Longest - 1 <= MAX_POOL_SIZE

\* d copies used u bytes and left pool_offset at off: they are the last u bytes
\* before it, or went round once and left less than a copy free at the end.
Used(u, off, d) ==
  \/ u \in 0 .. off /\ u <= d * Longest
  \/ u \in off .. off + MAX_POOL_SIZE /\ u <= d * Longest + Longest - 1

\* What has been used since a message that is followed by m headers, its own included,
\* and by u pieces of the message under way.
MsgCount(al, off, from, m, u) ==
  /\ al.msgs - from.msgs = m
  /\ al.iovs - from.iovs \in 0 .. m * MaxPieces + u
  /\ Used(al.bytes - from.bytes, off, al.iovs - from.iovs)

\* What has been used since a write that is followed by m, itself included.
WriteCount(al, off, from, m) ==
  /\ from.iovs = al.iovs /\ from.msgs = al.msgs
  /\ Used(al.bytes - from.bytes, off, m)

\* Pieces copied of the message under way.
Underway == IF sending = <<>> THEN 0 ELSE Len(sending.meant)

\* No more calls wait than may, and the counts are those of the calls that wait.
Counted ==
  /\ Len(queues[0]) <= MaxOutstanding
  /\ sending # <<>> => /\ Len(queues[0]) < MaxOutstanding
                       /\ MsgCount(alloc, pool_offset, sending.at, 0, Underway)
  /\ target = "mcached" =>
       \A i \in 1 .. Len(queues[0]) :
         MsgCount(alloc, pool_offset, queues[0][i].at, Len(queues[0]) - i + 1, Underway)
  /\ target = "ngx_tls" =>
       \A i \in 1 .. Len(queues[0]) :
         WriteCount(alloc, pool_offset, queues[0][i].at, Len(queues[0]) - i + 1)

\* The part of the inductive invariant behind PoolsHoldTable.
Counts == Roomy => Counted

\* Products of natural numbers.
LEMMA Times ==
  ASSUME NEW a \in Nat, NEW b \in Nat, NEW c \in Nat
  PROVE  /\ a * c \in Nat /\ (a + 1) * c = a * c + c
         /\ a <= b => a * c <= b * c
BY SMTT(30), Z3

\* The pieces of m messages and u of a further one are no more than may wait.
LEMMA PieceBound ==
  ASSUME NEW m \in Nat, NEW u \in 0 .. MaxPieces, m <= MaxOutstanding,
         u = 0 \/ m < MaxOutstanding
  PROVE  /\ MaxOutstanding \in Nat /\ MaxOutstanding * MaxPieces \in Nat
         /\ m * MaxPieces + u \in 0 .. MaxOutstanding * MaxPieces
<1>1. MaxOutstanding \in Nat /\ MaxPieces \in Nat
  BY BuffersAssumption
<1>2. /\ m * MaxPieces \in Nat /\ MaxOutstanding * MaxPieces \in Nat
      /\ (m + 1) * MaxPieces = m * MaxPieces + MaxPieces
      /\ m <= MaxOutstanding => m * MaxPieces <= MaxOutstanding * MaxPieces
  BY <1>1, Times
<1>3. CASE u = 0
  BY <1>1, <1>2, <1>3
<1>4. CASE m < MaxOutstanding
  <2>1. m + 1 \in Nat /\ m + 1 <= MaxOutstanding
    BY <1>1, <1>4
  <2>2. (m + 1) * MaxPieces <= MaxOutstanding * MaxPieces
    BY <1>1, <2>1, Times
  <2> QED BY <1>1, <1>2, <2>2
<1> QED BY <1>3, <1>4

\* The bytes of d pieces, and those left free at the end, are no more than the pool has.
LEMMA ByteBound ==
  ASSUME Roomy, NEW d \in Nat, d <= MaxOutstanding * MaxPieces
  PROVE  d * Longest \in Nat /\ d * Longest + Longest - 1 <= MAX_POOL_SIZE
<1> DEFINE M == MaxOutstanding * MaxPieces
<1>1. M \in Nat /\ Longest \in Nat /\ MAX_POOL_SIZE \in Nat
  BY BuffersAssumption, Times
<1>2. M * Longest + Longest - 1 <= MAX_POOL_SIZE /\ d <= M
  BY DEF Roomy
<1> HIDE DEF M
<1>3. d * Longest \in Nat /\ M * Longest \in Nat /\ d * Longest <= M * Longest
  BY <1>1, <1>2, Times
<1> QED BY <1>1, <1>2, <1>3

\* One more copy: it goes round only if the copies since have not.
LEMMA UsedCopy ==
  ASSUME Roomy, NEW off \in 0 .. MAX_POOL_SIZE, NEW len \in Lens, NEW u \in Int, NEW d \in Nat,
         Used(u, off, d), d + 1 <= MaxOutstanding * MaxPieces
  PROVE  Used(u + Spent(off, len), PoolStart(off, len) + len, d + 1)
<1>1. Longest \in Nat /\ MAX_POOL_SIZE \in Nat /\ len \in 1 .. Longest
  BY BuffersAssumption DEF Lens
<1> DEFINE D == d * Longest
<1>2. D \in Nat /\ (d + 1) * Longest = D + Longest
  BY <1>1, Times
<1>3. D + Longest + Longest - 1 <= MAX_POOL_SIZE
  <2>1. (d + 1) * Longest + Longest - 1 <= MAX_POOL_SIZE
    BY ByteBound
  <2> QED BY <1>2, <2>1
<1>4. \/ u \in 0 .. off /\ u <= D
      \/ u \in off .. off + MAX_POOL_SIZE /\ u <= D + Longest - 1
  BY DEF Used
<1> HIDE DEF D
<1>5. CASE off + len > MAX_POOL_SIZE
  <2>1. PoolStart(off, len) = 0
    BY <1>5 DEF PoolStart
  <2>2. PoolStart(off, len) # off
    BY <1>1, <1>5, <2>1, BuffersAssumption
  <2>3. Spent(off, len) = len + (MAX_POOL_SIZE - off)
    BY <2>2 DEF Spent
  <2>4. u \in 0 .. off /\ u <= D
    BY <1>1, <1>2, <1>3, <1>4, <1>5
  <2>5. /\ u + (len + (MAX_POOL_SIZE - off)) \in len .. len + MAX_POOL_SIZE
        /\ u + (len + (MAX_POOL_SIZE - off)) <= D + Longest + Longest - 1
    BY <1>1, <1>2, <1>5, <2>4
  <2>6. 0 + len = len
    BY <1>1
  <2> QED BY <1>2, <2>1, <2>3, <2>5, <2>6 DEF Used
<1>6. CASE ~ (off + len > MAX_POOL_SIZE)
  <2>1. PoolStart(off, len) = off /\ Spent(off, len) = len + 0
    BY <1>6 DEF PoolStart, Spent
  <2>2. \/ u + len \in 0 .. off + len /\ u + len <= D + Longest
        \/ u + len \in off + len .. off + len + MAX_POOL_SIZE
           /\ u + len <= D + Longest + Longest - 1
    BY <1>1, <1>2, <1>4
  <2>3. len + 0 = len
    BY <1>1
  <2> QED BY <1>2, <2>1, <2>2, <2>3 DEF Used
<1> QED BY <1>5, <1>6

\* What was used is no more than the pool has.
LEMMA UsedFits ==
  ASSUME Roomy, NEW off \in 0 .. MAX_POOL_SIZE, NEW u \in Int, NEW d \in Nat,
         Used(u, off, d), d <= MaxOutstanding * MaxPieces
  PROVE  u <= MAX_POOL_SIZE
<1>1. Longest \in Nat /\ MAX_POOL_SIZE \in Nat
  BY BuffersAssumption
<1> DEFINE D == d * Longest
<1>2. D \in Nat /\ D + Longest - 1 <= MAX_POOL_SIZE
  BY ByteBound
<1>3. \/ u \in 0 .. off /\ u <= D
      \/ u \in off .. off + MAX_POOL_SIZE /\ u <= D + Longest - 1
  BY DEF Used
<1> HIDE DEF D
<1> QED BY <1>1, <1>2, <1>3

\* A further piece of the message under way.
LEMMA CountPiece ==
  ASSUME Roomy, NEW al \in Alloc, NEW bl \in Alloc, NEW from \in Alloc,
         NEW off \in 0 .. MAX_POOL_SIZE, NEW len \in Lens, NEW m \in Nat,
         NEW u \in 0 .. MaxPieces - 1, m < MaxOutstanding, MsgCount(al, off, from, m, u),
         bl.bytes = al.bytes + Spent(off, len), bl.iovs = al.iovs + 1, bl.msgs = al.msgs
  PROVE  MsgCount(bl, PoolStart(off, len) + len, from, m, u + 1)
<1> DEFINE d == al.iovs - from.iovs
           b == al.bytes - from.bytes
           s == Spent(off, len)
<1>1. /\ al.bytes \in Nat /\ al.iovs \in Nat /\ al.msgs \in Nat
      /\ from.bytes \in Nat /\ from.iovs \in Nat /\ from.msgs \in Nat
      /\ s \in Nat /\ MaxPieces \in Nat
  BY AllocParts, PoolStartFits, Sizes
<1>2. bl.iovs - from.iovs = d + 1 /\ bl.bytes - from.bytes = b + s /\ d \in Int /\ b \in Int
  <2> HIDE DEF s
  <2> QED BY <1>1 DEF s
<1>3. d \in 0 .. m * MaxPieces + u /\ Used(b, off, d) /\ bl.msgs - from.msgs = m
  BY DEF MsgCount
<1>4. u + 1 \in 0 .. MaxPieces /\ u + 1 # 0 /\ m <= MaxOutstanding
  BY <1>1, BuffersAssumption
<1>5. /\ MaxOutstanding * MaxPieces \in Nat
      /\ m * MaxPieces + (u + 1) \in 0 .. MaxOutstanding * MaxPieces /\ m * MaxPieces \in Nat
  BY <1>1, <1>4, PieceBound, Times
<1> HIDE DEF d, b, s
<1>6. d \in Nat /\ d + 1 \in 0 .. m * MaxPieces + (u + 1) /\ d + 1 <= MaxOutstanding * MaxPieces
  BY <1>1, <1>2, <1>3, <1>5
<1>7. Used(b + s, PoolStart(off, len) + len, d + 1)
  BY <1>2, <1>3, <1>6, UsedCopy, Zenon DEF s
<1> QED BY <1>2, <1>3, <1>6, <1>7, Zenon DEF MsgCount

\* The header of the message under way, of which all u pieces have been copied.
LEMMA CountSubmit ==
  ASSUME NEW al \in Alloc, NEW bl \in Alloc, NEW from \in Alloc, NEW off, NEW m \in Nat,
         NEW u \in 0 .. MaxPieces, MsgCount(al, off, from, m, u),
         bl.bytes = al.bytes, bl.iovs = al.iovs, bl.msgs = al.msgs + 1
  PROVE  MsgCount(bl, off, from, m + 1, 0)
<1>1. /\ al.iovs \in Nat /\ al.msgs \in Nat /\ from.iovs \in Nat /\ from.msgs \in Nat
      /\ MaxPieces \in Nat /\ m * MaxPieces \in Nat
      /\ (m + 1) * MaxPieces = m * MaxPieces + MaxPieces
  BY AllocParts, Sizes, Times
<1>2. bl.msgs - from.msgs = m + 1
  BY <1>1 DEF MsgCount
<1>3. al.iovs - from.iovs \in 0 .. m * MaxPieces + u
  BY DEF MsgCount
<1>4. al.iovs - from.iovs \in 0 .. (m + 1) * MaxPieces + 0
  BY <1>1, <1>3
<1>5. Used(al.bytes - from.bytes, off, al.iovs - from.iovs)
  BY DEF MsgCount
<1>6. bl.iovs - from.iovs = al.iovs - from.iovs /\ bl.bytes - from.bytes = al.bytes - from.bytes
  BY Zenon
<1> QED BY <1>2, <1>4, <1>5, <1>6, Zenon DEF MsgCount

\* A further write.
LEMMA CountWrite ==
  ASSUME Roomy, NEW al \in Alloc, NEW bl \in Alloc, NEW from \in Alloc,
         NEW off \in 0 .. MAX_POOL_SIZE, NEW len \in Lens, NEW m \in Nat, m < MaxOutstanding,
         WriteCount(al, off, from, m),
         bl.bytes = al.bytes + Spent(off, len), bl.iovs = al.iovs, bl.msgs = al.msgs
  PROVE  WriteCount(bl, PoolStart(off, len) + len, from, m + 1)
<1> DEFINE b == al.bytes - from.bytes
           s == Spent(off, len)
<1>1. /\ al.bytes \in Nat /\ from.bytes \in Nat /\ s \in Nat /\ MaxPieces \in Nat \ {0}
  BY AllocParts, PoolStartFits, BuffersAssumption
<1>2. bl.bytes - from.bytes = b + s /\ b \in Int
  <2> HIDE DEF s
  <2> QED BY <1>1 DEF s
<1>3. Used(b, off, m) /\ from.iovs = bl.iovs /\ from.msgs = bl.msgs
  BY Zenon DEF WriteCount
<1>4. m + 1 <= MaxOutstanding * MaxPieces
  <2>1. m + 1 \in Nat /\ MaxOutstanding \in Nat /\ m + 1 <= MaxOutstanding
    BY BuffersAssumption
  <2>2. MaxOutstanding <= MaxOutstanding * MaxPieces
    BY <1>1, <2>1, SMTT(30), Z3
  <2>3. MaxOutstanding * MaxPieces \in Nat
    BY <1>1, <2>1
  <2> QED BY <2>1, <2>2, <2>3
<1> HIDE DEF b, s
<1>5. Used(b + s, PoolStart(off, len) + len, m + 1)
  BY <1>2, <1>3, <1>4, UsedCopy, Zenon DEF s
<1> QED BY <1>2, <1>3, <1>5, Zenon DEF WriteCount

\* Nothing has been used since now.
LEMMA CountNow ==
  ASSUME NEW al \in Alloc, NEW off \in 0 .. MAX_POOL_SIZE
  PROVE  MsgCount(al, off, al, 0, 0) /\ WriteCount(al, off, al, 0)
<1>1. /\ al.bytes - al.bytes = 0 /\ al.iovs - al.iovs = 0 /\ al.msgs - al.msgs = 0
      /\ 0 * MaxPieces + 0 = 0 /\ 0 * Longest = 0 /\ MAX_POOL_SIZE \in Nat
  BY AllocParts, Sizes
<1>2. Used(0, off, 0)
  BY <1>1 DEF Used
<1>3. 0 \in 0 .. 0 * MaxPieces + 0
  BY <1>1
<1> QED BY <1>1, <1>2, <1>3, Zenon DEF MsgCount, WriteCount

\* With one worker there is one table.
LEMMA OneTable ==
  ASSUME Roomy
  PROVE  Workers = {0} /\ MaxOutstanding \in Nat
<1>1. RATIO = 1
  BY DEF Roomy
<1> QED BY <1>1, BuffersAssumption DEF Workers

\* Pieces of the message under way.
LEMMA UnderwayType ==
  ASSUME TypeOK
  PROVE  Underway \in 0 .. MaxPieces
<1>0. MaxPieces \in Nat
  BY Sizes
<1>1. CASE sending = <<>>
  BY <1>0, <1>1 DEF Underway
<1>2. CASE sending # <<>>
  <2>1. sending \in SendType /\ Len(sending.meant) <= Len(sending.lens)
    BY <1>2, Zenon DEF TypeOK
  <2>2. sending.lens \in Messages /\ sending.meant \in Seq(Pieces)
    BY <2>1 DEF SendType
  <2>3. Len(sending.lens) \in 1 .. MaxPieces /\ Len(sending.meant) \in Nat
    BY <2>2, MessageSeq
  <2>4. Underway = Len(sending.meant)
    BY <1>2 DEF Underway
  <2> QED BY <1>0, <2>1, <2>3, <2>4
<1> QED BY <1>1, <1>2

\* The start of a sendmsg.
LEMMA CountsStart ==
  ASSUME TypeOK, Roomy, Counted, NEW k \in Workers, NEW lens \in Messages,
         mcached_sendmsg(k, lens)
  PROVE  Counted'
<1>1. /\ UNCHANGED <<target, alloc, pool_offset, queues>> /\ sending = <<>>
      /\ sending'.at = alloc /\ sending'.meant = <<>> /\ target = "mcached"
      /\ Len(queues[k]) < MaxOutstanding
  BY DEF mcached_sendmsg, MayCall
<1>2. Underway = 0 /\ Underway' = 0
  <2>1. Len(<<>>) = 0
    OBVIOUS
  <2> QED BY <1>1, <2>1 DEF Underway
<1>3. Len(queues[0]) < MaxOutstanding /\ Len(queues[0]) <= MaxOutstanding
  BY <1>1, OneTable, Zenon DEF Counted
<1>4. MsgCount(alloc, pool_offset, alloc, 0, 0)
  BY CountNow, Zenon DEF TypeOK
<1>5. \A i \in 1 .. Len(queues[0]) :
        MsgCount(alloc, pool_offset, queues[0][i].at, Len(queues[0]) - i + 1, 0)
  BY <1>1, <1>2, Zenon DEF Counted
<1>6. target # "ngx_tls"
  BY <1>1
<1> QED BY <1>1, <1>2, <1>3, <1>4, <1>5, <1>6, Zenon DEF Counted

\* A turn of its loop.
LEMMA CountsPiece ==
  ASSUME TypeOK, TypeOK', Roomy, Counted, sendmsg_piece
  PROVE  Counted'
<1> DEFINE len == sending.lens[Len(sending.meant) + 1]
           n   == Len(queues[0])
           u   == Underway
<1>1. /\ UNCHANGED <<target, queues>> /\ sending # <<>> /\ sending'.at = sending.at
      /\ sending'.meant = Append(sending.meant, Bytes(calls + 1, Len(sending.meant) + 1, len))
      /\ Len(sending.meant) + 1 <= Len(sending.lens)
      /\ pool_offset' = PoolStart(pool_offset, len) + len
      /\ alloc'.bytes = alloc.bytes + Spent(pool_offset, len)
      /\ alloc'.iovs = alloc.iovs + 1 /\ alloc'.msgs = alloc.msgs
  BY Zenon DEF sendmsg_piece
<1>2. /\ sending \in SendType /\ target = "mcached" /\ queues \in [Workers -> Seq(McachedCall)]
      /\ alloc \in Alloc /\ alloc' \in Alloc /\ pool_offset \in 0 .. MAX_POOL_SIZE
      /\ sending' # <<>>
  <2>1. sending' # <<>>
    <3>1. PICK m : sending' = [table |-> sending.table, lens |-> sending.lens, at |-> sending.at,
                               iov |-> sending.iov, meant |-> m]
      BY ZenonT(30) DEF sendmsg_piece
    <3>2. "at" \in DOMAIN sending' /\ DOMAIN <<>> = {}
      BY <3>1
    <3> QED BY <3>2, Zenon
  <2> QED BY <1>1, <2>1, Zenon DEF TypeOK
<1>3. /\ sending.lens \in Messages /\ sending.meant \in Seq(Pieces) /\ sending.at \in Alloc
  BY <1>2, Zenon DEF SendType
<1>4. /\ len \in Lens /\ u \in 0 .. MaxPieces - 1 /\ Underway' = u + 1
  <2>1. /\ sending.lens \in Seq(Lens) /\ Len(sending.lens) \in 1 .. MaxPieces
        /\ Len(sending.meant) \in Nat /\ MaxPieces \in Nat
    BY <1>3, MessageSeq, Sizes
  <2>2. Underway = Len(sending.meant)
    BY <1>1 DEF Underway
  <2>3. Underway' = Len(sending.meant) + 1
    <3>1. Len(sending'.meant) = Len(sending.meant) + 1
      BY <1>1, <1>3
    <3> QED BY <1>2, <3>1 DEF Underway
  <2> QED BY <1>1, <2>1, <2>2, <2>3
<1>5. n \in Nat /\ n < MaxOutstanding /\ MaxOutstanding \in Nat
  <2>1. queues[0] \in Seq(McachedCall) /\ MaxOutstanding \in Nat
    BY <1>2, OneTable, ZenonT(30)
  <2>2. n < MaxOutstanding
    BY <1>1 DEF Counted
  <2> QED BY <2>1, <2>2
<1>6. ASSUME NEW from \in Alloc, NEW m \in Nat, m <= n, MsgCount(alloc, pool_offset, from, m, u)
      PROVE  MsgCount(alloc', pool_offset', from, m, u + 1)
  <2>1. m < MaxOutstanding
    <3> HIDE DEF n
    <3> QED BY <1>5, <1>6
  <2> HIDE DEF len, n, u
  <2>2. MsgCount(alloc', PoolStart(pool_offset, len) + len, from, m, u + 1)
    BY <1>1, <1>2, <1>4, <1>6, <2>1, CountPiece, Zenon
  <2> QED BY <1>1, <2>2, Zenon
<1>7. MsgCount(alloc', pool_offset', sending.at, 0, u + 1)
  <2>1. MsgCount(alloc, pool_offset, sending.at, 0, u)
    BY <1>1, Zenon DEF Counted
  <2>2. 0 \in Nat /\ 0 <= n
    BY <1>5
  <2> QED BY <1>3, <1>6, <2>1, <2>2, Zenon
<1>8. ASSUME NEW i \in 1 .. n
      PROVE  MsgCount(alloc', pool_offset', queues[0][i].at, n - i + 1, u + 1)
  <2>1. MsgCount(alloc, pool_offset, queues[0][i].at, n - i + 1, u)
    BY <1>2, Zenon DEF Counted
  <2>2. n - i + 1 \in Nat /\ n - i + 1 <= n
    <3> HIDE DEF n
    <3> QED BY <1>5
  <2>3. queues[0][i].at \in Alloc
    <3>1. queues[0][i] \in McachedCall
      BY <1>2, OneTable
    <3> QED BY <3>1, McachedParts
  <2> QED BY <1>6, <2>1, <2>2, <2>3, Zenon
<1>9. target # "ngx_tls" /\ n <= MaxOutstanding
  BY <1>2, <1>5
<1> QED BY <1>1, <1>4, <1>5, <1>7, <1>8, <1>9, ZenonT(60) DEF Counted

\* The end of a sendmsg.
LEMMA CountsSubmit ==
  ASSUME TypeOK, TypeOK', Roomy, Counted, sendmsg_submit
  PROVE  Counted'
<1> DEFINE n == Len(queues[0])
           u == Underway
           call == [msg |-> msg_offset, at |-> sending.at, iov |-> sending.iov,
                    meant |-> sending.meant]
<1>1. /\ sending # <<>> /\ sending' = <<>> /\ pool_offset' = pool_offset
      /\ alloc'.bytes = alloc.bytes /\ alloc'.iovs = alloc.iovs /\ alloc'.msgs = alloc.msgs + 1
      /\ Submit(sending.table, call)
  BY DEF sendmsg_submit
<1>2. /\ sending \in SendType /\ target = "mcached" /\ queues \in [Workers -> Seq(McachedCall)]
      /\ alloc \in Alloc /\ alloc' \in Alloc
  BY <1>1, Zenon DEF TypeOK
<1>3. sending.at \in Alloc /\ sending.table = 0 /\ Workers = {0} /\ MaxOutstanding \in Nat
      /\ call.at = sending.at
  BY <1>2, OneTable DEF SendType
<1> HIDE DEF call
<1>4. /\ target' = target /\ Len(queues'[0]) = n + 1 /\ queues'[0][n + 1] = call
      /\ \A i \in 1 .. n : queues'[0][i] = queues[0][i]
  <2>1. 0 \in Workers /\ Submit(0, call)
    BY <1>1, <1>3
  <2> QED BY <1>2, <2>1, QueueAppend, Zenon
<1>5. n \in Nat /\ n < MaxOutstanding /\ u \in 0 .. MaxPieces /\ Underway' = 0
  <2>1. queues[0] \in Seq(McachedCall)
    BY <1>2, <1>3, Zenon
  <2>2. n < MaxOutstanding
    BY <1>1 DEF Counted
  <2>3. Underway' = 0
    BY <1>1 DEF Underway
  <2> QED BY <2>1, <2>2, <2>3, UnderwayType
<1>6. ASSUME NEW from \in Alloc, NEW m \in Nat, MsgCount(alloc, pool_offset, from, m, u)
      PROVE  MsgCount(alloc', pool_offset, from, m + 1, 0)
  BY <1>1, <1>2, <1>5, <1>6, CountSubmit, ZenonT(30)
<1>7. ASSUME NEW i \in 1 .. n + 1
      PROVE  MsgCount(alloc', pool_offset, queues'[0][i].at, n + 1 - i + 1, 0)
  <2>1. CASE i = n + 1
    <3>1. MsgCount(alloc, pool_offset, sending.at, 0, u)
      BY <1>1, Zenon DEF Counted
    <3>2. MsgCount(alloc', pool_offset, sending.at, 0 + 1, 0)
      BY <1>3, <1>6, <3>1
    <3>3. n + 1 - i + 1 = 0 + 1
      <4> HIDE DEF n
      <4> QED BY <1>5, <2>1
    <3>4. queues'[0][i].at = sending.at
      BY <1>3, <1>4, <2>1, Zenon
    <3> QED BY <3>2, <3>3, <3>4, Zenon
  <2>2. CASE i # n + 1
    <3>1. /\ i \in 1 .. n /\ n - i + 1 \in Nat /\ n + 1 - i + 1 = (n - i + 1) + 1
      <4> HIDE DEF n
      <4> QED BY <1>5, <2>2
    <3>2. MsgCount(alloc, pool_offset, queues[0][i].at, n - i + 1, u)
      BY <1>2, <3>1, Zenon DEF Counted
    <3>3. queues[0][i].at \in Alloc
      <4>1. queues[0][i] \in McachedCall
        BY <1>2, <1>3, <3>1
      <4> QED BY <4>1, McachedParts
    <3>4. MsgCount(alloc', pool_offset, queues[0][i].at, (n - i + 1) + 1, 0)
      BY <1>6, <3>1, <3>2, <3>3, Zenon
    <3> QED BY <1>4, <3>1, <3>4, Zenon
  <2> QED BY <2>1, <2>2
<1>8. n + 1 <= MaxOutstanding /\ target # "ngx_tls"
  <2> HIDE DEF n
  <2> QED BY <1>2, <1>3, <1>5
<1>9. ASSUME NEW i \in 1 .. Len(queues'[0])
      PROVE  MsgCount(alloc', pool_offset', queues'[0][i].at, Len(queues'[0]) - i + 1, Underway')
  <2>1. i \in 1 .. n + 1 /\ Len(queues'[0]) - i + 1 = n + 1 - i + 1
    <3>1. Len(queues'[0]) = n + 1
      BY <1>4
    <3> HIDE DEF n
    <3> QED BY <1>5, <3>1
  <2> QED BY <1>1, <1>5, <1>7, <2>1, Zenon
<1> QED BY <1>1, <1>4, <1>8, <1>9, ZenonT(60) DEF Counted

\* A write of ngx_tls.
LEMMA CountsWrite ==
  ASSUME TypeOK, TypeOK', Roomy, Counted, NEW k \in Workers, NEW len \in Lens,
         ngx_tls_write(k, len)
  PROVE  Counted'
<1> DEFINE n    == Len(queues[0])
           call == [base |-> PoolStart(pool_offset, len), len |-> len, at |-> alloc,
                    meant |-> Bytes(calls + 1, 1, len)]
<1>1. /\ target = "ngx_tls" /\ Len(queues[k]) < MaxOutstanding /\ sending' = sending
      /\ pool_offset' = PoolStart(pool_offset, len) + len
      /\ alloc'.bytes = alloc.bytes + Spent(pool_offset, len)
      /\ alloc'.iovs = alloc.iovs /\ alloc'.msgs = alloc.msgs
      /\ Submit(k, call)
  BY DEF ngx_tls_write, MayCall
<1>2. /\ queues \in [Workers -> Seq(TlsCall)] /\ sending = <<>>
      /\ alloc \in Alloc /\ alloc' \in Alloc /\ pool_offset \in 0 .. MAX_POOL_SIZE
  <2>1. target # "mcached"
    BY <1>1, Zenon
  <2> QED BY <1>1, <2>1, ZenonT(60) DEF TypeOK
<1>3. k = 0 /\ Workers = {0} /\ MaxOutstanding \in Nat /\ call.at = alloc
  BY OneTable
<1> HIDE DEF call
<1>4. /\ target' = target /\ Len(queues'[0]) = n + 1 /\ queues'[0][n + 1] = call
      /\ \A i \in 1 .. n : queues'[0][i] = queues[0][i]
  <2>1. 0 \in Workers /\ Submit(0, call)
    BY <1>1, <1>3, ZenonT(30)
  <2> QED BY <1>2, <2>1, QueueAppend, Zenon
<1>5. n \in Nat /\ n < MaxOutstanding
  <2>1. queues[0] \in Seq(TlsCall)
    BY <1>2, <1>3, Zenon
  <2>2. n < MaxOutstanding
    BY <1>1, <1>3, Zenon
  <2>3. n \in Nat
    <3> HIDE DEF call
    <3> QED BY <2>1
  <2> QED BY <2>2, <2>3, Zenon
<1>6. ASSUME NEW from \in Alloc, NEW m \in Nat, m <= n, WriteCount(alloc, pool_offset, from, m)
      PROVE  WriteCount(alloc', pool_offset', from, m + 1)
  <2>1. m < MaxOutstanding
    <3> HIDE DEF n
    <3> QED BY <1>3, <1>5, <1>6
  <2>2. WriteCount(alloc', PoolStart(pool_offset, len) + len, from, m + 1)
    BY <1>1, <1>2, <1>6, <2>1, CountWrite, ZenonT(30)
  <2> QED BY <1>1, <2>2, Zenon
<1>7. ASSUME NEW i \in 1 .. n + 1
      PROVE  WriteCount(alloc', pool_offset', queues'[0][i].at, n + 1 - i + 1)
  <2>1. CASE i = n + 1
    <3>1. WriteCount(alloc, pool_offset, alloc, 0) /\ 0 \in Nat /\ 0 <= n
      BY <1>2, <1>5, CountNow
    <3>2. WriteCount(alloc', pool_offset', alloc, 0 + 1)
      BY <1>2, <1>6, <3>1, Zenon
    <3>3. n + 1 - i + 1 = 0 + 1
      <4> HIDE DEF n
      <4> QED BY <1>5, <2>1
    <3>4. queues'[0][i].at = alloc
      BY <1>3, <1>4, <2>1, Zenon
    <3> QED BY <3>2, <3>3, <3>4, Zenon
  <2>2. CASE i # n + 1
    <3>1. /\ i \in 1 .. n /\ n - i + 1 \in Nat /\ n + 1 - i + 1 = (n - i + 1) + 1
          /\ n - i + 1 <= n
      <4> HIDE DEF n
      <4> QED BY <1>5, <2>2
    <3>2. WriteCount(alloc, pool_offset, queues[0][i].at, n - i + 1)
      BY <1>1, <3>1, Zenon DEF Counted
    <3>3. queues[0][i].at \in Alloc
      <4>1. queues[0][i] \in TlsCall
        BY <1>2, <1>3, <3>1
      <4> QED BY <4>1, TlsParts
    <3>4. WriteCount(alloc', pool_offset', queues[0][i].at, (n - i + 1) + 1)
      BY <1>6, <3>1, <3>2, <3>3, Zenon
    <3> QED BY <1>4, <3>1, <3>4, Zenon
  <2> QED BY <2>1, <2>2, Zenon
<1>8. n + 1 <= MaxOutstanding /\ target # "mcached"
  <2> HIDE DEF n
  <2> QED BY <1>1, <1>3, <1>5
<1>9. ASSUME NEW i \in 1 .. Len(queues'[0])
      PROVE  WriteCount(alloc', pool_offset', queues'[0][i].at, Len(queues'[0]) - i + 1)
  <2>1. i \in 1 .. n + 1 /\ Len(queues'[0]) - i + 1 = n + 1 - i + 1
    <3>1. Len(queues'[0]) = n + 1
      BY <1>4
    <3> HIDE DEF n
    <3> QED BY <1>5, <3>1
  <2> QED BY <1>7, <2>1, Zenon
<1> QED BY <1>1, <1>2, <1>4, <1>8, <1>9, ZenonT(30) DEF Counted

\* A sendfile of lighty.
LEMMA CountsSendfile ==
  ASSUME TypeOK, Roomy, Counted, NEW k \in Workers, NEW len \in Lens, lighty_sendfile64(k, len)
  PROVE  Counted'
<1>1. /\ target = "lighty" /\ target' = target /\ Len(queues[k]) < MaxOutstanding
      /\ sending' = sending /\ \E call : Submit(k, call)
  BY Zenon DEF lighty_sendfile64, MayCall, Submit, pools
<1>2. queues \in [Workers -> Seq(LightyCall)] /\ sending = <<>>
  <2>1. target # "mcached"
    BY <1>1
  <2> QED BY <1>1, <2>1, Zenon DEF TypeOK
<1>3. k = 0 /\ Workers = {0} /\ MaxOutstanding \in Nat
  BY OneTable
<1>4. Len(queues'[k]) = Len(queues[k]) + 1
  BY <1>1, <1>2, QueueAppend, Zenon
<1>5. Len(queues[k]) \in Nat
  BY <1>2
<1>6. Len(queues'[0]) <= MaxOutstanding
  BY <1>1, <1>3, <1>4, <1>5
<1>7. target # "mcached" /\ target # "ngx_tls"
  BY <1>1
<1> QED BY <1>1, <1>2, <1>6, <1>7, Zenon DEF Counted

\* A call is performed.
LEMMA CountsWorker ==
  ASSUME TypeOK, Roomy, Counted, NEW k \in Workers, worker(k)
  PROVE  Counted'
<1> DEFINE n == Len(queues[0])
<1>1. UNCHANGED <<target, alloc, pool_offset, sending>> /\ Underway' = Underway
  BY DEF worker, pools, Underway
<1>2. k = 0 /\ 0 \in Workers /\ MaxOutstanding \in Nat
  BY OneTable
<1>3. /\ Len(queues'[0]) = n - 1 /\ n \in Nat \ {0}
      /\ \A i \in 1 .. Len(queues'[0]) : i + 1 \in 1 .. n /\ queues'[0][i] = queues[0][i + 1]
  <2>1. \E T : queues \in [Workers -> Seq(T)]
    BY Zenon DEF TypeOK
  <2>2. worker(0)
    BY <1>2
  <2> QED BY <1>2, <2>1, <2>2, QueueTail, Zenon
<1>4. \A i \in 1 .. Len(queues'[0]) : Len(queues'[0]) - i + 1 = n - (i + 1) + 1
  <2>1. Len(queues'[0]) = n - 1 /\ n \in Nat
    BY <1>3
  <2> HIDE DEF n
  <2> QED BY <2>1
<1>5. n <= MaxOutstanding /\ (sending # <<>> => n < MaxOutstanding)
  BY Zenon DEF Counted
<1>6. /\ Len(queues'[0]) <= MaxOutstanding
      /\ sending # <<>> => Len(queues'[0]) < MaxOutstanding
  <2>1. Len(queues'[0]) = n - 1 /\ n \in Nat
    BY <1>3
  <2> HIDE DEF n
  <2> QED BY <1>2, <1>5, <2>1
<1>7. ASSUME target = "mcached", NEW i \in 1 .. Len(queues'[0])
      PROVE  MsgCount(alloc, pool_offset, queues'[0][i].at, Len(queues'[0]) - i + 1, Underway)
  <2>1. MsgCount(alloc, pool_offset, queues[0][i + 1].at, n - (i + 1) + 1, Underway)
    BY <1>3, <1>7, Zenon DEF Counted
  <2> QED BY <1>3, <1>4, <2>1, Zenon
<1>8. ASSUME target = "ngx_tls", NEW i \in 1 .. Len(queues'[0])
      PROVE  WriteCount(alloc, pool_offset, queues'[0][i].at, Len(queues'[0]) - i + 1)
  <2>1. WriteCount(alloc, pool_offset, queues[0][i + 1].at, n - (i + 1) + 1)
    BY <1>3, <1>8, Zenon DEF Counted
  <2> QED BY <1>3, <1>4, <2>1, Zenon
<1>9. sending # <<>> => MsgCount(alloc, pool_offset, sending.at, 0, Underway)
  BY Zenon DEF Counted
<1> QED BY <1>1, <1>6, <1>7, <1>8, <1>9, Zenon DEF Counted

\* Every step keeps the counts.
LEMMA CountsStep ==
  ASSUME TypeOK, TypeOK', Counts, [Next]_vars
  PROVE  Counts'
<1>1. RATIO' = RATIO
  BY ZenonT(60) DEF Next, vars, mcached_sendmsg, sendmsg_piece, sendmsg_submit, ngx_tls_write,
         lighty_sendfile64, worker, Submit
<1>2. Roomy' => Roomy
  BY <1>1 DEF Roomy
<1> SUFFICES ASSUME Roomy, Counted PROVE Counted'
  BY <1>2 DEF Counts
<1>3. CASE UNCHANGED vars
  <2>1. UNCHANGED <<target, alloc, pool_offset, sending, queues>> /\ Underway' = Underway
    BY <1>3 DEF vars, pools, Underway
  <2> QED BY <2>1, Zenon DEF Counted
<1> QED BY <1>3, CountsStart, CountsPiece, CountsSubmit, CountsWrite, CountsSendfile,
           CountsWorker, ZenonT(60) DEF Next

\* The counts leave every queued call in its place.
LEMMA CountsHold ==
  ASSUME TypeOK, Counts
  PROVE  PoolsHoldTable
<1> SUFFICES ASSUME Roomy, NEW k \in Workers, NEW i \in 1 .. Len(queues[k])
             PROVE  NotLapped(queues[k][i])
  BY DEF PoolsHoldTable, Roomy, Queued
<1> DEFINE n == Len(queues[0])
           from == queues[0][i].at
           m == n - i + 1
           d == alloc.iovs - from.iovs
           b == alloc.bytes - from.bytes
<1>1. k = 0 /\ Workers = {0} /\ MaxOutstanding \in Nat /\ Counted /\ i \in 1 .. n
  BY OneTable DEF Counts
<1>2. /\ target \in {"mcached", "ngx_tls", "lighty"} /\ alloc \in Alloc
      /\ pool_offset \in 0 .. MAX_POOL_SIZE
  BY Zenon DEF TypeOK
<1>3. ASSUME target \in {"mcached", "ngx_tls"}
      PROVE  n \in Nat /\ from \in Alloc
  <2>1. CASE target = "mcached"
    <3>1. queues \in [Workers -> Seq(McachedCall)]
      BY <2>1, Zenon DEF TypeOK
    <3>2. queues[0] \in Seq(McachedCall) /\ queues[0][i] \in McachedCall
      BY <1>1, <3>1
    <3> QED BY <3>2, McachedParts
  <2>2. CASE target = "ngx_tls"
    <3>1. queues \in [Workers -> Seq(TlsCall)]
      BY <2>2, Zenon DEF TypeOK
    <3>2. queues[0] \in Seq(TlsCall) /\ queues[0][i] \in TlsCall
      BY <1>1, <3>1
    <3> QED BY <3>2, TlsParts
  <2> QED BY <1>3, <2>1, <2>2
<1>4. ASSUME target \in {"mcached", "ngx_tls"}
      PROVE  /\ m \in Nat /\ m <= n /\ n <= MaxOutstanding /\ d \in Int /\ b \in Int
             /\ alloc.iovs \in Nat /\ alloc.msgs \in Nat
  <2>1. n \in Nat /\ n <= MaxOutstanding
    BY <1>1, <1>3, <1>4 DEF Counted
  <2>2. /\ alloc.bytes \in Nat /\ alloc.iovs \in Nat /\ alloc.msgs \in Nat
        /\ from.bytes \in Nat /\ from.iovs \in Nat
    BY <1>2, <1>3, <1>4, AllocParts
  <2> HIDE DEF n, from
  <2> QED BY <1>1, <2>1, <2>2, SMTT(30), Z3
<1>5. /\ MaxOutstanding <= MAX_POOL_MSG_SIZE /\ MAX_POOL_MSG_SIZE \in Nat
      /\ MaxOutstanding * MaxPieces <= MAX_POOL_IOV_SIZE /\ MAX_POOL_IOV_SIZE \in Nat
      /\ MaxOutstanding * MaxPieces \in Nat
  BY <1>1, Sizes, Times DEF Roomy
<1>6. CASE target = "mcached"
  <2>1. MsgCount(alloc, pool_offset, from, m, Underway)
    BY <1>1, <1>6, Zenon DEF Counted
  <2>2. Underway \in 0 .. MaxPieces /\ (Underway = 0 \/ n < MaxOutstanding)
    BY <1>1, UnderwayType DEF Counted, Underway
  <2>3. m * MaxPieces + Underway \in 0 .. MaxOutstanding * MaxPieces
    <3>1. m \in Nat /\ m <= MaxOutstanding /\ (Underway = 0 \/ m < MaxOutstanding)
      <4>1. m \in Nat /\ m <= n /\ n <= MaxOutstanding /\ n \in Nat
        BY <1>3, <1>4, <1>6, Zenon
      <4> HIDE DEF m, n
      <4> QED BY <1>1, <2>2, <4>1
    <3> HIDE DEF m
    <3> QED BY <2>2, <3>1, PieceBound
  <2>4. alloc.msgs - from.msgs = m /\ d \in 0 .. m * MaxPieces + Underway /\ Used(b, pool_offset, d)
    BY <2>1, SMTT(30), Z3 DEF MsgCount
  <2>5. m \in Nat /\ m <= n /\ n <= MaxOutstanding /\ d \in Int /\ b \in Int /\ n \in Nat
    BY <1>3, <1>4, <1>6
  <2> HIDE DEF n, m, d, b, from
  <2>6. d \in Nat /\ d <= MaxOutstanding * MaxPieces /\ d <= MAX_POOL_IOV_SIZE
        /\ m <= MAX_POOL_MSG_SIZE
    BY <1>1, <1>5, <2>3, <2>4, <2>5
  <2>7. b <= MAX_POOL_SIZE
    BY <1>2, <2>4, <2>5, <2>6, UsedFits, ZenonT(60)
  <2>8. alloc.msgs - from.msgs <= MAX_POOL_MSG_SIZE
    BY <2>4, <2>6
  <2> QED BY <1>1, <2>6, <2>7, <2>8, Zenon DEF NotLapped, d, b, from
<1>7. CASE target = "ngx_tls"
  <2>1. WriteCount(alloc, pool_offset, from, m)
    BY <1>1, <1>7, Zenon DEF Counted
  <2>2. Used(b, pool_offset, m) /\ from.iovs = alloc.iovs /\ from.msgs = alloc.msgs
    BY <2>1, Zenon DEF WriteCount
  <2>3. /\ m \in Nat /\ m <= n /\ n <= MaxOutstanding /\ b \in Int /\ n \in Nat
        /\ alloc.iovs \in Nat /\ alloc.msgs \in Nat
    BY <1>3, <1>4, <1>7
  <2> HIDE DEF n, m, b, from
  <2>4. m <= MaxOutstanding * MaxPieces
    <3>1. MaxOutstanding <= MaxOutstanding * MaxPieces
      BY <1>1, BuffersAssumption, SMTT(30), Z3
    <3> QED BY <1>1, <1>5, <2>3, <3>1
  <2>5. b <= MAX_POOL_SIZE
    BY <1>2, <2>2, <2>3, <2>4, UsedFits, ZenonT(60)
  <2>6. /\ alloc.iovs - from.iovs <= MAX_POOL_IOV_SIZE
        /\ alloc.msgs - from.msgs <= MAX_POOL_MSG_SIZE
    BY <1>5, <2>2, <2>3, SMTT(30), Z3
  <2> QED BY <1>1, <2>5, <2>6, Zenon DEF NotLapped, b, from
<1>8. CASE target = "lighty"
  BY <1>8 DEF NotLapped
<1> QED BY <1>2, <1>6, <1>7, <1>8

\* With one kernel worker, and pools as large as the calls that may wait can need, no
\* pool goes round past a queued call, whatever the sizes.
THEOREM PoolsAsLargeAsTheTable == Spec => []PoolsHoldTable
<1>1. Init => TypeOK /\ Counts
  <2> SUFFICES ASSUME Init PROVE TypeOK /\ Counts
    OBVIOUS
  <2>1. TypeOK
    BY TypeInit
  <2>2. sending = <<>> /\ \A k \in Workers : Len(queues[k]) = 0 /\ 1 .. Len(queues[k]) = {}
    BY DEF Init
  <2>3. ASSUME Roomy PROVE Counted
    <3>1. Len(queues[0]) = 0 /\ 1 .. Len(queues[0]) = {} /\ 0 <= MaxOutstanding
      BY <2>2, <2>3, OneTable
    <3> QED BY <2>2, <3>1, Zenon DEF Counted
  <2> QED BY <2>1, <2>3 DEF Counts
<1>2. (TypeOK /\ Counts) /\ [Next]_vars => (TypeOK /\ Counts)'
  BY TypeStep, CountsStep
<1>3. TypeOK /\ Counts => PoolsHoldTable
  BY CountsHold
<1> QED BY <1>1, <1>2, <1>3, PTL DEF Spec

\* Then every queued call is sent as it was meant, a message that runs over the end of
\* iovpool excepted: no assumption on how late the worker is remains.
THEOREM RoomyPoolsSendAsMeant ==
  Spec => [](Roomy => \A k \in Workers : \A c \in Queued(k) :
                        InOnePiece(c) => Reads(k, c) = c.meant)
<1> DEFINE Sent == Roomy => \A k \in Workers : \A c \in Queued(k) :
                              InOnePiece(c) => Reads(k, c) = c.meant
<1>1. SentAsMeant /\ PoolsHoldTable => Sent
  BY DEF SentAsMeant, PoolsHoldTable, Roomy
<1> HIDE DEF Sent
<1>2. Spec => []Sent
  BY <1>1, KernelReadsWhatWasMeant, PoolsAsLargeAsTheTable, PTL
<1> QED BY <1>2 DEF Sent
=============================================================================
