----------------------------- MODULE FdDispatch -----------------------------
(***************************************************************************)
(* How the wrappers of one user worker spread its calls over the RATIO     *)
(* tables of its set, and what that does to calls that concern the same    *)
(* file descriptor.  Each table is the queue of OffloadQueue (the ring     *)
(* itself, the flags and batch_num are in EscaTable); its kernel worker    *)
(* performs the calls of its own table in order, and the workers run       *)
(* concurrently.                                                           *)
(*                                                                         *)
(* A wrapper reports success when it has queued the call, so the program   *)
(* and the kernel disagree for a while about which descriptors are open:   *)
(* held is the program's view and fdtable the kernel's.  Both map a        *)
(* descriptor to the open file it stands for, 0 if none.                   *)
(***************************************************************************)
EXTENDS Integers, Sequences, FiniteSets

CONSTANTS
  Targets,      \* the wrapper files considered, see AllTargets
  CPU_NUM_LIMIT,  \* the most tables a set can have
  Ratios,       \* numbers of kernel workers per user worker considered
  Fds,          \* the descriptors the kernel hands out
  MaxFiles,     \* bound: files the program opens in one behaviour
  MaxCalls      \* bound: calls the program makes in one behaviour

AllTargets ==
  {"ngx", "ngx_tls", "ngx_ktls", "lighty", "redis", "echo", "mcached"}

ASSUME DispatchAssumption ==
  /\ Targets \subseteq AllTargets
  /\ CPU_NUM_LIMIT \in Nat
  /\ Ratios \subseteq 1 .. CPU_NUM_LIMIT
  /\ Fds \subseteq Nat
  /\ MaxFiles \in Nat /\ MaxCalls \in Nat

VARIABLES
  target,   \* the wrapper file linked as target-preload.c
  RATIO,    \* kernel workers, hence tables, per user worker
  in_segment,
  queues,   \* for every table of the set, the calls it holds, oldest first
  fdtable,  \* the kernel's descriptor table
  held,     \* the descriptors the program believes it has open
  opened,   \* history: files opened so far
  issued,   \* history: calls made so far
  log       \* history: calls performed so far, with what they found

vars ==
  <<target, RATIO, in_segment, queues, fdtable, held, opened, issued, log>>

Workers == 0 .. CPU_NUM_LIMIT - 1
Files   == 0 .. MaxFiles

(***************************************************************************)
(* Call number n on descriptors fd and in_fd (the same one unless it is a  *)
(* sendfile), with the files the program means by them.                    *)
(***************************************************************************)
Call(op, fd, in_fd) ==
  [op |-> op, n |-> issued + 1, fd |-> fd, in_fd |-> in_fd,
   file |-> held[fd], in_file |-> held[in_fd]]

Init ==
  /\ target \in Targets
  /\ RATIO \in Ratios
  /\ in_segment = 0
  /\ queues = [k \in Workers |-> <<>>]
  /\ fdtable = [fd \in Fds |-> 0]
  /\ held = [fd \in Fds |-> 0]
  /\ opened = 0 /\ issued = 0 /\ log = <<>>
-----------------------------------------------------------------------------
(***************************************************************************)
(* The kernel performs call c, which a worker found in its table (queued)  *)
(* or the C library made at once.  The call sees the descriptor table of   *)
(* that moment and not of the moment the program made it.  The result of a *)
(* queued call goes to sysret, which nobody reads.                         *)
(***************************************************************************)
Execute(c, queued) ==
  /\ log' = Append(log, [call |-> c, queued |-> queued,
                         found |-> fdtable[c.fd],
                         in_found |-> fdtable[c.in_fd]])
  /\ fdtable' = IF c.op = "close" THEN [fdtable EXCEPT ![c.fd] = 0]
                ELSE fdtable

\* Faulty variant of TableOf: calls go to the tables in turn.
TableInTurn(key) == issued % RATIO

\* idx, relative to the first table of the set
TableOf(key) == key % RATIO

(***************************************************************************)
(* A call of the program.  Inside a segment the wrapper queues it in the   *)
(* table its key descriptor chooses and reports success; outside it goes   *)
(* to the C library.                                                       *)
(***************************************************************************)
Called(op, fd, in_fd) ==
  /\ issued < MaxCalls
  /\ held[fd] # 0 /\ held[in_fd] # 0
  /\ issued' = issued + 1
  /\ held' = IF op = "close" THEN [held EXCEPT ![fd] = 0] ELSE held
  /\ UNCHANGED <<target, RATIO, in_segment, opened>>

Direct(op, fd, in_fd) ==
  /\ Called(op, fd, in_fd)
  /\ Execute(Call(op, fd, in_fd), FALSE)
  /\ UNCHANGED queues

Wrapper(op, fd, in_fd, key) ==
  \/ /\ in_segment = 0
     /\ Direct(op, fd, in_fd)
  \/ /\ in_segment = 1
     /\ Called(op, fd, in_fd)
     /\ queues' = [queues EXCEPT ![TableOf(key)] =
                     Append(@, Call(op, fd, in_fd))]
     /\ UNCHANGED <<fdtable, log>>
-----------------------------------------------------------------------------
(***************************************************************************)
(* The wrappers, by the file that defines them.  ngx_tls.c and ngx_ktls.c  *)
(* are appended to ngx.c.                                                  *)
(***************************************************************************)
Nginx == target \in {"ngx", "ngx_tls", "ngx_ktls"}

ngx_close(fd) == Nginx /\ Wrapper("close", fd, fd, fd)

\* Faulty variant of ngx_sendfile64: the table is chosen by the socket.
ngx_sendfile64_out(out, in) == Nginx /\ Wrapper("sendfile", out, in, out)

ngx_sendfile64(out, in) == Nginx /\ Wrapper("sendfile", out, in, in)

ngx_tls_write(fd) == target = "ngx_tls" /\ Wrapper("write", fd, fd, fd)

ngx_ktls_sendfile(out, in) ==
  target = "ngx_ktls" /\ Wrapper("sendfile", out, in, in)

lighty_shutdown(fd) == target = "lighty" /\ Wrapper("shutdown", fd, fd, fd)

lighty_sendfile64(out, in) ==
  target = "lighty" /\ Wrapper("sendfile", out, in, out)

redis_write(fd) == target = "redis" /\ Wrapper("write", fd, fd, fd)

\* real_send is defined nowhere: outside a segment the process would die on the
\* unresolved symbol, so it is not called there.
echo_send(fd) ==
  target = "echo" /\ in_segment = 1 /\ Wrapper("send", fd, fd, fd)

mcached_sendmsg(fd) == target = "mcached" /\ Wrapper("sendmsg", fd, fd, fd)

\* close is wrapped for nginx alone.
LibcClose(fd) == ~Nginx /\ Direct("close", fd, fd)
-----------------------------------------------------------------------------
\* accept4 and open, never wrapped: the kernel gives out its lowest free
\* descriptor.
LibcOpen ==
  /\ opened < MaxFiles
  /\ \E fd \in Fds :
       /\ fdtable[fd] = 0
       /\ \A other \in Fds : fdtable[other] = 0 => fd <= other
       /\ fdtable' = [fdtable EXCEPT ![fd] = opened + 1]
       /\ held' = [held EXCEPT ![fd] = opened + 1]
  /\ opened' = opened + 1
  /\ UNCHANGED <<target, RATIO, in_segment, queues, issued, log>>

batch_start ==
  /\ in_segment' = 1
  /\ UNCHANGED <<target, RATIO, queues, fdtable, held, opened, issued, log>>

\* sys_esca_wait does not wait: the queues stay as they are.
batch_flush ==
  /\ in_segment' = 0
  /\ UNCHANGED <<target, RATIO, queues, fdtable, held, opened, issued, log>>

\* Faulty variant of toggle_region: it counts instead of flipping.
toggle_region_count ==
  /\ in_segment' = in_segment + 1
  /\ in_segment < 3
  /\ UNCHANGED <<target, RATIO, queues, fdtable, held, opened, issued, log>>

toggle_region ==
  /\ in_segment' = 1 - in_segment
  /\ UNCHANGED <<target, RATIO, queues, fdtable, held, opened, issued, log>>

\* Faulty variant of worker: the call stays in the table and is done again.
worker_again(k) ==
  /\ queues[k] # <<>>
  /\ Execute(Head(queues[k]), TRUE)
  /\ Len(log) < 2 * MaxCalls
  /\ UNCHANGED <<target, RATIO, in_segment, queues, held, opened, issued>>

\* Kernel worker k performs the oldest call of its table.
worker(k) ==
  /\ queues[k] # <<>>
  /\ Execute(Head(queues[k]), TRUE)
  /\ queues' = [queues EXCEPT ![k] = Tail(@)]
  /\ UNCHANGED <<target, RATIO, in_segment, held, opened, issued>>

Next ==
  \/ LibcOpen \/ batch_start \/ batch_flush \/ toggle_region
  \/ \E k \in Workers : worker(k)
  \/ \E fd \in Fds :
       \/ ngx_close(fd) \/ ngx_tls_write(fd) \/ lighty_shutdown(fd)
       \/ redis_write(fd) \/ echo_send(fd) \/ mcached_sendmsg(fd)
       \/ LibcClose(fd)
  \/ \E out \in Fds, in \in Fds :
       /\ out # in
       /\ \/ ngx_sendfile64(out, in) \/ ngx_ktls_sendfile(out, in)
          \/ lighty_sendfile64(out, in)

Spec == Init /\ [][Next]_vars
-----------------------------------------------------------------------------
(***************************************************************************)
(* Properties                                                              *)
(***************************************************************************)
Ops   == {"close", "sendfile", "write", "shutdown", "send", "sendmsg"}
Calls == [op : Ops, n : 1 .. MaxCalls, fd : Fds, in_fd : Fds,
          file : Files, in_file : Files]
Performed == [call : Calls, queued : BOOLEAN, found : Files, in_found : Files]

\* Every variable has its type.
TypeOK ==
  /\ target \in Targets
  /\ RATIO \in Ratios
  /\ in_segment \in {0, 1}
  /\ queues \in [Workers -> Seq(Calls)]
  /\ fdtable \in [Fds -> Files]
  /\ held \in [Fds -> Files]
  /\ opened \in Files
  /\ issued \in 0 .. MaxCalls
  /\ log \in Seq(Performed)

\* A queued close never closes a descriptor the program has opened since: what
\* the program believes open is open in the kernel and is the same file
\* (close of ngx.c reports success before the descriptor is free).
HeldIsOpen == \A fd \in Fds : held[fd] # 0 => fdtable[fd] = held[fd]

\* Among the first m calls performed is a close of the file that the C library
\* made at once: outside a segment, or because close is not wrapped.  Nothing in
\* the code holds such a close back for the calls that are queued on the file.
ClosedDirectly(file, m) ==
  \E l \in 1 .. m : /\ log[l].call.op = "close" /\ ~log[l].queued
                    /\ log[l].call.file = file

\* Every queued call, when a worker performs it at last, acts on the files the
\* program meant when it made the call, not on a closed descriptor or on a
\* connection that got the same number since, unless the program closed the
\* file past the tables (all wrappers "assume success").
ActsOnMeantFile ==
  \A m \in 1 .. Len(log) :
    /\ \/ log[m].found = log[m].call.file
       \/ ClosedDirectly(log[m].call.file, m)
    /\ \/ log[m].in_found = log[m].call.in_file
       \/ ClosedDirectly(log[m].call.in_file, m)

\* nginx with one kernel worker per user worker: its close is wrapped (ngx.c), so
\* a close made in a segment waits in the one table behind the calls on the file
\* it closes, and each of them still acts on the files the program meant.  The
\* other servers close directly (see LibcClose) and get no such promise.
QueuedActsOnMeantFile == Nginx /\ RATIO = 1 => ActsOnMeantFile

\* Performed call number l came before performed call number m, both queued.
QueuedBefore(l, m) == l < m /\ log[l].queued /\ log[m].queued

\* The wrappers of lighttpd, redis, echo and memcached choose the table by the
\* socket (idx in the wrappers): what is queued for one connection, and its
\* shutdown, take effect in the order of the program.
StreamOrder ==
  ~Nginx => \A l, m \in 1 .. Len(log) :
    QueuedBefore(l, m) /\ log[l].call.file = log[m].call.file
      => log[l].call.n < log[m].call.n

\* nginx's sendfile passes a null offset, so the kernel reads from the file's
\* own position: the queued sendfiles that read one file must keep their order.
FileOrder ==
  Nginx => \A l, m \in 1 .. Len(log) :
    QueuedBefore(l, m) /\ log[l].call.op = "sendfile"
        /\ log[m].call.op = "sendfile"
        /\ log[l].call.in_file = log[m].call.in_file
      => log[l].call.n < log[m].call.n
=============================================================================
