-------------------------- MODULE FdDispatchProof ---------------------------
(***************************************************************************)
(* Why a close that waits in a table never closes a descriptor the program *)
(* has opened since, for every wrapper file, every number of tables and    *)
(* every mixture of queued and direct calls.  The kernel does not give out *)
(* a descriptor whose close is still queued, and no descriptor has two     *)
(* closes queued.                                                          *)
(***************************************************************************)
EXTENDS FdDispatch, TLAPS

\* The program has given up a descriptor whose close is queued; the kernel has
\* it still.
ClosePending ==
  \A k \in Workers : \A m \in 1 .. Len(queues[k]) :
    queues[k][m].op = "close" =>
      held[queues[k][m].fd] = 0 /\ fdtable[queues[k][m].fd] # 0

\* No descriptor has two closes queued.
CloseOnce ==
  \A k, l \in Workers :
    \A m \in 1 .. Len(queues[k]), n \in 1 .. Len(queues[l]) :
      /\ queues[k][m].op = "close" /\ queues[l][n].op = "close"
      /\ queues[k][m].fd = queues[l][n].fd
      => k = l /\ m = n

DispatchInv == HeldIsOpen /\ ClosePending /\ CloseOnce

\* A call the program makes with descriptors it holds is a well-formed one.
LEMMA CallType ==
  ASSUME TypeOK, issued < MaxCalls,
         NEW op \in Ops, NEW fd \in Fds, NEW in_fd \in Fds
  PROVE  Call(op, fd, in_fd) \in Calls
BY DispatchAssumption DEF TypeOK, Call, Calls

\* A call that goes to the C library keeps the types.
LEMMA DirectType ==
  ASSUME TypeOK, NEW op \in Ops, NEW fd \in Fds, NEW in_fd \in Fds,
         Direct(op, fd, in_fd)
  PROVE  TypeOK'
<1>1. Call(op, fd, in_fd) \in Calls /\ issued' \in 0 .. MaxCalls
  BY CallType, DispatchAssumption DEF Direct, Called, TypeOK
<1>2. held' \in [Fds -> Files] /\ fdtable' \in [Fds -> Files]
  <2>1. 0 \in Files
    BY DispatchAssumption DEF Files
  <2>2. held' \in [Fds -> Files]
    BY <2>1, Zenon DEF Direct, Called, TypeOK
  <2>3. fdtable' \in [Fds -> Files]
    BY <2>1, Zenon DEF Direct, Execute, Call, TypeOK
  <2> QED
    BY <2>2, <2>3
<1>3. log' \in Seq(Performed)
  <2>1. fdtable[fd] \in Files /\ fdtable[in_fd] \in Files
    BY DEF TypeOK
  <2>2. Call(op, fd, in_fd).fd = fd /\ Call(op, fd, in_fd).in_fd = in_fd
    BY DEF Call
  <2> QED
    BY <1>1, <2>1, <2>2 DEF Direct, Execute, TypeOK, Performed
<1> QED
  BY <1>1, <1>2, <1>3 DEF Direct, Called, TypeOK

\* A wrapped call, queued or not, keeps the types.
LEMMA WrapperType ==
  ASSUME TypeOK, NEW op \in Ops, NEW fd \in Fds, NEW in_fd \in Fds, NEW key,
         Wrapper(op, fd, in_fd, key)
  PROVE  TypeOK'
<1>1. CASE in_segment = 0
  BY <1>1, DirectType DEF Wrapper
<1>2. CASE in_segment = 1
  <2>1. /\ Called(op, fd, in_fd)
        /\ queues' = [queues EXCEPT ![TableOf(key)] =
                       Append(@, Call(op, fd, in_fd))]
        /\ UNCHANGED <<fdtable, log>>
    BY <1>2 DEF Wrapper
  <2>2. Call(op, fd, in_fd) \in Calls /\ issued' \in 0 .. MaxCalls
    BY <2>1, CallType, DispatchAssumption DEF Called, TypeOK
  <2>3. held' \in [Fds -> Files]
    BY <2>1, DispatchAssumption DEF Called, TypeOK, Files
  <2>4. queues' \in [Workers -> Seq(Calls)]
    <3> DEFINE c == Call(op, fd, in_fd)
               t == TableOf(key)
    <3>1. \A q \in Seq(Calls) : Append(q, c) \in Seq(Calls)
      BY <2>2
    <3> HIDE DEF c, t
    <3> QED
      BY <2>1, <3>1, Zenon DEF TypeOK, c, t
  <2> QED
    BY <2>1, <2>2, <2>3, <2>4 DEF Called, TypeOK
<1> QED
  BY <1>1, <1>2 DEF TypeOK

\* A kernel worker that performs a call keeps the types.
LEMMA WorkerType ==
  ASSUME TypeOK, NEW k \in Workers, worker(k)
  PROVE  TypeOK'
<1> DEFINE c == Head(queues[k])
<1>1. queues[k] \in Seq(Calls) /\ queues[k] # <<>>
  BY DEF TypeOK, worker
<1>2. c \in Calls /\ Tail(queues[k]) \in Seq(Calls)
  BY <1>1
<1>3. c.fd \in Fds /\ c.in_fd \in Fds
  BY <1>2 DEF Calls
<1> HIDE DEF c
<1>4. /\ log' = Append(log, [call |-> c, queued |-> TRUE,
                             found |-> fdtable[c.fd],
                             in_found |-> fdtable[c.in_fd]])
      /\ fdtable' = IF c.op = "close" THEN [fdtable EXCEPT ![c.fd] = 0]
                    ELSE fdtable
  BY DEF worker, Execute, c
<1>5. fdtable' \in [Fds -> Files]
  <2>1. 0 \in Files
    BY DispatchAssumption DEF Files
  <2> QED
    BY <1>3, <1>4, <2>1 DEF TypeOK
<1>6. log' \in Seq(Performed)
  BY <1>2, <1>3, <1>4 DEF TypeOK, Performed
<1>7. queues' \in [Workers -> Seq(Calls)]
  BY <1>2 DEF worker, TypeOK
<1> QED
  BY <1>5, <1>6, <1>7 DEF worker, TypeOK

\* The wrappers of all targets are uses of Wrapper or of the C library's close.
LEMMA CallsOfProgram ==
  ASSUME NEW fd \in Fds, NEW in \in Fds,
         \/ ngx_close(fd) \/ ngx_tls_write(fd) \/ lighty_shutdown(fd)
         \/ redis_write(fd) \/ echo_send(fd) \/ mcached_sendmsg(fd)
         \/ LibcClose(fd)
         \/ ngx_sendfile64(fd, in) \/ ngx_ktls_sendfile(fd, in)
         \/ lighty_sendfile64(fd, in)
  PROVE  \E op \in Ops, other, key \in {fd, in} :
           Wrapper(op, fd, other, key) \/ Direct(op, fd, other)
BY DEF ngx_close, ngx_tls_write, lighty_shutdown, redis_write, echo_send,
       mcached_sendmsg, LibcClose, ngx_sendfile64, ngx_ktls_sendfile,
       lighty_sendfile64, Ops

\* A step of the system, by what it does to the state.
LEMMA StepKinds ==
  ASSUME [Next]_vars
  PROVE  \/ LibcOpen
         \/ UNCHANGED <<target, RATIO, queues, fdtable, held, opened, issued, log>>
            /\ in_segment' \in {in_segment, 0, 1, 1 - in_segment}
         \/ \E k \in Workers : worker(k)
         \/ \E op \in Ops, fd, other, key \in Fds :
              Wrapper(op, fd, other, key) \/ Direct(op, fd, other)
<1>1. CASE \E fd \in Fds :
             \/ ngx_close(fd) \/ ngx_tls_write(fd) \/ lighty_shutdown(fd)
             \/ redis_write(fd) \/ echo_send(fd) \/ mcached_sendmsg(fd)
             \/ LibcClose(fd)
  BY <1>1, CallsOfProgram
<1>2. CASE \E out \in Fds, in \in Fds :
             \/ ngx_sendfile64(out, in) \/ ngx_ktls_sendfile(out, in)
             \/ lighty_sendfile64(out, in)
  BY <1>2, CallsOfProgram
<1>3. CASE batch_start \/ batch_flush \/ toggle_region \/ UNCHANGED vars
  BY <1>3 DEF batch_start, batch_flush, toggle_region, vars
<1> QED
  BY <1>1, <1>2, <1>3 DEF Next

\* Every step keeps the types.
LEMMA NextType == TypeOK /\ [Next]_vars => TypeOK'
<1> SUFFICES ASSUME TypeOK, [Next]_vars PROVE TypeOK'
  OBVIOUS
<1>1. CASE LibcOpen
  <2>1. opened' \in Files
    BY <1>1, DispatchAssumption DEF LibcOpen, TypeOK, Files
  <2> QED
    BY <1>1, <2>1 DEF LibcOpen, TypeOK
<1>2. CASE UNCHANGED <<target, RATIO, queues, fdtable, held, opened, issued, log>>
           /\ in_segment' \in {in_segment, 0, 1, 1 - in_segment}
  BY <1>2 DEF TypeOK
<1>3. CASE \E k \in Workers : worker(k)
  BY <1>3, WorkerType
<1>4. CASE \E op \in Ops, fd, other, key \in Fds :
             Wrapper(op, fd, other, key) \/ Direct(op, fd, other)
  BY <1>4, WrapperType, DirectType
<1> QED
  BY <1>1, <1>2, <1>3, <1>4, StepKinds
-----------------------------------------------------------------------------
\* A direct close is about a descriptor that has no close queued.
LEMMA DirectInv ==
  ASSUME TypeOK, DispatchInv,
         NEW op \in Ops, NEW fd \in Fds, NEW in_fd \in Fds,
         Direct(op, fd, in_fd)
  PROVE  DispatchInv'
<1>1. /\ held[fd] # 0 /\ queues' = queues
      /\ held' = IF op = "close" THEN [held EXCEPT ![fd] = 0] ELSE held
      /\ fdtable' = IF op = "close" THEN [fdtable EXCEPT ![fd] = 0]
                    ELSE fdtable
  BY DEF Direct, Called, Execute, Call
<1>2. HeldIsOpen'
  BY <1>1 DEF DispatchInv, HeldIsOpen, TypeOK
<1>3. CloseOnce'
  BY <1>1 DEF DispatchInv, CloseOnce
<1>4. ASSUME NEW k \in Workers, NEW m \in 1 .. Len(queues[k]),
             queues[k][m].op = "close"
      PROVE  held'[queues[k][m].fd] = 0 /\ fdtable'[queues[k][m].fd] # 0
  <2> DEFINE f == queues[k][m].fd
  <2>1. f \in Fds
    <3>1. queues[k][m] \in Calls
      BY <1>4 DEF TypeOK
    <3> QED
      BY <3>1 DEF Calls
  <2>2. held[f] = 0 /\ fdtable[f] # 0
    BY <1>4 DEF DispatchInv, ClosePending
  <2> HIDE DEF f
  <2>3. held'[f] = 0 /\ fdtable'[f] # 0
    BY <1>1, <2>1, <2>2 DEF TypeOK
  <2> QED
    BY <2>3 DEF f
<1>5. ClosePending'
  BY <1>1, <1>4 DEF ClosePending
<1> QED
  BY <1>2, <1>3, <1>5 DEF DispatchInv

\* A close is queued only for a descriptor the program still holds.
LEMMA WrapperInv ==
  ASSUME TypeOK, DispatchInv,
         NEW op \in Ops, NEW fd \in Fds, NEW in_fd \in Fds,
         NEW key, Wrapper(op, fd, in_fd, key)
  PROVE  DispatchInv'
<1>1. CASE in_segment = 0
  BY <1>1, DirectInv DEF Wrapper
<1>2. CASE in_segment = 1
  <2> DEFINE c == Call(op, fd, in_fd)
             t == TableOf(key)
  <2>1. /\ held[fd] # 0 /\ fdtable' = fdtable
        /\ held' = IF op = "close" THEN [held EXCEPT ![fd] = 0] ELSE held
        /\ queues' = [queues EXCEPT ![t] = Append(@, c)]
    BY <1>2 DEF Wrapper, Called
  <2>2. c.op = op /\ c.fd = fd /\ c \in Calls
    BY <1>2, CallType DEF Wrapper, Called, Call
  <2> HIDE DEF c, t
  <2>3. fdtable[fd] # 0
    BY <2>1 DEF DispatchInv, HeldIsOpen
  \* an entry of a queue is an old one, or the new call at the end of table t
  <2>4. ASSUME NEW k \in Workers, NEW m \in 1 .. Len(queues'[k])
        PROVE  \/ m \in 1 .. Len(queues[k]) /\ queues'[k][m] = queues[k][m]
               \/ k = t /\ m = Len(queues[k]) + 1 /\ queues'[k][m] = c
    <3>1. queues[k] \in Seq(Calls)
      BY DEF TypeOK
    <3>2. CASE k = t
      <4>1. queues'[k] = Append(queues[k], c)
        BY <2>1, <3>2 DEF TypeOK
      <4> QED
        BY <2>2, <2>4, <3>1, <3>2, <4>1
    <3>3. CASE k # t
      <4>1. queues'[k] = queues[k]
        BY <2>1, <3>3 DEF TypeOK
      <4> QED
        BY <2>4, <4>1
    <3> QED
      BY <3>2, <3>3
  \* a descriptor with a queued close is not the one of the new call
  <2>5. ASSUME NEW k \in Workers, NEW m \in 1 .. Len(queues[k]),
               queues[k][m].op = "close"
        PROVE  /\ queues[k][m].fd # fd /\ queues[k][m].fd \in Fds
               /\ held[queues[k][m].fd] = 0 /\ fdtable[queues[k][m].fd] # 0
    <3>1. queues[k][m] \in Calls
      BY <2>5 DEF TypeOK
    <3> QED
      BY <2>1, <2>5, <3>1 DEF DispatchInv, ClosePending, Calls
  <2>6. HeldIsOpen'
    BY <2>1 DEF DispatchInv, HeldIsOpen, TypeOK
  <2>7. ClosePending'
    <3> SUFFICES ASSUME NEW k \in Workers, NEW m \in 1 .. Len(queues'[k]),
                        queues'[k][m].op = "close"
                 PROVE  /\ held'[queues'[k][m].fd] = 0
                        /\ fdtable'[queues'[k][m].fd] # 0
      BY Zenon DEF ClosePending
    <3>1. CASE m \in 1 .. Len(queues[k]) /\ queues'[k][m] = queues[k][m]
      BY <2>1, <2>5, <3>1, Zenon DEF TypeOK
    <3>2. CASE queues'[k][m] = c
      BY <2>1, <2>2, <2>3, <3>2, Zenon DEF TypeOK
    <3> QED
      BY <2>4, <3>1, <3>2
  <2>8. CloseOnce'
    <3> SUFFICES ASSUME NEW k \in Workers, NEW l \in Workers,
                        NEW m \in 1 .. Len(queues'[k]),
                        NEW n \in 1 .. Len(queues'[l]),
                        queues'[k][m].op = "close", queues'[l][n].op = "close",
                        queues'[k][m].fd = queues'[l][n].fd
                 PROVE  k = l /\ m = n
      BY DEF CloseOnce
    <3>1. /\ \/ m \in 1 .. Len(queues[k]) /\ queues'[k][m] = queues[k][m]
             \/ k = t /\ m = Len(queues[k]) + 1 /\ queues'[k][m] = c
          /\ \/ n \in 1 .. Len(queues[l]) /\ queues'[l][n] = queues[l][n]
             \/ l = t /\ n = Len(queues[l]) + 1 /\ queues'[l][n] = c
      BY <2>4
    <3>2. CASE /\ m \in 1 .. Len(queues[k]) /\ queues'[k][m] = queues[k][m]
               /\ n \in 1 .. Len(queues[l]) /\ queues'[l][n] = queues[l][n]
      BY <3>2, SMTT(60), Z3 DEF DispatchInv, CloseOnce
    <3>3. CASE /\ m \in 1 .. Len(queues[k]) /\ queues'[k][m] = queues[k][m]
               /\ queues'[l][n] = c
      BY <2>2, <2>5, <3>3
    <3>4. CASE /\ queues'[k][m] = c
               /\ n \in 1 .. Len(queues[l]) /\ queues'[l][n] = queues[l][n]
      BY <2>2, <2>5, <3>4
    <3>5. CASE k = t /\ m = Len(queues[k]) + 1 /\ l = t /\ n = Len(queues[l]) + 1
      BY <3>5
    <3> QED
      BY <3>1, <3>2, <3>3, <3>4, <3>5
  <2> QED
    BY <2>6, <2>7, <2>8 DEF DispatchInv
<1> QED
  BY <1>1, <1>2 DEF TypeOK

\* A worker that performs a close leaves the other queued closes valid.
LEMMA WorkerInv ==
  ASSUME TypeOK, DispatchInv, NEW w \in Workers, worker(w)
  PROVE  DispatchInv'
<1> DEFINE c == queues[w][1]
<1>1. /\ queues[w] \in Seq(Calls) /\ queues[w] # <<>>
      /\ Len(queues[w]) \in Nat \ {0}
  BY DEF TypeOK, worker
<1>2. c \in Calls /\ c = Head(queues[w])
  BY <1>1
<1>3. /\ held' = held
      /\ fdtable' = IF c.op = "close" THEN [fdtable EXCEPT ![c.fd] = 0]
                    ELSE fdtable
      /\ queues' = [queues EXCEPT ![w] = Tail(@)]
  BY <1>2 DEF worker, Execute
<1>4. c.fd \in Fds
  BY <1>2 DEF Calls
\* where the entries of the queues were before the step
<1>5. ASSUME NEW k \in Workers, NEW m \in 1 .. Len(queues'[k])
      PROVE  \/ /\ k = w /\ m + 1 \in 1 .. Len(queues[k])
                /\ queues'[k][m] = queues[k][m + 1]
             \/ /\ k # w /\ m \in 1 .. Len(queues[k])
                /\ queues'[k][m] = queues[k][m]
  <2>1. CASE k = w
    <3>1. queues'[k] = Tail(queues[w])
      BY <1>3, <2>1 DEF TypeOK
    <3> QED
      BY <1>1, <1>5, <2>1, <3>1
  <2>2. CASE k # w
    <3>1. queues'[k] = queues[k]
      BY <1>3, <2>2 DEF TypeOK
    <3> QED
      BY <1>5, <2>2, <3>1
  <2> QED
    BY <2>1, <2>2
<1> HIDE DEF c
<1>6. HeldIsOpen'
  <2>1. c.op = "close" => held[c.fd] = 0
    BY <1>1 DEF c, DispatchInv, ClosePending
  <2> QED
    BY <1>3, <1>4, <2>1 DEF DispatchInv, HeldIsOpen, TypeOK
\* a close that stays is about another descriptor than the call performed
<1>7. ASSUME NEW k \in Workers, NEW n \in 1 .. Len(queues[k]),
             queues[k][n].op = "close", k # w \/ n # 1
      PROVE  held'[queues[k][n].fd] = 0 /\ fdtable'[queues[k][n].fd] # 0
  <2> DEFINE f == queues[k][n].fd
  <2>1. held[f] = 0 /\ fdtable[f] # 0 /\ f \in Fds
    <3>1. queues[k][n] \in Calls
      BY <1>7 DEF TypeOK
    <3> QED
      BY <1>7, <3>1 DEF DispatchInv, ClosePending, Calls
  <2>2. c.op = "close" => f # c.fd
    BY <1>1, <1>7 DEF DispatchInv, CloseOnce, c
  <2> HIDE DEF f
  <2>3. held'[f] = 0 /\ fdtable'[f] # 0
    BY <1>3, <1>4, <2>1, <2>2 DEF TypeOK
  <2> QED
    BY <2>3 DEF f
<1>8. ClosePending'
  <2> SUFFICES ASSUME NEW k \in Workers, NEW m \in 1 .. Len(queues'[k]),
                      queues'[k][m].op = "close"
               PROVE  /\ held'[queues'[k][m].fd] = 0
                      /\ fdtable'[queues'[k][m].fd] # 0
    BY DEF ClosePending
  <2>1. CASE /\ k = w /\ m + 1 \in 1 .. Len(queues[k])
             /\ queues'[k][m] = queues[k][m + 1]
    <3>1. m + 1 # 1
      BY SMTT(60), Z3
    <3> QED
      BY <1>7, <2>1, <3>1
  <2>2. CASE /\ k # w /\ m \in 1 .. Len(queues[k])
             /\ queues'[k][m] = queues[k][m]
    BY <1>7, <2>2
  <2> QED
    BY <1>5, <2>1, <2>2
<1>9. CloseOnce'
  <2> SUFFICES ASSUME NEW k \in Workers, NEW l \in Workers,
                      NEW m \in 1 .. Len(queues'[k]),
                      NEW n \in 1 .. Len(queues'[l]),
                      queues'[k][m].op = "close", queues'[l][n].op = "close",
                      queues'[k][m].fd = queues'[l][n].fd
               PROVE  k = l /\ m = n
    BY DEF CloseOnce
  <2>1. PICK p \in 1 .. Len(queues[k]) :
          queues'[k][m] = queues[k][p] /\ p = IF k = w THEN m + 1 ELSE m
    BY <1>5
  <2>2. PICK q \in 1 .. Len(queues[l]) :
          queues'[l][n] = queues[l][q] /\ q = IF l = w THEN n + 1 ELSE n
    BY <1>5, Zenon
  <2>3. /\ queues[k][p].op = "close" /\ queues[l][q].op = "close"
        /\ queues[k][p].fd = queues[l][q].fd
    BY <2>1, <2>2
  <2>4. k = l /\ p = q
    BY <2>3 DEF DispatchInv, CloseOnce
  <2> QED
    BY <2>1, <2>2, <2>4
<1> QED
  BY <1>6, <1>8, <1>9 DEF DispatchInv

\* The kernel gives out no descriptor that has a close queued.
LEMMA OpenInv ==
  ASSUME TypeOK, DispatchInv, LibcOpen
  PROVE  DispatchInv'
<1>1. PICK fd \in Fds :
        /\ fdtable[fd] = 0
        /\ fdtable' = [fdtable EXCEPT ![fd] = opened + 1]
        /\ held' = [held EXCEPT ![fd] = opened + 1]
  BY Zenon DEF LibcOpen
<1>2. queues' = queues
  BY DEF LibcOpen
<1>3. HeldIsOpen'
  BY <1>1 DEF DispatchInv, HeldIsOpen, TypeOK
<1>4. ASSUME NEW k \in Workers, NEW m \in 1 .. Len(queues[k]),
             queues[k][m].op = "close"
      PROVE  held'[queues[k][m].fd] = 0 /\ fdtable'[queues[k][m].fd] # 0
  <2>1. queues[k][m] \in Calls
    BY <1>4 DEF TypeOK
  <2>2. queues[k][m].fd \in Fds
    BY <2>1 DEF Calls
  <2> QED
    BY <1>1, <1>4, <2>2 DEF DispatchInv, ClosePending, TypeOK
<1>5. ClosePending' /\ CloseOnce'
  BY <1>2, <1>4 DEF DispatchInv, ClosePending, CloseOnce
<1> QED
  BY <1>3, <1>5 DEF DispatchInv

\* Whatever the target, the number of tables and the program, the wrappers and
\* the workers keep every variable inside its type.
THEOREM DispatchTypeCorrect == Spec => []TypeOK
<1>1. Init => TypeOK
  BY DispatchAssumption DEF Init, TypeOK, Files
<1> QED
  BY <1>1, NextType, PTL DEF Spec

\* The three facts about queued closes hold together.
LEMMA DispatchInvariant == Spec => [](TypeOK /\ DispatchInv)
<1>1. Init => TypeOK /\ DispatchInv
  BY DispatchAssumption
  DEF Init, TypeOK, Files, DispatchInv, HeldIsOpen, ClosePending, CloseOnce
<1>2. TypeOK /\ DispatchInv /\ [Next]_vars => (TypeOK /\ DispatchInv)'
  <2> SUFFICES ASSUME TypeOK, DispatchInv, [Next]_vars PROVE DispatchInv'
    BY NextType
  <2>1. CASE UNCHANGED <<target, RATIO, queues, fdtable, held, opened, issued, log>>
    BY <2>1 DEF DispatchInv, HeldIsOpen, ClosePending, CloseOnce
  <2> QED
    BY <2>1, StepKinds, OpenInv, WorkerInv, WrapperInv, DirectInv
<1> QED
  BY <1>1, <1>2, PTL DEF Spec

\* Whatever the target, the number of tables and the program, a descriptor the
\* program holds is open in the kernel and stands for the file it opened.
THEOREM HeldStaysOpen == Spec => []HeldIsOpen
<1>1. DispatchInv => HeldIsOpen
  BY DEF DispatchInv
<1> QED
  BY <1>1, DispatchInvariant, PTL
-----------------------------------------------------------------------------
(***************************************************************************)
(* The order of queued calls.  A file keeps its descriptor while it is     *)
(* open and file numbers are not used again, so two queued calls on the    *)
(* same file, seen through the descriptor that chooses the table, wait in  *)
(* the same table, and one table keeps the order of the program.           *)
(***************************************************************************)

\* The descriptor that chooses the table of a queued call, and its file.
KeyFd(c)   == IF Nginx THEN c.in_fd ELSE c.fd
KeyFile(c) == IF Nginx THEN c.in_file ELSE c.file

\* A call that is, or was, in a table.
Waits(c) == \E k \in Workers : \E m \in 1 .. Len(queues[k]) : queues[k][m] = c
Went(c)  == \E l \in 1 .. Len(log) : log[l].queued /\ log[l].call = c

\* Two queued calls on one file are on one descriptor, and so is the program.
NameInv ==
  /\ \A fd \in Fds : held[fd] <= opened
  /\ \A fd, g \in Fds : held[fd] # 0 /\ held[fd] = held[g] => fd = g
  /\ \A c \in Calls : Waits(c) \/ Went(c) =>
       /\ KeyFile(c) <= opened
       /\ \A fd \in Fds : held[fd] # 0 /\ KeyFile(c) = held[fd] => KeyFd(c) = fd
  /\ \A c, d \in Calls :
       (Waits(c) \/ Went(c)) /\ (Waits(d) \/ Went(d)) /\ KeyFile(c) = KeyFile(d)
         => KeyFd(c) = KeyFd(d)

\* The calls of one table wait in the order of the program ...
WaitOrder ==
  /\ \A k \in Workers : \A m \in 1 .. Len(queues[k]) :
       queues[k][m].n <= issued /\ TableOf(KeyFd(queues[k][m])) = k
  /\ \A k \in Workers : \A m, p \in 1 .. Len(queues[k]) :
       m < p => queues[k][m].n < queues[k][p].n

\* ... after those that have been performed, which were in that order.
DoneOrder ==
  /\ \A l \in 1 .. Len(log) : log[l].queued => log[l].call.n <= issued
  /\ \A l \in 1 .. Len(log), k \in Workers : \A m \in 1 .. Len(queues[k]) :
       log[l].queued /\ TableOf(KeyFd(log[l].call)) = k
         => log[l].call.n < queues[k][m].n
  /\ \A l, m \in 1 .. Len(log) :
       QueuedBefore(l, m) /\ TableOf(KeyFd(log[l].call)) = TableOf(KeyFd(log[m].call))
         => log[l].call.n < log[m].call.n

OrderInv == NameInv /\ WaitOrder /\ DoneOrder

\* A wrapper chooses the table by KeyFd of its call; close is queued by nginx alone.
LEMMA CallsByKey ==
  ASSUME [Next]_vars
  PROVE  \/ LibcOpen
         \/ UNCHANGED <<target, RATIO, queues, fdtable, held, opened, issued, log>>
         \/ \E k \in Workers : worker(k)
         \/ \E op \in Ops, fd, other \in Fds : Direct(op, fd, other)
         \/ \E op \in Ops, fd, other \in Fds :
              /\ Wrapper(op, fd, other, KeyFd(Call(op, fd, other))) /\ in_segment = 1
              /\ op = "close" => Nginx
<1> DEFINE W(op, fd, other, key) == Wrapper(op, fd, other, key) /\ key \in {fd, other}
                                    /\ (key = IF Nginx THEN other ELSE fd)
                                    /\ (op = "close" => Nginx)
<1>1. ASSUME NEW op \in Ops, NEW fd \in Fds, NEW other \in Fds, NEW key,
             W(op, fd, other, key)
      PROVE  \/ Direct(op, fd, other)
             \/ /\ Wrapper(op, fd, other, KeyFd(Call(op, fd, other))) /\ in_segment = 1
                /\ op = "close" => Nginx
  <2>1. KeyFd(Call(op, fd, other)) = key
    BY <1>1 DEF KeyFd, Call
  <2> QED
    BY <1>1, <2>1 DEF Wrapper
<1>2. ASSUME NEW fd \in Fds,
             \/ ngx_close(fd) \/ ngx_tls_write(fd) \/ lighty_shutdown(fd)
             \/ redis_write(fd) \/ echo_send(fd) \/ mcached_sendmsg(fd)
      PROVE  \E op \in Ops : W(op, fd, fd, fd)
  BY <1>2 DEF ngx_close, ngx_tls_write, lighty_shutdown, redis_write, echo_send,
     mcached_sendmsg, Nginx, Ops
<1>3. ASSUME NEW fd \in Fds, NEW other \in Fds,
             \/ ngx_sendfile64(fd, other) \/ ngx_ktls_sendfile(fd, other)
             \/ lighty_sendfile64(fd, other)
      PROVE  \E op \in Ops, key \in {fd, other} : W(op, fd, other, key)
  BY <1>3 DEF ngx_sendfile64, ngx_ktls_sendfile, lighty_sendfile64, Nginx, Ops
<1>4. ASSUME NEW fd \in Fds, LibcClose(fd)
      PROVE  \E op \in Ops : Direct(op, fd, fd)
  BY <1>4 DEF LibcClose, Ops
<1>5. CASE batch_start \/ batch_flush \/ toggle_region \/ UNCHANGED vars
  BY <1>5 DEF batch_start, batch_flush, toggle_region, vars
<1> HIDE DEF W
<1> QED
  BY <1>1, <1>2, <1>3, <1>4, <1>5 DEF Next

\* What a queueing wrapper does to the queues.
LEMMA QueueGrows ==
  ASSUME TypeOK, NEW op \in Ops, NEW fd \in Fds, NEW other \in Fds, NEW key,
         Wrapper(op, fd, other, key), in_segment = 1
  PROVE  /\ Call(op, fd, other) \in Calls
         /\ UNCHANGED <<target, RATIO, opened, fdtable, log>> /\ issued' = issued + 1
         /\ held' = IF op = "close" THEN [held EXCEPT ![fd] = 0] ELSE held
         /\ held[fd] # 0 /\ held[other] # 0
         /\ \A k \in Workers : \A m \in 1 .. Len(queues'[k]) :
              \/ m \in 1 .. Len(queues[k]) /\ queues'[k][m] = queues[k][m]
              \/ /\ k = TableOf(key) /\ m = Len(queues[k]) + 1
                 /\ queues'[k][m] = Call(op, fd, other)
<1> DEFINE c == Call(op, fd, other)
           t == TableOf(key)
<1>1. /\ Called(op, fd, other) /\ UNCHANGED <<fdtable, log>>
      /\ queues' = [queues EXCEPT ![t] = Append(@, c)]
  BY DEF Wrapper
<1>2. c \in Calls
  BY <1>1, CallType DEF Called
<1> HIDE DEF c, t
<1>3. ASSUME NEW k \in Workers, NEW m \in 1 .. Len(queues'[k])
      PROVE  \/ m \in 1 .. Len(queues[k]) /\ queues'[k][m] = queues[k][m]
             \/ k = t /\ m = Len(queues[k]) + 1 /\ queues'[k][m] = c
  <2>1. queues[k] \in Seq(Calls)
    BY DEF TypeOK
  <2>2. CASE k = t
    <3>1. queues'[k] = Append(queues[k], c)
      BY <1>1, <2>2 DEF TypeOK
    <3> QED
      BY <1>2, <1>3, <2>1, <2>2, <3>1
  <2>3. CASE k # t
    <3>1. queues'[k] = queues[k]
      BY <1>1, <2>3 DEF TypeOK
    <3> QED
      BY <1>3, <3>1
  <2> QED
    BY <2>2, <2>3
<1> QED
  BY <1>1, <1>2, <1>3 DEF Called, c, t

\* What a worker does to the queues and to the log.
LEMMA QueueShrinks ==
  ASSUME TypeOK, NEW w \in Workers, worker(w)
  PROVE  /\ 1 \in 1 .. Len(queues[w]) /\ queues[w][1] \in Calls
         /\ UNCHANGED <<target, RATIO, opened, held, issued>>
         /\ fdtable' = IF queues[w][1].op = "close"
                       THEN [fdtable EXCEPT ![queues[w][1].fd] = 0] ELSE fdtable
         /\ log' = Append(log, [call |-> queues[w][1], queued |-> TRUE,
                                found |-> fdtable[queues[w][1].fd],
                                in_found |-> fdtable[queues[w][1].in_fd]])
         /\ \A k \in Workers : \A m \in 1 .. Len(queues'[k]) :
              \/ /\ k = w /\ m + 1 \in 1 .. Len(queues[k])
                 /\ queues'[k][m] = queues[k][m + 1]
              \/ /\ k # w /\ m \in 1 .. Len(queues[k])
                 /\ queues'[k][m] = queues[k][m]
<1>1. queues[w] \in Seq(Calls) /\ queues[w] # <<>>
  BY DEF TypeOK, worker
<1>2. /\ 1 \in 1 .. Len(queues[w]) /\ queues[w][1] \in Calls
      /\ queues[w][1] = Head(queues[w])
  BY <1>1
<1>3. ASSUME NEW k \in Workers, NEW m \in 1 .. Len(queues'[k])
      PROVE  \/ /\ k = w /\ m + 1 \in 1 .. Len(queues[k])
                /\ queues'[k][m] = queues[k][m + 1]
             \/ /\ k # w /\ m \in 1 .. Len(queues[k])
                /\ queues'[k][m] = queues[k][m]
  <2>1. CASE k = w
    <3>1. queues'[k] = Tail(queues[w])
      BY <2>1 DEF TypeOK, worker
    <3> QED
      BY <1>1, <1>3, <2>1, <3>1
  <2>2. CASE k # w
    <3>1. queues'[k] = queues[k]
      BY <2>2 DEF TypeOK, worker
    <3> QED
      BY <1>3, <2>2, <3>1
  <2> QED
    BY <2>1, <2>2
<1> QED
  BY <1>2, <1>3 DEF worker, Execute

\* Every call that waits after the step waited before it.
LEMMA QueueShift ==
  ASSUME TypeOK, NEW w \in Workers, worker(w),
         NEW k \in Workers, NEW m \in 1 .. Len(queues'[k])
  PROVE  \E p \in 1 .. Len(queues[k]) :
           /\ queues'[k][m] = queues[k][p] /\ p = IF k = w THEN m + 1 ELSE m
<1>1. \/ /\ k = w /\ m + 1 \in 1 .. Len(queues[k])
         /\ queues'[k][m] = queues[k][m + 1]
      \/ /\ k # w /\ m \in 1 .. Len(queues[k])
         /\ queues'[k][m] = queues[k][m]
  BY QueueShrinks, ZenonT(60)
<1> QED
  BY <1>1, Zenon

\* A log that has grown by one call.
LEMMA LogGrows ==
  ASSUME TypeOK, NEW e, log' = Append(log, e)
  PROVE  /\ Len(log) \in Nat /\ Len(log') = Len(log) + 1
         /\ \A l \in 1 .. Len(log') :
              \/ l \in 1 .. Len(log) /\ log'[l] = log[l]
              \/ l = Len(log) + 1 /\ log'[l] = e
         /\ \A l \in 1 .. Len(log) : l \in 1 .. Len(log') /\ log'[l] = log[l]
BY DEF TypeOK

\* A step that lets no call into the tables and names no file anew.
LEMMA NameKept ==
  ASSUME TypeOK, NameInv, UNCHANGED <<target, opened>>,
         \A fd \in Fds : held'[fd] \in {held[fd], 0},
         \A c \in Calls : (Waits(c) \/ Went(c))' => Waits(c) \/ Went(c)
  PROVE  NameInv'
<1>1. \A c : KeyFd(c)' = KeyFd(c) /\ KeyFile(c)' = KeyFile(c)
  BY DEF KeyFd, KeyFile, Nginx
<1>2. \A fd \in Fds : held[fd] \in Nat /\ opened \in Nat
  BY DispatchAssumption DEF TypeOK, Files
<1> QED
  BY <1>1, <1>2 DEF NameInv

\* A queued call names a file the program holds, under its one descriptor.
LEMMA WrapperName ==
  ASSUME TypeOK, NameInv, NEW op \in Ops, NEW fd \in Fds, NEW other \in Fds, NEW key,
         Wrapper(op, fd, other, key), in_segment = 1
  PROVE  NameInv'
<1> DEFINE c == Call(op, fd, other)
<1>1. /\ c \in Calls /\ UNCHANGED <<target, opened, log>>
      /\ \A g \in Fds : held'[g] \in {held[g], 0}
      /\ held[fd] # 0 /\ held[other] # 0
  BY QueueGrows DEF TypeOK
<1>2. KeyFile(c) = held[KeyFd(c)] /\ KeyFd(c) \in Fds /\ held[KeyFd(c)] # 0
  BY <1>1 DEF KeyFile, KeyFd, Call
<1>3. ASSUME NEW d \in Calls, (Waits(d) \/ Went(d))'
      PROVE  Waits(d) \/ Went(d) \/ d = c
  BY <1>1, <1>3, QueueGrows DEF Waits, Went
<1> HIDE DEF c
<1>4. \A d : KeyFd(d)' = KeyFd(d) /\ KeyFile(d)' = KeyFile(d)
  BY <1>1 DEF KeyFd, KeyFile, Nginx
<1>5. \A g \in Fds : held[g] \in Nat /\ opened \in Nat
  BY DispatchAssumption DEF TypeOK, Files
<1>6. ASSUME NEW d \in Calls, (Waits(d) \/ Went(d))'
      PROVE  /\ KeyFile(d) <= opened
             /\ \A g \in Fds : held[g] # 0 /\ KeyFile(d) = held[g] => KeyFd(d) = g
  BY <1>2, <1>3, <1>6 DEF NameInv
<1>7. ASSUME NEW d \in Calls, NEW e \in Calls, (Waits(d) \/ Went(d))',
             (Waits(e) \/ Went(e))', KeyFile(d) = KeyFile(e)
      PROVE  KeyFd(d) = KeyFd(e)
  <2>1. (Waits(d) \/ Went(d) \/ d = c) /\ (Waits(e) \/ Went(e) \/ e = c)
    BY <1>3, <1>7
  <2>2. CASE d = c \/ e = c
    BY <1>2, <1>6, <1>7, <2>2
  <2>3. CASE d # c /\ e # c
    BY <1>7, <2>1, <2>3 DEF NameInv
  <2> QED
    BY <2>2, <2>3
<1> QED
  BY <1>1, <1>4, <1>5, <1>6, <1>7 DEF NameInv

\* A call goes from the table to the log and names nothing new.
LEMMA WorkerName ==
  ASSUME TypeOK, NameInv, NEW w \in Workers, worker(w)
  PROVE  NameInv'
<1>1. ASSUME NEW d \in Calls, Waits(d)' PROVE Waits(d)
  <2>1. PICK k \in Workers : \E m \in 1 .. Len(queues'[k]) : queues'[k][m] = d
    BY <1>1 DEF Waits, Workers
  <2>2. PICK m \in 1 .. Len(queues'[k]) : queues'[k][m] = d
    BY <2>1
  <2>3. \E p \in 1 .. Len(queues[k]) : queues[k][p] = d
    BY <2>2, QueueShrinks, ZenonT(60)
  <2> QED
    BY <2>3 DEF Waits
<1>2. ASSUME NEW d \in Calls, Went(d)' PROVE Waits(d) \/ Went(d)
  <2>1. PICK l \in 1 .. Len(log') : log'[l].queued /\ log'[l].call = d
    BY <1>2 DEF Went
  <2>2. CASE l \in 1 .. Len(log) /\ log'[l] = log[l]
    BY <2>1, <2>2 DEF Went
  <2>3. CASE log'[l] = [call |-> queues[w][1], queued |-> TRUE,
                        found |-> fdtable[queues[w][1].fd],
                        in_found |-> fdtable[queues[w][1].in_fd]]
    <3>1. d = queues[w][1]
      BY <2>1, <2>3
    <3> QED
      BY <3>1, QueueShrinks, Zenon DEF Waits
  <2> QED
    BY <2>2, <2>3, QueueShrinks, LogGrows
<1>3. UNCHANGED <<target, opened, held>>
  BY QueueShrinks, Zenon
<1> QED
  BY <1>1, <1>2, <1>3, NameKept

\* A call of the C library leaves the tables alone, and its log entry is not one
\* of theirs.
LEMMA DirectName ==
  ASSUME TypeOK, NameInv, NEW op \in Ops, NEW fd \in Fds, NEW other \in Fds,
         Direct(op, fd, other)
  PROVE  NameInv'
<1> DEFINE e == [call |-> Call(op, fd, other), queued |-> FALSE,
                 found |-> fdtable[Call(op, fd, other).fd],
                 in_found |-> fdtable[Call(op, fd, other).in_fd]]
<1>1. /\ UNCHANGED <<target, opened, queues>> /\ log' = Append(log, e)
      /\ held' = IF op = "close" THEN [held EXCEPT ![fd] = 0] ELSE held
  BY DEF Direct, Called, Execute
<1>2. e.queued = FALSE
  OBVIOUS
<1> HIDE DEF e
<1>3. ASSUME NEW d \in Calls, Went(d)' PROVE Went(d)
  BY <1>1, <1>2, <1>3, LogGrows DEF Went
<1>4. \A d : Waits(d)' <=> Waits(d)
  BY <1>1 DEF Waits
<1>5. \A g \in Fds : held'[g] \in {held[g], 0}
  BY <1>1 DEF TypeOK
<1> QED
  BY <1>1, <1>3, <1>4, <1>5, NameKept

\* A new file has a number of its own.
LEMMA OpenName ==
  ASSUME TypeOK, NameInv, LibcOpen
  PROVE  NameInv'
<1>1. PICK fd \in Fds : held' = [held EXCEPT ![fd] = opened + 1]
  BY Zenon DEF LibcOpen
<1>2. UNCHANGED <<target, queues, log>> /\ opened' = opened + 1
  BY DEF LibcOpen
<1>3. \A d : /\ KeyFd(d)' = KeyFd(d) /\ KeyFile(d)' = KeyFile(d)
             /\ (Waits(d) \/ Went(d))' <=> Waits(d) \/ Went(d)
  BY <1>2 DEF KeyFd, KeyFile, Nginx, Waits, Went
<1>4. \A g \in Fds : /\ held[g] \in Nat /\ opened \in Nat
                     /\ held'[g] = IF g = fd THEN opened + 1 ELSE held[g]
  BY <1>1, DispatchAssumption DEF TypeOK, Files
<1>5. \A d \in Calls : KeyFile(d) \in Nat
  BY DispatchAssumption DEF KeyFile, Calls, Files
<1>6. /\ \A g \in Fds : held'[g] <= opened'
      /\ \A g, h \in Fds : held'[g] # 0 /\ held'[g] = held'[h] => g = h
  BY <1>2, <1>4 DEF NameInv
<1>7. \A d \in Calls : Waits(d) \/ Went(d) =>
        /\ KeyFile(d) <= opened'
        /\ \A g \in Fds : held'[g] # 0 /\ KeyFile(d) = held'[g] => KeyFd(d) = g
  BY <1>2, <1>4, <1>5 DEF NameInv
<1> QED
  BY <1>3, <1>6, <1>7 DEF NameInv

\* Both orders only depend on the queues, the log and the count of calls.
LEMMA OrderKept ==
  ASSUME WaitOrder, DoneOrder, UNCHANGED <<target, RATIO, queues, issued, log>>
  PROVE  (WaitOrder /\ DoneOrder)'
<1>1. \A c : KeyFd(c)' = KeyFd(c)
  BY DEF KeyFd, Nginx
<1>2. \A key : TableOf(key)' = TableOf(key)
  BY DEF TableOf
<1> QED
  BY <1>1, <1>2 DEF WaitOrder, DoneOrder, QueuedBefore

\* WaitOrder after a step that keeps the choice of tables.
LEMMA WaitFromParts ==
  ASSUME UNCHANGED <<target, RATIO>>,
         \A k \in Workers : \A m \in 1 .. Len(queues'[k]) :
           queues'[k][m].n <= issued' /\ TableOf(KeyFd(queues'[k][m])) = k,
         \A k \in Workers : \A m, p \in 1 .. Len(queues'[k]) :
           m < p => queues'[k][m].n < queues'[k][p].n
  PROVE  WaitOrder'
<1>1. \A d : KeyFd(d)' = KeyFd(d)
  BY DEF KeyFd, Nginx
<1>2. \A key : TableOf(key)' = TableOf(key)
  BY DEF TableOf
<1> QED
  BY <1>1, <1>2 DEF WaitOrder

\* DoneOrder after such a step.
LEMMA DoneFromParts ==
  ASSUME UNCHANGED <<target, RATIO>>,
         \A l \in 1 .. Len(log') : log'[l].queued => log'[l].call.n <= issued',
         \A l \in 1 .. Len(log'), k \in Workers : \A m \in 1 .. Len(queues'[k]) :
           log'[l].queued /\ TableOf(KeyFd(log'[l].call)) = k
             => log'[l].call.n < queues'[k][m].n,
         \A l, m \in 1 .. Len(log') :
           /\ l < m /\ log'[l].queued /\ log'[m].queued
           /\ TableOf(KeyFd(log'[l].call)) = TableOf(KeyFd(log'[m].call))
           => log'[l].call.n < log'[m].call.n
  PROVE  DoneOrder'
<1>1. \A d : KeyFd(d)' = KeyFd(d)
  BY DEF KeyFd, Nginx
<1>2. \A key : TableOf(key)' = TableOf(key)
  BY DEF TableOf
<1> QED
  BY <1>1, <1>2 DEF DoneOrder, QueuedBefore

\* A queued call comes last in its table and in the program.
LEMMA WrapperOrder ==
  ASSUME TypeOK, WaitOrder, DoneOrder,
         NEW op \in Ops, NEW fd \in Fds, NEW other \in Fds,
         Wrapper(op, fd, other, KeyFd(Call(op, fd, other))), in_segment = 1
  PROVE  (WaitOrder /\ DoneOrder)'
<1> DEFINE c == Call(op, fd, other)
<1>1. UNCHANGED <<target, RATIO, log>> /\ issued' = issued + 1 /\ issued \in Nat
  BY QueueGrows, DispatchAssumption DEF TypeOK
<1>2. \A d : KeyFd(d)' = KeyFd(d)
  BY <1>1 DEF KeyFd, Nginx
<1>3. \A key : TableOf(key)' = TableOf(key)
  BY <1>1 DEF TableOf
<1>4. c.n = issued + 1
  BY DEF Call
<1>5. \A k \in Workers : \A m \in 1 .. Len(queues'[k]) :
        \/ m \in 1 .. Len(queues[k]) /\ queues'[k][m] = queues[k][m]
        \/ k = TableOf(KeyFd(c)) /\ m = Len(queues[k]) + 1 /\ queues'[k][m] = c
  BY QueueGrows
<1> HIDE DEF c
<1>6. \A k \in Workers : Len(queues[k]) \in Nat
      /\ \A m \in 1 .. Len(queues[k]) : queues[k][m].n \in Nat
  <2> SUFFICES ASSUME NEW k \in Workers
               PROVE  Len(queues[k]) \in Nat
                      /\ \A m \in 1 .. Len(queues[k]) : queues[k][m].n \in Nat
    OBVIOUS
  <2>1. queues[k] \in Seq(Calls)
    BY DEF TypeOK
  <2>2. \A m \in 1 .. Len(queues[k]) : queues[k][m] \in Calls
    BY <2>1
  <2>3. \A d \in Calls : d.n \in Nat
    BY DEF Calls
  <2> QED
    BY <2>1, <2>2, <2>3
<1>7. \A k \in Workers : \A m \in 1 .. Len(queues'[k]) :
        queues'[k][m].n <= issued' /\ TableOf(KeyFd(queues'[k][m])) = k
  BY <1>1, <1>4, <1>5, <1>6, SMTT(30), Z3 DEF WaitOrder
<1>8. ASSUME NEW k \in Workers, NEW m \in 1 .. Len(queues'[k]),
             NEW p \in 1 .. Len(queues'[k]), m < p
      PROVE  queues'[k][m].n < queues'[k][p].n
  <2>1. m \in 1 .. Len(queues[k]) /\ queues'[k][m] = queues[k][m]
    BY <1>5, <1>6, <1>8
  <2>2. queues[k][m].n <= issued
    BY <2>1 DEF WaitOrder
  <2>3. CASE queues'[k][p] = c
    BY <1>1, <1>4, <1>6, <2>1, <2>2, <2>3, SMTT(30), Z3
  <2>4. CASE p \in 1 .. Len(queues[k]) /\ queues'[k][p] = queues[k][p]
    BY <1>8, <2>1, <2>4 DEF WaitOrder
  <2> QED
    BY <1>5, <2>3, <2>4
<1>9. ASSUME NEW l \in 1 .. Len(log), NEW k \in Workers, NEW m \in 1 .. Len(queues'[k]),
             log[l].queued, TableOf(KeyFd(log[l].call)) = k
      PROVE  log[l].call.n < queues'[k][m].n
  <2>1. log[l].call.n <= issued /\ log[l].call.n \in Nat
    <3>1. log[l] \in Performed
      BY DEF TypeOK
    <3> QED
      BY <1>9, <3>1 DEF DoneOrder, Performed, Calls
  <2>2. CASE queues'[k][m] = c
    BY <1>1, <1>4, <2>1, <2>2, SMTT(60), Z3
  <2>3. CASE m \in 1 .. Len(queues[k]) /\ queues'[k][m] = queues[k][m]
    BY <1>9, <2>3, Zenon DEF DoneOrder
  <2> QED
    BY <1>5, <2>2, <2>3, SMTT(30), Z3
<1>10. \A l \in 1 .. Len(log) : log[l].queued => log[l].call.n <= issued'
  <2> SUFFICES ASSUME NEW l \in 1 .. Len(log), log[l].queued
               PROVE  log[l].call.n <= issued'
    OBVIOUS
  <2>1. log[l] \in Performed
    BY SMTT(60), Z3 DEF TypeOK
  <2>2. log[l].call.n \in Nat
    BY <2>1, SMTT(60), Z3 DEF Performed, Calls
  <2>3. log[l].call.n <= issued
    BY Zenon DEF DoneOrder
  <2> QED
    BY <1>1, <2>2, <2>3
<1>11. WaitOrder'
  BY <1>1, <1>7, <1>8, WaitFromParts, Zenon
<1>12. DoneOrder'
  <2>1. \A l, m \in 1 .. Len(log) :
          /\ l < m /\ log[l].queued /\ log[m].queued
          /\ TableOf(KeyFd(log[l].call)) = TableOf(KeyFd(log[m].call))
          => log[l].call.n < log[m].call.n
    BY Zenon DEF DoneOrder, QueuedBefore
  <2> QED
    BY <1>1, <1>9, <1>10, <2>1, DoneFromParts, Zenon
<1> QED
  BY <1>11, <1>12

\* The call performed is the oldest of its table.
LEMMA WorkerOrder ==
  ASSUME TypeOK, WaitOrder, DoneOrder, NEW w \in Workers, worker(w)
  PROVE  (WaitOrder /\ DoneOrder)'
<1> DEFINE c == queues[w][1]
           e == [call |-> c, queued |-> TRUE,
                 found |-> fdtable[c.fd], in_found |-> fdtable[c.in_fd]]
<1>1. /\ UNCHANGED <<target, RATIO, issued>> /\ log' = Append(log, e)
      /\ 1 \in 1 .. Len(queues[w]) /\ c \in Calls
  BY QueueShrinks, Zenon
<1>2. \A d : KeyFd(d)' = KeyFd(d)
  BY <1>1 DEF KeyFd, Nginx
<1>3. \A key : TableOf(key)' = TableOf(key)
  BY <1>1 DEF TableOf
<1>4. e.call = c /\ e.queued = TRUE
  OBVIOUS
<1>5. c.n <= issued /\ TableOf(KeyFd(c)) = w
  BY <1>1, Zenon DEF WaitOrder
<1> HIDE DEF c, e
\* where the entries of the queues were before the step
<1>6. ASSUME NEW k \in Workers, NEW m \in 1 .. Len(queues'[k])
      PROVE  \E p \in 1 .. Len(queues[k]) :
               /\ queues'[k][m] = queues[k][p] /\ p = IF k = w THEN m + 1 ELSE m
  BY QueueShift, Zenon
<1>7. WaitOrder'
  <2>1. \A k \in Workers : \A m \in 1 .. Len(queues'[k]) :
          queues'[k][m].n <= issued' /\ TableOf(KeyFd(queues'[k][m])) = k
    <3> SUFFICES ASSUME NEW k \in Workers, NEW m \in 1 .. Len(queues'[k])
                 PROVE  queues'[k][m].n <= issued' /\ TableOf(KeyFd(queues'[k][m])) = k
      BY Zenon
    <3>1. PICK p \in 1 .. Len(queues[k]) : queues'[k][m] = queues[k][p]
      BY <1>6, Zenon
    <3>2. queues[k][p].n <= issued /\ TableOf(KeyFd(queues[k][p])) = k
      BY Zenon DEF WaitOrder
    <3> QED
      BY <1>1, <3>1, <3>2, Zenon
  <2>2. ASSUME NEW k \in Workers, NEW m \in 1 .. Len(queues'[k]),
               NEW p \in 1 .. Len(queues'[k]), m < p
        PROVE  queues'[k][m].n < queues'[k][p].n
    <3>1. PICK a \in 1 .. Len(queues[k]) :
            queues'[k][m] = queues[k][a] /\ a = IF k = w THEN m + 1 ELSE m
      BY <1>6, Zenon
    <3>2. PICK b \in 1 .. Len(queues[k]) :
            queues'[k][p] = queues[k][b] /\ b = IF k = w THEN p + 1 ELSE p
      BY <1>6
    <3>3. a < b
      BY <2>2, <3>1, <3>2
    <3> QED
      BY <3>1, <3>2, <3>3, Zenon DEF WaitOrder
  <2> QED
    BY <1>2, <1>3, <2>1, <2>2, SMTT(30), Z3 DEF WaitOrder
<1>8. ASSUME NEW l \in 1 .. Len(log')
      PROVE  \/ l \in 1 .. Len(log) /\ log'[l] = log[l]
             \/ l = Len(log) + 1 /\ log'[l] = e
  BY <1>1, LogGrows
<1>9. \A l \in 1 .. Len(log') : log'[l].queued => log'[l].call.n <= issued
  BY <1>4, <1>5, <1>8 DEF DoneOrder
<1>10. ASSUME NEW l \in 1 .. Len(log'), NEW k \in Workers, NEW m \in 1 .. Len(queues'[k]),
              log'[l].queued, TableOf(KeyFd(log'[l].call)) = k
       PROVE  log'[l].call.n < queues'[k][m].n
  <2>1. PICK p \in 1 .. Len(queues[k]) :
          queues'[k][m] = queues[k][p] /\ p = IF k = w THEN m + 1 ELSE m
    BY <1>6, Zenon
  <2>2. CASE l \in 1 .. Len(log) /\ log'[l] = log[l]
    BY <1>10, <2>1, <2>2, Zenon DEF DoneOrder
  <2>3. CASE log'[l] = e
    <3>1. k = w /\ 1 < p
      BY <1>4, <1>5, <1>10, <2>1, <2>3
    <3> QED
      BY <1>1, <1>4, <2>1, <2>3, <3>1, Zenon DEF WaitOrder, c
  <2> QED
    BY <1>8, <2>2, <2>3
<1>11. ASSUME NEW l \in 1 .. Len(log'), NEW m \in 1 .. Len(log'), l < m,
              log'[l].queued, log'[m].queued,
              TableOf(KeyFd(log'[l].call)) = TableOf(KeyFd(log'[m].call))
       PROVE  log'[l].call.n < log'[m].call.n
  <2>1. l \in 1 .. Len(log) /\ log'[l] = log[l]
    BY <1>1, <1>8, <1>11, LogGrows, SMTT(60), Z3
  <2>2. CASE m \in 1 .. Len(log) /\ log'[m] = log[m]
    BY <1>11, <2>1, <2>2, Zenon DEF DoneOrder, QueuedBefore
  <2>3. CASE log'[m] = e
    <3>1. TableOf(KeyFd(log[l].call)) = w
      BY <1>4, <1>5, <1>11, <2>1, <2>3, Zenon
    <3> QED
      BY <1>1, <1>4, <1>11, <2>1, <2>3, <3>1 DEF DoneOrder, c
  <2> QED
    BY <1>8, <2>2, <2>3, SMTT(30), Z3
<1>12. DoneOrder'
  <2>1. \A l \in 1 .. Len(log') : log'[l].queued => log'[l].call.n <= issued'
    BY <1>1, <1>9, Zenon
  <2> QED
    BY <1>1, <1>10, <1>11, <2>1, DoneFromParts, Zenon
<1> QED
  BY <1>7, <1>12, Zenon

\* A call of the C library takes no part in the orders.
LEMMA DirectOrder ==
  ASSUME TypeOK, WaitOrder, DoneOrder,
         NEW op \in Ops, NEW fd \in Fds, NEW other \in Fds, Direct(op, fd, other)
  PROVE  (WaitOrder /\ DoneOrder)'
<1> DEFINE e == [call |-> Call(op, fd, other), queued |-> FALSE,
                 found |-> fdtable[Call(op, fd, other).fd],
                 in_found |-> fdtable[Call(op, fd, other).in_fd]]
<1>1. /\ UNCHANGED <<target, RATIO, queues>> /\ log' = Append(log, e)
      /\ issued' = issued + 1 /\ issued \in Nat
  BY DispatchAssumption DEF Direct, Called, Execute, TypeOK
<1>2. e.queued = FALSE
  BY Zenon
<1> HIDE DEF e
<1>3. \A d : KeyFd(d)' = KeyFd(d)
  BY <1>1 DEF KeyFd, Nginx
<1>4. \A key : TableOf(key)' = TableOf(key)
  BY <1>1 DEF TableOf
<1>5. ASSUME NEW l \in 1 .. Len(log'), log'[l].queued
      PROVE  l \in 1 .. Len(log) /\ log'[l] = log[l] /\ log[l].call.n \in Nat
  <2>1. l \in 1 .. Len(log) /\ log'[l] = log[l]
    BY <1>1, <1>2, <1>5, LogGrows
  <2>2. log[l] \in Performed
    BY <2>1 DEF TypeOK
  <2> QED
    BY <2>1, <2>2 DEF Performed, Calls
<1>6. WaitOrder'
  <2>1. ASSUME NEW k \in Workers, NEW m \in 1 .. Len(queues[k])
        PROVE  queues[k][m].n <= issued'
    <3>1. queues[k][m] \in Calls
      BY SMTT(60), Z3 DEF TypeOK
    <3>2. queues[k][m].n \in Nat /\ queues[k][m].n <= issued
      BY <3>1, SMTT(60), Z3 DEF WaitOrder, Calls
    <3> QED
      BY <1>1, <3>2
  <2> QED
    BY <1>1, <1>3, <1>4, <2>1 DEF WaitOrder
<1>7. DoneOrder'
  <2>1. \A l \in 1 .. Len(log') : log'[l].queued => log'[l].call.n <= issued'
    BY <1>1, <1>5, SMTT(60), Z3 DEF DoneOrder
  <2> QED
    BY <1>1, <1>3, <1>4, <1>5, <2>1, SMTT(60), Z3 DEF DoneOrder, QueuedBefore
<1> QED
  BY <1>6, <1>7

\* OrderInv is an invariant.
LEMMA OrderInvariant == Spec => [](TypeOK /\ OrderInv)
<1>1. Init => TypeOK /\ OrderInv
  BY DispatchAssumption
  DEF Init, TypeOK, Files, OrderInv, NameInv, Waits, Went, WaitOrder, DoneOrder
<1>2. TypeOK /\ OrderInv /\ [Next]_vars => (TypeOK /\ OrderInv)'
  <2> SUFFICES ASSUME TypeOK, OrderInv, [Next]_vars PROVE OrderInv'
    BY NextType
  <2>1. CASE LibcOpen
    <3>1. UNCHANGED <<target, RATIO, queues, issued, log>>
      BY <2>1 DEF LibcOpen
    <3> QED
      BY <2>1, <3>1, OpenName, OrderKept DEF OrderInv
  <2>2. CASE UNCHANGED <<target, RATIO, queues, fdtable, held, opened, issued, log>>
    <3>1. NameInv'
      BY <2>2 DEF OrderInv, NameInv, Waits, Went, KeyFd, KeyFile, Nginx
    <3> QED
      BY <2>2, <3>1, OrderKept, Zenon DEF OrderInv
  <2>3. CASE \E k \in Workers : worker(k)
    BY <2>3, WorkerName, WorkerOrder DEF OrderInv
  <2>4. CASE \E op \in Ops, fd, other \in Fds : Direct(op, fd, other)
    BY <2>4, DirectName, DirectOrder DEF OrderInv
  <2>5. CASE \E op \in Ops, fd, other \in Fds :
               Wrapper(op, fd, other, KeyFd(Call(op, fd, other))) /\ in_segment = 1
    BY <2>5, WrapperName, WrapperOrder, Zenon DEF OrderInv
  <2> QED
    BY <2>1, <2>2, <2>3, <2>4, <2>5, CallsByKey
<1> QED
  BY <1>1, <1>2, PTL DEF Spec

\* Two performed calls of the tables with the same key file are in order.
LEMMA KeyOrder ==
  ASSUME TypeOK, OrderInv, NEW l \in 1 .. Len(log), NEW m \in 1 .. Len(log),
         QueuedBefore(l, m), KeyFile(log[l].call) = KeyFile(log[m].call)
  PROVE  log[l].call.n < log[m].call.n
<1>1. log[l] \in Performed /\ log[m] \in Performed
  BY DEF TypeOK
<1>2. log[l].call \in Calls /\ log[m].call \in Calls
  BY <1>1 DEF Performed
<1>3. Went(log[l].call) /\ Went(log[m].call)
  BY DEF Went, QueuedBefore
<1>4. KeyFd(log[l].call) = KeyFd(log[m].call)
  BY <1>2, <1>3 DEF OrderInv, NameInv
<1> QED
  BY <1>4, Zenon DEF OrderInv, DoneOrder

\* lighttpd, redis, echo and memcached, with any number of kernel workers: the
\* queued calls of one connection take effect in the order of the program.
THEOREM StreamsKeepOrder == Spec => []StreamOrder
<1>1. TypeOK /\ OrderInv => StreamOrder
  BY KeyOrder DEF StreamOrder, KeyFile
<1> QED
  BY <1>1, OrderInvariant, PTL

\* nginx, with any number of kernel workers: the queued sendfiles that read one
\* file take effect in the order of the program.
THEOREM FilesKeepOrder == Spec => []FileOrder
<1>1. TypeOK /\ OrderInv => FileOrder
  BY KeyOrder DEF FileOrder, KeyFile
<1> QED
  BY <1>1, OrderInvariant, PTL
-----------------------------------------------------------------------------
(***************************************************************************)
(* What a queued call finds.  A queued close is the last call of its table *)
(* on that descriptor, since the program no longer holds it; so with one   *)
(* table all calls it could harm are performed before it.                  *)
(***************************************************************************)

\* The configurations the property is about.
Sound == Nginx /\ RATIO = 1

CloseLast ==
  \A k \in Workers : \A m, p \in 1 .. Len(queues[k]) :
    queues[k][m].op = "close" /\ m < p =>
      queues[k][p].fd # queues[k][m].fd /\ queues[k][p].in_fd # queues[k][m].fd

\* The call's files are files, and only nginx queues a close.
WellMeant(c) == c.file # 0 /\ c.in_file # 0 /\ (c.op = "close" => Nginx)

\* The descriptor still stands for the file, unless the program closed it.
Finds(fd, file) == fdtable[fd] = file \/ ClosedDirectly(file, Len(log))

MeantInv ==
  /\ CloseLast
  /\ \A k \in Workers : \A m \in 1 .. Len(queues[k]) :
       /\ WellMeant(queues[k][m])
       /\ Sound => /\ Finds(queues[k][m].fd, queues[k][m].file)
                   /\ Finds(queues[k][m].in_fd, queues[k][m].in_file)
  /\ Sound => ActsOnMeantFile

\* ClosedDirectly after the step.
ClosedThen(file, m) ==
  \E l \in 1 .. m : /\ log'[l].call.op = "close" /\ ~log'[l].queued
                    /\ log'[l].call.file = file

\* A direct close stays in the log.
LEMMA ClosedStays ==
  ASSUME TypeOK, NEW e, log' = Append(log, e), NEW file
  PROVE  /\ \A m \in 1 .. Len(log) : ClosedDirectly(file, m) => ClosedThen(file, m)
         /\ ClosedDirectly(file, Len(log)) => ClosedThen(file, Len(log'))
<1>1. /\ Len(log) \in Nat /\ Len(log') = Len(log) + 1
      /\ \A l \in 1 .. Len(log) : l \in 1 .. Len(log') /\ log'[l] = log[l]
  BY LogGrows, Zenon
<1> QED
  BY <1>1 DEF ClosedDirectly, ClosedThen

\* ActsOnMeantFile after the step, said with ClosedThen.
LEMMA ActsFromParts ==
  ASSUME \A m \in 1 .. Len(log') :
           /\ \/ log'[m].found = log'[m].call.file
              \/ ClosedThen(log'[m].call.file, m)
           /\ \/ log'[m].in_found = log'[m].call.in_file
              \/ ClosedThen(log'[m].call.in_file, m)
  PROVE  ActsOnMeantFile'
  BY Zenon DEF ActsOnMeantFile, ClosedDirectly, ClosedThen

\* A log entry that found what it should keeps ActsOnMeantFile.
LEMMA ActsStays ==
  ASSUME TypeOK, ActsOnMeantFile, NEW e, log' = Append(log, e),
         e.found = e.call.file \/ ClosedDirectly(e.call.file, Len(log)),
         e.in_found = e.call.in_file \/ ClosedDirectly(e.call.in_file, Len(log))
  PROVE  ActsOnMeantFile'
<1> SUFFICES ASSUME NEW m \in 1 .. Len(log')
             PROVE  /\ \/ log'[m].found = log'[m].call.file
                       \/ ClosedThen(log'[m].call.file, m)
                    /\ \/ log'[m].in_found = log'[m].call.in_file
                       \/ ClosedThen(log'[m].call.in_file, m)
  BY ActsFromParts, Zenon
<1>1. CASE m \in 1 .. Len(log) /\ log'[m] = log[m]
  BY <1>1, ClosedStays, ZenonT(60) DEF ActsOnMeantFile
<1>2. CASE m = Len(log) + 1 /\ log'[m] = e
  <2>1. m = Len(log')
    BY <1>2, LogGrows, SMTT(30), Z3
  <2> QED
    BY <1>2, <2>1, ClosedStays
<1> QED
  BY <1>1, <1>2, LogGrows, Zenon

\* What is needed of the waiting calls after a step.
LEMMA MeantFromParts ==
  ASSUME CloseLast', UNCHANGED <<target, RATIO>>, Sound => ActsOnMeantFile',
         \A k \in Workers : \A m \in 1 .. Len(queues'[k]) :
           /\ WellMeant(queues'[k][m])
           /\ Sound =>
                /\ \/ fdtable'[queues'[k][m].fd] = queues'[k][m].file
                   \/ ClosedThen(queues'[k][m].file, Len(log'))
                /\ \/ fdtable'[queues'[k][m].in_fd] = queues'[k][m].in_file
                   \/ ClosedThen(queues'[k][m].in_file, Len(log'))
  PROVE  MeantInv'
<1>1. (Nginx' <=> Nginx) /\ (Sound' <=> Sound)
  BY DEF Nginx, Sound
<1>2. \A k \in Workers : \A m \in 1 .. Len(queues'[k]) : WellMeant(queues[k][m])'
  BY <1>1, Zenon DEF WellMeant
<1> QED
  BY <1>1, <1>2 DEF MeantInv, Finds, ClosedDirectly, ClosedThen

LEMMA WrapperMeant ==
  ASSUME TypeOK, DispatchInv, MeantInv,
         NEW op \in Ops, NEW fd \in Fds, NEW other \in Fds, NEW key,
         Wrapper(op, fd, other, key), in_segment = 1, op = "close" => Nginx
  PROVE  MeantInv'
<1> DEFINE c == Call(op, fd, other)
<1>1. /\ c \in Calls /\ UNCHANGED <<target, RATIO, fdtable, log>>
      /\ held[fd] # 0 /\ held[other] # 0
  BY QueueGrows, Zenon
<1>2. /\ c.op = op /\ c.fd = fd /\ c.in_fd = other
      /\ c.file = held[fd] /\ c.in_file = held[other]
  BY Zenon DEF Call
<1>3. \A k \in Workers : \A m \in 1 .. Len(queues'[k]) :
        \/ m \in 1 .. Len(queues[k]) /\ queues'[k][m] = queues[k][m]
        \/ m = Len(queues[k]) + 1 /\ queues'[k][m] = c
  BY QueueGrows, SMTT(60), Z3
<1> HIDE DEF c
<1>4. \A file : ClosedThen(file, Len(log')) <=> ClosedDirectly(file, Len(log))
  BY <1>1 DEF ClosedThen, ClosedDirectly
<1>5. WellMeant(c) /\ fdtable[c.fd] = c.file /\ fdtable[c.in_fd] = c.in_file
  BY <1>1, <1>2, Zenon DEF WellMeant, DispatchInv, HeldIsOpen
<1>6. CloseLast'
  <2> SUFFICES ASSUME NEW k \in Workers, NEW m \in 1 .. Len(queues'[k]),
                      NEW p \in 1 .. Len(queues'[k]),
                      queues'[k][m].op = "close", m < p
               PROVE  /\ queues'[k][p].fd # queues'[k][m].fd
                      /\ queues'[k][p].in_fd # queues'[k][m].fd
    BY DEF CloseLast
  <2>1. Len(queues[k]) \in Nat
    BY SMTT(60), Z3 DEF TypeOK
  <2>2. m \in 1 .. Len(queues[k]) /\ queues'[k][m] = queues[k][m]
    BY <1>3, <2>1, SMTT(60), Z3
  <2>3. CASE queues'[k][p] = c
    BY <1>1, <1>2, <2>2, <2>3, Zenon DEF DispatchInv, ClosePending
  <2>4. CASE p \in 1 .. Len(queues[k]) /\ queues'[k][p] = queues[k][p]
    <3>1. CloseLast
      BY Zenon DEF MeantInv
    <3> QED
      BY <2>2, <2>4, <3>1, Zenon DEF CloseLast
  <2> QED
    BY <1>3, <2>3, <2>4, Zenon
<1>7. Sound => ActsOnMeantFile'
  BY <1>1, Zenon DEF MeantInv, ActsOnMeantFile, ClosedDirectly
<1>8. ASSUME NEW k \in Workers, NEW m \in 1 .. Len(queues'[k])
      PROVE  /\ WellMeant(queues'[k][m])
             /\ Sound =>
                  /\ \/ fdtable'[queues'[k][m].fd] = queues'[k][m].file
                     \/ ClosedThen(queues'[k][m].file, Len(log'))
                  /\ \/ fdtable'[queues'[k][m].in_fd] = queues'[k][m].in_file
                     \/ ClosedThen(queues'[k][m].in_file, Len(log'))
  <2>1. CASE queues'[k][m] = c
    BY <1>1, <1>5, <2>1, Zenon
  <2>2. CASE m \in 1 .. Len(queues[k]) /\ queues'[k][m] = queues[k][m]
    BY <1>1, <1>4, <2>2, Zenon DEF MeantInv, Finds
  <2> QED
    BY <1>3, <2>1, <2>2, Zenon
<1> QED
  BY <1>1, <1>6, <1>7, <1>8, MeantFromParts, Zenon

\* With one table all calls wait in it.
LEMMA OneTable ==
  ASSUME TypeOK, WaitOrder, RATIO = 1, NEW k \in Workers, NEW m \in 1 .. Len(queues[k])
  PROVE  k = 0
<1>1. queues[k][m] \in Calls
  BY DEF TypeOK
<1>2. KeyFd(queues[k][m]) \in Nat
  BY <1>1, DispatchAssumption, Zenon DEF KeyFd, Calls
<1>3. TableOf(KeyFd(queues[k][m])) = k
  BY Zenon DEF WaitOrder
<1> QED
  BY <1>2, <1>3 DEF TableOf

LEMMA WorkerMeant ==
  ASSUME TypeOK, WaitOrder, MeantInv, NEW w \in Workers, worker(w)
  PROVE  MeantInv'
<1> DEFINE c == queues[w][1]
           e == [call |-> c, queued |-> TRUE,
                 found |-> fdtable[c.fd], in_found |-> fdtable[c.in_fd]]
<1>1. /\ UNCHANGED <<target, RATIO>> /\ log' = Append(log, e)
      /\ 1 \in 1 .. Len(queues[w]) /\ c \in Calls
      /\ fdtable' = IF c.op = "close" THEN [fdtable EXCEPT ![c.fd] = 0] ELSE fdtable
  BY QueueShrinks, Zenon
<1>2. /\ e.call = c /\ e.found = fdtable[c.fd] /\ e.in_found = fdtable[c.in_fd]
  BY ZenonT(30)
<1>3. WellMeant(c) /\ (Sound => Finds(c.fd, c.file) /\ Finds(c.in_fd, c.in_file))
  BY <1>1 DEF MeantInv
<1>4. ASSUME NEW k \in Workers, NEW m \in 1 .. Len(queues'[k])
      PROVE  \E p \in 1 .. Len(queues[k]) :
               /\ queues'[k][m] = queues[k][p] /\ p = IF k = w THEN m + 1 ELSE m
  BY QueueShift, Zenon
<1>5. c.fd \in Fds
  BY <1>1, Zenon DEF Calls
<1> HIDE DEF c, e
<1>6. CloseLast'
  <2> SUFFICES ASSUME NEW k \in Workers, NEW m \in 1 .. Len(queues'[k]),
                      NEW p \in 1 .. Len(queues'[k]),
                      queues'[k][m].op = "close", m < p
               PROVE  /\ queues'[k][p].fd # queues'[k][m].fd
                      /\ queues'[k][p].in_fd # queues'[k][m].fd
    BY DEF CloseLast
  <2>1. PICK a \in 1 .. Len(queues[k]) :
          queues'[k][m] = queues[k][a] /\ a = IF k = w THEN m + 1 ELSE m
    BY <1>4
  <2>2. PICK b \in 1 .. Len(queues[k]) :
          queues'[k][p] = queues[k][b] /\ b = IF k = w THEN p + 1 ELSE p
    BY <1>4
  <2>3. a < b
    BY <2>1, <2>2, SMTT(60), Z3
  <2>4. CloseLast
    BY DEF MeantInv
  <2> QED
    BY <2>1, <2>2, <2>3, <2>4, ZenonT(30) DEF CloseLast
<1>7. Sound => ActsOnMeantFile'
  BY <1>1, <1>2, <1>3, ActsStays, Zenon DEF MeantInv, Finds
<1>8. ASSUME NEW k \in Workers, NEW m \in 1 .. Len(queues'[k])
      PROVE  /\ WellMeant(queues'[k][m])
             /\ Sound =>
                  /\ \/ fdtable'[queues'[k][m].fd] = queues'[k][m].file
                     \/ ClosedThen(queues'[k][m].file, Len(log'))
                  /\ \/ fdtable'[queues'[k][m].in_fd] = queues'[k][m].in_file
                     \/ ClosedThen(queues'[k][m].in_file, Len(log'))
  <2> DEFINE d == queues'[k][m]
  <2>1. PICK p \in 1 .. Len(queues[k]) :
          d = queues[k][p] /\ p = IF k = w THEN m + 1 ELSE m
    BY <1>4, Zenon
  <2>2. /\ WellMeant(d) /\ d \in Calls
        /\ Sound => Finds(d.fd, d.file) /\ Finds(d.in_fd, d.in_file)
    <3>1. queues[k][p] \in Calls
      BY SMTT(60), Z3 DEF TypeOK
    <3> QED
      BY <2>1, <3>1 DEF MeantInv
  <2>3. d.fd \in Fds /\ d.in_fd \in Fds
    BY <2>2, Zenon DEF Calls
  \* a close that is performed is about other descriptors
  <2>4. Sound /\ c.op = "close" => d.fd # c.fd /\ d.in_fd # c.fd
    <3> SUFFICES ASSUME Sound, c.op = "close" PROVE d.fd # c.fd /\ d.in_fd # c.fd
      OBVIOUS
    <3>1. RATIO = 1
      BY DEF Sound
    <3>2. k = 0 /\ w = 0
      BY <1>1, <3>1, OneTable
    <3>3. 1 < p
      BY <2>1, <3>2, SMTT(60), Z3
    <3> QED
      BY <1>1, <2>1, <3>2, <3>3 DEF MeantInv, CloseLast, c
  <2> HIDE DEF d
  <2>5. Sound => fdtable'[d.fd] = fdtable[d.fd] /\ fdtable'[d.in_fd] = fdtable[d.in_fd]
    BY <1>1, <1>5, <2>3, <2>4, Zenon DEF TypeOK
  <2>6. /\ WellMeant(d)
        /\ Sound => /\ fdtable'[d.fd] = d.file \/ ClosedThen(d.file, Len(log'))
                    /\ fdtable'[d.in_fd] = d.in_file \/ ClosedThen(d.in_file, Len(log'))
    BY <1>1, <2>2, <2>5, ClosedStays, ZenonT(30) DEF Finds
  <2> QED
    BY <2>6 DEF d
<1> QED
  BY <1>1, <1>6, <1>7, <1>8, MeantFromParts, Zenon

LEMMA DirectMeant ==
  ASSUME TypeOK, DispatchInv, MeantInv,
         NEW op \in Ops, NEW fd \in Fds, NEW other \in Fds, Direct(op, fd, other)
  PROVE  MeantInv'
<1> DEFINE c == Call(op, fd, other)
           e == [call |-> c, queued |-> FALSE,
                 found |-> fdtable[c.fd], in_found |-> fdtable[c.in_fd]]
<1>1. /\ UNCHANGED <<target, RATIO, queues>> /\ log' = Append(log, e)
      /\ fdtable' = IF c.op = "close" THEN [fdtable EXCEPT ![c.fd] = 0] ELSE fdtable
      /\ held[fd] # 0 /\ held[other] # 0
  BY Zenon DEF Direct, Called, Execute
<1>2. /\ e.call = c /\ e.queued = FALSE
      /\ e.found = fdtable[c.fd] /\ e.in_found = fdtable[c.in_fd]
      /\ c.op = op /\ c.fd = fd /\ c.in_fd = other
      /\ c.file = held[fd] /\ c.in_file = held[other]
  <2>1. /\ c.op = op /\ c.fd = fd /\ c.in_fd = other
        /\ c.file = held[fd] /\ c.in_file = held[other]
    BY Zenon DEF Call
  <2> HIDE DEF c
  <2>2. /\ e.call = c /\ e.queued = FALSE
        /\ e.found = fdtable[c.fd] /\ e.in_found = fdtable[c.in_fd]
    BY Zenon
  <2> QED
    BY <2>1, <2>2, Zenon
<1> HIDE DEF c, e
<1>3. fdtable[c.fd] = c.file /\ fdtable[c.in_fd] = c.in_file
  BY <1>1, <1>2 DEF DispatchInv, HeldIsOpen
<1>4. Sound => ActsOnMeantFile'
  BY <1>1, <1>2, <1>3, ActsStays, ZenonT(60) DEF MeantInv
<1>5. CloseLast'
  <2>1. queues' = queues /\ CloseLast
    BY <1>1, Zenon DEF MeantInv
  <2> QED
    BY <2>1, Zenon DEF CloseLast
<1>6. c.op = "close" => ClosedThen(c.file, Len(log'))
  <2>1. Len(log') \in 1 .. Len(log') /\ log'[Len(log')] = e
    BY <1>1, SMTT(30), Z3 DEF TypeOK
  <2> QED
    BY <1>2, <2>1, Zenon DEF ClosedThen
<1>7. ASSUME NEW g \in Fds, NEW file, Finds(g, file)
      PROVE  fdtable'[g] = file \/ ClosedThen(file, Len(log'))
  <2>1. CASE c.op = "close" /\ g = c.fd /\ fdtable[g] = file
    BY <1>3, <1>6, <2>1, Zenon
  <2>2. CASE ~(c.op = "close" /\ g = c.fd)
    <3>1. fdtable'[g] = fdtable[g]
      BY <1>1, <1>2, <2>2, Zenon DEF TypeOK
    <3> QED
      BY <1>1, <1>7, <3>1, ClosedStays, Zenon DEF Finds
  <2>3. CASE ClosedDirectly(file, Len(log))
    BY <1>1, <2>3, ClosedStays, Zenon
  <2> QED
    BY <1>7, <2>1, <2>2, <2>3, Zenon DEF Finds
<1>8. ASSUME NEW k \in Workers, NEW m \in 1 .. Len(queues[k])
      PROVE  queues[k][m].fd \in Fds /\ queues[k][m].in_fd \in Fds
  <2>1. queues[k][m] \in Calls
    BY DEF TypeOK
  <2> QED
    BY <2>1 DEF Calls
<1>9. ASSUME NEW k \in Workers, NEW m \in 1 .. Len(queues'[k])
      PROVE  /\ WellMeant(queues'[k][m])
             /\ Sound =>
                  /\ \/ fdtable'[queues'[k][m].fd] = queues'[k][m].file
                     \/ ClosedThen(queues'[k][m].file, Len(log'))
                  /\ \/ fdtable'[queues'[k][m].in_fd] = queues'[k][m].in_file
                     \/ ClosedThen(queues'[k][m].in_file, Len(log'))
  <2> DEFINE d == queues[k][m]
  <2>1. queues'[k][m] = d /\ m \in 1 .. Len(queues[k])
    BY <1>1, Zenon
  <2>2. WellMeant(d) /\ (Sound => Finds(d.fd, d.file) /\ Finds(d.in_fd, d.in_file))
    BY <2>1, Zenon DEF MeantInv
  <2>3. d.fd \in Fds /\ d.in_fd \in Fds
    BY <1>8, <2>1, Zenon
  <2> HIDE DEF d
  <2> QED
    BY <1>7, <2>1, <2>2, <2>3, Zenon
<1> QED
  BY <1>1, <1>4, <1>5, <1>9, MeantFromParts, Zenon

LEMMA OpenMeant ==
  ASSUME TypeOK, MeantInv, LibcOpen
  PROVE  MeantInv'
<1>1. UNCHANGED <<target, RATIO, queues, log>>
  BY DEF LibcOpen
<1>2. PICK fd \in Fds : fdtable[fd] = 0 /\ fdtable' = [fdtable EXCEPT ![fd] = opened + 1]
  BY ZenonT(60) DEF LibcOpen
<1>3. ASSUME NEW g \in Fds, NEW file, file # 0, Finds(g, file)
      PROVE  fdtable'[g] = file \/ ClosedThen(file, Len(log'))
  BY <1>1, <1>2, <1>3, Zenon DEF Finds, TypeOK, ClosedThen, ClosedDirectly
<1>4. (Sound => ActsOnMeantFile') /\ CloseLast'
  BY <1>1, ZenonT(30) DEF MeantInv, ActsOnMeantFile, ClosedDirectly, CloseLast
<1>5. ASSUME NEW k \in Workers, NEW m \in 1 .. Len(queues[k])
      PROVE  queues[k][m].fd \in Fds /\ queues[k][m].in_fd \in Fds
  <2>1. queues[k][m] \in Calls
    BY SMTT(30), Z3 DEF TypeOK
  <2> QED
    BY <2>1 DEF Calls
<1>6. ASSUME NEW k \in Workers, NEW m \in 1 .. Len(queues'[k])
      PROVE  /\ WellMeant(queues'[k][m])
             /\ Sound =>
                  /\ \/ fdtable'[queues'[k][m].fd] = queues'[k][m].file
                     \/ ClosedThen(queues'[k][m].file, Len(log'))
                  /\ \/ fdtable'[queues'[k][m].in_fd] = queues'[k][m].in_file
                     \/ ClosedThen(queues'[k][m].in_file, Len(log'))
  BY <1>1, <1>3, <1>5, Zenon DEF MeantInv, WellMeant
<1> QED
  BY <1>1, <1>4, <1>6, MeantFromParts, ZenonT(60)

\* nginx with one table: a queued call acts on the files the program meant,
\* whatever closes are queued behind it, unless the program closed the file
\* outside a segment.
THEOREM QueuedCallsFindTheirFiles == Spec => []QueuedActsOnMeantFile
<1>1. Init => MeantInv
  BY SMTT(60), Z3 DEF Init, MeantInv, CloseLast, ActsOnMeantFile
<1>2. TypeOK /\ DispatchInv /\ OrderInv /\ MeantInv /\ [Next]_vars => MeantInv'
  <2> SUFFICES ASSUME TypeOK, DispatchInv, OrderInv, MeantInv, [Next]_vars
               PROVE  MeantInv'
    OBVIOUS
  <2>1. CASE UNCHANGED <<target, RATIO, queues, fdtable, held, opened, issued, log>>
    <3>1. CloseLast'
      BY <2>1, Zenon DEF MeantInv, CloseLast
    <3>2. Sound => ActsOnMeantFile'
      BY <2>1 DEF MeantInv, ActsOnMeantFile, ClosedDirectly
    <3>3. \A file : ClosedDirectly(file, Len(log)) => ClosedThen(file, Len(log'))
      BY <2>1 DEF ClosedDirectly, ClosedThen
    <3> QED
      BY <2>1, <3>1, <3>2, <3>3, MeantFromParts, Zenon DEF MeantInv, Finds
  <2>2. WaitOrder
    BY DEF OrderInv
  <2> QED
    BY <2>1, <2>2, CallsByKey, OpenMeant, WorkerMeant, WrapperMeant, DirectMeant
<1>3. MeantInv => QueuedActsOnMeantFile
  BY Zenon DEF MeantInv, Sound, QueuedActsOnMeantFile
<1> QED
  BY <1>1, <1>2, <1>3, DispatchInvariant, OrderInvariant, PTL DEF Spec
=============================================================================
