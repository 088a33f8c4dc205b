-------------------------- MODULE EchoServedProof ---------------------------
(***************************************************************************)
(* What the clients of rps get from the echo servers: every request is     *)
(* echoed once, with the client's own bytes, and the report adds up what   *)
(* the threads have counted.                                               *)
(***************************************************************************)
EXTENDS EchoProof

\* Which entries and completions carry an echo of client c.
LEMMA EchoEntries ==
  ASSUME NEW c \in Clients
  PROVE  /\ One(ACCEPT, Sends(c)) = 0 /\ \A d \in Clients : One(READ(d), Sends(c)) = 0
         /\ \A b \in Bids : One(PROV_BUF(b), Sends(c)) = 0
         /\ \A d \in Clients, b \in Bids :
              One(WRITE(d, b), Sends(c)) = IF d = c THEN 1 ELSE 0
<1>1. \A e \in Sends(c) : e.type = "WRITE" /\ e.fd = c
  BY EntryTypes DEF Sends
<1>2. \A b \in Bids : WRITE(c, b) \in Sends(c)
  BY DEF Sends
<1>3. ACCEPT \notin Sends(c) /\ \A d \in Clients : READ(d) \notin Sends(c)
  BY <1>1, EntryTypes
<1>4. \A b \in Bids : PROV_BUF(b) \notin Sends(c)
  BY <1>1, EntryTypes
<1>5. \A d \in Clients, b \in Bids : WRITE(d, b) \in Sends(c) <=> d = c
  BY <1>1, <1>2, EntryTypes
<1> QED
  BY <1>3, <1>4, <1>5, Zenon DEF One

\* Which completions carry a request of a client.
LEMMA EchoCqes ==
  ASSUME NEW c \in Clients
  PROVE  /\ One(Refusal, Requests(c)) = 0 /\ \A b \in Bids : One(Provided(b), Requests(c)) = 0
         /\ \A d \in Clients : One(Accepted(d), Requests(c)) = 0 /\ One(Starved(d), Requests(c)) = 0
         /\ \A d \in Clients, b \in Bids :
              One(Ended(d, b), Requests(c)) = 0 /\ One(Sent(d, b), Requests(c)) = 0
         /\ \A d \in Clients, b \in Bids :
              One(Got(d, b), Requests(c)) = IF d = c THEN 1 ELSE 0
<1>1. \A e \in Requests(c) : e.type = "READ" /\ e.fd = c /\ e.res = "ok"
  BY CqeTypes DEF Requests
<1>2. \A b \in Bids : Got(c, b) \in Requests(c)
  BY DEF Requests, Got
<1>3. Refusal \notin Requests(c) /\ \A b \in Bids : Provided(b) \notin Requests(c)
  BY <1>1, CqeTypes DEF Refusal, Provided
<1>4. \A d \in Clients : Accepted(d) \notin Requests(c) /\ Starved(d) \notin Requests(c)
  BY <1>1, CqeTypes DEF Accepted, Starved
<1>5. \A d \in Clients, b \in Bids : Ended(d, b) \notin Requests(c) /\ Sent(d, b) \notin Requests(c)
  BY <1>1, CqeTypes DEF Ended, Sent
<1>6. \A d \in Clients, b \in Bids : Got(d, b) \in Requests(c) <=> d = c
  <2>1. \A d \in Clients, b \in Bids : Got(d, b).fd = d
    BY CqeTypes DEF Got
  <2> QED
    BY <1>1, <1>2, <2>1
<1> QED
  BY <1>3, <1>4, <1>5, <1>6, Zenon DEF One

\* What is under way is counted in four places.
LEMMA WayParts ==
  ASSUME Types, Types', size' = size, NEW c \in Clients
  PROVE  /\ UnderWay(c) = Len(c2s[c]) + Len(s2c[c]) + Count(queue, {c})
                          + Total(sq, ops, cq, Sends(c), Requests(c))
         /\ UnderWay(c)' = Len(c2s'[c]) + Len(s2c'[c]) + Count(queue', {c})
                           + Total(sq', ops', cq', Sends(c), Requests(c))
         /\ Len(c2s[c]) \in Nat /\ Len(s2c[c]) \in Nat /\ Count(queue, {c}) \in Nat
         /\ Total(sq, ops, cq, Sends(c), Requests(c)) \in Nat
         /\ Total(sq', ops', cq', Sends(c), Requests(c)) \in Nat
<1>1. NetTypes /\ EpollTypes /\ RingTypes /\ RingTypes'
  BY DEF Types
<1>2. c2s[c] \in Seq(Data) /\ s2c[c] \in Seq(Data) /\ queue \in Seq(Clients)
  BY <1>1 DEF NetTypes, EpollTypes
<1>3. Len(c2s[c]) \in Nat /\ Len(s2c[c]) \in Nat
  BY <1>2
<1>4. Count(queue, {c}) \in Nat
  BY <1>2, CountType
<1>5. /\ Total(sq, ops, cq, Sends(c), Requests(c)) \in Nat
      /\ Total(sq', ops', cq', Sends(c), Requests(c)) \in Nat
  BY <1>1, Totals, Zenon
<1>6. Sends(c)' = Sends(c) /\ Requests(c)' = Requests(c)
  BY SameBids DEF Sends, Requests, WRITE, Cqe
<1>7. InRings(Sends(c), Requests(c)) = Total(sq, ops, cq, Sends(c), Requests(c))
  BY DEF InRings, Total
<1>8. InRings(Sends(c), Requests(c))' = Total(sq', ops', cq', Sends(c), Requests(c))
  BY <1>6 DEF InRings, Total
<1> QED
  BY <1>3, <1>4, <1>5, <1>7, <1>8, Zenon DEF UnderWay, Count, CountFrom

\* Bytes added to a stream or taken from one.
LEMMA StreamLen ==
  ASSUME NEW s \in [Clients -> Seq(Data)], NEW d \in Clients, NEW c \in Clients, NEW x \in Data
  PROVE  /\ Len([s EXCEPT ![d] = Append(@, x)][c]) = Len(s[c]) + (IF d = c THEN 1 ELSE 0)
         /\ s[d] # <<>> => /\ Len([s EXCEPT ![d] = Tail(@)][c]) = Len(s[c]) - (IF d = c THEN 1 ELSE 0)
                           /\ d = c => Len(s[c]) >= 1
<1>1. s[d] \in Seq(Data) /\ s[c] \in Seq(Data)
  OBVIOUS
<1>2. Len(Append(s[d], x)) = Len(s[d]) + 1 /\ Len(s[c]) \in Nat
  BY <1>1
<1>3. s[d] # <<>> => Len(Tail(s[d])) = Len(s[d]) - 1 /\ Len(s[d]) >= 1
  BY <1>1
<1>4. CASE d = c
  BY <1>2, <1>3, <1>4
<1>5. CASE d # c
  BY <1>2, <1>5
<1> QED
  BY <1>4, <1>5, Zenon

\* A step of the generator: what a client sends is one more under way, what it
\* receives is one less.
LEMMA WayRps ==
  ASSUME Types, Types', RpsNext, UNCHANGED <<epollVars, uringVars>>, gone = "no",
         NEW c \in Clients, ~hup'[c],
         ~hup[c] => UnderWay(c) = IF cpc[c] = "recv" THEN 1 ELSE 0
  PROVE  UnderWay(c)' = IF cpc'[c] = "recv" THEN 1 ELSE 0
<1> DEFINE k == Len(c2s[c])
           l == Len(s2c[c])
           kk == Len(c2s'[c])
           ll == Len(s2c'[c])
           r == Count(queue, {c})
           t == Total(sq, ops, cq, Sends(c), Requests(c))
           In(d) == IF d = c THEN 1 ELSE 0
<1>1. NetTypes /\ UNCHANGED <<size, queue, sq, ops, cq>>
  BY DEF Types, epollVars, uringVars
<1>2. UnderWay(c) = k + l + r + t /\ UnderWay(c)' = kk + ll + r + t
      /\ k \in Nat /\ l \in Nat /\ r \in Nat /\ t \in Nat
  BY <1>1, WayParts, Zenon
<1>3. /\ c2s \in [Clients -> Seq(Data)] /\ s2c \in [Clients -> Seq(Data)]
      /\ cpc \in [Clients -> {"unborn", "start", "blocked", "connect", "loop", "recv", "done"}]
      /\ hup \in [Clients -> BOOLEAN] /\ asked \in [Clients -> Nat]
  BY <1>1 DEF NetTypes
<1> HIDE DEF r, t
<1>4. ASSUME UNCHANGED <<c2s, s2c>>, ~hup[c], cpc'[c] = "recv" <=> cpc[c] = "recv"
      PROVE  UnderWay(c)' = IF cpc'[c] = "recv" THEN 1 ELSE 0
  BY <1>2, <1>4, Zenon
<1>5. CASE Main
  <2>1. /\ UNCHANGED <<c2s, s2c, hup>>
        /\ \/ \E d \in Clients : cpc[d] = "unborn" /\ cpc' = [cpc EXCEPT ![d] = "start"]
           \/ cpc' = [d \in Clients |-> IF cpc[d] = "blocked" THEN "start" ELSE cpc[d]]
           \/ cpc' = cpc
    BY <1>5 DEF Main, create_worker, broadcast, stop, join, net
  <2>2. cpc'[c] = "recv" <=> cpc[c] = "recv"
    BY <1>3, <2>1
  <2> QED
    BY <1>4, <2>1, <2>2
<1>6. ASSUME NEW d \in Clients, wait_ready(d) \/ connect(d)
      PROVE  UnderWay(c)' = IF cpc'[c] = "recv" THEN 1 ELSE 0
  <2>1. /\ UNCHANGED <<c2s, s2c, hup>> /\ cpc[d] # "recv"
        /\ \E x \in {"connect", "blocked", "loop"} : cpc' = [cpc EXCEPT ![d] = x]
    BY <1>6 DEF wait_ready, connect, net
  <2>2. cpc'[c] = "recv" <=> cpc[c] = "recv"
    BY <1>3, <2>1
  <2> QED
    BY <1>4, <2>1, <2>2, ZenonT(30)
<1>7. ASSUME NEW d \in Clients, ask(d)
      PROVE  UnderWay(c)' = IF cpc'[c] = "recv" THEN 1 ELSE 0
  <2>1. /\ c2s' = [c2s EXCEPT ![d] = Append(@, <<d, asked[d] + 1>>)]
        /\ cpc[d] = "loop" /\ cpc' = [cpc EXCEPT ![d] = "recv"] /\ UNCHANGED <<s2c, hup>>
    BY <1>7 DEF ask
  <2>2. <<d, asked[d] + 1>> \in Data
    BY <1>3 DEF Data
  <2>3. kk = k + In(d)
    <3> DEFINE x == <<d, asked[d] + 1>>
    <3>1. x \in Data /\ c2s' = [c2s EXCEPT ![d] = Append(@, x)]
      BY <2>1, <2>2
    <3> HIDE DEF x
    <3> QED
      BY <1>3, <3>1, StreamLen, Zenon
  <2>5. ll = l
    BY <2>1
  <2>4. cpc'[c] = IF d = c THEN "recv" ELSE cpc[c]
    BY <1>3, <2>1
  <2> HIDE DEF k, l, kk, ll
  <2> QED
    BY <1>2, <2>1, <2>3, <2>4, <2>5, SMTT(30), Z3
<1>8. ASSUME NEW d \in Clients, answer(d)
      PROVE  UnderWay(c)' = IF cpc'[c] = "recv" THEN 1 ELSE 0
  <2>1. /\ s2c' = [s2c EXCEPT ![d] = Tail(@)] /\ s2c[d] # <<>>
        /\ cpc[d] = "recv" /\ cpc' = [cpc EXCEPT ![d] = "loop"] /\ UNCHANGED <<c2s, hup>>
    BY <1>8 DEF answer
  <2>2. nothing \in Data
    BY DEF Data
  <2>3. ll = l - In(d)
    BY <1>3, <2>1, <2>2, StreamLen, Zenon
  <2>5. kk = k
    BY <2>1
  <2>4. cpc'[c] = IF d = c THEN "loop" ELSE cpc[c]
    BY <1>3, <2>1
  <2> HIDE DEF k, l, kk, ll
  <2> QED
    BY <1>2, <2>1, <2>3, <2>4, <2>5, SMTT(30), Z3
<1>9. ASSUME NEW d \in Clients, lost(d)
      PROVE  FALSE
  BY <1>9 DEF lost
<1>10. ASSUME NEW d \in Clients, finish(d)
       PROVE  UnderWay(c)' = IF cpc'[c] = "recv" THEN 1 ELSE 0
  <2>1. /\ hup' = [hup EXCEPT ![d] = TRUE] /\ cpc' = [cpc EXCEPT ![d] = "done"]
        /\ UNCHANGED <<c2s, s2c>>
    BY <1>10 DEF finish
  <2>2. d # c /\ ~hup[c] /\ cpc'[c] = cpc[c]
    BY <1>3, <2>1
  <2> QED
    BY <1>4, <2>1, <2>2, ZenonT(30)
<1>11. ASSUME die
       PROVE  FALSE
  BY <1>11 DEF die
<1> QED
  BY <1>5, <1>6, <1>7, <1>8, <1>9, <1>10, <1>11, Zenon DEF RpsNext, Client

\* A step of the epoll server or of the worker: the request becomes the echo.
LEMMA WayEpoll ==
  ASSUME Types, Types', EpollNext, UNCHANGED uringVars, gone' = "no",
         NEW c \in Clients, ~hup'[c],
         ~hup[c] => UnderWay(c) = IF cpc[c] = "recv" THEN 1 ELSE 0
  PROVE  UnderWay(c)' = IF cpc'[c] = "recv" THEN 1 ELSE 0
<1> DEFINE k == Len(c2s[c])
           l == Len(s2c[c])
           r == Count(queue, {c})
           kk == Len(c2s'[c])
           ll == Len(s2c'[c])
           rr == Count(queue', {c})
           t == Total(sq, ops, cq, Sends(c), Requests(c))
           In(d) == IF d = c THEN 1 ELSE 0
<1>1. NetTypes /\ EpollTypes /\ UNCHANGED <<size, sq, ops, cq>>
  BY DEF Types, uringVars
<1>2. UnderWay(c) = k + l + r + t /\ UnderWay(c)' = kk + ll + rr + t
      /\ k \in Nat /\ l \in Nat /\ r \in Nat /\ t \in Nat
  BY <1>1, WayParts, Zenon
<1>3. /\ c2s \in [Clients -> Seq(Data)] /\ s2c \in [Clients -> Seq(Data)]
      /\ queue \in Seq(Clients) /\ buffer \in Data
  BY <1>1, Zenon DEF NetTypes, EpollTypes
<1>4. UNCHANGED <<cpc, hup>>
  BY DEF EpollNext, EpollServer, epoll_wait, accept4, accept4_error, batch_flush, recv_send,
         recv_end, Perform, Sleep, rpsVars, threads, net
<1>5. SUFFICES kk + ll + rr = k + l + r
  <2> HIDE DEF k, l, r, kk, ll, rr, t
  <2> QED
    BY <1>2, <1>4, <1>5
<1>6. ASSUME UNCHANGED <<c2s, s2c, queue>>
      PROVE  kk + ll + rr = k + l + r
  BY <1>6
<1>7. CASE epoll_wait \/ batch_flush \/ Sleep \/ accept4
  <2>1. UNCHANGED <<c2s, s2c, queue>>
    BY <1>7 DEF epoll_wait, batch_flush, Sleep, accept4, rpsVars, net
  <2> QED
    BY <1>6, <2>1, SMTT(30), Z3
<1>8. ASSUME accept4_error
      PROVE  FALSE
  BY <1>8 DEF accept4_error
<1>9. ASSUME NEW d \in Clients, recv_end(d)
      PROVE  kk + ll + rr = k + l + r
  <2>1. UNCHANGED <<c2s, s2c, queue>>
    BY <1>9 DEF recv_end, rpsVars, net
  <2> QED
    BY <1>6, <2>1
<1>10. ASSUME NEW d \in Clients, recv_send(d)
       PROVE  kk + ll + rr = k + l + r
  <2>1. c2s[d] # <<>> /\ c2s' = [c2s EXCEPT ![d] = Tail(@)] /\ buffer' = Head(c2s[d])
    BY <1>10 DEF recv_send, Take
  <2>2. buffer' \in Data
    BY <1>3, <2>1
  <2>3. kk = k - In(d)
    BY <1>3, <2>1, <2>2, StreamLen, Zenon
  <2>4. CASE server = "esca"
    <3>1. queue' = Append(queue, d) /\ s2c' = s2c
      BY <1>10, <2>4, ZenonT(30) DEF recv_send
    <3>2. rr = r + (IF d \in {c} THEN 1 ELSE 0)
      BY <1>3, <3>1, CountAppend, Zenon
    <3>3. ll = l
      BY <3>1, Zenon
    <3> HIDE DEF k, l, r, kk, ll, rr
    <3> QED
      BY <1>2, <2>3, <3>2, <3>3, SMTT(30), Z3
  <2>5. CASE server # "esca"
    <3>1. queue' = queue /\ s2c' = IF hup[d] THEN s2c ELSE [s2c EXCEPT ![d] = Append(@, buffer')]
      BY <1>10, <2>5, ZenonT(30) DEF recv_send, Deliver
    <3>2. rr = r
      BY <3>1, Zenon
    <3>3. ll = l + In(d)
      <4>1. CASE hup[d]
        <5>1. d # c /\ s2c' = s2c
          BY <1>4, <3>1, <4>1
        <5> QED
          BY <1>2, <5>1
      <4>2. CASE ~hup[d]
        BY <1>3, <2>2, <3>1, <4>2, StreamLen, Zenon
      <4> QED
        BY <4>1, <4>2, ZenonT(30)
    <3> HIDE DEF k, l, r, kk, ll, rr
    <3> QED
      BY <1>2, <2>3, <3>2, <3>3, SMTT(30), Z3
  <2> QED
    BY <2>4, <2>5, Zenon
<1>11. CASE Perform
  <2>1. /\ queue # <<>> /\ queue' = Tail(queue) /\ Deliver(Head(queue), buffer) /\ c2s' = c2s
    BY <1>11 DEF Perform
  <2>2. PICK d \in Clients : d = Head(queue)
    BY <1>3, <2>1
  <2>3. s2c' = IF hup[d] THEN s2c ELSE [s2c EXCEPT ![d] = Append(@, buffer)]
    BY <2>1, <2>2 DEF Deliver
  <2>4. rr = r - (IF d \in {c} THEN 1 ELSE 0)
    BY <1>3, <2>1, <2>2, CountTail, Zenon
  <2>5. ll = l + In(d)
    <3>1. CASE hup[d]
      <4>1. d # c /\ s2c' = s2c
        BY <1>4, <2>3, <3>1
      <4> QED
        BY <1>2, <4>1
    <3>2. CASE ~hup[d]
      BY <1>3, <2>3, <3>2, StreamLen, Zenon
    <3> QED
      BY <3>1, <3>2, Zenon
  <2>6. kk = k
    BY <2>1, Zenon
  <2> HIDE DEF k, l, r, kk, ll, rr
  <2> QED
    BY <1>2, <2>4, <2>5, <2>6, SMTT(30), Z3
<1> QED
  BY <1>7, <1>8, <1>9, <1>10, <1>11, Zenon DEF EpollNext, EpollServer

\* A step of the io_uring server or of the kernel.
LEMMA WayUring ==
  ASSUME Types, Types', UringNext, UNCHANGED epollVars, gone' = "no",
         NEW c \in Clients, ~hup'[c],
         ~hup[c] => UnderWay(c) = IF cpc[c] = "recv" THEN 1 ELSE 0
  PROVE  UnderWay(c)' = IF cpc'[c] = "recv" THEN 1 ELSE 0
<1> DEFINE E == Sends(c)
           C == Requests(c)
           k == Len(c2s[c])
           l == Len(s2c[c])
           r == Count(queue, {c})
           t == Total(sq, ops, cq, E, C)
           kk == Len(c2s'[c])
           ll == Len(s2c'[c])
           u == Total(sq', ops', cq', E, C)
           In(d) == IF d = c THEN 1 ELSE 0
<1>1. NetTypes /\ RingTypes /\ RingTypes' /\ size' = size /\ queue' = queue
  BY TypesUring, ZenonT(30) DEF Types, epollVars
<1>2. UnderWay(c) = k + l + r + t /\ UnderWay(c)' = kk + ll + r + u
      /\ k \in Nat /\ l \in Nat /\ r \in Nat /\ t \in Nat /\ u \in Nat
  BY <1>1, WayParts, Zenon
<1>3. /\ c2s \in [Clients -> Seq(Data)] /\ s2c \in [Clients -> Seq(Data)]
      /\ bufs \in [Bids -> Data] /\ group \subseteq Bids
  BY <1>1, Zenon DEF NetTypes, RingTypes
<1>4. UNCHANGED <<cpc, hup>>
  BY Zenon DEF UringNext, UringServer, UringKernel, submit, wait_cqe, for_each_cqe, cq_advance, Complete,
         KernelAccept, KernelRefuse, KernelNoBufs, KernelRead, KernelWrite, rpsVars, threads, net
<1>5. SUFFICES kk + ll + u = k + l + t
  <2> HIDE DEF k, l, r, t, kk, ll, u
  <2>1. kk \in Nat /\ ll \in Nat
    <3>1. NetTypes'
      BY DEF Types
    <3>2. c2s'[c] \in Seq(Data) /\ s2c'[c] \in Seq(Data)
      BY <3>1 DEF NetTypes
    <3> QED
      BY <3>2 DEF kk, ll
  <2> QED
    BY <1>2, <1>4, <1>5, <2>1, SMTT(30), Z3
<1>6. k + l + r + t <= 1
  <2> HIDE DEF k, l, r, t
  <2> QED
    BY <1>2, <1>4
<1>7. /\ One(ACCEPT, E) = 0 /\ \A d \in Clients : One(READ(d), E) = 0
      /\ \A b \in Bids : One(PROV_BUF(b), E) = 0
      /\ \A d \in Clients, b \in Bids : One(WRITE(d, b), E) = In(d)
  BY EchoEntries, Zenon
<1>8. /\ One(Refusal, C) = 0 /\ \A b \in Bids : One(Provided(b), C) = 0
      /\ \A d \in Clients : One(Accepted(d), C) = 0 /\ One(Starved(d), C) = 0
      /\ \A d \in Clients, b \in Bids : One(Ended(d, b), C) = 0 /\ One(Sent(d, b), C) = 0
      /\ \A d \in Clients, b \in Bids : One(Got(d, b), C) = In(d)
  BY EchoCqes, Zenon
<1> HIDE DEF E, C, In, r, t, u
<1>9. ASSUME UNCHANGED <<c2s, s2c>>, u = t
      PROVE  kk + ll + u = k + l + t
  BY <1>9, Zenon
<1>10. Issues(E, t, u) \/ Provides(E, C, t, u) \/ Rests(t, u) \/ Reaps(E, C, t, u) \/ Completes(E, C, t, u)
  BY Weights, ZenonT(30) DEF t, u
<1>11. CASE Issues(E, t, u)
  <2>1. One(Head(sq), E) = (IF Head(sq) \in E THEN 1 ELSE 0)
    BY DEF One
  <2>3. /\ u = t - (IF Head(sq) \in ops THEN One(Head(sq), E) ELSE 0)
        /\ Head(sq) \in ops /\ Head(sq) \in E => t >= 2
    BY <1>11 DEF Issues
  <2>2. u = t
    <3> HIDE DEF k, l
    <3>1. t <= 1
      BY <1>2, <1>6
    <3> QED
      BY <1>2, <2>1, <2>3, <3>1, SMTT(30), Z3
  <2> QED
    BY <1>9, <1>11, <2>2, Zenon DEF Issues, submit, rpsVars, net
<1>12. CASE Provides(E, C, t, u)
  <2>1. u = t - 0 + 0 /\ UNCHANGED <<c2s, s2c>>
    BY <1>7, <1>8, <1>12, Zenon DEF Provides, submit, rpsVars, net
  <2>2. u = t
    BY <1>2, <2>1
  <2> QED
    BY <1>9, <2>1, <2>2, Zenon
<1>13. CASE Rests(t, u)
  BY <1>9, <1>13, Zenon DEF Rests, wait_cqe, cq_advance, rpsVars, net
<1>14. CASE Reaps(E, C, t, u)
  <2>1. UNCHANGED <<c2s, s2c>> /\ Handles(E, C, t, u)
    BY <1>14, Zenon DEF Reaps, net
  <2>2. \/ u = t - 0 + 0 + 0 \/ u = t - 0 + 0 \/ u = t - 0
        \/ \E d \in Clients : u = t - In(d) + In(d)
    BY <1>7, <1>8, <2>1, Zenon DEF Handles
  <2>3. u = t
    BY <1>2, <2>2 DEF In
  <2> QED
    BY <1>9, <2>1, <2>3
<1>15. CASE Completes(E, C, t, u)
  <2>1. \/ UNCHANGED <<c2s, s2c>> /\ u = t - 0 + 0
        \/ \E d \in Clients : /\ c2s[d] # <<>> /\ c2s' = [c2s EXCEPT ![d] = Tail(@)] /\ s2c' = s2c
                               /\ u = t - 0 + In(d)
        \/ \E d \in Clients, x \in Bids : KernelWrite(d, x) /\ u = t - In(d) + 0
    BY <1>7, <1>8, <1>15, Zenon DEF Completes, KernelAccept, KernelRefuse, KernelNoBufs, KernelRead, net
  <2>2. CASE UNCHANGED <<c2s, s2c>> /\ u = t - 0 + 0
    <3>1. u = t
      BY <1>2, <2>2
    <3> QED
      BY <1>9, <2>2, <3>1, Zenon
  <2>3. ASSUME NEW d \in Clients, c2s[d] # <<>>, c2s' = [c2s EXCEPT ![d] = Tail(@)], s2c' = s2c,
               u = t - 0 + In(d)
        PROVE  kk + ll + u = k + l + t
    <3>1. nothing \in Data
      BY DEF Data
    <3>2. kk = k - In(d)
      BY <1>3, <2>3, <3>1, StreamLen, Zenon DEF In
    <3>3. ll = l
      BY <2>3, Zenon
    <3> HIDE DEF k, l, kk, ll
    <3> QED
      BY <1>2, <2>3, <3>2, <3>3, SMTT(30), Z3 DEF In
  <2>4. ASSUME NEW d \in Clients, NEW x \in Bids, KernelWrite(d, x), u = t - In(d) + 0
        PROVE  kk + ll + u = k + l + t
    <3>1. c2s' = c2s /\ s2c' = IF hup[d] THEN s2c ELSE [s2c EXCEPT ![d] = Append(@, bufs[x])]
      BY <2>4, Zenon DEF KernelWrite, Deliver
    <3>2. bufs[x] \in Data
      BY <1>3, Zenon
    <3>3. ll = l + In(d)
      <4>1. CASE hup[d]
        <5>1. d # c /\ s2c' = s2c
          BY <1>4, <3>1, <4>1
        <5> QED
          BY <1>2, <5>1, SMTT(30), Z3 DEF In
      <4>2. CASE ~hup[d]
        BY <1>3, <3>1, <3>2, <4>2, StreamLen, Zenon DEF In
      <4> QED
        BY <4>1, <4>2, ZenonT(30)
    <3>4. kk = k
      BY <3>1
    <3>5. u = t - In(d) /\ In(d) \in {0, 1}
      BY <1>2, <2>4, SMTT(30), Z3 DEF In
    <3> HIDE DEF k, l, kk, ll, In
    <3> QED
      BY <1>2, <3>3, <3>4, <3>5, SMTT(30), Z3
  <2> QED
    BY <2>1, <2>2, <2>3, <2>4, Zenon
<1> QED
  BY <1>10, <1>11, <1>12, <1>13, <1>14, <1>15, ZenonT(30)

\* No request is under way at the start.
LEMMA WayInit == Init => OneEcho
<1> SUFFICES ASSUME Init, NEW c \in Clients
             PROVE  UnderWay(c) = 0 /\ cpc[c] # "recv"
  BY DEF OneEcho
<1>1. /\ c2s[c] = <<>> /\ s2c[c] = <<>> /\ queue = <<>> /\ cpc[c] = "unborn"
      /\ sq = <<ACCEPT>> /\ cq = <<>> /\ ops = {}
  BY DEF Init, RpsInit, EpollInit, UringInit
<1>2. queue \in Seq(Clients) /\ sq \in Seq({ACCEPT}) /\ cq \in Seq({ACCEPT})
  BY <1>1
<1>3. Len(c2s[c]) = 0 /\ Len(s2c[c]) = 0
  BY <1>1
<1>4. ACCEPT \notin Sends(c)
  BY EntryTypes DEF Sends
<1>5. \A i \in 1 .. Len(sq) : sq[i] \notin Sends(c)
  BY <1>1, <1>4
<1>6. Count(queue, {c}) = 0 /\ Count(sq, Sends(c)) = 0 /\ Count(cq, Requests(c)) = 0
  BY <1>1, <1>2, <1>5, CountNone, Zenon
<1>7. Cardinality(ops \cap Sends(c)) = 0
  BY <1>1, FS_EmptySet
<1> QED
  BY <1>1, <1>3, <1>6, <1>7, SMTT(30), Z3 DEF UnderWay, InRings

\* No step loses a request or echoes it twice.
LEMMA WayStep ==
  ASSUME Types, Types', OneEcho, [Next]_vars
  PROVE  OneEcho'
<1> SUFFICES ASSUME gone' = "no", NEW c \in Clients, ~hup'[c]
             PROVE  UnderWay(c)' = IF cpc'[c] = "recv" THEN 1 ELSE 0
  BY DEF OneEcho
<1>1. gone = "no"
  BY GoneStays
<1>2. ~hup[c] => UnderWay(c) = IF cpc[c] = "recv" THEN 1 ELSE 0
  BY <1>1 DEF OneEcho
<1>3. CASE RpsNext /\ UNCHANGED <<epollVars, uringVars>>
  BY <1>1, <1>2, <1>3, WayRps, SMTT(30), Z3
<1>4. CASE EpollNext /\ UNCHANGED uringVars
  BY <1>1, <1>2, <1>4, WayEpoll, SMTT(30), Z3
<1>5. CASE UringNext /\ UNCHANGED epollVars
  BY <1>1, <1>2, <1>5, WayUring, Zenon
<1>6. CASE UNCHANGED vars
  <2>1. UNCHANGED <<c2s, s2c, queue, size, sq, ops, cq, cpc, hup>>
    BY <1>6, Zenon DEF vars, rpsVars, threads, net, epollVars, uringVars
  <2>2. UnderWay(c)' = UnderWay(c)
    BY <2>1, SameBids DEF UnderWay, InRings, Sends, Requests, WRITE, Cqe, Count, CountFrom
  <2> QED
    BY <1>2, <2>1, <2>2, Zenon
<1> QED
  BY <1>3, <1>4, <1>5, <1>6, SMTT(30), Z3 DEF Next

\* With any of the servers, a client that waits for its echo has exactly one
\* request or echo under way, and one that does not wait has none: requests are
\* neither lost nor echoed twice, for any number of clients and buffers.
THEOREM EveryRequestEchoedOnce == Spec => []OneEcho
<1>1. OneEcho /\ Types /\ Types' /\ [Next]_vars => OneEcho'
  BY WayStep
<1> QED
  BY <1>1, WayInit, TypesHold, PTL DEF Spec

-----------------------------------------------------------------------------
\* The server holds bytes of client c in buffer b, to be echoed.
Within(q, x) == \E i \in 1 .. Len(q) : q[i] = x
Carries(c, b) == Within(cq, Got(c, b)) \/ Within(sq, WRITE(c, b)) \/ WRITE(c, b) \in ops

\* A client that has closed its connection is done.
Closed == \A c \in Clients : hup[c] => cpc[c] = "done"

\* An echo waits only for a client that waits for it, even when the server has ended.
Quiet == \A c \in Clients : ~hup[c] => Len(s2c[c]) <= IF cpc[c] = "recv" THEN 1 ELSE 0

\* What is under way is what was asked last.
Content ==
  server # "esca" /\ gone = "no" => \A c \in Clients :
    /\ \A i \in 1 .. Len(c2s[c]) : c2s[c][i] = <<c, asked[c]>>
    /\ \A b \in Bids : Carries(c, b) => bufs[b] = <<c, asked[c]>>

\* Without libesca a send is done at once.
Direct == server # "esca" => queue = <<>>

OwnInv == Closed /\ Quiet /\ Direct /\ Content /\ OwnBytes

\* Nothing is under way at the start.
LEMMA OwnInit == Init => OwnInv
<1> SUFFICES ASSUME Init PROVE OwnInv
  OBVIOUS
<1>1. /\ \A c \in Clients : c2s[c] = <<>> /\ s2c[c] = <<>> /\ cpc[c] = "unborn" /\ hup[c] = FALSE
      /\ sq = <<ACCEPT>> /\ cq = <<>> /\ ops = {}
  BY DEF Init, RpsInit, UringInit
<1>2. \A c \in Clients, b \in Bids : ~Carries(c, b)
  BY <1>1, EntryTypes DEF Carries, Within
<1>3. Closed /\ Quiet /\ Direct
  BY <1>1 DEF Closed, Quiet, Direct, Init, EpollInit
<1>4. Content /\ OwnBytes
  BY <1>1, <1>2 DEF Content, OwnBytes
<1> QED
  BY <1>3, <1>4 DEF OwnInv

\* What is in a sequence that has grown or shrunk.
LEMMA WithinMoves ==
  ASSUME NEW T, NEW q \in Seq(T), NEW x, NEW y \in T
  PROVE  /\ Within(Append(q, y), x) => Within(q, x) \/ x = y
         /\ q # <<>> /\ Within(Tail(q), x) => Within(q, x)
         /\ q # <<>> => Within(q, Head(q))
<1>1. /\ Len(Append(q, y)) = Len(q) + 1 /\ Append(q, y)[Len(q) + 1] = y /\ Len(q) \in Nat
      /\ \A i \in 1 .. Len(q) : Append(q, y)[i] = q[i]
  OBVIOUS
<1>2. q # <<>> => /\ Len(Tail(q)) = Len(q) - 1 /\ Head(q) = q[1] /\ Len(q) >= 1
                  /\ \A i \in 1 .. Len(q) - 1 : Tail(q)[i] = q[i + 1]
  OBVIOUS
<1> DEFINE a == Append(q, y)
           t == Tail(q)
           n == Len(q)
<1>3. /\ Len(a) = n + 1 /\ a[n + 1] = y /\ n \in Nat /\ \A i \in 1 .. n : a[i] = q[i]
  BY <1>1, Zenon
<1>4. q # <<>> => /\ Len(t) = n - 1 /\ Head(q) = q[1] /\ n >= 1
                  /\ \A i \in 1 .. n - 1 : t[i] = q[i + 1]
  BY <1>2, Zenon
<1> HIDE DEF a, t
<1>5. Within(a, x) => Within(q, x) \/ x = y
  BY <1>3 DEF Within
<1>6. q # <<>> /\ Within(t, x) => Within(q, x)
  BY <1>3, <1>4 DEF Within
<1>7. q # <<>> => Within(q, Head(q))
  BY <1>3, <1>4 DEF Within
<1> QED
  BY <1>5, <1>6, <1>7, Zenon DEF a, t

\* What is counted as none is nowhere.
LEMMA TotalNone ==
  ASSUME NEW T, NEW U, NEW s \in Seq(T), NEW q \in Seq(U), NEW o, IsFiniteSet(o),
         NEW E, NEW C, Total(s, o, q, E, C) = 0
  PROVE  /\ \A x \in E : ~Within(s, x) /\ x \notin o
         /\ \A x \in C : ~Within(q, x)
<1>1. /\ Count(q, C) \in Nat /\ Count(s, E) \in Nat /\ Cardinality(o \cap E) \in Nat
  BY TotalType, Zenon
<1>2. Count(q, C) = 0 /\ Count(s, E) = 0 /\ Cardinality(o \cap E) = 0
  BY <1>1 DEF Total
<1>3. /\ \A i \in 1 .. Len(q) : q[i] \notin C
      /\ \A i \in 1 .. Len(s) : s[i] \notin E
  <2>1. 1 \in Nat
    OBVIOUS
  <2> QED
    BY <1>2, <2>1, CountNone
<1>4. o \cap E = {}
  BY <1>2, FS_Intersection, FS_EmptySet, Zenon
<1> QED
  BY <1>3, <1>4 DEF Within

\* Bytes of the streams after a step.
LEMMA StreamBytes ==
  ASSUME NEW s \in [Clients -> Seq(Data)], NEW d \in Clients, NEW c \in Clients, NEW x \in Data, NEW v,
         \A i \in 1 .. Len(s[c]) : s[c][i] = v
  PROVE  /\ (d = c => x = v) =>
              \A i \in 1 .. Len([s EXCEPT ![d] = Append(@, x)][c]) : [s EXCEPT ![d] = Append(@, x)][c][i] = v
         /\ s[d] # <<>> =>
              /\ \A i \in 1 .. Len([s EXCEPT ![d] = Tail(@)][c]) : [s EXCEPT ![d] = Tail(@)][c][i] = v
              /\ d = c => Head(s[d]) = v
<1>1. s[c] \in Seq(Data)
  OBVIOUS
<1>2. x = v => \A i \in 1 .. Len(Append(s[c], x)) : Append(s[c], x)[i] = v
  BY <1>1
<1>3. s[c] # <<>> => /\ \A i \in 1 .. Len(Tail(s[c])) : Tail(s[c])[i] = v
                     /\ Head(s[c]) = v
  BY <1>1
<1>4. CASE d = c
  <2>1. [s EXCEPT ![d] = Append(@, x)][c] = Append(s[c], x) /\ [s EXCEPT ![d] = Tail(@)][c] = Tail(s[c])
    BY <1>4
  <2> QED
    BY <1>2, <1>3, <1>4, <2>1, Zenon
<1>5. CASE d # c
  <2>1. [s EXCEPT ![d] = Append(@, x)][c] = s[c] /\ [s EXCEPT ![d] = Tail(@)][c] = s[c]
    BY <1>5
  <2> QED
    BY <1>5, <2>1, Zenon
<1> QED
  BY <1>4, <1>5

\* The generator: Closed and Quiet.
LEMMA QuietStep ==
  ASSUME Types, Types', Closed, Quiet, OneEcho', [Next]_vars
  PROVE  Closed' /\ Quiet'
<1>1. /\ s2c \in [Clients -> Seq(Data)] /\ hup \in [Clients -> BOOLEAN]
      /\ cpc \in [Clients -> {"unborn", "start", "blocked", "connect", "loop", "recv", "done"}]
  BY DEF Types, NetTypes
<1>2. ASSUME UNCHANGED <<s2c, cpc, hup>>
      PROVE  Closed' /\ Quiet'
  BY <1>2 DEF Closed, Quiet
<1>3. ASSUME UNCHANGED <<cpc, hup>>, gone' = "no"
      PROVE  Closed' /\ Quiet'
  <2>1. Closed'
    BY <1>3 DEF Closed
  <2>2. ASSUME NEW c \in Clients, ~hup'[c]
        PROVE  Len(s2c'[c]) <= IF cpc'[c] = "recv" THEN 1 ELSE 0
    <3>1. UnderWay(c)' = IF cpc'[c] = "recv" THEN 1 ELSE 0
      BY <1>3, <2>2 DEF OneEcho
    <3>2. NetTypes' /\ EpollTypes' /\ RingTypes'
      BY DEF Types
    <3>3. c2s'[c] \in Seq(Data) /\ s2c'[c] \in Seq(Data) /\ queue' \in Seq(Clients)
          /\ sq' \in Seq(Sqes') /\ cq' \in Seq(Cqes') /\ IsFiniteSet(ops')
      BY <3>2 DEF NetTypes, EpollTypes, RingTypes
    <3> DEFINE k == Len(c2s'[c])
               l == Len(s2c'[c])
               r == Count(queue', {c})
               t == Total(sq', ops', cq', Sends(c)', Requests(c)')
    <3>4. k \in Nat /\ l \in Nat
      BY <3>3
    <3>5. r \in Nat
      BY <3>3, CountType
    <3>6. t \in Nat
      BY <3>3, TotalType, Zenon
    <3>7. UnderWay(c)' = k + l + r + t
      BY DEF UnderWay, InRings, Total
    <3> HIDE DEF k, r, t, l
    <3>8. l <= IF cpc'[c] = "recv" THEN 1 ELSE 0
      BY <3>1, <3>4, <3>5, <3>6, <3>7, SMTT(30), Z3
    <3> QED
      BY <3>8 DEF l
  <2> QED
    BY <2>1, <2>2 DEF Quiet
<1>4. CASE RpsNext
  <2>1. ASSUME NEW d \in Clients, NEW x \in {"connect", "blocked", "loop", "start"}, cpc[d] # "recv",
               UNCHANGED <<s2c, hup>>, cpc[d] # "done",
               cpc' = [cpc EXCEPT ![d] = x]
        PROVE  Closed' /\ Quiet'
    BY <1>1, <2>1, Zenon DEF Closed, Quiet
  <2>2. CASE Main
    <3>1. UNCHANGED <<s2c, hup>>
      BY <2>2 DEF Main, create_worker, broadcast, stop, join, net
    <3>2. CASE cpc' = [d \in Clients |-> IF cpc[d] = "blocked" THEN "start" ELSE cpc[d]]
      BY <1>1, <3>1, <3>2, SMTT(30), Z3 DEF Closed, Quiet
    <3>3. CASE cpc' = cpc
      BY <1>2, <3>1, <3>3
    <3>4. CASE \E d \in Clients : cpc[d] = "unborn" /\ cpc' = [cpc EXCEPT ![d] = "start"]
      BY <2>1, <3>1, <3>4, Zenon
    <3> QED
      BY <2>2, <3>2, <3>3, <3>4, Zenon DEF Main, create_worker, broadcast, stop, join
  <2>3. ASSUME NEW d \in Clients, wait_ready(d) \/ connect(d)
        PROVE  Closed' /\ Quiet'
    <3>1. /\ UNCHANGED <<s2c, hup>> /\ cpc[d] # "recv" /\ cpc[d] # "done"
          /\ \E x \in {"connect", "blocked", "loop", "start"} : cpc' = [cpc EXCEPT ![d] = x]
      BY <2>3 DEF wait_ready, connect, net
    <3> QED
      BY <2>1, <3>1, Zenon
  <2>4. ASSUME NEW d \in Clients, ask(d)
        PROVE  Closed' /\ Quiet'
    <3>1. UNCHANGED <<s2c, hup>> /\ cpc[d] = "loop" /\ cpc' = [cpc EXCEPT ![d] = "recv"]
      BY <2>4, Zenon DEF ask
    <3> QED
      BY <1>1, <3>1, SMTT(30), Z3 DEF Closed, Quiet
  <2>5. ASSUME NEW d \in Clients, answer(d)
        PROVE  Closed' /\ Quiet'
    <3>1. /\ s2c' = [s2c EXCEPT ![d] = Tail(@)] /\ s2c[d] # <<>> /\ hup' = hup
          /\ cpc[d] = "recv" /\ cpc' = [cpc EXCEPT ![d] = "loop"]
      BY <2>5 DEF answer
    <3>2. Closed'
      BY <1>1, <3>1, Zenon DEF Closed
    <3>3. Len(Tail(s2c[d])) = Len(s2c[d]) - 1 /\ Len(s2c[d]) \in Nat
      BY <1>1, <3>1, SMTT(30), Z3
    <3>4. ~hup[d] => Len(Tail(s2c[d])) <= 0
      BY <3>1, <3>3, SMTT(30), Z3 DEF Quiet
    <3>5. ASSUME NEW c \in Clients, ~hup'[c]
          PROVE  Len(s2c'[c]) <= IF cpc'[c] = "recv" THEN 1 ELSE 0
      <4>1. CASE c = d
        BY <1>1, <3>1, <3>4, <3>5, <4>1, Zenon
      <4>2. CASE c # d
        <5>1. s2c'[c] = s2c[c] /\ cpc'[c] = cpc[c] /\ ~hup[c]
          BY <1>1, <3>1, <3>5, <4>2, Zenon
        <5> QED
          BY <5>1, ZenonT(30) DEF Quiet
      <4> QED
        BY <4>1, <4>2, Zenon
    <3> QED
      BY <3>2, <3>5, Zenon DEF Quiet
  <2>6. ASSUME NEW d \in Clients, lost(d)
        PROVE  Closed' /\ Quiet'
    <3>1. /\ UNCHANGED <<s2c, hup>> /\ s2c[d] = <<>>
          /\ cpc[d] = "recv" /\ cpc' = [cpc EXCEPT ![d] = "loop"]
      BY <2>6 DEF lost, net
    <3>2. Len(s2c[d]) <= 0
      BY <3>1
    <3> QED
      BY <1>1, <3>1, <3>2, Zenon DEF Closed, Quiet
  <2>7. ASSUME NEW d \in Clients, finish(d)
        PROVE  Closed' /\ Quiet'
    <3>1. s2c' = s2c /\ hup' = [hup EXCEPT ![d] = TRUE] /\ cpc' = [cpc EXCEPT ![d] = "done"]
      BY <2>7, Zenon DEF finish
    <3> QED
      BY <1>1, <3>1, Zenon DEF Closed, Quiet
  <2>8. CASE die
    BY <2>8 DEF die, Closed, Quiet
  <2> QED
    BY <1>4, <2>2, <2>3, <2>4, <2>5, <2>6, <2>7, <2>8, Zenon DEF RpsNext, Client
<1>5. CASE EpollNext
  <2>1. UNCHANGED <<cpc, hup>>
    BY <1>5, ZenonT(30) DEF EpollNext, EpollServer, epoll_wait, accept4, accept4_error, batch_flush, recv_send,
         recv_end, Perform, Sleep, rpsVars, threads, net
  <2>2. gone' = "no" \/ s2c' = s2c
    BY <1>5, Zenon DEF EpollNext, EpollServer, epoll_wait, accept4, accept4_error, batch_flush, recv_send,
         recv_end, Perform, Sleep, rpsVars, fate, net
  <2> QED
    BY <1>2, <1>3, <2>1, <2>2, Zenon
<1>6. CASE UringNext
  <2>1. UNCHANGED <<cpc, hup>>
    BY <1>6, ZenonT(30) DEF UringNext, UringServer, UringKernel, submit, wait_cqe, for_each_cqe, cq_advance, Complete,
         KernelAccept, KernelRefuse, KernelNoBufs, KernelRead, KernelWrite, rpsVars, threads, net
  <2>2. gone' = "no" \/ s2c' = s2c
    BY <1>6, Zenon DEF UringNext, UringServer, UringKernel, submit, wait_cqe, for_each_cqe, cq_advance, Complete,
         KernelAccept, KernelRefuse, KernelNoBufs, KernelRead, KernelWrite, rpsVars, fate, net
  <2> QED
    BY <1>2, <1>3, <2>1, <2>2, SMTT(30), Z3
<1>7. CASE UNCHANGED vars
  BY <1>2, <1>7 DEF vars, rpsVars, threads, net
<1> QED
  BY <1>4, <1>5, <1>6, <1>7, SMTT(30), Z3 DEF Next

\* The generator: a client asks again only when nothing of its own is left.
LEMMA OwnRps ==
  ASSUME Types, Types', OwnInv, OneEcho, RpsNext, UNCHANGED <<epollVars, uringVars>>
  PROVE  Direct' /\ Content' /\ OwnBytes'
<1>1. /\ c2s \in [Clients -> Seq(Data)] /\ s2c \in [Clients -> Seq(Data)]
      /\ asked \in [Clients -> Nat] /\ hup \in [Clients -> BOOLEAN]
  BY DEF Types, NetTypes
<1>2. UNCHANGED <<queue, size, sq, ops, cq, bufs>> /\ Bids' = Bids
  BY SameBids, ZenonT(30) DEF epollVars, uringVars
<1>3. UNCHANGED <<server, gone>>
  BY Zenon DEF RpsNext, Main, create_worker, broadcast, stop, join, Client, wait_ready, connect,
         ask, answer, lost, finish, die, fate
<1>4. \A c \in Clients, b \in Bids : Carries(c, b)' <=> Carries(c, b)
  BY <1>2, Zenon DEF Carries, Within, Got, WRITE, Cqe
<1>5. Direct'
  BY <1>2, <1>3, ZenonT(30) DEF Direct, OwnInv
<1>6. ASSUME UNCHANGED <<asked, c2s>>,
             \/ s2c' = s2c
             \/ \E d \in Clients : s2c[d] # <<>> /\ s2c' = [s2c EXCEPT ![d] = Tail(@)]
      PROVE  Content' /\ OwnBytes'
  <2>1. Content'
    BY <1>2, <1>3, <1>4, <1>6, Zenon DEF OwnInv, Content
  <2>2. ASSUME server # "esca", NEW c \in Clients
        PROVE  \A i \in 1 .. Len(s2c'[c]) : s2c'[c][i] = <<c, asked'[c]>>
    <3> DEFINE v == <<c, asked[c]>>
    <3>1. \A i \in 1 .. Len(s2c[c]) : s2c[c][i] = v
      BY <2>2 DEF OwnInv, OwnBytes
    <3>2. nothing \in Data /\ v = <<c, asked'[c]>>
      BY <1>6 DEF Data
    <3> HIDE DEF v
    <3>3. \A i \in 1 .. Len(s2c'[c]) : s2c'[c][i] = v
      <4>1. CASE s2c' = s2c
        BY <3>1, <4>1, Zenon
      <4>2. CASE \E d \in Clients : s2c[d] # <<>> /\ s2c' = [s2c EXCEPT ![d] = Tail(@)]
        BY <1>1, <3>1, <3>2, <4>2, StreamBytes, SMTT(20), Z3
      <4> QED
        BY <1>6, <4>1, <4>2, Zenon
    <3> QED
      BY <3>2, <3>3, Zenon
  <2> QED
    BY <1>3, <2>1, <2>2, Zenon DEF OwnBytes
<1>7. ASSUME NEW d \in Clients, ask(d)
      PROVE  Content' /\ OwnBytes'
  <2>1. /\ cpc[d] = "loop" /\ asked' = [asked EXCEPT ![d] = @ + 1] /\ s2c' = s2c
        /\ c2s' = [c2s EXCEPT ![d] = Append(@, <<d, asked[d] + 1>>)]
    BY <1>7 DEF ask
  <2>2. ~hup[d]
    BY <2>1 DEF OwnInv, Closed
  <2>3. s2c[d] = <<>>
    <3>1. Len(s2c[d]) <= 0 /\ s2c[d] \in Seq(Data)
      BY <1>1, <2>1, <2>2, Zenon DEF OwnInv, Quiet
    <3> QED
      BY <3>1
  <2>4. OwnBytes'
    BY <1>1, <1>3, <2>1, <2>3, SMTT(30), Z3 DEF OwnInv, OwnBytes
  <2>5. ASSUME server # "esca", gone = "no"
        PROVE  c2s[d] = <<>> /\ \A b \in Bids : ~Carries(d, b)
    <3> DEFINE k == Len(c2s[d])
               l == Len(s2c[d])
               r == Count(queue, {d})
               t == Total(sq, ops, cq, Sends(d), Requests(d))
    <3>1. UnderWay(d) = 0
      BY <2>1, <2>2, <2>5 DEF OneEcho
    <3>2. UnderWay(d) = k + l + r + t /\ k \in Nat /\ l \in Nat /\ r \in Nat /\ t \in Nat
      BY <1>2, WayParts, Zenon
    <3> HIDE DEF k, l, r, t
    <3>3. k = 0 /\ t = 0
      BY <3>1, <3>2
    <3>4. c2s[d] = <<>>
      BY <1>1, <3>3 DEF k
    <3>5. /\ \A x \in Sends(d) : ~Within(sq, x) /\ x \notin ops
          /\ \A x \in Requests(d) : ~Within(cq, x)
      <4>1. sq \in Seq(Sqes) /\ cq \in Seq(Cqes) /\ IsFiniteSet(ops)
        BY DEF Types, RingTypes
      <4> QED
        BY <3>3, <4>1, TotalNone, Zenon DEF t
    <3>6. \A b \in Bids : WRITE(d, b) \in Sends(d) /\ Got(d, b) \in Requests(d)
      BY DEF Sends, Requests, Got
    <3> QED
      BY <3>4, <3>5, <3>6, Zenon DEF Carries
  <2>6. Content'
    <3> SUFFICES ASSUME server # "esca", gone = "no", NEW c \in Clients
                 PROVE  /\ \A i \in 1 .. Len(c2s'[c]) : c2s'[c][i] = <<c, asked'[c]>>
                        /\ \A b \in Bids : Carries(c, b) => bufs[b] = <<c, asked'[c]>>
      BY <1>2, <1>3, <1>4, ZenonT(30) DEF Content
    <3>1. CASE c = d
      <4>1. c2s'[c] = Append(<<>>, <<d, asked[d] + 1>>) /\ asked'[c] = asked[d] + 1
        BY <1>1, <2>1, <2>5, <3>1, SMTT(30), Z3
      <4>2. \A b \in Bids : ~Carries(c, b)
        BY <2>5, <3>1, ZenonT(30)
      <4> QED
        BY <3>1, <4>1, <4>2, SMTT(30), Z3
    <3>2. CASE c # d
      <4>1. c2s'[c] = c2s[c] /\ asked'[c] = asked[c]
        BY <1>1, <2>1, <3>2
      <4> QED
        BY <4>1 DEF OwnInv, Content
    <3> QED
      BY <3>1, <3>2, Zenon
  <2> QED
    BY <2>4, <2>6, Zenon
<1>8. CASE Main \/ die
  <2>1. UNCHANGED <<asked, c2s, s2c>>
    BY <1>8 DEF Main, create_worker, broadcast, stop, join, die, net, counts
  <2> QED
    BY <1>5, <1>6, <2>1, ZenonT(30)
<1>9. ASSUME NEW d \in Clients, wait_ready(d) \/ connect(d) \/ lost(d) \/ finish(d)
      PROVE  Content' /\ OwnBytes'
  <2>1. UNCHANGED <<asked, c2s, s2c>>
    BY <1>9 DEF wait_ready, connect, lost, finish, net, counts
  <2> QED
    BY <1>6, <2>1, ZenonT(30)
<1>10. ASSUME NEW d \in Clients, answer(d)
       PROVE  Content' /\ OwnBytes'
  <2>1. UNCHANGED <<asked, c2s>> /\ s2c[d] # <<>> /\ s2c' = [s2c EXCEPT ![d] = Tail(@)]
    BY <1>10 DEF answer
  <2> QED
    BY <1>6, <2>1, Zenon
<1> QED
  BY <1>5, <1>7, <1>8, <1>9, <1>10, Zenon DEF RpsNext, Client

\* The epoll server on plain system calls sends what it has just received.
LEMMA OwnEpoll ==
  ASSUME Types, Types', OwnInv, EpollNext, UNCHANGED uringVars
  PROVE  Direct' /\ Content' /\ OwnBytes'
<1>1. /\ c2s \in [Clients -> Seq(Data)] /\ s2c \in [Clients -> Seq(Data)]
      /\ asked \in [Clients -> Nat] /\ hup \in [Clients -> BOOLEAN]
  BY DEF Types, NetTypes
<1>2. UNCHANGED <<size, sq, ops, cq, bufs>> /\ Bids' = Bids
  BY SameBids, ZenonT(30) DEF uringVars
<1>3. UNCHANGED <<server, asked>> /\ gone = "no"
  BY Zenon DEF EpollNext, EpollServer, epoll_wait, accept4, accept4_error, batch_flush, recv_send,
         recv_end, Perform, Sleep, rpsVars, counts, fate
<1>4. \A c \in Clients, b \in Bids : Carries(c, b)' <=> Carries(c, b)
  BY <1>2, Zenon DEF Carries, Within, Got, WRITE, Cqe
<1> SUFFICES ASSUME server # "esca"
             PROVE  /\ queue' = <<>>
                    /\ \A c \in Clients :
                         /\ \A i \in 1 .. Len(c2s'[c]) : c2s'[c][i] = <<c, asked[c]>>
                         /\ \A i \in 1 .. Len(s2c'[c]) : s2c'[c][i] = <<c, asked[c]>>
  BY <1>2, <1>3, <1>4, Zenon DEF OwnInv, Direct, Content, OwnBytes
<1>5. /\ queue = <<>>
      /\ \A c \in Clients :
           /\ \A i \in 1 .. Len(c2s[c]) : c2s[c][i] = <<c, asked[c]>>
           /\ \A i \in 1 .. Len(s2c[c]) : s2c[c][i] = <<c, asked[c]>>
  BY <1>3, Zenon DEF OwnInv, Direct, Content, OwnBytes
<1>6. CASE UNCHANGED <<queue, c2s, s2c>>
  BY <1>5, <1>6, Zenon
<1>7. ASSUME NEW d \in Clients, recv_send(d)
      PROVE  /\ queue' = <<>>
             /\ \A c \in Clients :
                  /\ \A i \in 1 .. Len(c2s'[c]) : c2s'[c][i] = <<c, asked[c]>>
                  /\ \A i \in 1 .. Len(s2c'[c]) : s2c'[c][i] = <<c, asked[c]>>
  <2>1. /\ c2s[d] # <<>> /\ c2s' = [c2s EXCEPT ![d] = Tail(@)] /\ buffer' = Head(c2s[d])
        /\ queue' = queue
        /\ s2c' = s2c \/ s2c' = [s2c EXCEPT ![d] = Append(@, buffer')]
    BY <1>7, Zenon DEF recv_send, Take, Deliver
  <2>2. buffer' \in Data
    BY Zenon DEF Types, EpollTypes
  <2>3. ASSUME NEW c \in Clients
        PROVE  /\ \A i \in 1 .. Len(c2s'[c]) : c2s'[c][i] = <<c, asked[c]>>
               /\ \A i \in 1 .. Len(s2c'[c]) : s2c'[c][i] = <<c, asked[c]>>
    <3> DEFINE v == <<c, asked[c]>>
    <3>1. /\ \A i \in 1 .. Len(c2s[c]) : c2s[c][i] = v
          /\ \A i \in 1 .. Len(s2c[c]) : s2c[c][i] = v
      BY <1>5, SMTT(30), Z3
    <3> HIDE DEF v
    <3>2. /\ \A i \in 1 .. Len(c2s'[c]) : c2s'[c][i] = v
          /\ d = c => buffer' = v
      BY <1>1, <2>1, <2>2, <3>1, StreamBytes, SMTT(30), Z3
    <3>3. \A i \in 1 .. Len(s2c'[c]) : s2c'[c][i] = v
      <4>1. CASE s2c' = s2c
        BY <3>1, <4>1, ZenonT(30)
      <4>2. CASE s2c' = [s2c EXCEPT ![d] = Append(@, buffer')]
        <5> DEFINE x == buffer'
        <5>1. x \in Data /\ (d = c => x = v) /\ s2c' = [s2c EXCEPT ![d] = Append(@, x)]
          BY <2>2, <3>2, <4>2, ZenonT(30)
        <5> HIDE DEF x
        <5> QED
          BY <1>1, <3>1, <5>1, StreamBytes, SMTT(30), Z3
      <4> QED
        BY <2>1, <4>1, <4>2, Zenon
    <3> QED
      BY <3>2, <3>3, SMTT(30), Z3 DEF v
  <2> QED
    BY <1>5, <2>1, <2>3, ZenonT(30)
<1>8. ASSUME Perform
      PROVE  FALSE
  BY <1>5, <1>8, Zenon DEF Perform
<1>9. CASE epoll_wait \/ batch_flush \/ Sleep \/ accept4 \/ accept4_error
  <2>1. UNCHANGED <<queue, c2s, s2c>>
    BY <1>9, SMTT(30), Z3 DEF epoll_wait, batch_flush, Sleep, accept4, accept4_error, epollVars, rpsVars, net
  <2> QED
    BY <1>6, <2>1, ZenonT(30)
<1>10. ASSUME NEW d \in Clients, recv_end(d)
       PROVE  UNCHANGED <<queue, c2s, s2c>>
  BY <1>10 DEF recv_end, rpsVars, net
<1> QED
  BY <1>6, <1>7, <1>8, <1>9, <1>10, Zenon DEF EpollNext, EpollServer

-----------------------------------------------------------------------------
\* A buffer in the group is held by nobody.
LEMMA FreeBuffer ==
  ASSUME Types, BuffersAccounted, gone = "no", NEW b \in group
  PROVE  b \in Bids /\ \A c \in Clients : ~Carries(c, b)
<1>1. /\ RingTypes /\ b \in Bids /\ sq \in Seq(Sqes) /\ cq \in Seq(Cqes) /\ IsFiniteSet(ops)
  BY DEF Types, RingTypes
<1> DEFINE t == Total(sq, ops, cq, EntriesWith(b), CqesWith(b))
<1>2. t \in Nat
  BY <1>1, TotalType, Zenon
<1>3. 1 + t = 1
  <2>1. InRings(EntriesWith(b), CqesWith(b)) = t
    BY DEF InRings, Total
  <2> QED
    BY <1>1, <2>1 DEF BuffersAccounted
<1> HIDE DEF t
<1>4. t = 0
  BY <1>2, <1>3
<1>5. /\ \A x \in EntriesWith(b) : ~Within(sq, x) /\ x \notin ops
      /\ \A x \in CqesWith(b) : ~Within(cq, x)
  BY <1>1, <1>4, TotalNone, Zenon DEF t
<1>6. \A c \in Clients : WRITE(c, b) \in EntriesWith(b) /\ Got(c, b) \in CqesWith(b)
  BY DEF EntriesWith, CqesWith, Got
<1> QED
  BY <1>1, <1>5, <1>6, Zenon DEF Carries

\* The io_uring server sends from a buffer what was received into it.
LEMMA OwnUring ==
  ASSUME Types, Types', OwnInv, BuffersAccounted, UringNext, UNCHANGED epollVars
  PROVE  Direct' /\ Content' /\ OwnBytes'
<1>1. /\ c2s \in [Clients -> Seq(Data)] /\ s2c \in [Clients -> Seq(Data)]
      /\ bufs \in [Bids -> Data] /\ group \subseteq Bids
      /\ sq \in Seq(Sqes) /\ cq \in Seq(Cqes) /\ RingTypes /\ NetTypes
  BY Zenon DEF Types, NetTypes, RingTypes
<1>2. Bids' = Bids /\ UNCHANGED <<size, server, queue>> /\ server # "esca" /\ gone = "no"
  BY TypesUring, SameBids, SMTT(30), Z3 DEF epollVars, UringNext, UringServer, UringKernel
<1>3. asked' = asked
  BY ServersLeaveThreads, Zenon DEF counts
<1> DEFINE bytes(c) == <<c, asked[c]>>
           Goal == \A c \in Clients :
                     /\ \A i \in 1 .. Len(s2c'[c]) : s2c'[c][i] = bytes(c)
                     /\ gone' = "no" =>
                          /\ \A i \in 1 .. Len(c2s'[c]) : c2s'[c][i] = bytes(c)
                          /\ \A b \in Bids : Carries(c, b)' => bufs'[b] = bytes(c)
<1>4. SUFFICES Goal
  BY <1>2, <1>3, <1>4, Zenon DEF OwnInv, Direct, Content, OwnBytes
<1>5. \A c \in Clients : /\ \A i \in 1 .. Len(s2c[c]) : s2c[c][i] = bytes(c)
                         /\ \A i \in 1 .. Len(c2s[c]) : c2s[c][i] = bytes(c)
                         /\ \A b \in Bids : Carries(c, b) => bufs[b] = bytes(c)
  BY <1>2, Zenon DEF OwnInv, Content, OwnBytes
<1> HIDE DEF bytes
<1>6. ASSUME UNCHANGED <<c2s, s2c, bufs>>,
             gone' = "no" => \A c \in Clients, b \in Bids : Carries(c, b)' => Carries(c, b)
      PROVE  Goal
  BY <1>5, <1>6, ZenonT(30)
<1>7. \A c \in Clients, b \in Bids :
        Carries(c, b)' <=> Within(cq', Got(c, b)) \/ Within(sq', WRITE(c, b)) \/ WRITE(c, b) \in ops'
  BY DEF Carries, Within, Got, WRITE, Cqe
<1>8. ASSUME NEW x \in Sqes
      PROVE  \A y : Within(Append(sq, x), y) => Within(sq, y) \/ y = x
  BY <1>1, <1>8, WithinMoves, Zenon
<1>9. ASSUME NEW x \in Cqes
      PROVE  \A y : Within(Append(cq, x), y) => Within(cq, y) \/ y = x
  BY <1>1, <1>9, WithinMoves, Zenon
<1>10. ASSUME NEW c \in Clients, NEW b \in Bids
       PROVE  /\ WRITE(c, b) # ACCEPT /\ \A d \in Clients : WRITE(c, b) # READ(d)
              /\ \A x \in Bids : WRITE(c, b) # PROV_BUF(x)
              /\ \A d \in Clients, x \in Bids : WRITE(c, b) = WRITE(d, x) => c = d /\ b = x
  BY EntryTypes, SMTT(30), Z3
<1>11. ASSUME NEW c \in Clients, NEW b \in Bids
       PROVE  /\ Got(c, b) # Refusal /\ \A d \in Clients : Got(c, b) # Accepted(d) /\ Got(c, b) # Starved(d)
              /\ \A x \in Bids : Got(c, b) # Provided(x)
              /\ \A d \in Clients, x \in Bids : /\ Got(c, b) # Ended(d, x) /\ Got(c, b) # Sent(d, x)
                                                /\ Got(c, b) = Got(d, x) => c = d /\ b = x
  BY CqeTypes, SMTT(30), Z3 DEF Got, Refusal, Accepted, Starved, Provided, Ended, Sent
<1>12. CASE submit
  <2>1. UNCHANGED <<c2s, s2c, bufs>> /\ sq # <<>> /\ sq' = Tail(sq)
    BY <1>1, <1>12, SubmitCases, SMTT(30), Z3 DEF rpsVars, net
  <2>2. Within(sq, Head(sq)) /\ \A y : Within(sq', y) => Within(sq, y)
    <3>1. ACCEPT \in Sqes
      BY DEF Sqes
    <3> QED
      BY <1>1, <2>1, <3>1, WithinMoves, Zenon
  <2>3. ASSUME NEW c \in Clients, NEW b \in Bids, Carries(c, b)'
        PROVE  Carries(c, b)
    <3>1. CASE Issue
      BY <1>7, <2>2, <2>3, <3>1, SMTT(30), Z3 DEF Carries, Issue
    <3>2. ASSUME NEW x \in Bids, Provide(x)
          PROVE  Carries(c, b)
      <4>1. cq' = Append(cq, Provided(x)) /\ ops' = ops /\ Provided(x) \in Cqes
        BY <3>2, SMTT(30), Z3 DEF Provide, Cqes
      <4> QED
        BY <1>7, <1>9, <1>11, <2>2, <2>3, <4>1, Zenon DEF Carries
    <3> QED
      BY <1>1, <1>12, <3>1, <3>2, SubmitCases, Zenon
  <2> QED
    BY <1>6, <2>1, <2>3, SMTT(30), Z3
<1>13. CASE wait_cqe \/ cq_advance
  <2>1. UNCHANGED <<sq, ops, cq, c2s, s2c, bufs>>
    BY <1>13 DEF wait_cqe, cq_advance, rpsVars, net
  <2>2. \A c \in Clients, b \in Bids : Carries(c, b)' => Carries(c, b)
    BY <1>7, <2>1, Zenon DEF Carries
  <2> QED
    BY <1>6, <2>1, <2>2, SMTT(30), Z3
<1>14. CASE for_each_cqe
  <2>1. /\ UNCHANGED <<c2s, s2c, bufs, ops>> /\ cq # <<>> /\ cq' = Tail(cq)
        /\ gone' = "no" => Handle(Head(cq))
    BY <1>1, <1>14, ReapCases, SMTT(30), Z3 DEF Starve, Overrun, net
  <2>2. Within(cq, Head(cq)) /\ \A y : Within(cq', y) => Within(cq, y)
    <3>1. Refusal \in Cqes
      BY DEF Cqes
    <3> QED
      BY <1>1, <2>1, <3>1, WithinMoves, Zenon
  <2>3. ASSUME NEW x \in Sqes, NEW y \in Sqes
        PROVE  \A z : Within(Append(Append(sq, x), y), z) => Within(sq, z) \/ z = x \/ z = y
    <3>1. Append(sq, x) \in Seq(Sqes)
      BY <1>1
    <3>2. \A z : Within(Append(Append(sq, x), y), z) => Within(Append(sq, x), z) \/ z = y
      BY <3>1, WithinMoves, Zenon
    <3> QED
      BY <1>8, <3>2
  <2>4. ASSUME gone' = "no", NEW c \in Clients, NEW b \in Bids, Within(sq', WRITE(c, b))
        PROVE  Within(sq, WRITE(c, b)) \/ Head(cq) = Got(c, b)
    <3>1. CASE \E d \in Clients : Head(cq) = Accepted(d) /\ sq' = Append(Append(sq, READ(d)), ACCEPT)
      <4>1. PICK d \in Clients : sq' = Append(Append(sq, READ(d)), ACCEPT)
        BY <3>1, SMTT(30), Z3
      <4>2. READ(d) \in Sqes /\ ACCEPT \in Sqes
        BY <1>1, Typed, SMTT(30), Z3
      <4>3. WRITE(c, b) # READ(d) /\ WRITE(c, b) # ACCEPT
        BY <1>10
      <4> QED
        BY <1>8, <2>3, <2>4, <4>1, <4>2, <4>3, Zenon
    <3>2. CASE Head(cq) = Refusal /\ sq' = Append(sq, ACCEPT)
      BY <1>1, <1>8, <1>10, <2>4, <3>2, Typed, Zenon
    <3>3. CASE \E d \in Clients, x \in Bids : Head(cq) = Got(d, x) /\ sq' = Append(sq, WRITE(d, x))
      <4>1. PICK d \in Clients, x \in Bids : Head(cq) = Got(d, x) /\ sq' = Append(sq, WRITE(d, x))
        BY <3>3, Zenon
      <4>2. WRITE(d, x) \in Sqes
        BY <1>1, Typed, SMTT(30), Z3
      <4>3. WRITE(c, b) = WRITE(d, x) => c = d /\ b = x
        BY <1>10
      <4> QED
        BY <1>8, <2>3, <2>4, <4>1, <4>2, <4>3, Zenon
    <3>4. CASE \E d \in Clients, x \in Bids : Head(cq) = Ended(d, x) /\ sq' = Append(sq, PROV_BUF(x))
      <4>1. PICK d \in Clients, x \in Bids : sq' = Append(sq, PROV_BUF(x))
        BY <3>4, SMTT(30), Z3
      <4>2. PROV_BUF(x) \in Sqes
        BY <1>1, Typed, SMTT(30), Z3
      <4>3. WRITE(c, b) # PROV_BUF(x)
        BY <1>10
      <4> QED
        BY <1>8, <2>3, <2>4, <4>1, <4>2, <4>3, Zenon
    <3>5. CASE \E d \in Clients, x \in Bids :
                 Head(cq) = Sent(d, x) /\ sq' = Append(Append(sq, PROV_BUF(x)), READ(d))
      <4>1. PICK d \in Clients, x \in Bids : sq' = Append(Append(sq, PROV_BUF(x)), READ(d))
        BY <3>5, Zenon
      <4>2. PROV_BUF(x) \in Sqes /\ READ(d) \in Sqes
        BY <1>1, Typed, Zenon
      <4>3. WRITE(c, b) # PROV_BUF(x) /\ WRITE(c, b) # READ(d)
        BY <1>10
      <4> QED
        BY <1>8, <2>3, <2>4, <4>1, <4>2, <4>3, Zenon
    <3>6. CASE \E x \in Bids : Head(cq) = Provided(x) /\ sq' = sq
      BY <2>4, <3>6
    <3> QED
      BY <2>1, <2>4, <3>1, <3>2, <3>3, <3>4, <3>5, <3>6, Zenon DEF Handle
  <2>5. gone' = "no" => \A c \in Clients, b \in Bids : Carries(c, b)' => Carries(c, b)
    BY <1>7, <2>1, <2>2, <2>4, Zenon DEF Carries
  <2> QED
    BY <1>6, <2>1, <2>5, ZenonT(30)
<1>15. ASSUME NEW e, NEW x \in Cqes, Complete(e, x), \A d \in Clients, b \in Bids : x # Got(d, b)
       PROVE  \A c \in Clients, b \in Bids : Carries(c, b)' => Carries(c, b)
  <2>1. sq' = sq /\ ops' = ops \ {e} /\ cq' = Append(cq, x)
    BY <1>15, ZenonT(30) DEF Complete
  <2> QED
    BY <1>7, <1>9, <1>15, <2>1, ZenonT(30) DEF Carries
<1>16. CASE KernelAccept
  <2>1. /\ Complete(ACCEPT, Accepted(Head(backlog))) /\ Head(backlog) \in Clients
        /\ UNCHANGED <<c2s, s2c, bufs>>
    BY <1>1, <1>16, SMTT(30), Z3 DEF KernelAccept, Accepted, NetTypes
  <2>2. Accepted(Head(backlog)) \in Cqes
    BY <2>1, SMTT(30), Z3 DEF Cqes
  <2>3. \A c \in Clients, b \in Bids : Carries(c, b)' => Carries(c, b)
    BY <1>11, <1>15, <2>1, <2>2, SMTT(30), Z3
  <2> QED
    BY <1>6, <2>1, <2>3, ZenonT(30)
<1>17. CASE KernelRefuse
  <2>1. Complete(ACCEPT, Refusal) /\ UNCHANGED <<c2s, s2c, bufs>> /\ Refusal \in Cqes
    BY <1>17, SMTT(30), Z3 DEF KernelRefuse, Refusal, net, Cqes
  <2>3. \A c \in Clients, b \in Bids : Carries(c, b)' => Carries(c, b)
    BY <1>11, <1>15, <2>1, SMTT(30), Z3
  <2> QED
    BY <1>6, <2>1, <2>3, ZenonT(30)
<1>18. ASSUME NEW d \in Clients, KernelNoBufs(d)
       PROVE  Goal
  <2>1. Complete(READ(d), Starved(d)) /\ UNCHANGED <<c2s, s2c, bufs>> /\ Starved(d) \in Cqes
    BY <1>18, SMTT(30), Z3 DEF KernelNoBufs, Starved, net, Cqes
  <2>3. \A c \in Clients, b \in Bids : Carries(c, b)' => Carries(c, b)
    BY <1>11, <1>15, <2>1, SMTT(30), Z3
  <2> QED
    BY <1>6, <2>1, <2>3, ZenonT(30)
<1>19. ASSUME NEW d \in Clients, KernelRead(d)
       PROVE  Goal
  <2>1. PICK x \in group :
          \/ /\ c2s[d] # <<>> /\ c2s' = [c2s EXCEPT ![d] = Tail(@)] /\ Complete(READ(d), Got(d, x))
             /\ bufs' = [bufs EXCEPT ![x] = Head(c2s[d])]
          \/ UNCHANGED <<c2s, bufs>> /\ Complete(READ(d), Ended(d, x))
    BY <1>19, ZenonT(30) DEF KernelRead, Got, Ended, Take
  <2>2. x \in Bids /\ Got(d, x) \in Cqes /\ Ended(d, x) \in Cqes /\ s2c' = s2c
    BY <1>1, <1>19 DEF KernelRead, Cqes
  <2>3. CASE UNCHANGED <<c2s, bufs>> /\ Complete(READ(d), Ended(d, x))
    <3>1. \A c \in Clients, b \in Bids : Carries(c, b)' => Carries(c, b)
      BY <1>11, <1>15, <2>2, <2>3, SMTT(30), Z3
    <3>2. UNCHANGED <<c2s, s2c, bufs>>
      BY <2>2, <2>3, Zenon
    <3> QED
      BY <1>6, <3>1, <3>2, ZenonT(30)
  <2>4. CASE /\ c2s[d] # <<>> /\ c2s' = [c2s EXCEPT ![d] = Tail(@)] /\ Complete(READ(d), Got(d, x))
             /\ bufs' = [bufs EXCEPT ![x] = Head(c2s[d])]
    <3>1. \A c \in Clients : ~Carries(c, x)
      BY <1>2, FreeBuffer, SMTT(30), Z3
    <3>2. sq' = sq /\ ops' = ops \ {READ(d)} /\ cq' = Append(cq, Got(d, x))
      BY <2>4, SMTT(30), Z3 DEF Complete
    <3>3. ASSUME NEW c \in Clients, NEW b \in Bids, Carries(c, b)'
          PROVE  Carries(c, b) \/ (c = d /\ b = x)
      <4>1. \A y : Within(cq', y) => Within(cq, y) \/ y = Got(d, x)
        BY <1>9, <2>2, <3>2, ZenonT(30)
      <4>2. Got(c, b) = Got(d, x) => c = d /\ b = x
        BY <1>11, <2>2, SMTT(30), Z3
      <4>3. Within(cq', Got(c, b)) \/ Within(sq', WRITE(c, b)) \/ WRITE(c, b) \in ops'
        BY <1>7, <3>3
      <4>4. CASE Within(cq', Got(c, b))
        BY <4>1, <4>2, <4>4, Zenon DEF Carries
      <4>5. CASE Within(sq', WRITE(c, b)) \/ WRITE(c, b) \in ops'
        BY <3>2, <4>5, Zenon DEF Carries
      <4> QED
        BY <4>3, <4>4, <4>5, SMTT(30), Z3
    <3>4. ASSUME NEW c \in Clients
          PROVE  /\ \A i \in 1 .. Len(c2s'[c]) : c2s'[c][i] = bytes(c)
                 /\ d = c => Head(c2s[d]) = bytes(c)
      <4> DEFINE v == bytes(c)
      <4>1. nothing \in Data /\ \A i \in 1 .. Len(c2s[c]) : c2s[c][i] = v
        BY <1>5, ZenonT(30) DEF Data
      <4> HIDE DEF v
      <4>2. /\ \A i \in 1 .. Len(c2s'[c]) : c2s'[c][i] = v
            /\ d = c => Head(c2s[d]) = v
        BY <1>1, <2>4, <4>1, StreamBytes, SMTT(30), Z3
      <4> QED
        BY <4>2, Zenon DEF v
    <3>5. ASSUME NEW c \in Clients, NEW b \in Bids, Carries(c, b)'
          PROVE  bufs'[b] = bytes(c)
      <4>1. CASE b = x
        <5>1. c = d
          BY <3>1, <3>3, <3>5, <4>1, Zenon
        <5>2. bufs'[b] = Head(c2s[d])
          BY <1>1, <2>4, <4>1, Zenon
        <5> QED
          BY <3>4, <5>1, <5>2
      <4>2. CASE b # x
        <5>1. Carries(c, b) /\ bufs'[b] = bufs[b]
          BY <1>1, <2>4, <3>3, <3>5, <4>2, Zenon
        <5> QED
          BY <1>5, <5>1, Zenon
      <4> QED
        BY <4>1, <4>2, SMTT(30), Z3
    <3> QED
      BY <1>5, <2>2, <3>4, <3>5, Zenon
  <2> QED
    BY <2>1, <2>3, <2>4, Zenon
<1>20. ASSUME NEW d \in Clients, NEW x \in Bids, KernelWrite(d, x)
       PROVE  Goal
  <2>1. /\ Complete(WRITE(d, x), Sent(d, x)) /\ UNCHANGED <<c2s, bufs>> /\ Sent(d, x) \in Cqes
        /\ s2c' = s2c \/ s2c' = [s2c EXCEPT ![d] = Append(@, bufs[x])]
    BY <1>20, SMTT(30), Z3 DEF KernelWrite, Sent, Deliver, Cqes
  <2>2. \A c \in Clients, b \in Bids : Carries(c, b)' => Carries(c, b)
    BY <1>11, <1>15, <2>1, SMTT(30), Z3
  <2>3. WRITE(d, x) \in ops
    BY <2>1, ZenonT(30) DEF Complete
  <2>4. bufs[x] = bytes(d) /\ bufs[x] \in Data
    <3>1. Carries(d, x)
      BY <2>3 DEF Carries
    <3> QED
      BY <1>1, <1>5, <3>1, Zenon
  <2>5. CASE s2c' = s2c
    <3>1. UNCHANGED <<c2s, s2c, bufs>>
      BY <2>1, <2>5
    <3> QED
      BY <1>6, <2>2, <3>1, ZenonT(30)
  <2>6. CASE s2c' = [s2c EXCEPT ![d] = Append(@, bufs[x])]
    <3>1. ASSUME NEW c \in Clients
          PROVE  \A i \in 1 .. Len(s2c'[c]) : s2c'[c][i] = bytes(c)
      <4> DEFINE v == bytes(c)
                 y == bufs[x]
      <4>1. y \in Data /\ (d = c => y = v) /\ s2c' = [s2c EXCEPT ![d] = Append(@, y)]
            /\ \A i \in 1 .. Len(s2c[c]) : s2c[c][i] = v
        BY <1>5, <2>4, <2>6, ZenonT(30)
      <4> HIDE DEF v, y
      <4>2. \A i \in 1 .. Len(s2c'[c]) : s2c'[c][i] = v
        BY <1>1, <4>1, StreamBytes, SMTT(20), Z3
      <4> QED
        BY <4>2, Zenon DEF v
    <3> QED
      BY <1>5, <2>1, <2>2, <3>1, Zenon
  <2> QED
    BY <2>1, <2>5, <2>6, ZenonT(30)
<1> QED
  BY <1>12, <1>13, <1>14, <1>16, <1>17, <1>18, <1>19, <1>20, Zenon
     DEF UringNext, UringServer, UringKernel

\* No step mixes two clients' bytes up.
LEMMA OwnStep ==
  ASSUME Types, Types', OwnInv, OneEcho, OneEcho', BuffersAccounted, [Next]_vars
  PROVE  OwnInv'
<1>1. Closed' /\ Quiet'
  BY QuietStep DEF OwnInv
<1>2. Direct' /\ Content' /\ OwnBytes'
  <2>1. CASE RpsNext /\ UNCHANGED <<epollVars, uringVars>>
    BY <2>1, OwnRps
  <2>2. CASE EpollNext /\ UNCHANGED uringVars
    BY <2>2, OwnEpoll
  <2>3. CASE UringNext /\ UNCHANGED epollVars
    BY <2>3, OwnUring, Zenon
  <2>4. CASE UNCHANGED vars
    <3>1. UNCHANGED <<server, gone, queue, asked, c2s, s2c, sq, ops, cq, bufs, size>>
      BY <2>4 DEF vars, rpsVars, counts, net, fate, epollVars, uringVars
    <3>2. Bids' = Bids
      BY <3>1, SameBids, ZenonT(30)
    <3>3. \A c \in Clients, b \in Bids : Carries(c, b)' <=> Carries(c, b)
      BY <3>1 DEF Carries, Within, Got, WRITE, Cqe
    <3> QED
      BY <3>1, <3>2, <3>3, ZenonT(30) DEF OwnInv, Direct, Content, OwnBytes
  <2> QED
    BY <2>1, <2>2, <2>3, <2>4, Zenon DEF Next
<1> QED
  BY <1>1, <1>2 DEF OwnInv

\* With the epoll server and with the io_uring server, what a client receives is
\* what it sent last: buffers and connections are not confused.  (Under libesca
\* the one buffer is overwritten, which is why the property leaves it out.)
THEOREM EachClientGetsItsOwnBytes == Spec => []OwnBytes
<1>1. OwnInv /\ Types /\ Types' /\ OneEcho /\ OneEcho' /\ BuffersAccounted /\ [Next]_vars => OwnInv'
  BY OwnStep
<1>2. OwnInv => OwnBytes
  BY DEF OwnInv
<1> QED
  BY <1>1, <1>2, OwnInit, TypesHold, EveryRequestEchoedOnce, EachBufferInOnePlace, PTL DEF Spec

-----------------------------------------------------------------------------
\* Adding up: nothing, one more, and the same numbers.
LEMMA SumNone == ASSUME NEW f PROVE IsSum(0, f, {})
<1>1. Cardinality({}) = 0
  BY FS_EmptySet
<1> DEFINE order == [i \in 1 .. 0 |-> CHOOSE x \in {} : TRUE]
           sum == [i \in 0 .. 0 |-> 0]
<1>2. order \in [1 .. 0 -> {}] /\ sum \in [0 .. 0 -> 0 .. 0]
  OBVIOUS
<1>3. /\ \A c \in {} : \E i \in DOMAIN order : order[i] = c
      /\ sum[0] = 0
      /\ \A i \in DOMAIN order : sum[i] = sum[i - 1] + f[order[i]]
  OBVIOUS
<1> HIDE DEF order, sum
<1> QED
  BY <1>1, <1>2, <1>3, SMTT(30), Z3 DEF IsSum

\* A sum depends on its terms only.
LEMMA SumSame ==
  ASSUME NEW S, NEW n, NEW f, NEW g, IsSum(n, f, S), IsFiniteSet(S), \A c \in S : g[c] = f[c]
  PROVE  IsSum(n, g, S)
<1> DEFINE k == Cardinality(S)
<1>1. PICK order \in [1 .. k -> S], sum \in [0 .. k -> 0 .. n] :
        /\ \A c \in S : \E i \in DOMAIN order : order[i] = c
        /\ sum[0] = 0 /\ sum[k] = n
        /\ \A i \in DOMAIN order : sum[i] = sum[i - 1] + f[order[i]]
  BY Zenon DEF IsSum
<1> HIDE DEF k
<1>2. \A i \in DOMAIN order : sum[i] = sum[i - 1] + g[order[i]]
  BY <1>1, SMTT(30), Z3
<1> QED
  BY <1>1, <1>2, Zenon DEF IsSum, k

\* A sum over one element more.
LEMMA SumAdd ==
  ASSUME NEW S, IsFiniteSet(S), NEW n \in Nat, NEW f, NEW c, c \notin S, f[c] \in Nat, IsSum(n, f, S)
  PROVE  IsSum(n + f[c], f, S \cup {c})
<1> DEFINE k == Cardinality(S)
           m == n + f[c]
<1>0. k \in Nat /\ Cardinality(S \cup {c}) = k + 1
  BY FS_CardinalityType, FS_AddElement, ZenonT(30)
<1>1. k \in Nat /\ Cardinality(S \cup {c}) = k + 1 /\ m \in Nat /\ n <= m
  <2> DEFINE v == f[c]
  <2>1. v \in Nat
    BY Zenon
  <2> HIDE DEF v
  <2>2. n + v \in Nat /\ n <= n + v
    BY <2>1
  <2> QED
    BY <1>0, <2>2 DEF v
<1>2. PICK order \in [1 .. k -> S], sum \in [0 .. k -> 0 .. n] :
        /\ \A d \in S : \E i \in DOMAIN order : order[i] = d
        /\ sum[0] = 0 /\ sum[k] = n
        /\ \A i \in DOMAIN order : sum[i] = sum[i - 1] + f[order[i]]
  BY Zenon DEF IsSum
<1> HIDE DEF k
<1> DEFINE O == [i \in 1 .. k + 1 |-> IF i <= k THEN order[i] ELSE c]
           P == [i \in 0 .. k + 1 |-> IF i <= k THEN sum[i] ELSE m]
<1>3. O \in [1 .. k + 1 -> S \cup {c}]
  BY <1>1, <1>2, SMTT(30), Z3
<1>4. P \in [0 .. k + 1 -> 0 .. m]
  <2>1. ASSUME NEW i \in 0 .. k + 1
        PROVE  (IF i <= k THEN sum[i] ELSE m) \in 0 .. m
    <3>1. CASE i <= k
      <4>1. i \in 0 .. k
        BY <1>1, <3>1
      <4>2. sum[i] \in 0 .. n
        BY <1>2, <4>1, Zenon
      <4> HIDE DEF m
      <4> QED
        BY <1>1, <3>1, <4>2, SMTT(30), Z3
    <3>2. CASE ~(i <= k)
      <4> HIDE DEF m
      <4> QED
        BY <1>1, <3>2, SMTT(30), Z3
    <3> QED
      BY <3>1, <3>2, Zenon
  <2> QED
    BY <2>1
<1>5. \A d \in S \cup {c} : \E i \in DOMAIN O : O[i] = d
  <2>1. ASSUME NEW d \in S
        PROVE  \E i \in DOMAIN O : O[i] = d
    <3>1. PICK i \in 1 .. k : order[i] = d
      BY <1>2, Zenon
    <3>2. i \in 1 .. k + 1 /\ i <= k
      BY <1>1, SMTT(30), Z3
    <3> QED
      BY <3>1, <3>2
  <2>2. k + 1 \in DOMAIN O /\ O[k + 1] = c
    BY <1>1, SMTT(30), Z3
  <2> QED
    BY <2>1, <2>2, Zenon
<1>6. P[0] = 0 /\ P[k + 1] = m
  BY <1>1, <1>2, SMTT(30), Z3
<1>7. ASSUME NEW i \in 1 .. k + 1
      PROVE  P[i] = P[i - 1] + f[O[i]]
  <2>1. i \in 1 .. k + 1
    BY Zenon
  <2>2. CASE i <= k
    <3>1. i \in 1 .. k /\ i \in 0 .. k + 1 /\ i - 1 \in 0 .. k + 1 /\ i - 1 <= k
      <4> HIDE DEF O, P, m
      <4> QED
        BY <1>1, <2>2, SMTT(30), Z3
    <3>2. P[i] = sum[i] /\ P[i - 1] = sum[i - 1] /\ O[i] = order[i]
      BY <2>1, <2>2, <3>1, ZenonT(30)
    <3> QED
      BY <1>2, <3>1, <3>2, ZenonT(30)
  <2>3. CASE ~(i <= k)
    <3>1. i = k + 1 /\ i - 1 = k
      <4> HIDE DEF O, P, m
      <4> QED
        BY <1>1, <2>3, SMTT(30), Z3
    <3>2. P[i] = m /\ P[i - 1] = sum[k] /\ O[i] = c
      BY <1>1, <3>1, SMTT(30), Z3
    <3> QED
      BY <1>2, <3>2, ZenonT(30)
  <2> QED
    BY <2>2, <2>3, ZenonT(30)
<1> HIDE DEF O, P, m
<1>8. IsSum(m, f, S \cup {c})
  <2> DEFINE R == S \cup {c}
             j == k + 1
  <2>1. /\ O \in [1 .. j -> R] /\ P \in [0 .. j -> 0 .. m]
        /\ \A d \in R : \E i \in DOMAIN O : O[i] = d
        /\ P[0] = 0 /\ P[j] = m
        /\ \A i \in DOMAIN O : P[i] = P[i - 1] + f[O[i]]
    BY <1>3, <1>4, <1>5, <1>6, <1>7, Zenon
  <2>2. Cardinality(R) = j
    BY <1>1
  <2> HIDE DEF R, j
  <2>3. IsSum(m, f, R)
    BY <2>1, <2>2, ZenonT(30) DEF IsSum
  <2> QED
    BY <2>3 DEF R
<1> QED
  BY <1>8 DEF m

\* While the server lives, what is counted is what was asked and answered.
Done == {c \in Clients : cpc[c] = "done"}
Counted ==
  gone = "no" /\ mpc # "exited" =>
    /\ \A c \in Clients : asked[c] = local_success[c] + IF cpc[c] = "recv" THEN 1 ELSE 0
    /\ IsSum(total_success, asked, Done)
AllDone == mpc \in {"report", "crashed"} => Done = Clients

\* Nothing is counted at the start.
LEMMA CountedInit == Init => Counted /\ AllDone
<1> SUFFICES ASSUME Init PROVE Counted /\ AllDone
  OBVIOUS
<1>1. /\ \A c \in Clients : asked[c] = 0 /\ local_success[c] = 0 /\ cpc[c] = "unborn"
      /\ total_success = 0 /\ mpc = "create"
  BY DEF Init, RpsInit
<1>2. Done = {}
  BY <1>1 DEF Done
<1> QED
  BY <1>1, <1>2, SumNone, SMTT(30), Z3 DEF Counted, AllDone

\* total_success is at all times the sum over the threads that have finished.
LEMMA CountedStep ==
  ASSUME Types, Types', Counted, AllDone, [Next]_vars
  PROVE  Counted' /\ AllDone'
<1>1. /\ cpc \in [Clients -> {"unborn", "start", "blocked", "connect", "loop", "recv", "done"}]
      /\ asked \in [Clients -> Nat] /\ local_success \in [Clients -> Nat] /\ total_success \in Nat
  BY DEF Types, NetTypes
<1>2. IsFiniteSet(Done)
  BY RpsAssumption, FS_Subset DEF Done
<1>3. gone' = "no" => gone = "no"
  BY GoneStays, ZenonT(30)
<1>4. ASSUME UNCHANGED <<counts, mpc, cpc>>
      PROVE  Counted' /\ AllDone'
  BY <1>3, <1>4 DEF Counted, AllDone, Done, counts
<1>5. CASE RpsNext
  <2>1. CASE Main
    <3>1. /\ UNCHANGED <<asked, local_success, total_success, gone>> /\ mpc # "exited"
          /\ \/ \E d \in Clients : cpc[d] = "unborn" /\ cpc' = [cpc EXCEPT ![d] = "start"]
             \/ cpc' = [d \in Clients |-> IF cpc[d] = "blocked" THEN "start" ELSE cpc[d]]
             \/ cpc' = cpc
      BY <2>1 DEF Main, create_worker, broadcast, stop, join, counts, fate
    <3>2. \A c \in Clients : (cpc'[c] = "recv" <=> cpc[c] = "recv") /\ (cpc'[c] = "done" <=> cpc[c] = "done")
      BY <1>1, <3>1, Zenon
    <3>3. Done' = Done
      BY <3>2, Zenon DEF Done
    <3>4. Counted'
      BY <3>1, <3>2, <3>3, Zenon DEF Counted
    <3>5. AllDone'
      <4>1. mpc' \in {"report", "crashed"} => \A c \in Clients : cpc[c] = "done"
        BY <2>1, Zenon DEF Main, create_worker, broadcast, stop, join, AllDone, Done
      <4> QED
        BY <3>3, <4>1, Zenon DEF AllDone, Done
    <3> QED
      BY <3>4, <3>5, ZenonT(30)
  <2>2. ASSUME NEW d \in Clients, wait_ready(d) \/ connect(d)
        PROVE  Counted' /\ AllDone'
    <3>1. /\ UNCHANGED <<asked, local_success, total_success, gone, mpc>>
          /\ cpc[d] # "recv" /\ cpc[d] # "done"
          /\ \E x \in {"connect", "blocked", "loop"} : cpc' = [cpc EXCEPT ![d] = x]
      BY <2>2, Zenon DEF wait_ready, connect, counts, fate
    <3>2. \A c \in Clients : (cpc'[c] = "recv" <=> cpc[c] = "recv") /\ (cpc'[c] = "done" <=> cpc[c] = "done")
      BY <1>1, <3>1, Zenon
    <3>3. Done' = Done
      BY <3>2 DEF Done
    <3> QED
      BY <3>1, <3>2, <3>3, Zenon DEF Counted, AllDone
  <2>3. ASSUME NEW d \in Clients, ask(d)
        PROVE  Counted' /\ AllDone'
    <3>1. /\ UNCHANGED <<local_success, total_success, gone, mpc>> /\ cpc[d] = "loop"
          /\ asked' = [asked EXCEPT ![d] = @ + 1] /\ cpc' = [cpc EXCEPT ![d] = "recv"]
      BY <2>3 DEF ask, fate
    <3>2. Done' = Done /\ d \notin Done
      BY <1>1, <3>1, SMTT(30), Z3 DEF Done
    <3>3. AllDone'
      BY <3>1, <3>2 DEF AllDone
    <3>4. ASSUME gone = "no", mpc # "exited"
          PROVE  IsSum(total_success, asked', Done)
      <4>1. \A c \in Done : asked'[c] = asked[c]
        BY <1>1, <3>1, <3>2, ZenonT(30) DEF Done
      <4>2. IsSum(total_success, asked, Done)
        BY <3>4, SMTT(30), Z3 DEF Counted
      <4> QED
        BY <1>2, <4>1, <4>2, SumSame, Zenon
    <3>5. ASSUME gone = "no", mpc # "exited", NEW c \in Clients
          PROVE  asked'[c] = local_success[c] + IF cpc'[c] = "recv" THEN 1 ELSE 0
      BY <1>1, <3>1, <3>5, SMTT(30), Z3 DEF Counted
    <3> QED
      BY <3>1, <3>2, <3>3, <3>4, <3>5, Zenon DEF Counted
  <2>4. ASSUME NEW d \in Clients, answer(d)
        PROVE  Counted' /\ AllDone'
    <3>1. /\ UNCHANGED <<asked, total_success, gone, mpc>> /\ cpc[d] = "recv"
          /\ local_success' = [local_success EXCEPT ![d] = @ + 1] /\ cpc' = [cpc EXCEPT ![d] = "loop"]
      BY <2>4 DEF answer, fate
    <3>2. Done' = Done
      BY <1>1, <3>1, Zenon DEF Done
    <3>3. ASSUME gone = "no", mpc # "exited", NEW c \in Clients
          PROVE  asked[c] = local_success'[c] + IF cpc'[c] = "recv" THEN 1 ELSE 0
      BY <1>1, <3>1, <3>3, SMTT(30), Z3 DEF Counted
    <3> QED
      BY <3>1, <3>2, <3>3, ZenonT(30) DEF Counted, AllDone
  <2>5. ASSUME NEW d \in Clients, lost(d)
        PROVE  Counted' /\ AllDone'
    <3>1. gone # "no" /\ UNCHANGED <<gone, mpc>> /\ cpc[d] = "recv" /\ cpc' = [cpc EXCEPT ![d] = "loop"]
      BY <2>5, Zenon DEF lost, fate
    <3>2. Done' = Done
      BY <1>1, <3>1, Zenon DEF Done
    <3> QED
      BY <3>1, <3>2, Zenon DEF Counted, AllDone
  <2>6. ASSUME NEW d \in Clients, finish(d)
        PROVE  Counted' /\ AllDone'
    <3>1. /\ UNCHANGED <<asked, local_success, gone, mpc>> /\ cpc[d] = "loop"
          /\ total_success' = total_success + local_success[d] /\ cpc' = [cpc EXCEPT ![d] = "done"]
      BY <2>6, Zenon DEF finish, fate
    <3>2. Done' = Done \cup {d} /\ d \notin Done
      BY <1>1, <3>1, Zenon DEF Done
    <3>3. AllDone'
      BY <3>1, <3>2 DEF AllDone
    <3>4. ASSUME gone = "no", mpc # "exited"
          PROVE  IsSum(total_success', asked, Done')
      <4>1. asked[d] = local_success[d]
        BY <1>1, <3>1, <3>4, SMTT(30), Z3 DEF Counted
      <4>2. IsSum(total_success, asked, Done) /\ asked[d] \in Nat
        BY <1>1, <3>4 DEF Counted
      <4>3. IsSum(total_success + asked[d], asked, Done \cup {d})
        BY <1>1, <1>2, <3>2, <4>2, SumAdd, Zenon
      <4> QED
        BY <3>1, <3>2, <4>1, <4>3, ZenonT(30)
    <3>5. ASSUME gone = "no", mpc # "exited", NEW c \in Clients
          PROVE  asked[c] = local_success[c] + IF cpc'[c] = "recv" THEN 1 ELSE 0
      BY <1>1, <3>1, <3>5, ZenonT(30) DEF Counted
    <3> QED
      BY <3>1, <3>3, <3>4, <3>5, Zenon DEF Counted
  <2>7. CASE die
    BY <2>7 DEF die, Counted, AllDone
  <2> QED
    BY <1>5, <2>1, <2>2, <2>3, <2>4, <2>5, <2>6, <2>7, Zenon DEF RpsNext, Client
<1>6. CASE EpollNext
  <2>1. UNCHANGED <<counts, mpc, cpc>>
    BY <1>6, ServersLeaveThreads, Zenon DEF threads
  <2> QED
    BY <1>4, <2>1, ZenonT(30)
<1>7. CASE UringNext
  <2>1. UNCHANGED <<counts, mpc, cpc>>
    BY <1>7, ServersLeaveThreads, SMTT(30), Z3 DEF threads
  <2> QED
    BY <1>4, <2>1
<1>8. CASE UNCHANGED vars
  BY <1>4, <1>8 DEF vars, rpsVars, threads, counts
<1> QED
  BY <1>5, <1>6, <1>7, <1>8, Zenon DEF Next

\* When rps reports, total_success is the sum of what its threads counted: the
\* additions under res_lock lose nothing, and pthread_join comes before the report.
THEOREM TheReportIsComplete == Spec => []ReportComplete
<1>1. Types /\ Types' /\ Counted /\ AllDone /\ [Next]_vars => Counted' /\ AllDone'
  BY CountedStep, SMTT(30), Z3
<1>2. Counted /\ AllDone => ReportComplete
  BY DEF Counted, AllDone, ReportComplete
<1> QED
  BY <1>1, <1>2, CountedInit, TypesHold, PTL DEF Spec
=============================================================================
