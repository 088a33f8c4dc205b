--------------------------- MODULE EchoRoomProof ----------------------------
(***************************************************************************)
(* The io_uring server never runs out of what it was given enough of:      *)
(* buffers, one for each client, and submission entries, two for each.     *)
(* The argument is one of order: a buffer is given back ahead of the       *)
(* receive that may need it, so when a receive finds none, every client    *)
(* holds one.                                                              *)
(***************************************************************************)
EXTENDS EchoProof

\* What an element e at the end of q adds to the count from j on.
Last(q, e, j, S) == IF e \in S /\ j <= Len(q) + 1 THEN 1 ELSE 0

\* The count from j on, with an element more at the end.
LEMMA LastCounted ==
  ASSUME NEW T, NEW q \in Seq(T), NEW e \in T, NEW j \in Nat, NEW S
  PROVE  CountFrom(Append(q, e), j, S) = CountFrom(q, j, S) + Last(q, e, j, S)
BY FromAppend DEF Last

\* Counts of parts.
LEMMA CountParts ==
  ASSUME NEW T, NEW q \in Seq(T), NEW X, NEW Y
  PROVE  /\ Count(q, X \cup Y) <= Count(q, X) + Count(q, Y)
         /\ X \cap Y = {} => Count(q, X \cup Y) = Count(q, X) + Count(q, Y)
         /\ X \subseteq Y => Count(q, X) <= Count(q, Y)
         /\ (\A i \in 1 .. Len(q) : q[i] \in X) => Count(q, X) = Len(q)
<1> DEFINE At(S) == {i \in 1 .. Len(q) : 1 <= i /\ q[i] \in S}
<1>1. Len(q) \in Nat /\ IsFiniteSet(1 .. Len(q)) /\ Cardinality(1 .. Len(q)) = Len(q)
  <2>1. Len(q) \in Nat
    OBVIOUS
  <2>2. IsFiniteSet(1 .. Len(q)) /\ Cardinality(1 .. Len(q)) = IF 1 > Len(q) THEN 0 ELSE Len(q) - 1 + 1
    BY <2>1, FS_Interval, 1 \in Int, SMTT(30), Z3
  <2> QED
    BY <2>1, <2>2
<1>2. ASSUME NEW S
      PROVE  IsFiniteSet(At(S)) /\ Cardinality(At(S)) \in Nat /\ Count(q, S) = Cardinality(At(S))
  <2>1. At(S) \in SUBSET (1 .. Len(q))
    OBVIOUS
  <2>2. Count(q, S) = Cardinality(At(S))
    BY DEF Count, CountFrom
  <2> HIDE DEF At
  <2> QED
    BY <1>1, <2>1, <2>2, FS_Subset, FS_CardinalityType
<1>3. /\ At(X \cup Y) = At(X) \cup At(Y)
      /\ X \cap Y = {} => At(X) \cap At(Y) = {}
      /\ X \subseteq Y => At(X) \in SUBSET At(Y)
      /\ (\A i \in 1 .. Len(q) : q[i] \in X) => At(X) = 1 .. Len(q)
  BY <1>1
<1> HIDE DEF At
<1>4. /\ Cardinality(At(X) \cup At(Y))
         = Cardinality(At(X)) + Cardinality(At(Y)) - Cardinality(At(X) \cap At(Y))
      /\ Cardinality(At(X) \cap At(Y)) \in Nat
  <2>1. IsFiniteSet(At(X)) /\ IsFiniteSet(At(Y))
    BY <1>2, Zenon
  <2>2. IsFiniteSet(At(X) \cap At(Y))
    BY <2>1, FS_Intersection, Zenon
  <2> QED
    BY <2>1, <2>2, FS_Union, FS_CardinalityType, Zenon
<1> DEFINE a == Cardinality(At(X))
           b == Cardinality(At(Y))
           d == Cardinality(At(X) \cap At(Y))
<1>5. a \in Nat /\ b \in Nat /\ d \in Nat /\ Count(q, X) = a /\ Count(q, Y) = b
  BY <1>2, <1>4, Zenon
<1>6. Count(q, X \cup Y) = a + b - d
  BY <1>2, <1>3, <1>4, Zenon
<1>7. X \cap Y = {} => d = 0
  BY <1>3, FS_EmptySet, Zenon
<1>8. X \subseteq Y => a <= b
  BY <1>2, <1>3, FS_Subset, Zenon
<1>9. (\A i \in 1 .. Len(q) : q[i] \in X) => a = Len(q)
  BY <1>1, <1>3, Zenon
<1> HIDE DEF a, b, d
<1>10. /\ Count(q, X \cup Y) <= Count(q, X) + Count(q, Y)
       /\ X \cap Y = {} => Count(q, X \cup Y) = Count(q, X) + Count(q, Y)
  BY <1>5, <1>6, <1>7, SMTT(30), Z3
<1> QED
  BY <1>5, <1>8, <1>9, <1>10, Zenon

-----------------------------------------------------------------------------
\* The entries and the completions the io_uring server lives with: receives,
\* echoes and buffers given back; answers to an accept, receives that found no
\* buffer, and completions that hold one.
Receives  == {READ(c) : c \in Clients}
Echoes    == {WRITE(c, b) : c \in Clients, b \in Bids}
Returns   == {PROV_BUF(b) : b \in Bids}
Answers   == {Accepted(c) : c \in Clients}
Starvings == {Starved(c) : c \in Clients}
Full      == {Got(c, b) : c \in Clients, b \in Bids} \cup {Ended(c, b) : c \in Clients, b \in Bids}
             \cup {Sent(c, b) : c \in Clients, b \in Bids}

\* The clients that have connected, how many of them the server serves, and how
\* many it has seen the end of.
Begun  == {c \in Clients : cpc[c] \in {"loop", "recv", "done"}}
Served == Total(sq, ops, cq, Receives \cup Echoes, Answers \cup Starvings \cup Full)
Slack  == Cardinality(Begun) - (Len(backlog) + Served)

\* One accept is under way; while it is a refusal a connection waits.
Accepts   == Total(sq, ops, cq, {ACCEPT}, {Refusal} \cup Answers)
Refusals  == Total(sq, ops, cq, {}, {Refusal})

\* Every buffer is in the group, in a completion, or in an entry.
Holding   == Total(sq, ops, cq, Echoes \cup Returns, Full)
Hungry    == Total(sq, ops, cq, {}, Starvings)

\* A buffer is given back before the receive that may need it.
Ordered ==
  \A j \in Nat \ {0} : CountFrom(sq, j, Returns) <= CountFrom(sq, j, Receives) + Slack

\* What a round prepares fits.
Fits ==
  reaping => Count(sq, Returns) + Count(sq, {ACCEPT}) <= Count(sq, Receives) + Slack + Len(backlog)

Room ==
  gone = "no" =>
    /\ Slack >= 0 /\ Ordered /\ Fits
    /\ Accepts <= 1 /\ Refusals <= Len(backlog)
    /\ size.bufs <= Cardinality(group) + Holding /\ ops \cap Returns = {}
    /\ Hungry > 0 => size.bufs < Cardinality(Clients)

\* The entries and completions are those of the buffers the server started with.
LEMMA SameSets ==
  ASSUME size' = size
  PROVE  /\ Receives' = Receives /\ Echoes' = Echoes /\ Returns' = Returns
         /\ Answers' = Answers /\ Starvings' = Starvings /\ Full' = Full
<1>1. Bids' = Bids
  BY SameBids, ZenonT(30)
<1> QED
  BY <1>1 DEF Receives, Echoes, Returns, Answers, Starvings, Full, READ, WRITE, PROV_BUF, Accepted,
              Starved, Got, Ended, Sent, Cqe

\* Which entry is what.
LEMMA EntryKinds ==
  /\ ACCEPT \notin Receives /\ ACCEPT \notin Echoes /\ ACCEPT \notin Returns
  /\ \A c \in Clients : /\ READ(c) \in Receives /\ READ(c) \notin Echoes /\ READ(c) \notin Returns
                        /\ READ(c) # ACCEPT
  /\ \A c \in Clients, b \in Bids :
       /\ WRITE(c, b) \in Echoes /\ WRITE(c, b) \notin Receives /\ WRITE(c, b) \notin Returns
       /\ WRITE(c, b) # ACCEPT
  /\ \A b \in Bids : /\ PROV_BUF(b) \in Returns /\ PROV_BUF(b) \notin Receives
                     /\ PROV_BUF(b) \notin Echoes /\ PROV_BUF(b) # ACCEPT
<1>1. /\ \A e \in Receives : e.type = "READ"
      /\ \A e \in Echoes : e.type = "WRITE"
      /\ \A e \in Returns : e.type = "PROV_BUF"
      /\ ACCEPT.type = "ACCEPT"
  <2>1. \A e \in Receives : e.type = "READ"
    BY EntryTypes DEF Receives
  <2>2. \A e \in Echoes : e.type = "WRITE"
    BY EntryTypes DEF Echoes
  <2>3. \A e \in Returns : e.type = "PROV_BUF"
    BY EntryTypes DEF Returns
  <2> QED
    BY <2>1, <2>2, <2>3, ZenonT(30) DEF ACCEPT
<1>2. /\ \A c \in Clients : READ(c) \in Receives
      /\ \A c \in Clients, b \in Bids : WRITE(c, b) \in Echoes
      /\ \A b \in Bids : PROV_BUF(b) \in Returns
  BY DEF Receives, Echoes, Returns
<1>3. /\ \A c \in Clients : READ(c).type = "READ"
      /\ \A c \in Clients, b \in Bids : WRITE(c, b).type = "WRITE"
      /\ \A b \in Bids : PROV_BUF(b).type = "PROV_BUF"
  BY <1>1, <1>2, Zenon
<1> QED
  BY <1>1, <1>2, <1>3, ZenonT(30)

\* Which completion is what.
LEMMA CqeKinds ==
  /\ \A S \in {Answers, Starvings, Full} : Refusal \notin S /\ \A b \in Bids : Provided(b) \notin S
  /\ \A b \in Bids : Provided(b) # Refusal
  /\ \A c \in Clients : /\ Accepted(c) \in Answers /\ Accepted(c) \notin Starvings
                        /\ Accepted(c) \notin Full /\ Accepted(c) # Refusal
                        /\ Starved(c) \in Starvings /\ Starved(c) \notin Answers
                        /\ Starved(c) \notin Full /\ Starved(c) # Refusal
  /\ \A c \in Clients, b \in Bids : \A e \in {Got(c, b), Ended(c, b), Sent(c, b)} :
       e \in Full /\ e \notin Answers /\ e \notin Starvings /\ e # Refusal
<1>1. /\ Refusal.type = "ACCEPT" /\ Refusal.res = "error"
      /\ \A b : Provided(b).type = "PROV_BUF"
      /\ \A c : Accepted(c).type = "ACCEPT" /\ Accepted(c).res = "ok"
      /\ \A c : Starved(c).type = "READ" /\ Starved(c).res = "ENOBUFS"
      /\ \A c, b : Got(c, b).type = "READ" /\ Got(c, b).res = "ok"
      /\ \A c, b : Ended(c, b).type = "READ" /\ Ended(c, b).res = "end"
      /\ \A c, b : Sent(c, b).type = "WRITE" /\ Sent(c, b).res = "ok"
  BY CqeTypes DEF Refusal, Provided, Accepted, Starved, Got, Ended, Sent
<1>2. /\ \A e \in Answers : e.type = "ACCEPT" /\ e.res = "ok"
      /\ \A e \in Starvings : e.type = "READ" /\ e.res = "ENOBUFS"
      /\ \A e \in Full : e.type \in {"READ", "WRITE"} /\ e.res \in {"ok", "end"}
  <2>1. /\ \A e \in Answers : e.type = "ACCEPT" /\ e.res = "ok"
        /\ \A e \in Starvings : e.type = "READ" /\ e.res = "ENOBUFS"
    BY <1>1, Zenon DEF Answers, Starvings
  <2>2. \A e \in Full : \E c \in Clients, b \in Bids : e = Got(c, b) \/ e = Ended(c, b) \/ e = Sent(c, b)
    BY DEF Full
  <2> QED
    BY <1>1, <2>1, <2>2, SMTT(30), Z3
<1>3. /\ \A c \in Clients : Accepted(c) \in Answers /\ Starved(c) \in Starvings
      /\ \A c \in Clients, b \in Bids : \A e \in {Got(c, b), Ended(c, b), Sent(c, b)} : e \in Full
  BY DEF Answers, Starvings, Full
<1>4. /\ \A S \in {Answers, Starvings, Full} : Refusal \notin S /\ \A b \in Bids : Provided(b) \notin S
      /\ \A b \in Bids : Provided(b) # Refusal
  BY <1>1, <1>2, ZenonT(30)
<1>5. \A c \in Clients : /\ Accepted(c) \notin Starvings /\ Accepted(c) \notin Full /\ Accepted(c) # Refusal
                         /\ Starved(c) \notin Answers /\ Starved(c) \notin Full /\ Starved(c) # Refusal
  BY <1>1, <1>2, ZenonT(30)
<1>6. \A c \in Clients, b \in Bids : \A e \in {Got(c, b), Ended(c, b), Sent(c, b)} :
        e \notin Answers /\ e \notin Starvings /\ e # Refusal
  BY <1>1, <1>2
<1> QED
  BY <1>3, <1>4, <1>5, <1>6, Zenon

-----------------------------------------------------------------------------
\* What the io_uring server and the kernel leave alone.
LEMMA UringFrame ==
  ASSUME UringNext
  PROVE  /\ cpc' = cpc /\ size' = size
         /\ backlog' = backlog \/ (KernelAccept /\ backlog # <<>> /\ backlog' = Tail(backlog))
         /\ reaping' = reaping \/ wait_cqe \/ cq_advance
<1>1. CASE UringServer
  BY <1>1, SMTT(30), Z3 DEF UringServer, submit, wait_cqe, for_each_cqe, cq_advance, rpsVars, threads, net
<1>2. CASE UringKernel
  BY <1>2 DEF UringKernel, KernelAccept, KernelRefuse, KernelNoBufs, KernelRead, KernelWrite, Complete,
              threads, net
<1> QED
  BY <1>1, <1>2, ZenonT(30) DEF UringNext

\* What counts as served.
LEMMA ServedOnes ==
  ASSUME NEW E, NEW C, E = Receives \cup Echoes, C = Answers \cup Starvings \cup Full
  PROVE  /\ One(ACCEPT, E) = 0 /\ \A d \in Clients : One(READ(d), E) = 1
         /\ \A d \in Clients, x \in Bids : One(WRITE(d, x), E) = 1
         /\ \A x \in Bids : One(PROV_BUF(x), E) = 0 /\ One(Provided(x), C) = 0
         /\ One(Refusal, C) = 0
         /\ \A d \in Clients : One(Accepted(d), C) = 1 /\ One(Starved(d), C) = 1
         /\ \A d \in Clients, x \in Bids :
              One(Got(d, x), C) = 1 /\ One(Ended(d, x), C) = 1 /\ One(Sent(d, x), C) = 1
<1>1. /\ ACCEPT \notin E /\ \A d \in Clients : READ(d) \in E
      /\ \A d \in Clients, x \in Bids : WRITE(d, x) \in E
      /\ \A x \in Bids : PROV_BUF(x) \notin E
  BY EntryKinds, Zenon
<1>2. /\ Refusal \notin C /\ \A x \in Bids : Provided(x) \notin C
      /\ \A d \in Clients : Accepted(d) \in C /\ Starved(d) \in C
      /\ \A d \in Clients, x \in Bids : Got(d, x) \in C /\ Ended(d, x) \in C /\ Sent(d, x) \in C
  BY CqeKinds
<1> QED
  BY <1>1, <1>2 DEF One

\* What the server prepares tells what it has handled.
LEMMA HandleEnded ==
  ASSUME NEW d \in Clients, NEW x \in Bids, Handle(Ended(d, x))
  PROVE  sq' = Append(sq, PROV_BUF(x))
<1>1. /\ \A c, b : Accepted(c) # Ended(d, x) /\ Got(c, b) # Ended(d, x) /\ Sent(c, b) # Ended(d, x)
      /\ \A b : Provided(b) # Ended(d, x)
      /\ Refusal # Ended(d, x)
      /\ \A c, b : Ended(c, b) = Ended(d, x) => b = x
  <2>1. Ended(d, x).type = "READ" /\ Ended(d, x).res = "end" /\ Ended(d, x).bid = x
    BY CqeTypes DEF Ended
  <2>2. \A c, b : /\ Accepted(c).res = "ok" /\ Got(c, b).res = "ok" /\ Sent(c, b).res = "ok"
                  /\ Provided(b).res = "ok" /\ Refusal.res = "error" /\ Ended(c, b).bid = b
    BY CqeTypes DEF Accepted, Got, Sent, Provided, Refusal, Ended
  <2> QED
    BY <2>1, <2>2
<1> QED
  BY <1>1 DEF Handle

\* A client that is served stays served until the server has seen the end of its
\* stream.
LEMMA ServedMoves ==
  ASSUME Types, Types', UringNext, gone' = "no"
  PROVE  /\ Served \in Nat /\ Served' \in Nat
         /\ Served' <= Served \/ (KernelAccept /\ Served' = Served + 1)
         /\ \A d \in Clients, x \in Bids :
              for_each_cqe /\ Head(cq) = Ended(d, x) => Served' + 1 = Served
<1> DEFINE E == Receives \cup Echoes
           C == Answers \cup Starvings \cup Full
           t == Total(sq, ops, cq, E, C)
           u == Total(sq', ops', cq', E, C)
<1>1. RingTypes /\ RingTypes' /\ E' = E /\ C' = C
  BY UringFrame, SameSets, Zenon DEF Types
<1>2. Served = t /\ Served' = u
  BY <1>1, Zenon DEF Served, Total, Count, CountFrom
<1>3. t \in Nat /\ u \in Nat
  BY <1>1, Totals, Zenon
<1>4. /\ One(ACCEPT, E) = 0 /\ \A d \in Clients : One(READ(d), E) = 1
      /\ \A d \in Clients, x \in Bids : One(WRITE(d, x), E) = 1
      /\ \A x \in Bids : One(PROV_BUF(x), E) = 0 /\ One(Provided(x), C) = 0
      /\ One(Refusal, C) = 0
      /\ \A d \in Clients : One(Accepted(d), C) = 1 /\ One(Starved(d), C) = 1
      /\ \A d \in Clients, x \in Bids :
           One(Got(d, x), C) = 1 /\ One(Ended(d, x), C) = 1 /\ One(Sent(d, x), C) = 1
  BY ServedOnes, Zenon
<1> HIDE DEF E, C, t, u
<1>5. Issues(E, t, u) \/ Provides(E, C, t, u) \/ Rests(t, u) \/ Reaps(E, C, t, u) \/ Completes(E, C, t, u)
  BY Weights DEF t, u
<1>6. u <= t \/ (KernelAccept /\ u = t + 1)
  <2>1. CASE Issues(E, t, u)
    <3>1. One(Head(sq), E) \in {0, 1}
      BY DEF One
    <3> QED
      BY <1>3, <2>1, <3>1, SMTT(30), Z3 DEF Issues
  <2>2. CASE Provides(E, C, t, u)
    BY <1>3, <1>4, <2>2, SMTT(30), Z3 DEF Provides
  <2>3. CASE Rests(t, u)
    BY <1>3, <2>3 DEF Rests
  <2>4. CASE Reaps(E, C, t, u)
    <3>1. \/ u = t - 1 + 1 + 0 \/ u = t - 0 + 0 \/ u = t - 1 + 1 \/ u = t - 1 + 0
          \/ u = t - 1 + 0 + 1 \/ u = t - 0
      BY <1>4, <2>4 DEF Reaps, Handles
    <3> QED
      BY <1>3, <3>1, SMTT(30), Z3
  <2>5. CASE Completes(E, C, t, u)
    <3>1. (KernelAccept /\ u = t - 0 + 1) \/ u = t - 0 + 0 \/ u = t - 1 + 1
      BY <1>4, <2>5 DEF Completes
    <3> QED
      BY <1>3, <3>1, SMTT(30), Z3
  <2> QED
    BY <1>5, <2>1, <2>2, <2>3, <2>4, <2>5, Zenon
<1>7. ASSUME NEW d \in Clients, NEW x \in Bids, for_each_cqe, Head(cq) = Ended(d, x)
      PROVE  u + 1 = t
  <2>1. cq # <<>> /\ cq' = Tail(cq) /\ ops' = ops /\ Handle(Ended(d, x))
    BY <1>1, <1>7, ReapCases DEF Starve, Overrun
  <2>2. sq' = Append(sq, PROV_BUF(x))
    BY <2>1, HandleEnded, SMTT(30), Z3
  <2>3. u = t - 1 + 0
    BY <1>1, <1>4, <1>7, <2>1, <2>2, MovesReap, Typed, SMTT(30), Z3 DEF t, u
  <2> QED
    BY <1>3, <2>3
<1> QED
  BY <1>2, <1>3, <1>6, <1>7, Zenon

-----------------------------------------------------------------------------
\* There is one accept.
LEMMA AcceptMoves ==
  ASSUME Types, Types', UringNext, gone' = "no"
  PROVE  Accepts \in Nat /\ Accepts' \in Nat /\ Accepts' <= Accepts
<1> DEFINE E == {ACCEPT}
           C == {Refusal} \cup Answers
           t == Total(sq, ops, cq, E, C)
           u == Total(sq', ops', cq', E, C)
<1>1. RingTypes /\ RingTypes' /\ E' = E /\ C' = C
  BY UringFrame, SameSets DEF Types, ACCEPT, Refusal, Cqe
<1>2. Accepts = t /\ Accepts' = u
  BY <1>1 DEF Accepts, Total, Count, CountFrom
<1>3. t \in Nat /\ u \in Nat
  BY <1>1, Totals, Zenon
<1>4. /\ One(ACCEPT, E) = 1 /\ \A d \in Clients : One(READ(d), E) = 0
      /\ \A d \in Clients, x \in Bids : One(WRITE(d, x), E) = 0
      /\ \A x \in Bids : One(PROV_BUF(x), E) = 0 /\ One(Provided(x), C) = 0
      /\ One(Refusal, C) = 1
      /\ \A d \in Clients : One(Accepted(d), C) = 1 /\ One(Starved(d), C) = 0
      /\ \A d \in Clients, x \in Bids :
           One(Got(d, x), C) = 0 /\ One(Ended(d, x), C) = 0 /\ One(Sent(d, x), C) = 0
  <2>1. /\ ACCEPT \in E /\ \A d \in Clients : READ(d) \notin E
        /\ \A d \in Clients, x \in Bids : WRITE(d, x) \notin E
        /\ \A x \in Bids : PROV_BUF(x) \notin E
    BY EntryKinds
  <2>2. /\ Refusal \in C /\ \A x \in Bids : Provided(x) \notin C
        /\ \A d \in Clients : Accepted(d) \in C /\ Starved(d) \notin C
        /\ \A d \in Clients, x \in Bids : Got(d, x) \notin C /\ Ended(d, x) \notin C /\ Sent(d, x) \notin C
    BY CqeKinds
  <2> QED
    BY <2>1, <2>2 DEF One
<1> HIDE DEF E, C, t, u
<1>5. Issues(E, t, u) \/ Provides(E, C, t, u) \/ Rests(t, u) \/ Reaps(E, C, t, u) \/ Completes(E, C, t, u)
  BY Weights DEF t, u
<1>6. CASE Issues(E, t, u)
  <2>1. One(Head(sq), E) \in {0, 1}
    BY DEF One
  <2> QED
    BY <1>2, <1>3, <1>6, <2>1, SMTT(30), Z3 DEF Issues
<1>7. CASE Provides(E, C, t, u)
  BY <1>2, <1>3, <1>4, <1>7, SMTT(30), Z3 DEF Provides
<1>8. CASE Rests(t, u)
  BY <1>2, <1>3, <1>8 DEF Rests
<1>9. CASE Reaps(E, C, t, u)
  <2>1. u = t - 1 + 0 + 1 \/ u = t - 1 + 1 \/ u = t - 0 + 0 \/ u = t - 0 + 0 + 0 \/ u = t - 0
    BY <1>4, <1>9 DEF Reaps, Handles
  <2> QED
    BY <1>2, <1>3, <2>1, SMTT(30), Z3
<1>10. CASE Completes(E, C, t, u)
  <2>1. u = t - 1 + 1 \/ u = t - 0 + 0
    BY <1>4, <1>10 DEF Completes
  <2> QED
    BY <1>2, <1>3, <2>1, SMTT(30), Z3
<1> QED
  BY <1>5, <1>6, <1>7, <1>8, <1>9, <1>10, Zenon

\* Completions come from the kernel, and the server takes them.
LEMMA FromKernel ==
  ASSUME Types, Types', UringNext, gone' = "no", NEW C, NEW t, NEW u,
         \A x \in Bids : Provided(x) \notin C,
         t = Total(sq, ops, cq, {}, C), u = Total(sq', ops', cq', {}, C)
  PROVE  /\ t \in Nat /\ u \in Nat
         /\ \/ u <= t
            \/ /\ u = t + 1
               /\ \/ \E d \in Clients : Accepted(d) \in C
                  \/ KernelRefuse /\ Refusal \in C
                  \/ \E d \in Clients : KernelNoBufs(d) /\ Starved(d) \in C
                  \/ \E d \in Clients, x \in Bids : Got(d, x) \in C \/ Ended(d, x) \in C \/ Sent(d, x) \in C
<1>1. RingTypes /\ RingTypes'
  BY DEF Types
<1>2. t \in Nat /\ u \in Nat
  BY <1>1, Totals, Zenon
<1>3. /\ \A e : One(e, {}) = 0 /\ \A x \in Bids : One(Provided(x), C) = 0
      /\ \A e : One(e, C) = 0 \/ (One(e, C) = 1 /\ e \in C)
  BY DEF One
<1>4. Issues({}, t, u) \/ Provides({}, C, t, u) \/ Rests(t, u) \/ Reaps({}, C, t, u) \/ Completes({}, C, t, u)
  BY Weights, Zenon
<1>5. CASE Issues({}, t, u)
  <2>1. One(Head(sq), {}) = 0
    BY <1>3, Zenon
  <2> QED
    BY <1>2, <1>5, <2>1 DEF Issues
<1>6. CASE Provides({}, C, t, u)
  BY <1>2, <1>3, <1>6, SMTT(30), Z3 DEF Provides
<1>7. CASE Rests(t, u)
  BY <1>2, <1>7 DEF Rests
<1>8. CASE Reaps({}, C, t, u)
  <2>1. \E e : u = t - One(e, C) + 0 + 0 \/ u = t - One(e, C) + 0 \/ u = t - One(e, C)
    BY <1>3, <1>8, SMTT(30), Z3 DEF Reaps, Handles
  <2> QED
    BY <1>2, <1>3, <2>1, SMTT(30), Z3
<1>9. CASE Completes({}, C, t, u)
  <2>1. \/ \E d \in Clients : u = t - 0 + One(Accepted(d), C)
        \/ KernelRefuse /\ u = t - 0 + One(Refusal, C)
        \/ \E d \in Clients : KernelNoBufs(d) /\ u = t - 0 + One(Starved(d), C)
        \/ \E d \in Clients, x \in Bids : \/ u = t - 0 + One(Got(d, x), C)
                                          \/ u = t - 0 + One(Ended(d, x), C)
                                          \/ u = t - 0 + One(Sent(d, x), C)
    BY <1>3, <1>9 DEF Completes
  <2> QED
    BY <1>2, <1>3, <2>1, SMTT(30), Z3
<1> QED
  BY <1>2, <1>4, <1>5, <1>6, <1>7, <1>8, <1>9, Zenon

\* A refusal comes from a refused accept, and an empty-handed receive from an
\* empty group.
LEMMA FailureMoves ==
  ASSUME Types, Types', UringNext, gone' = "no"
  PROVE  /\ Refusals \in Nat /\ Refusals' \in Nat
         /\ Refusals' <= Refusals \/ (KernelRefuse /\ Refusals' = Refusals + 1)
         /\ Hungry \in Nat /\ Hungry' \in Nat
         /\ Hungry' <= Hungry \/ \E d \in Clients : KernelNoBufs(d)
<1>1. {Refusal}' = {Refusal} /\ Starvings' = Starvings
  BY UringFrame, SameSets, SMTT(30), Z3 DEF Refusal, Cqe
<1>2. /\ Refusals = Total(sq, ops, cq, {}, {Refusal}) /\ Refusals' = Total(sq', ops', cq', {}, {Refusal})
      /\ Hungry = Total(sq, ops, cq, {}, Starvings) /\ Hungry' = Total(sq', ops', cq', {}, Starvings)
  BY <1>1 DEF Refusals, Hungry, Total, Count, CountFrom
<1>3. /\ \A x \in Bids : Provided(x) \notin {Refusal} /\ Provided(x) \notin Starvings
      /\ \A d \in Clients : Accepted(d) \notin {Refusal} /\ Accepted(d) \notin Starvings
      /\ \A d \in Clients : Starved(d) \notin {Refusal}
      /\ Refusal \notin Starvings
      /\ \A d \in Clients, x \in Bids : \A e \in {Got(d, x), Ended(d, x), Sent(d, x)} :
           e \notin {Refusal} /\ e \notin Starvings
  BY CqeKinds
<1>4. /\ Refusals \in Nat /\ Refusals' \in Nat
      /\ Refusals' <= Refusals \/ (KernelRefuse /\ Refusals' = Refusals + 1)
  BY <1>2, <1>3, FromKernel, SMTT(30), Z3
<1>5. /\ Hungry \in Nat /\ Hungry' \in Nat
      /\ Hungry' <= Hungry \/ \E d \in Clients : KernelNoBufs(d)
  BY <1>2, <1>3, FromKernel, SMTT(30), Z3
<1> QED
  BY <1>4, <1>5

-----------------------------------------------------------------------------
\* An entry that holds a buffer is the only one that does.
LEMMA HeldOnce ==
  ASSUME RingTypes, BuffersAccounted, gone = "no", NEW b \in Bids
  PROVE  /\ sq # <<>> /\ Head(sq) = PROV_BUF(b) => b \notin group
         /\ \A c \in Clients : sq # <<>> /\ Head(sq) = WRITE(c, b) => WRITE(c, b) \notin ops
<1> DEFINE E == EntriesWith(b)
           C == CqesWith(b)
           t == Total(sq, ops, cq, E, C)
<1>1. (IF b \in group THEN 1 ELSE 0) + t = 1
  BY DEF BuffersAccounted, InRings, Total
<1>2. /\ sq \in Seq(Sqes) /\ cq \in Seq(Cqes) /\ IsFiniteSet(ops)
      /\ Count(cq, C) \in Nat /\ Count(sq, E) \in Nat /\ Cardinality(ops \cap E) \in Nat /\ t \in Nat
  <2>1. sq \in Seq(Sqes) /\ cq \in Seq(Cqes) /\ IsFiniteSet(ops)
    BY Typed
  <2> QED
    BY <2>1, TotalType, Zenon
<1>3. PROV_BUF(b) \in E /\ \A c \in Clients : WRITE(c, b) \in E
  BY DEF EntriesWith
<1> HIDE DEF E, C
<1>4. ASSUME sq # <<>>, Head(sq) \in E
      PROVE  Count(sq, E) >= 1 /\ (Head(sq) \in ops => t >= 2)
  <2>1. Head(sq) \in ops /\ Head(sq) \in E => t >= 2
    BY <1>2, <1>4, TotalIssue, Zenon
  <2>2. Tail(sq) \in Seq(Sqes)
    BY <1>2, <1>4
  <2>3. Count(Tail(sq), E) = Count(sq, E) - 1 /\ Count(Tail(sq), E) \in Nat
    BY <1>2, <1>4, <2>2, CountTail, CountType, 1 \in Nat, Zenon
  <2> HIDE DEF t
  <2> QED
    BY <1>2, <1>4, <2>1, <2>3, SMTT(30), Z3
<1>5. Count(sq, E) >= 1 => t >= 1
  BY <1>2 DEF Total
<1> HIDE DEF t
<1>6. ASSUME sq # <<>>, Head(sq) = PROV_BUF(b)
      PROVE  b \notin group
  BY <1>1, <1>2, <1>3, <1>4, <1>5, <1>6, SMTT(30), Z3
<1>7. ASSUME NEW c \in Clients, sq # <<>>, Head(sq) = WRITE(c, b)
      PROVE  WRITE(c, b) \notin ops
  BY <1>1, <1>2, <1>3, <1>4, <1>5, <1>7, SMTT(30), Z3
<1> QED
  BY <1>6, <1>7

\* No buffer is lost.
LEMMA HoldingMoves ==
  ASSUME Types, Types', UringNext, gone = "no", gone' = "no", BuffersAccounted,
         size.bufs <= Cardinality(group) + Holding
  PROVE  size'.bufs <= Cardinality(group') + Holding'
<1> DEFINE E == Echoes \cup Returns
           C == Full
           t == Total(sq, ops, cq, E, C)
           u == Total(sq', ops', cq', E, C)
           m == size.bufs
           n == Cardinality(group)
<1>1. RingTypes /\ RingTypes' /\ E' = E /\ C' = C /\ size' = size
  BY UringFrame, SameSets, Zenon DEF Types
<1>2. Holding = t /\ Holding' = u
  BY <1>1, Zenon DEF Holding, Total, Count, CountFrom
<1>3. t \in Nat /\ u \in Nat
  BY <1>1, Totals, Zenon
<1>4. m \in Nat /\ IsFiniteSet(group) /\ n \in Nat
  <2>1. m \in Nat
    BY <1>1, SizesAssumption DEF RingTypes
  <2>2. IsFiniteSet(Bids)
    BY <2>1, FS_Interval, 0 \in Int, m - 1 \in Int DEF Bids
  <2>3. group \in SUBSET Bids
    BY <1>1 DEF RingTypes
  <2> QED
    BY <2>1, <2>2, <2>3, FS_Subset, FS_CardinalityType, SMTT(30), Z3
<1>5. /\ One(ACCEPT, E) = 0 /\ \A d \in Clients : One(READ(d), E) = 0
      /\ \A d \in Clients, x \in Bids : One(WRITE(d, x), E) = 1
      /\ \A x \in Bids : One(PROV_BUF(x), E) = 1 /\ One(Provided(x), C) = 0
      /\ One(Refusal, C) = 0
      /\ \A d \in Clients : One(Accepted(d), C) = 0 /\ One(Starved(d), C) = 0
      /\ \A d \in Clients, x \in Bids :
           One(Got(d, x), C) = 1 /\ One(Ended(d, x), C) = 1 /\ One(Sent(d, x), C) = 1
  <2>1. /\ ACCEPT \notin E /\ \A d \in Clients : READ(d) \notin E
        /\ \A d \in Clients, x \in Bids : WRITE(d, x) \in E
        /\ \A x \in Bids : PROV_BUF(x) \in E
    BY EntryKinds, Zenon
  <2>2. /\ Refusal \notin C /\ \A x \in Bids : Provided(x) \notin C
        /\ \A d \in Clients : Accepted(d) \notin C /\ Starved(d) \notin C
        /\ \A d \in Clients, x \in Bids : Got(d, x) \in C /\ Ended(d, x) \in C /\ Sent(d, x) \in C
    BY CqeKinds
  <2> QED
    BY <2>1, <2>2 DEF One
<1>6. m <= n + t
  BY <1>2, Zenon
<1>7. SUFFICES m <= Cardinality(group') + u
  BY <1>1, <1>2, Zenon
<1>8. \A x \in Bids : sq # <<>> /\ Head(sq) = PROV_BUF(x) => x \notin group
  BY <1>1, HeldOnce
<1>9. \A c \in Clients, x \in Bids : sq # <<>> /\ Head(sq) = WRITE(c, x) => WRITE(c, x) \notin ops
  BY <1>1, HeldOnce, SMTT(30), Z3
<1> HIDE DEF E, C, t, u, m, n
<1>10. Issues(E, t, u) \/ Provides(E, C, t, u) \/ Rests(t, u) \/ Reaps(E, C, t, u) \/ Completes(E, C, t, u)
  BY Weights DEF t, u
<1>11. ASSUME group' = group, u = t
       PROVE  m <= Cardinality(group') + u
  BY <1>6, <1>11 DEF n
<1>12. CASE Issues(E, t, u)
  <2>1. group' = group /\ sq # <<>>
    BY <1>12, ZenonT(30) DEF Issues, Issue, submit
  <2>2. Head(sq) \in ops => One(Head(sq), E) = 0
    BY <1>5, <1>9, <1>12, <2>1, Zenon DEF Issues, Issue
  <2>3. u = t
    BY <1>3, <1>12, <2>2, SMTT(30), Z3 DEF Issues
  <2> QED
    BY <1>11, <2>1, <2>3, SMTT(30), Z3
<1>13. CASE Provides(E, C, t, u)
  <2>1. PICK x \in Bids : /\ group' = group \cup {x} /\ u = t - 1 + 0
                          /\ sq # <<>> /\ Head(sq) = PROV_BUF(x)
    BY <1>5, <1>13 DEF Provides, Provide, submit
  <2>2. x \notin group
    BY <1>8, <2>1, ZenonT(30)
  <2>3. Cardinality(group') = n + 1
    BY <1>4, <2>1, <2>2, FS_AddElement, Zenon DEF n
  <2> QED
    BY <1>3, <1>4, <1>6, <2>1, <2>3, SMTT(30), Z3
<1>14. CASE Rests(t, u)
  BY <1>11, <1>14, ZenonT(30) DEF Rests, wait_cqe, cq_advance
<1>15. CASE Reaps(E, C, t, u)
  <2>1. group' = group
    BY <1>15, Zenon DEF Reaps
  <2>2. \/ u = t - 0 + 0 + 0 \/ u = t - 0 + 0 \/ u = t - 1 + 1 \/ u = t - 1 + 1 + 0 \/ u = t - 0
    BY <1>5, <1>15, ZenonT(30) DEF Reaps, Handles
  <2>3. u = t
    BY <1>3, <2>2, SMTT(30), Z3
  <2> QED
    BY <1>11, <2>1, <2>3, ZenonT(30)
<1>16. CASE Completes(E, C, t, u)
  <2>1. \/ group' = group /\ (u = t - 0 + 0 \/ u = t - 1 + 1)
        \/ \E x \in group : group' = group \ {x} /\ u = t - 0 + 1
    BY <1>5, <1>16, ZenonT(30) DEF Completes, KernelAccept, KernelRefuse, KernelNoBufs, KernelWrite
  <2>2. CASE group' = group /\ (u = t - 0 + 0 \/ u = t - 1 + 1)
    <3>1. u = t
      BY <1>3, <2>2, SMTT(30), Z3
    <3> QED
      BY <1>11, <2>2, <3>1, SMTT(30), Z3
  <2>3. CASE \E x \in group : group' = group \ {x} /\ u = t - 0 + 1
    <3>1. Cardinality(group') = n - 1
      BY <1>4, <2>3, FS_RemoveElement, Zenon DEF n
    <3> QED
      BY <1>3, <1>4, <1>6, <2>3, <3>1, SMTT(30), Z3
  <2> QED
    BY <2>1, <2>2, <2>3, ZenonT(30)
<1> QED
  BY <1>10, <1>12, <1>13, <1>14, <1>15, <1>16, Zenon

-----------------------------------------------------------------------------
\* While the accept is with the kernel or refused, none is prepared.
LEMMA Pending ==
  ASSUME RingTypes, Accepts <= 1
  PROVE  /\ ACCEPT \in ops => Refusals = 0 /\ Count(sq, {ACCEPT}) = 0
         /\ cq # <<>> /\ Head(cq) = Refusal => Refusals >= 1 /\ Count(sq, {ACCEPT}) = 0
<1> DEFINE a == Count(cq, {Refusal} \cup Answers)
           r == Count(cq, {Refusal})
           s == Count(sq, {ACCEPT})
           k == Cardinality(ops \cap {ACCEPT})
<1>1. sq \in Seq(Sqes) /\ cq \in Seq(Cqes) /\ IsFiniteSet(ops)
  BY Typed
<1>2. a \in Nat /\ r \in Nat /\ s \in Nat /\ k \in Nat
  BY <1>1, CountType, OpsAdd, 0 \in Nat, Zenon
<1>3. r <= a
  BY <1>1, CountParts
<1>4. Accepts = a + s + k
  BY DEF Accepts, Total
<1>5. Refusals = r
  <2>1. Count(sq, {}) = 0
    BY <1>1, CountNone, 0 \in Nat
  <2>2. Cardinality(ops \cap {}) = 0
    BY FS_EmptySet
  <2> HIDE DEF r
  <2> QED
    BY <1>2, <2>1, <2>2, SMTT(30), Z3 DEF Refusals, Total, r
<1>6. ACCEPT \in ops => k > 0
  BY <1>1, OpsRemove, Zenon
<1>7. cq # <<>> /\ Head(cq) = Refusal => r > 0
  <2>1. cq # <<>> => 1 \in 1 .. Len(cq) /\ Head(cq) = cq[1]
    BY <1>1
  <2>2. r = 0 => \A i \in 1 .. Len(cq) : cq[i] \notin {Refusal}
    BY <1>1, CountNone, 0 \in Nat
  <2> HIDE DEF r
  <2> QED
    BY <1>2, <2>1, <2>2
<1> HIDE DEF a, r, s, k
<1>8. /\ ACCEPT \in ops => r = 0 /\ s = 0
      /\ cq # <<>> /\ Head(cq) = Refusal => r >= 1 /\ s = 0
  BY <1>2, <1>3, <1>4, <1>6, <1>7, SMTT(30), Z3
<1> QED
  BY <1>5, <1>8, Zenon DEF s

\* What is prepared and what is under way.
LEMMA Parts ==
  ASSUME RingTypes, NEW r, NEW w, NEW p, NEW a,
         r = Count(sq, Receives), w = Count(sq, Echoes), p = Count(sq, Returns), a = Count(sq, {ACCEPT})
  PROVE  /\ r \in Nat /\ w \in Nat /\ p \in Nat /\ a \in Nat
         /\ Len(sq) <= a + r + w + p
         /\ Served >= r + w
         /\ cq # <<>> /\ Head(cq) \in Answers \cup Starvings \cup Full => Served >= r + w + 1
         /\ \A c \in Clients : READ(c) \in ops /\ ops \cap Returns = {} => Served + p >= Holding + r + 1
<1> DEFINE C == Answers \cup Starvings \cup Full
           f == Count(cq, Full)
           g == Count(cq, C)
           l == Cardinality(ops \cap (Receives \cup Echoes))
           h == Cardinality(ops \cap (Echoes \cup Returns))
<1>1. sq \in Seq(Sqes) /\ cq \in Seq(Cqes) /\ IsFiniteSet(ops)
  BY Typed
<1>2. r \in Nat /\ w \in Nat /\ p \in Nat /\ a \in Nat /\ f \in Nat /\ g \in Nat /\ l \in Nat /\ h \in Nat
  <2>1. r \in Nat /\ w \in Nat /\ p \in Nat /\ a \in Nat /\ f \in Nat /\ g \in Nat
    BY <1>1, CountType, 0 \in Nat, Zenon
  <2>2. l \in Nat /\ h \in Nat
    BY <1>1, OpsAdd, Zenon
  <2> QED
    BY <2>1, <2>2
<1>3. f <= g
  <2>1. Full \subseteq C
    OBVIOUS
  <2> HIDE DEF C
  <2> QED
    BY <1>1, <2>1, CountParts, Zenon
<1>4. Receives \cap Echoes = {}
  BY EntryTypes DEF Receives, Echoes
<1>5. Count(sq, Receives \cup Echoes) = r + w
  BY <1>1, <1>4, CountParts, ZenonT(30)
<1>6. Count(sq, Echoes \cup Returns) <= w + p
  BY <1>1, CountParts, SMTT(30), Z3
<1>7. Served = g + (r + w) + l /\ Holding = f + Count(sq, Echoes \cup Returns) + h
  BY <1>5 DEF Served, Holding, Total
<1>8. Count(sq, Echoes \cup Returns) \in Nat
  BY <1>1, CountType, 0 \in Nat, Zenon
<1>9. Len(sq) <= a + r + w + p
  <2> DEFINE X == {ACCEPT} \cup (Receives \cup Echoes)
  <2>1. \A i \in 1 .. Len(sq) : sq[i] \in X \cup Returns
    <3>1. \A i \in 1 .. Len(sq) : sq[i] \in Sqes
      BY <1>1
    <3>2. Sqes = X \cup Returns
      BY DEF Sqes, Receives, Echoes, Returns
    <3> QED
      BY <3>1, <3>2
  <2> HIDE DEF X
  <2>2. Count(sq, X \cup Returns) = Len(sq) /\ Count(sq, X \cup Returns) <= Count(sq, X) + p
    BY <1>1, <2>1, CountParts, Zenon
  <2>3. Count(sq, X) <= a + (r + w)
    <3>1. Count(sq, X) <= Count(sq, {ACCEPT}) + Count(sq, Receives \cup Echoes)
      BY <1>1, CountParts, Zenon DEF X
    <3> QED
      BY <1>5, <3>1, Zenon
  <2>4. Count(sq, X) \in Nat
    BY <1>1, CountType, 0 \in Nat, Zenon
  <2>5. Len(sq) \in Nat
    BY <1>1
  <2> DEFINE k == Len(sq)
             x == Count(sq, X)
  <2>6. k \in Nat /\ x \in Nat /\ k <= x + p /\ x <= a + (r + w)
    BY <2>2, <2>3, <2>4, <2>5, Zenon
  <2> HIDE DEF k, x
  <2>7. k <= a + r + w + p
    BY <1>2, <2>6
  <2> QED
    BY <2>7, Zenon DEF k
<1>10. cq # <<>> /\ Head(cq) \in C => g > 0
  <2>1. cq # <<>> => 1 \in 1 .. Len(cq) /\ Head(cq) = cq[1]
    BY <1>1
  <2>2. g = 0 => \A i \in 1 .. Len(cq) : cq[i] \notin C
    BY <1>1, CountNone, 0 \in Nat
  <2> HIDE DEF g, C
  <2> QED
    BY <1>2, <2>1, <2>2, SMTT(30), Z3
<1>11. ASSUME NEW c \in Clients, READ(c) \in ops, ops \cap Returns = {}
       PROVE  h + 1 <= l
  <2> DEFINE S == ops \cap (Echoes \cup Returns)
             T == ops \cap (Receives \cup Echoes)
  <2>1. IsFiniteSet(T) /\ IsFiniteSet(S)
    BY <1>1, FS_Intersection, Zenon
  <2>2. READ(c) \notin S /\ S \cup {READ(c)} \in SUBSET T
    BY <1>11, EntryKinds, SMTT(30), Z3
  <2> HIDE DEF S, T
  <2>3. Cardinality(S \cup {READ(c)}) = Cardinality(S) + 1 /\ Cardinality(S \cup {READ(c)}) <= Cardinality(T)
    BY <2>1, <2>2, FS_AddElement, FS_Subset, SMTT(30), Z3
  <2> QED
    BY <2>3 DEF S, T
<1> DEFINE y == Count(sq, Echoes \cup Returns)
           m == Served
           n == Holding
<1>12. y \in Nat /\ y <= w + p /\ m = g + (r + w) + l /\ n = f + y + h
  BY <1>6, <1>7, <1>8, Zenon
<1> HIDE DEF C, f, g, l, h, y, m, n
<1>13. m >= r + w /\ (g > 0 => m >= r + w + 1)
  BY <1>2, <1>12
<1>14. h + 1 <= l => m + p >= n + r + 1
  <2>1. ASSUME h + 1 <= l
        PROVE  n + r + 1 <= (g + (r + w) + l) + p
    <3>1. n <= g + (w + p) + h
      BY <1>2, <1>3, <1>12
    <3> QED
      BY <1>2, <1>12, <2>1, <3>1, SMTT(30), Z3
  <2> QED
    BY <1>2, <1>12, <2>1, SMTT(30), Z3
<1> QED
  BY <1>2, <1>9, <1>10, <1>11, <1>13, <1>14, Zenon DEF C, m, n

-----------------------------------------------------------------------------
\* The numbers there are.
LEMMA Numbers ==
  ASSUME Types
  PROVE  /\ Cardinality(Begun) \in Nat /\ Cardinality(Clients) \in Nat
         /\ Cardinality(Begun) <= Cardinality(Clients)
         /\ Len(backlog) \in Nat /\ Served \in Nat /\ Slack \in Int
         /\ Cardinality(Begun) = Slack + Len(backlog) + Served
         /\ size.bufs \in Nat /\ size.sqes \in Nat
<1>1. Begun \in SUBSET Clients /\ IsFiniteSet(Clients)
  BY RpsAssumption DEF Begun
<1>2. /\ Cardinality(Begun) \in Nat /\ Cardinality(Clients) \in Nat
      /\ Cardinality(Begun) <= Cardinality(Clients)
  BY <1>1, FS_Subset, FS_CardinalityType
<1>3. Len(backlog) \in Nat
  BY DEF Types, NetTypes
<1>4. Served \in Nat
  BY TotalType, Typed, Zenon DEF Served, Types
<1>5. size.bufs \in Nat /\ size.sqes \in Nat
  BY SizesAssumption DEF Types, RingTypes
<1> DEFINE n == Cardinality(Begun)
           l == Len(backlog)
           v == Served
<1>6. n \in Nat /\ l \in Nat /\ v \in Nat /\ Slack = n - (l + v)
  BY <1>2, <1>3, <1>4, Zenon DEF Slack
<1> HIDE DEF n, l, v
<1>7. Slack \in Int /\ n = Slack + l + v
  BY <1>6
<1> QED
  BY <1>2, <1>3, <1>4, <1>5, <1>7, Zenon DEF n, l, v

\* The kernel runs out of buffers only if there are fewer than clients.
LEMMA Enough ==
  ASSUME Types, Room, gone = "no", group = {}, NEW c \in Clients, READ(c) \in ops
  PROVE  size.bufs < Cardinality(Clients)
<1> DEFINE n == Cardinality(Begun)
           k == Cardinality(Clients)
           l == Len(backlog)
           v == Served
           h == Holding
           s == Slack
           m == size.bufs
           r == Count(sq, Receives)
           p == Count(sq, Returns)
<1>1. RingTypes
  BY DEF Types
<1>2. n \in Nat /\ k \in Nat /\ n <= k /\ l \in Nat /\ v \in Nat /\ s \in Int /\ n = s + l + v /\ m \in Nat
  BY Numbers, Zenon
<1>3. s >= 0 /\ Ordered /\ m <= Cardinality(group) + h /\ ops \cap Returns = {}
  BY Zenon DEF Room
<1>4. r \in Nat /\ p \in Nat /\ v + p >= h + r + 1
  BY <1>1, <1>3, Parts, Zenon
<1>5. p <= r + s
  BY <1>3, 1 \in Nat \ {0} DEF Ordered, Count
<1>6. h \in Nat
  BY <1>1, TotalType, Typed, ZenonT(30) DEF Holding
<1>7. m <= h
  <2>1. Cardinality(group) = 0
    BY FS_EmptySet
  <2> HIDE DEF h, m
  <2> QED
    BY <1>2, <1>3, <1>6, <2>1, SMTT(30), Z3
<1> HIDE DEF n, k, l, v, h, s, m, r, p
<1>8. m < k
  BY <1>2, <1>3, <1>4, <1>5, <1>6, <1>7, SMTT(30), Z3
<1> QED
  BY <1>8, Zenon DEF m, k

\* The server asks for no more entries than two for each client.
LEMMA Small ==
  ASSUME Types, Room, gone = "no", reaping, cq # <<>>,
         \A c \in Clients : Head(cq) # Starved(c)
  PROVE  /\ Len(sq) + Len(Entries(Head(cq))) \in Nat
         /\ Len(sq) + Len(Entries(Head(cq))) <= 2 * Cardinality(Clients)
<1> DEFINE e == Head(cq)
           n == Cardinality(Begun)
           k == Cardinality(Clients)
           l == Len(backlog)
           v == Served
           s == Slack
           i == Len(sq)
           j == Len(Entries(e))
           r == Count(sq, Receives)
           w == Count(sq, Echoes)
           p == Count(sq, Returns)
           a == Count(sq, {ACCEPT})
<1>1. RingTypes /\ e \in Cqes
  BY DEF Types, RingTypes
<1>2. n \in Nat /\ k \in Nat /\ n <= k /\ l \in Nat /\ v \in Nat /\ s \in Int /\ n = s + l + v
  BY Numbers, Zenon
<1>3. s >= 0 /\ Ordered /\ Fits /\ Accepts <= 1 /\ Refusals <= l
  BY Zenon DEF Room
<1>4. /\ r \in Nat /\ w \in Nat /\ p \in Nat /\ a \in Nat /\ i <= a + r + w + p
      /\ v >= r + w /\ (e \in Answers \cup Starvings \cup Full => v >= r + w + 1)
  BY <1>1, Parts, Zenon
<1>5. p <= r + s
  BY <1>3, 1 \in Nat \ {0} DEF Ordered, Count
<1>6. p + a <= r + s + l
  BY <1>3 DEF Fits
<1>7. i \in Nat
  BY <1>1, Typed
<1>8. \/ e \in Answers \cup Full /\ j \in {1, 2}
      \/ e = Refusal /\ j = 1
      \/ j = 0
  <2>1. \/ \E c \in Clients : e = Accepted(c)
        \/ e = Refusal
        \/ \E c \in Clients, b \in Bids : e = Got(c, b)
        \/ \E c \in Clients, b \in Bids : e = Ended(c, b)
        \/ \E c \in Clients, b \in Bids : e = Sent(c, b)
        \/ \E b \in Bids : e = Provided(b)
    BY <1>1 DEF Cqes
  <2>2. \A x, y : Len(<<x, y>>) = 2 /\ Len(<<x>>) = 1 /\ Len(<<>>) = 0
    OBVIOUS
  <2> HIDE DEF e
  <2>3. CASE \E c \in Clients : e = Accepted(c)
    BY <2>2, <2>3, EntriesOf, CqeKinds, Zenon
  <2>4. CASE e = Refusal
    BY <2>2, <2>4, EntriesOf, Zenon
  <2>5. CASE \E c \in Clients, b \in Bids : e = Got(c, b)
    BY <2>2, <2>5, EntriesOf, CqeKinds, Zenon
  <2>6. CASE \E c \in Clients, b \in Bids : e = Ended(c, b)
    BY <2>2, <2>6, EntriesOf, CqeKinds, Zenon
  <2>7. CASE \E c \in Clients, b \in Bids : e = Sent(c, b)
    BY <2>2, <2>7, EntriesOf, CqeKinds, Zenon
  <2>8. CASE \E b \in Bids : e = Provided(b)
    BY <2>2, <2>8, EntriesOf, Zenon
  <2> QED
    BY <2>1, <2>3, <2>4, <2>5, <2>6, <2>7, <2>8, Zenon
<1>9. e = Refusal => l >= 1 /\ a = 0
  <2>1. e = Refusal => Refusals >= 1 /\ a = 0
    BY <1>1, <1>3, Pending, Zenon
  <2>2. Refusals \in Nat
    BY <1>1, TotalType, Typed, Zenon DEF Refusals
  <2> HIDE DEF a, e, l
  <2> QED
    BY <1>2, <1>3, <2>1, <2>2, SMTT(30), Z3
<1> HIDE DEF e, n, k, l, v, s, i, j, r, w, p, a
<1>10. CASE e \in Answers \cup Full /\ j \in {1, 2}
  <2>1. v >= r + w + 1 /\ j <= 2 /\ j \in Nat
    BY <1>4, <1>10, SMTT(30), Z3
  <2> QED
    <3>1. i + j \in Nat /\ i + j <= 2 * k
      BY <1>2, <1>3, <1>4, <1>6, <1>7, <2>1, SMTT(30), Z3
    <3> QED
      BY <3>1 DEF i, j, k, e
<1>11. CASE e = Refusal /\ j = 1
  <2>1. i + j \in Nat /\ i + j <= 2 * k
    BY <1>2, <1>3, <1>4, <1>5, <1>7, <1>9, <1>11, SMTT(30), Z3
  <2> QED
    BY <2>1 DEF i, j, k, e
<1>12. CASE j = 0
  <2>1. i + j \in Nat /\ i + j <= 2 * k
    BY <1>2, <1>3, <1>4, <1>6, <1>7, <1>12, SMTT(30), Z3
  <2> QED
    BY <2>1 DEF i, j, k, e
<1> QED
  BY <1>8, <1>10, <1>11, <1>12, ZenonT(30)

-----------------------------------------------------------------------------
\* The slack does not shrink, and grows when a stream has ended.
LEMMA SlackMoves ==
  ASSUME Types, Types', UringNext, gone' = "no"
  PROVE  /\ Slack \in Int /\ Slack' \in Int /\ Len(backlog) \in Nat /\ Len(backlog') \in Nat
         /\ Slack' >= Slack
         /\ Slack' + Len(backlog') >= Slack + Len(backlog) \/ KernelAccept
         /\ for_each_cqe => backlog' = backlog
         /\ \A d \in Clients, x \in Bids :
              for_each_cqe /\ Head(cq) = Ended(d, x) => Slack' >= Slack + 1
<1> DEFINE n == Cardinality(Begun)
           l == Len(backlog)
           m == Len(backlog')
           v == Served
           u == Served'
           s == Slack
           t == Slack'
<1>1. n \in Nat /\ l \in Nat /\ v \in Nat /\ s \in Int /\ n = s + l + v
  BY Numbers, Zenon
<1>2. u \in Nat
  BY ServedMoves, Zenon
<1>3. t = n - (m + u)
  BY UringFrame DEF Slack, Begun
<1>4. m \in Nat
  BY DEF Types, NetTypes
<1>5. KernelAccept => m = l - 1
  <2>1. backlog \in Seq(Clients)
    BY DEF Types, NetTypes
  <2> QED
    BY <2>1 DEF KernelAccept
<1>6. m = l \/ (KernelAccept /\ m = l - 1)
  BY <1>5, UringFrame, Zenon
<1>7. u <= v \/ (KernelAccept /\ u = v + 1)
  BY ServedMoves, Zenon
<1>8. for_each_cqe => backlog' = backlog
  BY DEF for_each_cqe, net
<1>9. \A d \in Clients, x \in Bids : for_each_cqe /\ Head(cq) = Ended(d, x) => u + 1 = v /\ m = l
  BY <1>8, ServedMoves, SMTT(30), Z3
<1> HIDE DEF n, l, m, v, u, s, t
<1>10. t \in Int /\ t >= s /\ (t + m >= s + l \/ KernelAccept)
  BY <1>1, <1>2, <1>3, <1>4, <1>5, <1>6, <1>7, SMTT(30), Z3
<1>11. \A d \in Clients, x \in Bids : for_each_cqe /\ Head(cq) = Ended(d, x) => t >= s + 1
  BY <1>1, <1>2, <1>3, <1>4, <1>9, SMTT(30), Z3
<1> QED
  BY <1>1, <1>4, <1>8, <1>10, <1>11, Zenon DEF l, m, s, t

\* What the handling of a completion adds to the counts from position j on.
Near(j) == IF j <= Len(sq) + 1 THEN 1 ELSE 0
Far(j)  == IF j <= Len(sq) + 2 THEN 1 ELSE 0
Grown(S, j, k) == CountFrom(sq', j, S) = CountFrom(sq, j, S) + k

\* What taking a completion does to the counts behind a place of the queue.
LEMMA ReapCounts ==
  ASSUME RingTypes, Handle(Head(cq)), NEW j \in Nat
  PROVE  \/ /\ Head(cq) \in Answers
            /\ Grown(Returns, j, 0) /\ Grown(Receives, j, Near(j)) /\ Grown({ACCEPT}, j, Far(j))
         \/ /\ Head(cq) = Refusal
            /\ Grown(Returns, j, 0) /\ Grown(Receives, j, 0) /\ Grown({ACCEPT}, j, Near(j))
         \/ Grown(Returns, j, 0) /\ Grown(Receives, j, 0) /\ Grown({ACCEPT}, j, 0)
         \/ /\ \E d \in Clients, x \in Bids : Head(cq) = Ended(d, x)
            /\ Grown(Returns, j, Near(j)) /\ Grown(Receives, j, 0) /\ Grown({ACCEPT}, j, 0)
         \/ Grown(Returns, j, Near(j)) /\ Grown(Receives, j, Far(j)) /\ Grown({ACCEPT}, j, 0)
<1> DEFINE near == Near(j)
           far == Far(j)
<1>1. sq \in Seq(Sqes) /\ Len(sq) \in Nat /\ near \in {0, 1} /\ far \in {0, 1}
  BY Typed DEF Near, Far
<1>2. ASSUME NEW S
      PROVE  CountFrom(sq, j, S) \in Nat
  BY <1>1, CountType, Zenon
<1>3. ASSUME NEW x \in Sqes, NEW S, sq' = Append(sq, x)
      PROVE  Grown(S, j, IF x \in S THEN near ELSE 0)
  <2>1. CountFrom(Append(sq, x), j, S) = CountFrom(sq, j, S) + Last(sq, x, j, S)
    BY <1>1, LastCounted, Zenon
  <2>2. Last(sq, x, j, S) = (IF x \in S THEN near ELSE 0)
    BY DEF Near, Last
  <2> QED
    BY <1>3, <2>1, <2>2, Zenon DEF Grown
<1>4. ASSUME NEW x \in Sqes, NEW y \in Sqes, NEW S, sq' = Append(Append(sq, x), y)
      PROVE  Grown(S, j, (IF x \in S THEN near ELSE 0) + (IF y \in S THEN far ELSE 0))
  <2> DEFINE q == Append(sq, x)
             b == CountFrom(sq, j, S)
             k == IF x \in S THEN near ELSE 0
             l == IF y \in S THEN far ELSE 0
  <2>1. q \in Seq(Sqes) /\ Len(q) + 1 = Len(sq) + 2
    BY <1>1
  <2>2. CountFrom(Append(q, y), j, S) = CountFrom(q, j, S) + Last(q, y, j, S)
    BY <2>1, LastCounted, Zenon
  <2>3. Last(q, y, j, S) = l
    BY <2>1 DEF Far, Last
  <2>4. CountFrom(q, j, S) = b + k
    <3>1. CountFrom(q, j, S) = b + Last(sq, x, j, S)
      BY <1>1, LastCounted, Zenon
    <3>2. Last(sq, x, j, S) = k
      BY DEF Near, Last
    <3> QED
      BY <3>1, <3>2, Zenon
  <2>5. b \in Nat /\ k \in Nat /\ l \in Nat
    BY <1>1, <1>2
  <2>6. CountFrom(sq', j, S) = b + k + l
    BY <1>4, <2>2, <2>3, <2>4, Zenon
  <2> HIDE DEF b, k, l
  <2>7. b + k + l = b + (k + l)
    BY <2>5
  <2> QED
    BY <2>6, <2>7, Zenon DEF Grown, b, k, l
<1> HIDE DEF near, far
<1>5. CASE \E d \in Clients : Head(cq) = Accepted(d) /\ sq' = Append(Append(sq, READ(d)), ACCEPT)
  <2>1. PICK d \in Clients : Head(cq) = Accepted(d) /\ sq' = Append(Append(sq, READ(d)), ACCEPT)
    BY <1>5
  <2>2. READ(d) \in Sqes /\ ACCEPT \in Sqes /\ Accepted(d) \in Answers
    BY DEF Sqes, Answers
  <2>3. Grown(Returns, j, 0 + 0) /\ Grown(Receives, j, near + 0) /\ Grown({ACCEPT}, j, 0 + far)
    BY <1>4, <2>1, <2>2, EntryKinds, Zenon
  <2>4. 0 + 0 = 0 /\ near + 0 = near /\ 0 + far = far
    BY <1>1
  <2> QED
    BY <2>1, <2>2, <2>3, <2>4, Zenon DEF near, far
<1>6. CASE Head(cq) = Refusal /\ sq' = Append(sq, ACCEPT)
  <2>1. ACCEPT \in Sqes
    BY DEF Sqes
  <2>2. Grown(Returns, j, 0) /\ Grown(Receives, j, 0) /\ Grown({ACCEPT}, j, near)
    BY <1>3, <1>6, <2>1, EntryKinds, Zenon
  <2> QED
    BY <1>6, <2>2, Zenon DEF near
<1>7. CASE \E d \in Clients, x \in Bids : sq' = Append(sq, WRITE(d, x))
  <2>1. PICK d \in Clients, x \in Bids : sq' = Append(sq, WRITE(d, x))
    BY <1>7
  <2>2. WRITE(d, x) \in Sqes
    BY DEF Sqes
  <2>3. Grown(Returns, j, 0) /\ Grown(Receives, j, 0) /\ Grown({ACCEPT}, j, 0)
    BY <1>3, <2>1, <2>2, EntryKinds, Zenon
  <2> QED
    BY <2>3, Zenon
<1>8. CASE \E d \in Clients, x \in Bids : Head(cq) = Ended(d, x) /\ sq' = Append(sq, PROV_BUF(x))
  <2>1. PICK d \in Clients, x \in Bids : Head(cq) = Ended(d, x) /\ sq' = Append(sq, PROV_BUF(x))
    BY <1>8
  <2>2. PROV_BUF(x) \in Sqes
    BY DEF Sqes
  <2>3. Grown(Returns, j, near) /\ Grown(Receives, j, 0) /\ Grown({ACCEPT}, j, 0)
    BY <1>3, <2>1, <2>2, EntryKinds, Zenon
  <2> QED
    BY <2>1, <2>3, Zenon DEF near
<1>9. CASE \E d \in Clients, x \in Bids : sq' = Append(Append(sq, PROV_BUF(x)), READ(d))
  <2>1. PICK d \in Clients, x \in Bids : sq' = Append(Append(sq, PROV_BUF(x)), READ(d))
    BY <1>9
  <2>2. PROV_BUF(x) \in Sqes /\ READ(d) \in Sqes
    BY DEF Sqes
  <2>3. Grown(Returns, j, near + 0) /\ Grown(Receives, j, 0 + far) /\ Grown({ACCEPT}, j, 0 + 0)
    BY <1>4, <2>1, <2>2, EntryKinds, Zenon
  <2>4. 0 + 0 = 0 /\ near + 0 = near /\ 0 + far = far
    BY <1>1
  <2> QED
    BY <2>3, <2>4, Zenon DEF near, far
<1>10. CASE sq' = sq
  <2>1. Grown(Returns, j, 0) /\ Grown(Receives, j, 0) /\ Grown({ACCEPT}, j, 0)
    BY <1>2, <1>10 DEF Grown
  <2> QED
    BY <2>1, Zenon
<1> QED
  BY <1>5, <1>6, <1>7, <1>8, <1>9, <1>10, Zenon DEF Handle

-----------------------------------------------------------------------------
\* What a step does to the entries that are prepared.
LEMMA Prepared ==
  ASSUME Types, UringNext, gone' = "no"
  PROVE  \/ submit /\ sq # <<>> /\ sq' = Tail(sq) /\ ~reaping'
         \/ wait_cqe /\ sq = <<>> /\ sq' = sq
         \/ for_each_cqe /\ cq # <<>> /\ Handle(Head(cq)) /\ reaping'
         \/ sq' = sq /\ reaping' = FALSE
         \/ UringKernel /\ sq' = sq /\ reaping' = reaping
<1>1. CASE submit
  BY <1>1 DEF submit
<1>2. CASE wait_cqe
  BY <1>2, Zenon DEF wait_cqe
<1>3. CASE for_each_cqe
  <2>1. RingTypes
    BY DEF Types
  <2> QED
    BY <1>3, <2>1, ReapCases, SMTT(30), Z3 DEF Starve, Overrun
<1>4. CASE cq_advance
  BY <1>4, Zenon DEF cq_advance
<1>5. CASE UringKernel
  BY <1>5, Zenon DEF UringKernel, KernelAccept, KernelRefuse, KernelNoBufs, KernelRead, KernelWrite, Complete
<1> QED
  BY <1>1, <1>2, <1>3, <1>4, <1>5, Zenon DEF UringNext, UringServer

\* A buffer given back stays ahead of the receives that may need it.
LEMMA OrderedMoves ==
  ASSUME Types, Types', UringNext, gone' = "no", Slack >= 0, Ordered
  PROVE  Ordered'
<1> DEFINE s == Slack
           t == Slack'
<1>1. /\ s \in Int /\ t \in Int /\ t >= s
      /\ \A d \in Clients, x \in Bids : for_each_cqe /\ Head(cq) = Ended(d, x) => t >= s + 1
  BY SlackMoves, Zenon
<1>2. Returns' = Returns /\ Receives' = Receives
  BY UringFrame, SameSets, Zenon
<1>3. sq \in Seq(Sqes) /\ RingTypes
  BY Typed, ZenonT(30) DEF Types
<1> SUFFICES ASSUME NEW j \in Nat \ {0}
             PROVE  CountFrom(sq', j, Returns) <= CountFrom(sq', j, Receives) + t
  BY <1>2, Zenon DEF Ordered
<1> DEFINE p == CountFrom(sq, j, Returns)
           r == CountFrom(sq, j, Receives)
           a == CountFrom(sq, j, {ACCEPT})
           P == CountFrom(sq', j, Returns)
           R == CountFrom(sq', j, Receives)
           n == Len(sq)
           near == Near(j)
           far == Far(j)
<1>4. p \in Nat /\ r \in Nat /\ a \in Nat /\ n \in Nat
  <2>1. p \in Nat /\ r \in Nat /\ a \in Nat
    BY <1>3, CountType, Zenon
  <2> QED
    BY <1>3, <2>1, SMTT(30), Z3
<1>5. p <= r + s
  BY DEF Ordered
<1>6. CASE sq' = sq
  <2>1. P = p /\ R = r
    BY <1>6
  <2> HIDE DEF p, r, s, t, P, R
  <2> QED
    BY <1>1, <1>4, <1>5, <2>1, SMTT(30), Z3 DEF P, R
<1>7. CASE sq # <<>> /\ sq' = Tail(sq)
  <2> DEFINE i == j + 1
             x == CountFrom(sq, i, Returns)
             y == CountFrom(sq, i, Receives)
  <2>1. P = x /\ R = y
    BY <1>3, <1>7, FromTail, Zenon
  <2>2. i \in Nat \ {0}
    OBVIOUS
  <2> HIDE DEF i
  <2>3. x <= y + s
    BY <2>2, Zenon DEF Ordered
  <2>4. x \in Nat /\ y \in Nat
    BY <1>3, <2>2, CountType, Zenon
  <2> HIDE DEF x, y, s, t, P, R
  <2>5. P <= R + t
    BY <1>1, <2>1, <2>3, <2>4, SMTT(30), Z3
  <2> QED
    BY <2>5 DEF P, R
<1>8. CASE for_each_cqe /\ Handle(Head(cq))
  <2>1. near \in {0, 1} /\ far \in {0, 1} /\ near <= far
    BY <1>4 DEF Near, Far
  <2>2. \/ P = p + 0 /\ R = r + near
        \/ P = p + 0 /\ R = r + 0
        \/ (\E d \in Clients, x \in Bids : Head(cq) = Ended(d, x)) /\ P = p + near /\ R = r + 0
        \/ P = p + near /\ R = r + far
    BY <1>3, <1>8, ReapCounts, Zenon DEF Grown
  <2>3. (\E d \in Clients, x \in Bids : Head(cq) = Ended(d, x)) => t >= s + 1
    BY <1>1, <1>8, Zenon
  <2> HIDE DEF p, r, s, t, P, R, near, far
  <2>4. P <= R + t
    BY <1>1, <1>4, <1>5, <2>1, <2>2, <2>3, SMTT(30), Z3
  <2> QED
    BY <2>4 DEF P, R
<1> QED
  BY <1>6, <1>7, <1>8, Prepared, Zenon

\* What a round of completions prepares keeps fitting.
LEMMA FitsMoves ==
  ASSUME Types, Types', UringNext, gone = "no", gone' = "no", Room
  PROVE  Fits'
<1> SUFFICES ASSUME reaping'
             PROVE  Count(sq', Returns) + Count(sq', {ACCEPT}) <= Count(sq', Receives) + Slack' + Len(backlog')
  <2>1. Returns' = Returns /\ Receives' = Receives
    BY UringFrame, SameSets
  <2> QED
    BY <2>1 DEF Fits, Count, CountFrom, ACCEPT
<1> DEFINE s == Slack
           t == Slack'
           l == Len(backlog)
           m == Len(backlog')
           p == Count(sq, Returns)
           r == Count(sq, Receives)
           a == Count(sq, {ACCEPT})
           P == Count(sq', Returns)
           R == Count(sq', Receives)
           A == Count(sq', {ACCEPT})
<1>1. /\ s \in Int /\ t \in Int /\ t >= s /\ l \in Nat /\ m \in Nat
      /\ t + m >= s + l \/ KernelAccept
      /\ for_each_cqe => backlog' = backlog
      /\ \A d \in Clients, x \in Bids : for_each_cqe /\ Head(cq) = Ended(d, x) => t >= s + 1
  BY SlackMoves, Zenon
<1>2. RingTypes /\ sq \in Seq(Sqes)
  BY Typed DEF Types
<1>3. s >= 0 /\ Ordered /\ Fits /\ Accepts <= 1 /\ Refusals <= l
  BY Zenon DEF Room
<1>4. p \in Nat /\ r \in Nat /\ a \in Nat
  BY <1>2, CountType, 0 \in Nat, Zenon
<1>5. p <= r + s
  BY <1>3, 1 \in Nat \ {0} DEF Ordered, Count
<1>6. reaping => p + a <= r + s + l
  BY <1>3 DEF Fits
<1>7. /\ ACCEPT \in ops => a = 0
      /\ cq # <<>> /\ Head(cq) = Refusal => Refusals >= 1 /\ a = 0
  BY <1>2, <1>3, Pending, Zenon
<1>8. CASE sq = <<>> /\ sq' = sq
  <2>1. P = 0 /\ A = 0 /\ R = 0
    BY <1>2, <1>8, CountNone, 0 \in Nat, Zenon
  <2> HIDE DEF P, A, R, t, m, s, l
  <2>2. P + A <= R + t + m
    BY <1>1, <1>3, <2>1, SMTT(30), Z3
  <2> QED
    BY <2>2 DEF P, A, R, t, m
<1>9. CASE UringKernel /\ sq' = sq /\ reaping' = reaping
  <2>1. P = p /\ R = r /\ A = a
    BY <1>9, SMTT(30), Z3
  <2>2. KernelAccept => a = 0
    BY <1>7, SMTT(30), Z3 DEF KernelAccept, Complete
  <2>3. p + a <= r + s + l
    BY <1>6, <1>9, SMTT(30), Z3
  <2> HIDE DEF P, A, R, p, r, a, t, m, s, l
  <2>4. P + A <= R + t + m
    BY <1>1, <1>4, <1>5, <2>1, <2>2, <2>3, SMTT(30), Z3
  <2> QED
    BY <2>4 DEF P, A, R, t, m
<1>10. CASE for_each_cqe /\ cq # <<>> /\ Handle(Head(cq))
  <2>1. Near(1) = 1 /\ Far(1) = 1
    BY <1>2 DEF Near, Far
  <2>2. \/ P = p + 0 /\ R = r + 1 /\ A = a + 1
        \/ Head(cq) = Refusal /\ P = p + 0 /\ R = r + 0 /\ A = a + 1
        \/ P = p + 0 /\ R = r + 0 /\ A = a + 0
        \/ /\ \E d \in Clients, x \in Bids : Head(cq) = Ended(d, x)
           /\ P = p + 1 /\ R = r + 0 /\ A = a + 0
        \/ P = p + 1 /\ R = r + 1 /\ A = a + 0
    BY <1>2, <1>10, <2>1, ReapCounts, 1 \in Nat, ZenonT(30) DEF Grown, Count
  <2>3. (\E d \in Clients, x \in Bids : Head(cq) = Ended(d, x)) => t >= s + 1
    BY <1>1, <1>10, Zenon
  <2>4. Head(cq) = Refusal => l >= 1 /\ a = 0
    <3>1. Refusals \in Nat
      BY <1>2, TotalType, Typed, Zenon DEF Refusals
    <3> HIDE DEF l, a
    <3> QED
      BY <1>1, <1>3, <1>7, <1>10, <3>1, SMTT(30), Z3
  <2>5. m = l /\ p + a <= r + s + l
    BY <1>1, <1>6, <1>10, ReapCases, Zenon DEF for_each_cqe
  <2> HIDE DEF P, A, R, p, r, a, t, m, s, l
  <2>6. P + A <= R + t + m
    BY <1>1, <1>4, <1>5, <2>1, <2>2, <2>3, <2>4, <2>5, SMTT(30), Z3
  <2> QED
    BY <2>6 DEF P, A, R, t, m
<1> QED
  BY <1>8, <1>9, <1>10, Prepared, ZenonT(30)

-----------------------------------------------------------------------------
\* There is room at the start.
LEMMA RoomInit == Init => Room
<1> SUFFICES ASSUME Init PROVE Room
  OBVIOUS
<1>1. /\ backlog = <<>> /\ sq = <<ACCEPT>> /\ cq = <<>> /\ ops = {} /\ reaping = FALSE
      /\ group = Bids /\ size \in Sizes /\ \A c \in Clients : cpc[c] = "unborn"
  BY DEF Init, RpsInit, UringInit
<1>2. /\ sq \in Seq({ACCEPT}) /\ cq \in Seq({ACCEPT}) /\ Len(sq) = 1 /\ sq[1] = ACCEPT
      /\ <<>> \in Seq({ACCEPT}) /\ sq = Append(<<>>, ACCEPT) /\ IsFiniteSet(ops)
  BY <1>1, FS_EmptySet
<1>3. ASSUME NEW E, NEW C
      PROVE  Total(sq, ops, cq, E, C) = Count(sq, E) /\ Count(sq, E) \in Nat
  <2>1. Count(cq, C) = 0
    BY <1>1, <1>2, CountNone, 0 \in Nat, Zenon
  <2>2. Cardinality(ops \cap E) = 0
    <3>1. ops \cap E = {}
      BY <1>1
    <3> QED
      BY <3>1, FS_EmptySet, Zenon
  <2>3. Count(sq, E) \in Nat
    BY <1>2, CountType, 0 \in Nat, Zenon
  <2> DEFINE k == Count(sq, E)
  <2>4. Total(sq, ops, cq, E, C) = 0 + k + 0 /\ k \in Nat
    BY <2>1, <2>2, <2>3, Zenon DEF Total
  <2> HIDE DEF k
  <2>5. 0 + k + 0 = k
    BY <2>4
  <2> QED
    BY <2>4, <2>5, Zenon DEF k
<1>4. ASSUME NEW S, ACCEPT \notin S, NEW j \in Nat
      PROVE  CountFrom(sq, j, S) = 0
  <2>1. CountFrom(<<>>, j, S) = 0
    BY <1>2, CountNone, Zenon
  <2>2. CountFrom(Append(<<>>, ACCEPT), j, S) = CountFrom(<<>>, j, S) + Last(<<>>, ACCEPT, j, S)
    BY <1>2, LastCounted, ACCEPT \in {ACCEPT}, Zenon
  <2>3. Last(<<>>, ACCEPT, j, S) = 0
    BY <1>4 DEF Last
  <2> QED
    BY <1>2, <2>1, <2>2, <2>3, SMTT(30), Z3
<1>5. ASSUME NEW S, ACCEPT \notin S
      PROVE  Count(sq, S) = 0
  BY <1>4, <1>5, 1 \in Nat, Zenon DEF Count
<1>6. Served = 0 /\ Refusals = 0 /\ Hungry = 0 /\ Holding \in Nat
  <2>1. ACCEPT \notin Receives \cup Echoes
    BY EntryKinds
  <2> QED
    BY <1>3, <1>5, <2>1, ZenonT(30) DEF Served, Refusals, Hungry, Holding
<1>7. Accepts <= 1
  <2>1. \A i \in 1 .. Len(sq) : sq[i] \in {ACCEPT}
    BY <1>2
  <2>2. Count(sq, {ACCEPT}) = Len(sq)
    BY <1>2, <2>1, CountParts, Zenon
  <2>3. Accepts = 1
    BY <1>2, <1>3, <2>2, ZenonT(30) DEF Accepts
  <2> QED
    BY <2>3
<1>8. Slack = 0 /\ Len(backlog) = 0
  <2>1. Begun = {}
    BY <1>1 DEF Begun
  <2> QED
    BY <1>1, <1>6, <2>1, FS_EmptySet, SMTT(30), Z3 DEF Slack
<1>9. Ordered
  <2>1. ACCEPT \notin Returns /\ ACCEPT \notin Receives
    BY EntryKinds
  <2> QED
    BY <1>4, <1>8, <2>1, SMTT(30), Z3 DEF Ordered
<1>10. Fits /\ ops \cap Returns = {}
  BY <1>1 DEF Fits
<1>11. size.bufs <= Cardinality(group) + Holding
  <2> DEFINE m == size.bufs
             h == Holding
  <2>1. m \in Nat \ {0} /\ h \in Nat
    BY <1>1, <1>6, SizesAssumption, Zenon
  <2>2. group = 0 .. m - 1
    BY <1>1 DEF Bids
  <2> HIDE DEF m, h
  <2>3. Cardinality(0 .. m - 1) = m
    BY <2>1, FS_Interval, SMTT(30), Z3
  <2>4. m <= m + h
    BY <2>1
  <2> QED
    BY <2>2, <2>3, <2>4, Zenon DEF m, h
<1> QED
  BY <1>6, <1>7, <1>8, <1>9, <1>10, <1>11, SMTT(30), Z3 DEF Room

\* The io_uring server and the kernel.
LEMMA RoomUring ==
  ASSUME Types, Types', BuffersAccounted, UringNext, gone = "no", gone' = "no", Room
  PROVE  Room'
<1>1. /\ Slack >= 0 /\ Ordered /\ Fits
      /\ Accepts <= 1 /\ Refusals <= Len(backlog)
      /\ size.bufs <= Cardinality(group) + Holding /\ ops \cap Returns = {}
      /\ Hungry > 0 => size.bufs < Cardinality(Clients)
  BY Zenon DEF Room
<1>2. RingTypes /\ size' = size /\ Returns' = Returns
  BY UringFrame, SameSets DEF Types
<1>3. Slack' >= 0
  <2> DEFINE s == Slack
             t == Slack'
  <2>1. s \in Int /\ t \in Int /\ t >= s /\ s >= 0
    BY <1>1, SlackMoves, Zenon
  <2> HIDE DEF s, t
  <2>2. t >= 0
    BY <2>1
  <2> QED
    BY <2>2, Zenon DEF t
<1>4. Ordered' /\ Fits'
  BY <1>1, OrderedMoves, FitsMoves, Zenon
<1>5. Accepts' <= 1
  <2> DEFINE s == Accepts
             t == Accepts'
  <2>1. s \in Nat /\ t \in Nat /\ t <= s /\ s <= 1
    BY <1>1, AcceptMoves, Zenon
  <2> HIDE DEF s, t
  <2>2. t <= 1
    BY <2>1
  <2> QED
    BY <2>2, Zenon DEF t
<1>6. Refusals' <= Len(backlog')
  <2> DEFINE s == Refusals
             t == Refusals'
             l == Len(backlog)
             m == Len(backlog')
  <2>1. s \in Nat /\ t \in Nat /\ (t <= s \/ (KernelRefuse /\ t = s + 1))
    BY FailureMoves, Zenon
  <2>2. s <= l /\ l \in Nat /\ m \in Nat
    BY <1>1, SlackMoves, Zenon
  <2>3. backlog' = backlog \/ KernelAccept
    BY UringFrame, Zenon
  <2>4. KernelAccept \/ KernelRefuse => s = 0
    BY <1>1, <1>2, Pending, Zenon DEF KernelAccept, KernelRefuse, Complete
  <2>5. KernelRefuse => m = l /\ l >= 1
    <3>1. backlog \in Seq(Clients)
      BY DEF Types, NetTypes
    <3> QED
      BY <3>1, SMTT(30), Z3 DEF KernelRefuse, net
  <2>6. backlog' = backlog => m = l
    OBVIOUS
  <2> HIDE DEF s, t, l, m
  <2>7. t <= m
    BY <2>1, <2>2, <2>3, <2>4, <2>5, <2>6, SMTT(30), Z3
  <2> QED
    BY <2>7, Zenon DEF t, m
<1>7. size'.bufs <= Cardinality(group') + Holding'
  BY <1>1, HoldingMoves, Zenon
<1>8. ops' \cap Returns = {}
  <2>1. CASE submit
    <3>1. Issue \/ ops' = ops
      BY <1>2, <2>1, SubmitCases, Zenon DEF Provide
    <3>2. Issue => Head(sq) \notin Returns /\ ops' = ops \cup {Head(sq)}
      BY EntryKinds DEF Issue
    <3> QED
      BY <1>1, <3>1, <3>2, SMTT(30), Z3
  <2>2. CASE UringNext /\ ~submit
    <3>1. ops' \subseteq ops
      BY <2>2, Zenon DEF UringNext, UringServer, wait_cqe, for_each_cqe, cq_advance, UringKernel,
                  KernelAccept, KernelRefuse, KernelNoBufs, KernelRead, KernelWrite, Complete
    <3> QED
      BY <1>1, <3>1, Zenon
  <2> QED
    BY <2>1, <2>2, SMTT(30), Z3
<1>9. Hungry' > 0 => size.bufs < Cardinality(Clients)
  <2>1. CASE \E d \in Clients : KernelNoBufs(d)
    <3>1. PICK d \in Clients : group = {} /\ READ(d) \in ops
      BY <2>1 DEF KernelNoBufs, Complete
    <3> QED
      BY <3>1, Enough, SMTT(30), Z3
  <2>2. CASE ~ \E d \in Clients : KernelNoBufs(d)
    <3> DEFINE s == Hungry
               t == Hungry'
    <3>1. s \in Nat /\ t \in Nat /\ t <= s
      BY <2>2, FailureMoves, Zenon
    <3> HIDE DEF s, t
    <3>2. t > 0 => s > 0
      BY <3>1
    <3> QED
      BY <1>1, <3>2, Zenon DEF s, t
  <2> QED
    BY <2>1, <2>2, SMTT(30), Z3
<1> QED
  BY <1>2, <1>3, <1>4, <1>5, <1>6, <1>7, <1>8, <1>9, Zenon DEF Room

-----------------------------------------------------------------------------
\* The generator and the epoll server: clients begin, and wait for a server that
\* is not measured only if nothing is in its rings.
LEMMA BacklogMoves ==
  ASSUME Types, RpsNext \/ EpollNext \/ UNCHANGED vars
  PROVE  /\ Begun \subseteq Begun'
         /\ \/ backlog' = backlog
            \/ \E c \in Clients : c \notin Begun /\ c \in Begun' /\ backlog' = Append(backlog, c)
            \/ server # "uring" /\ backlog # <<>> /\ backlog' = Tail(backlog)
<1>1. /\ cpc \in [Clients -> {"unborn", "start", "blocked", "connect", "loop", "recv", "done"}]
      /\ listen \in events => backlog # <<>>
  BY DEF Types, NetTypes, EpollTypes
<1>2. CASE RpsNext
  <2>1. CASE Main
    <3>1. backlog' = backlog
      BY <2>1, Zenon DEF Main, create_worker, broadcast, stop, join, net
    <3>2. \A c \in Clients : cpc'[c] = cpc[c] \/ cpc[c] \in {"unborn", "blocked"}
      BY <1>1, <2>1, Zenon DEF Main, create_worker, broadcast, stop, join
    <3> QED
      BY <3>1, <3>2, Zenon DEF Begun
  <2>2. CASE die
    <3>1. backlog' = backlog /\ \A c \in Clients : cpc'[c] = "done"
      BY <2>2 DEF die
    <3> QED
      BY <3>1 DEF Begun
  <2>3. ASSUME NEW c \in Clients, Client(c)
        PROVE  /\ Begun \subseteq Begun'
               /\ \/ backlog' = backlog
                  \/ c \notin Begun /\ c \in Begun' /\ backlog' = Append(backlog, c)
    <3>1. CASE wait_ready(c)
      BY <1>1, <3>1, Zenon DEF wait_ready, net, Begun
    <3>2. CASE connect(c)
      BY <1>1, <3>2, Zenon DEF connect, Begun
    <3>3. CASE ask(c)
      BY <1>1, <3>3, Zenon DEF ask, Begun
    <3>4. CASE answer(c)
      BY <1>1, <3>4, ZenonT(30) DEF answer, Begun
    <3>5. CASE lost(c)
      BY <1>1, <3>5, SMTT(30), Z3 DEF lost, net, Begun
    <3>6. CASE finish(c)
      BY <1>1, <3>6, SMTT(30), Z3 DEF finish, Begun
    <3> QED
      BY <2>3, <3>1, <3>2, <3>3, <3>4, <3>5, <3>6, Zenon DEF Client
  <2> QED
    BY <1>2, <2>1, <2>2, <2>3, Zenon DEF RpsNext
<1>3. CASE EpollNext
  <2>1. cpc' = cpc /\ server # "uring"
    BY <1>3, ServersLeaveThreads, SMTT(30), Z3 DEF EpollNext, threads
  <2>2. backlog' = backlog \/ (backlog # <<>> /\ backlog' = Tail(backlog))
    BY <1>1, <1>3, ZenonT(30) DEF EpollNext, EpollServer, Perform, Sleep, epoll_wait, accept4, accept4_error, recv_send,
                      recv_end, batch_flush, rpsVars, net
  <2> QED
    BY <2>1, <2>2, SMTT(30), Z3 DEF Begun
<1>4. CASE UNCHANGED <<cpc, backlog>>
  BY <1>4 DEF Begun
<1>5. UNCHANGED vars => UNCHANGED <<cpc, backlog>>
  BY DEF vars, rpsVars, threads, net
<1> QED
  BY <1>2, <1>3, <1>4, <1>5, ZenonT(30)

\* The generator and the epoll server leave room.
LEMMA RoomRest ==
  ASSUME Types, Types', RpsNext \/ EpollNext \/ UNCHANGED vars, UNCHANGED uringVars, gone = "no", Room
  PROVE  Room'
<1> DEFINE n == Cardinality(Begun)
           k == Cardinality(Begun')
           l == Len(backlog)
           m == Len(backlog')
           v == Served
           s == Slack
           t == Slack'
<1>1. UNCHANGED <<size, reaping, sq, ops, cq, group>>
  BY DEF uringVars
<1>2. /\ Receives' = Receives /\ Echoes' = Echoes /\ Returns' = Returns
      /\ Answers' = Answers /\ Starvings' = Starvings /\ Full' = Full
  BY <1>1, SameSets, ZenonT(30)
<1>3. /\ Served' = Served /\ Accepts' = Accepts /\ Refusals' = Refusals
      /\ Holding' = Holding /\ Hungry' = Hungry
  BY <1>1, <1>2, Zenon DEF Served, Accepts, Refusals, Holding, Hungry, Total, Count, CountFrom, ACCEPT, Refusal, Cqe
<1>4. n \in Nat /\ l \in Nat /\ v \in Nat /\ s \in Int /\ n = s + l + v
  BY Numbers, Zenon
<1>5. m \in Nat
  BY DEF Types, NetTypes
<1>6. t = k - (m + v)
  BY <1>3 DEF Slack
<1>7. k \in Nat /\ n <= k /\ (\A c \in Clients : c \notin Begun /\ c \in Begun' => n + 1 <= k)
  <2>1. Begun' \in SUBSET Clients /\ Begun \in SUBSET Begun'
    BY BacklogMoves DEF Begun
  <2>2. IsFiniteSet(Begun') /\ IsFiniteSet(Begun)
    BY <2>1, RpsAssumption, FS_Subset, Zenon
  <2>3. k \in Nat /\ n <= k
    BY <2>1, <2>2, FS_Subset, FS_CardinalityType, Zenon
  <2>4. ASSUME NEW c \in Clients, c \notin Begun, c \in Begun'
        PROVE  n + 1 <= k
    <3>1. Begun \cup {c} \in SUBSET Begun'
      BY <2>1, <2>4, ZenonT(30)
    <3>2. Cardinality(Begun \cup {c}) = n + 1
      BY <2>2, <2>4, FS_AddElement, Zenon
    <3> QED
      BY <2>2, <3>1, <3>2, FS_Subset, Zenon
  <2> QED
    BY <2>3, <2>4, ZenonT(30)
<1>8. \/ m = l
      \/ m = l + 1 /\ n + 1 <= k
      \/ m = l - 1 /\ Refusals = 0
  <2>1. backlog \in Seq(Clients) /\ RingTypes
    BY DEF Types, NetTypes
  <2>2. CASE backlog' = backlog
    BY <2>2
  <2>3. CASE \E c \in Clients : c \notin Begun /\ c \in Begun' /\ backlog' = Append(backlog, c)
    <3>1. m = l + 1
      BY <2>1, <2>3
    <3> QED
      BY <1>7, <2>3, <3>1, Zenon
  <2>4. CASE server # "uring" /\ backlog # <<>> /\ backlog' = Tail(backlog)
    <3>1. m = l - 1
      BY <2>1, <2>4
    <3>2. cq = <<>> /\ ops = {} /\ sq \in Seq(Sqes) /\ cq \in Seq(Cqes)
      BY <2>1, <2>4, ZenonT(30) DEF RingTypes
    <3>3. Count(cq, {Refusal}) = 0 /\ Count(sq, {}) = 0
      BY <3>2, CountNone, 0 \in Nat, Zenon
    <3>4. Cardinality(ops \cap {}) = 0
      BY FS_EmptySet, ZenonT(30)
    <3>5. Refusals = 0
      BY <3>3, <3>4, SMTT(30), Z3 DEF Refusals, Total
    <3> QED
      BY <3>1, <3>5, Zenon
  <2> QED
    BY <2>2, <2>3, <2>4, BacklogMoves, Zenon
<1>9. /\ s >= 0 /\ Ordered /\ Fits
      /\ Accepts <= 1 /\ Refusals <= l
      /\ size.bufs <= Cardinality(group) + Holding /\ ops \cap Returns = {}
      /\ Hungry > 0 => size.bufs < Cardinality(Clients)
  BY Zenon DEF Room
<1>10. Refusals \in Nat
  BY TotalType, Typed, Zenon DEF Refusals, Types
<1>11. t \in Int /\ t >= s /\ t + m >= s + l /\ Refusals <= m
  <2> HIDE DEF n, k, l, m, v, s, t
  <2> QED
    BY <1>4, <1>5, <1>6, <1>7, <1>8, <1>9, <1>10, SMTT(30), Z3
<1>12. Slack' >= 0
  <2> HIDE DEF s, t
  <2>1. t >= 0
    BY <1>4, <1>9, <1>11, SMTT(30), Z3
  <2> QED
    BY <2>1, Zenon DEF t
<1>13. sq \in Seq(Sqes)
  BY Typed DEF Types
<1>14. Ordered'
  <2> SUFFICES ASSUME NEW j \in Nat \ {0}
               PROVE  CountFrom(sq, j, Returns) <= CountFrom(sq, j, Receives) + t
    BY <1>1, <1>2 DEF Ordered, CountFrom
  <2> DEFINE p == CountFrom(sq, j, Returns)
             r == CountFrom(sq, j, Receives)
  <2>1. p \in Nat /\ r \in Nat
    BY <1>13, CountType, Zenon
  <2>2. p <= r + s
    BY <1>9, Zenon DEF Ordered
  <2> HIDE DEF p, r, s, t
  <2>3. p <= r + t
    BY <1>4, <1>11, <2>1, <2>2, SMTT(30), Z3
  <2> QED
    BY <2>3, Zenon DEF p, r
<1>15. Fits'
  <2> SUFFICES ASSUME reaping
               PROVE  Count(sq, Returns) + Count(sq, {ACCEPT}) <= Count(sq, Receives) + t + m
    BY <1>1, <1>2, SMTT(30), Z3 DEF Fits, Count, CountFrom, ACCEPT
  <2> DEFINE p == Count(sq, Returns)
             a == Count(sq, {ACCEPT})
             r == Count(sq, Receives)
  <2>1. p \in Nat /\ r \in Nat /\ a \in Nat
    BY <1>13, CountType, 0 \in Nat, Zenon
  <2>2. p + a <= r + s + l
    BY <1>9, Zenon DEF Fits
  <2> HIDE DEF p, a, r, s, t, l, m
  <2>3. p + a <= r + t + m
    BY <1>4, <1>5, <1>11, <2>1, <2>2, SMTT(30), Z3
  <2> QED
    BY <2>3, ZenonT(30) DEF p, a, r
<1>16. Refusals' <= Len(backlog') /\ Accepts' <= 1
  BY <1>3, <1>9, <1>11, Zenon
<1>17. /\ size'.bufs <= Cardinality(group') + Holding' /\ ops' \cap Returns' = {}
       /\ Hungry' > 0 => size'.bufs < Cardinality(Clients)
  BY <1>1, <1>2, <1>3, <1>9, Zenon
<1> QED
  BY <1>12, <1>14, <1>15, <1>16, <1>17, Zenon DEF Room

\* Every step leaves room.
LEMMA RoomStep ==
  ASSUME Types, Types', BuffersAccounted, Room, [Next]_vars
  PROVE  Room'
<1> SUFFICES ASSUME gone' = "no"
             PROVE  Room'
  BY DEF Room
<1>1. gone = "no"
  BY GoneStays
<1>2. CASE UringNext
  BY <1>1, <1>2, RoomUring, Zenon
<1>3. CASE (RpsNext \/ EpollNext \/ UNCHANGED vars) /\ UNCHANGED uringVars
  BY <1>1, <1>3, RoomRest, Zenon
<1> QED
  BY <1>2, <1>3, Zenon DEF Next, vars

\* The server ends for want of buffers or entries only if there are too few.
LEMMA SurvivesStep ==
  ASSUME Types, Room, ServerSurvives, [Next]_vars
  PROVE  ServerSurvives'
<1>1. CASE gone' = gone /\ size' = size
  BY <1>1 DEF ServerSurvives
<1>2. CASE RpsNext /\ UNCHANGED uringVars
  <2>1. gone' = gone
    BY <1>2, Zenon DEF RpsNext, Main, create_worker, broadcast, stop, join, Client, wait_ready, connect,
                ask, answer, lost, finish, die, fate
  <2> QED
    BY <1>1, <1>2, <2>1, SMTT(30), Z3 DEF uringVars
<1>3. CASE EpollNext /\ UNCHANGED uringVars
  <2>1. gone' = gone \/ gone' = "refused"
    BY <1>3, Zenon DEF EpollNext, EpollServer, Perform, Sleep, epoll_wait, accept4, accept4_error, recv_send,
                recv_end, batch_flush, rpsVars, fate
  <2> QED
    BY <1>1, <1>3, <2>1, Zenon DEF uringVars, ServerSurvives
<1>4. CASE UringNext
  <2>1. gone = "no" /\ size' = size
    BY <1>4, UringFrame, ZenonT(30) DEF UringNext, UringServer, UringKernel
  <2>2. gone' = gone \/ for_each_cqe
    BY <1>4, Zenon DEF UringNext, UringServer, submit, wait_cqe, cq_advance, UringKernel, KernelAccept, KernelRefuse,
                KernelNoBufs, KernelRead, KernelWrite, Complete, rpsVars, fate
  <2>3. ASSUME for_each_cqe, gone' # gone
        PROVE  ServerSurvives'
    <3>1. RingTypes
      BY DEF Types
    <3>2. cq # <<>> /\ reaping /\ (Starve(Head(cq)) \/ Overrun(Head(cq)))
      BY <2>3, <3>1, ReapCases, Zenon
    <3>3. ASSUME NEW c \in Clients, Head(cq) = Starved(c)
          PROVE  gone' = "nobufs"
      <4>1. Head(cq).res = "ENOBUFS"
        BY <3>3, CqeTypes DEF Starved
      <4> QED
        BY <2>3, <4>1, Zenon DEF for_each_cqe
    <3>4. CASE Starve(Head(cq))
      <4>1. gone' = "nobufs" /\ Head(cq) \in Starvings
        BY <3>4, SMTT(30), Z3 DEF Starve, Starvings
      <4>2. Count(cq, Starvings) # 0 /\ Count(cq, Starvings) \in Nat
        <5>1. cq \in Seq(Cqes)
          BY <3>1, Typed, SMTT(30), Z3
        <5>2. 1 \in 1 .. Len(cq) /\ Head(cq) = cq[1]
          BY <3>2, <5>1
        <5> QED
          BY <4>1, <5>1, <5>2, CountNone, CountType, 0 \in Nat, SMTT(30), Z3
      <4>3. Count(sq, {}) \in Nat /\ Cardinality(ops \cap {}) \in Nat
        BY <3>1, TotalType, Typed, Zenon
      <4>4. Hungry > 0
        <5> DEFINE x == Count(cq, Starvings)
                   y == Count(sq, {})
                   z == Cardinality(ops \cap {})
        <5>1. Hungry = x + y + z /\ x # 0 /\ x \in Nat /\ y \in Nat /\ z \in Nat
          BY <4>2, <4>3, Zenon DEF Hungry, Total
        <5> HIDE DEF x, y, z
        <5> QED
          BY <5>1
      <4> QED
        BY <2>1, <4>1, <4>4, Zenon DEF Room, ServerSurvives
    <3>5. CASE Overrun(Head(cq))
      <4>1. gone' = "sqfull" /\ Len(sq) + Len(Entries(Head(cq))) > size.sqes
        BY <3>5 DEF Overrun
      <4>2. /\ Len(sq) + Len(Entries(Head(cq))) \in Nat
            /\ Len(sq) + Len(Entries(Head(cq))) <= 2 * Cardinality(Clients)
        BY <2>1, <3>2, <3>3, <4>1, Small, Zenon
      <4> DEFINE x == Len(sq) + Len(Entries(Head(cq)))
                 y == size.sqes
                 z == Cardinality(Clients)
      <4>3. x > y /\ x <= 2 * z /\ x \in Nat /\ y \in Nat /\ z \in Nat
        BY <4>1, <4>2, Numbers, Zenon
      <4> HIDE DEF x, y, z
      <4>4. y < 2 * z
        BY <4>3, SMTT(30), Z3
      <4> QED
        BY <2>1, <4>1, <4>4, SMTT(30), Z3 DEF ServerSurvives, y, z
    <3> QED
      BY <3>2, <3>4, <3>5, SMTT(30), Z3
  <2> QED
    BY <1>1, <2>1, <2>2, <2>3, Zenon
<1>5. CASE UNCHANGED vars
  BY <1>1, <1>5 DEF vars, rpsVars, fate, uringVars
<1> QED
  BY <1>2, <1>3, <1>4, <1>5, Zenon DEF Next

\* The io_uring server ends for want of a buffer (the exit in its READ case) only
\* if it has fewer buffers than there are clients, and for want of a submission
\* entry (io_uring_get_sqe returns NULL) only if it has fewer than two for each.
THEOREM TheServerSurvives == Spec => []ServerSurvives
<1>1. Init => ServerSurvives
  BY DEF Init, RpsInit, ServerSurvives
<1>2. BuffersAccounted /\ Room /\ Types /\ Types' /\ [Next]_vars => Room'
  BY RoomStep
<1>3. Room /\ ServerSurvives /\ Types /\ [Next]_vars => ServerSurvives'
  BY SurvivesStep
<1> QED
  BY <1>1, <1>2, <1>3, RoomInit, TypesHold, EachBufferInOnePlace, PTL DEF Spec
=============================================================================
