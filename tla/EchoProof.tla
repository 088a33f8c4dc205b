----------------------------- MODULE EchoProof ------------------------------
(***************************************************************************)
(* The echo servers, for any number of clients, buffers and submission     *)
(* entries: what the variables hold, how a step moves entries and          *)
(* completions through the rings of io_uring, and where each buffer is.    *)
(* Buffers and requests are counted where they are, and a step that takes  *)
(* one from a place puts it in the next.                                   *)
(***************************************************************************)
EXTENDS EchoBench, FiniteSetTheorems, TLAPS

\* Sequences with the same elements are the same.
LEMMA SameElements ==
  ASSUME NEW T, NEW p \in Seq(T), NEW q \in Seq(T), Len(p) = Len(q),
         \A i \in 1 .. Len(p) : p[i] = q[i]
  PROVE  p = q
<1>1. DOMAIN p = 1 .. Len(p) /\ DOMAIN q = 1 .. Len(q)
  OBVIOUS
<1>2. p = [i \in DOMAIN p |-> p[i]] /\ q = [i \in DOMAIN q |-> q[i]]
  OBVIOUS
<1> QED
  BY <1>1, <1>2, Zenon

\* Adding at the end of a sequence.
LEMMA AppendTo ==
  ASSUME NEW T, NEW q \in Seq(T), NEW e \in T
  PROVE  Append(q, e) \in Seq(T) /\ Append(q, e) # <<>> /\ Append(q, e) = q \o <<e>>
<1>1. Append(q, e) \in Seq(T) /\ Len(Append(q, e)) = Len(q) + 1 /\ Len(q) \in Nat
  OBVIOUS
<1>2. Append(q, e) # <<>>
  BY <1>1
<1>3. Append(q, e) = q \o <<e>>
  OBVIOUS
<1> QED
  BY <1>1, <1>2, <1>3

\* A count is a natural number.
LEMMA CountType ==
  ASSUME NEW T, NEW q \in Seq(T), NEW j \in Nat, NEW S
  PROVE  CountFrom(q, j, S) \in Nat /\ Count(q, S) \in Nat
<1>1. ASSUME NEW m \in Nat
      PROVE  CountFrom(q, m, S) \in Nat
  <2> DEFINE D == {i \in 1 .. Len(q) : m <= i /\ q[i] \in S}
  <2>1. Len(q) \in Nat /\ D \in SUBSET (1 .. Len(q))
    OBVIOUS
  <2>2. IsFiniteSet(1 .. Len(q))
    BY <2>1, FS_Interval
  <2>3. IsFiniteSet(D)
    BY <2>1, <2>2, FS_Subset
  <2> HIDE DEF D
  <2>4. Cardinality(D) \in Nat
    BY <2>3, FS_CardinalityType
  <2> QED
    BY <2>4 DEF D, CountFrom
<1> QED
  BY <1>1 DEF Count

\* An element at the end is counted if it is in the set and not before j.
LEMMA FromAppend ==
  ASSUME NEW T, NEW q \in Seq(T), NEW e \in T, NEW j \in Nat, NEW S
  PROVE  CountFrom(Append(q, e), j, S)
         = CountFrom(q, j, S) + (IF e \in S /\ j <= Len(q) + 1 THEN 1 ELSE 0)
<1> DEFINE r == Append(q, e)
           D == {i \in 1 .. Len(q) : j <= i /\ q[i] \in S}
           F == {i \in 1 .. Len(r) : j <= i /\ r[i] \in S}
<1>1. /\ Len(q) \in Nat /\ Len(r) = Len(q) + 1 /\ r[Len(q) + 1] = e
      /\ \A i \in 1 .. Len(q) : r[i] = q[i]
  OBVIOUS
<1> HIDE DEF r
<1>2. IsFiniteSet(1 .. Len(q)) /\ D \in SUBSET (1 .. Len(q))
  BY <1>1, FS_Interval
<1>3. IsFiniteSet(D)
  BY <1>2, FS_Subset
<1>4. Len(q) + 1 \notin D
  BY <1>1
<1>5. F = IF e \in S /\ j <= Len(q) + 1 THEN D \cup {Len(q) + 1} ELSE D
  BY <1>1
<1> HIDE DEF D, F
<1>6. /\ Cardinality(D) \in Nat
      /\ Cardinality(D \cup {Len(q) + 1}) = Cardinality(D) + 1
  BY <1>3, <1>4, FS_AddElement, FS_CardinalityType
<1>7. Cardinality(F) = Cardinality(D) + (IF e \in S /\ j <= Len(q) + 1 THEN 1 ELSE 0)
  BY <1>5, <1>6
<1> QED
  BY <1>7, Zenon DEF D, F, CountFrom, r

\* The same for the whole sequence.
LEMMA CountAppend ==
  ASSUME NEW T, NEW q \in Seq(T), NEW e \in T, NEW S
  PROVE  Count(Append(q, e), S) = Count(q, S) + (IF e \in S THEN 1 ELSE 0)
<1>1. 1 <= Len(q) + 1
  OBVIOUS
<1>2. CountFrom(Append(q, e), 1, S)
      = CountFrom(q, 1, S) + (IF e \in S /\ 1 <= Len(q) + 1 THEN 1 ELSE 0)
  BY FromAppend
<1> QED
  BY <1>1, <1>2, Zenon DEF Count

\* Taking the first element moves the others one place.
LEMMA FromTail ==
  ASSUME NEW T, NEW q \in Seq(T), q # <<>>, NEW j \in Nat \ {0}, NEW S
  PROVE  CountFrom(Tail(q), j, S) = CountFrom(q, j + 1, S)
<1> DEFINE r == Tail(q)
           D == {i \in 1 .. Len(q) : j + 1 <= i /\ q[i] \in S}
           F == {i \in 1 .. Len(r) : j <= i /\ r[i] \in S}
           f == [i \in F |-> i + 1]
<1>1. /\ Len(q) \in Nat \ {0} /\ Len(r) = Len(q) - 1
      /\ \A i \in 1 .. Len(q) - 1 : r[i] = q[i + 1]
  OBVIOUS
<1> HIDE DEF r
<1>2. IsFiniteSet(1 .. Len(r)) /\ F \in SUBSET (1 .. Len(r))
  <2>1. 1 \in Int /\ Len(r) \in Int
    BY <1>1
  <2> QED
    BY <2>1, FS_Interval, Zenon
<1>3. IsFiniteSet(F)
  BY <1>2, FS_Subset
<1>4. \A i \in F : i + 1 \in D
  BY <1>1
<1>5. \A i \in D : i - 1 \in F /\ (i - 1) + 1 = i
  BY <1>1
<1>6. F \subseteq Nat
  BY <1>1
<1> HIDE DEF D, F
<1>7. f \in Bijection(F, D)
  <2>1. f \in [F -> D]
    BY <1>4
  <2>2. \A a, b \in F : f[a] = f[b] => a = b
    BY <1>6
  <2>3. \A t \in D : \E s \in F : f[s] = t
    BY <1>5
  <2> HIDE DEF f
  <2> QED
    BY <2>1, <2>2, <2>3, Zenon DEF Bijection, Injection, Surjection, IsInjective
<1>8. ExistsBijection(F, D)
  BY <1>7 DEF ExistsBijection
<1>9. Cardinality(D) = Cardinality(F)
  BY <1>3, <1>8, FS_Bijection
<1> QED
  BY <1>9, Zenon DEF D, F, CountFrom, r

\* The first element is counted if it is in the set.
LEMMA CountTail ==
  ASSUME NEW T, NEW q \in Seq(T), q # <<>>, NEW S
  PROVE  Count(Tail(q), S) = Count(q, S) - (IF Head(q) \in S THEN 1 ELSE 0)
<1> DEFINE D == {i \in 1 .. Len(q) : 1 <= i /\ q[i] \in S}
           F == {i \in 1 .. Len(q) : 2 <= i /\ q[i] \in S}
<1>1. Len(q) \in Nat \ {0} /\ Head(q) = q[1]
  OBVIOUS
<1>2. IsFiniteSet(1 .. Len(q)) /\ F \in SUBSET (1 .. Len(q))
  BY <1>1, FS_Interval
<1>3. IsFiniteSet(F)
  BY <1>2, FS_Subset
<1>4. D = IF Head(q) \in S THEN F \cup {1} ELSE F
  BY <1>1
<1>5. 1 \notin F
  OBVIOUS
<1> HIDE DEF D, F
<1>6. Cardinality(F) \in Nat /\ Cardinality(F \cup {1}) = Cardinality(F) + 1
  BY <1>3, <1>5, FS_AddElement, FS_CardinalityType
<1>7. Cardinality(F) = Cardinality(D) - (IF Head(q) \in S THEN 1 ELSE 0)
  BY <1>4, <1>6
<1>8. CountFrom(Tail(q), 1, S) = CountFrom(q, 1 + 1, S) /\ 1 + 1 = 2
  BY FromTail
<1> QED
  BY <1>7, <1>8, Zenon DEF D, F, CountFrom, Count

\* Nothing to count, and something.
LEMMA CountNone ==
  ASSUME NEW T, NEW q \in Seq(T), NEW j \in Nat, NEW S
  PROVE  /\ Count(q, S) = 0 <=> \A i \in 1 .. Len(q) : q[i] \notin S
         /\ q = <<>> => CountFrom(q, j, S) = 0 /\ Count(q, S) = 0
<1> DEFINE D == {i \in 1 .. Len(q) : 1 <= i /\ q[i] \in S}
<1>1. Len(q) \in Nat /\ IsFiniteSet(1 .. Len(q)) /\ D \in SUBSET (1 .. Len(q))
  BY FS_Interval
<1>2. IsFiniteSet(D)
  BY <1>1, FS_Subset
<1>3. Cardinality(D) = 0 <=> D = {}
  BY <1>2, FS_EmptySet, Zenon
<1>4. D = {} <=> \A i \in 1 .. Len(q) : q[i] \notin S
  BY <1>1
<1>5. q = <<>> => {i \in 1 .. Len(q) : j <= i /\ q[i] \in S} = {} /\ D = {}
  OBVIOUS
<1> QED
  BY <1>3, <1>4, <1>5, FS_EmptySet, Zenon DEF CountFrom, Count

\* An operation is counted once.
LEMMA OpsAdd ==
  ASSUME NEW O, IsFiniteSet(O), NEW e, NEW S
  PROVE  /\ Cardinality(O \cap S) \in Nat /\ IsFiniteSet(O \cup {e})
         /\ Cardinality((O \cup {e}) \cap S)
            = Cardinality(O \cap S) + (IF e \in S /\ e \notin O THEN 1 ELSE 0)
<1>1. IsFiniteSet(O \cap S) /\ IsFiniteSet(O \cup {e})
  BY FS_Intersection, FS_AddElement, Zenon
<1>2. (O \cup {e}) \cap S = IF e \in S /\ e \notin O THEN (O \cap S) \cup {e} ELSE O \cap S
  OBVIOUS
<1>3. /\ Cardinality(O \cap S) \in Nat
      /\ e \notin O => Cardinality((O \cap S) \cup {e}) = Cardinality(O \cap S) + 1
  BY <1>1, FS_AddElement, FS_CardinalityType, Zenon
<1> QED
  BY <1>1, <1>2, <1>3

\* A completed one is no longer counted.
LEMMA OpsRemove ==
  ASSUME NEW O, IsFiniteSet(O), NEW e \in O, NEW S
  PROVE  /\ Cardinality(O \cap S) \in Nat /\ IsFiniteSet(O \ {e})
         /\ Cardinality((O \ {e}) \cap S)
            = Cardinality(O \cap S) - (IF e \in S THEN 1 ELSE 0)
         /\ e \in S => Cardinality(O \cap S) > 0
<1>1. IsFiniteSet(O \cap S) /\ IsFiniteSet(O \ {e})
  BY FS_Intersection, FS_RemoveElement, Zenon
<1>2. (O \ {e}) \cap S = IF e \in S THEN (O \cap S) \ {e} ELSE O \cap S
  OBVIOUS
<1>3. /\ Cardinality(O \cap S) \in Nat
      /\ e \in S => Cardinality((O \cap S) \ {e}) = Cardinality(O \cap S) - 1
  BY <1>1, FS_RemoveElement, FS_CardinalityType, Zenon
<1>4. e \in S => Cardinality(O \cap S) # 0
  BY <1>1, FS_EmptySet
<1> QED
  BY <1>1, <1>2, <1>3, <1>4

\* What is counted in the rings s and q and among the operations o.
Total(s, o, q, E, C) == Count(q, C) + Count(s, E) + Cardinality(o \cap E)

One(e, S) == IF e \in S THEN 1 ELSE 0

\* A total is a natural number, and so are its parts.
LEMMA TotalType ==
  ASSUME NEW T, NEW U, NEW s \in Seq(T), NEW q \in Seq(U), NEW o, IsFiniteSet(o),
         NEW E, NEW C
  PROVE  /\ Count(q, C) \in Nat /\ Count(s, E) \in Nat /\ Cardinality(o \cap E) \in Nat
         /\ Total(s, o, q, E, C) \in Nat
<1>1. Count(q, C) \in Nat /\ Count(s, E) \in Nat
  BY CountType
<1>2. Cardinality(o \cap E) \in Nat
  BY OpsAdd, Zenon
<1> QED
  BY <1>1, <1>2 DEF Total

\* An entry goes to the kernel.
LEMMA TotalIssue ==
  ASSUME NEW T, NEW U, NEW s \in Seq(T), NEW q \in Seq(U), NEW o, IsFiniteSet(o),
         NEW E, NEW C, s # <<>>
  PROVE  /\ Total(Tail(s), o \cup {Head(s)}, q, E, C)
            = Total(s, o, q, E, C) - (IF Head(s) \in o THEN One(Head(s), E) ELSE 0)
         /\ Head(s) \in o /\ Head(s) \in E => Total(s, o, q, E, C) >= 2
<1> DEFINE e == Head(s)
<1>1. /\ Count(q, C) \in Nat /\ Count(s, E) \in Nat /\ Cardinality(o \cap E) \in Nat
      /\ Count(Tail(s), E) \in Nat
  <2>1. Tail(s) \in Seq(T)
    OBVIOUS
  <2> QED
    BY <2>1, TotalType, CountType, Zenon
<1>2. Count(Tail(s), E) = Count(s, E) - (IF Head(s) \in E THEN 1 ELSE 0)
  BY CountTail, Zenon
<1>3. Cardinality((o \cup {Head(s)}) \cap E)
      = Cardinality(o \cap E) + (IF Head(s) \in E /\ Head(s) \notin o THEN 1 ELSE 0)
  BY OpsAdd, Zenon
<1>4. Head(s) \in o /\ Head(s) \in E => Cardinality(o \cap E) > 0
  BY OpsRemove, Zenon
<1> DEFINE a == Count(q, C)
           b == Count(s, E)
           d == Count(Tail(s), E)
           k == Cardinality(o \cap E)
           l == Cardinality((o \cup {Head(s)}) \cap E)
<1>5. /\ Total(s, o, q, E, C) = a + b + k
      /\ Total(Tail(s), o \cup {Head(s)}, q, E, C) = a + d + l
  BY Zenon DEF Total
<1>6. a \in Nat /\ b \in Nat /\ d \in Nat /\ k \in Nat
  BY <1>1, Zenon
<1>7. /\ d = b - (IF e \in E THEN 1 ELSE 0)
      /\ l = k + (IF e \in E /\ e \notin o THEN 1 ELSE 0)
      /\ e \in o /\ e \in E => k > 0
  BY <1>2, <1>3, <1>4, Zenon
<1> HIDE DEF a, b, d, k, l, e
<1>8. a + d + l = (a + b + k) - (IF e \in o THEN One(e, E) ELSE 0)
  BY <1>6, <1>7 DEF One
<1>9. e \in o /\ e \in E => a + b + k >= 2
  BY <1>6, <1>7
<1> QED
  BY <1>5, <1>8, <1>9 DEF e

\* An entry is performed at once.
LEMMA TotalProvide ==
  ASSUME NEW T, NEW U, NEW s \in Seq(T), NEW q \in Seq(U), NEW o, IsFiniteSet(o),
         NEW E, NEW C, s # <<>>, NEW x \in U
  PROVE  Total(Tail(s), o, Append(q, x), E, C)
         = Total(s, o, q, E, C) - One(Head(s), E) + One(x, C)
<1>1. /\ Count(q, C) \in Nat /\ Count(s, E) \in Nat /\ Cardinality(o \cap E) \in Nat
  BY TotalType, Zenon
<1>2. Count(Tail(s), E) = Count(s, E) - (IF Head(s) \in E THEN 1 ELSE 0)
  BY CountTail, Zenon
<1>3. Count(Append(q, x), C) = Count(q, C) + (IF x \in C THEN 1 ELSE 0)
  BY CountAppend, Zenon
<1> QED
  BY <1>1, <1>2, <1>3, SMTT(30), Z3 DEF Total, One

\* The kernel completes an operation.
LEMMA TotalComplete ==
  ASSUME NEW T, NEW U, NEW s \in Seq(T), NEW q \in Seq(U), NEW o, IsFiniteSet(o),
         NEW E, NEW C, NEW e \in o, NEW x \in U
  PROVE  /\ Total(s, o \ {e}, Append(q, x), E, C)
            = Total(s, o, q, E, C) - One(e, E) + One(x, C)
         /\ e \in E => Total(s, o, q, E, C) >= 1
<1>1. /\ Count(q, C) \in Nat /\ Count(s, E) \in Nat /\ Cardinality(o \cap E) \in Nat
  BY TotalType, Zenon
<1>2. /\ Cardinality((o \ {e}) \cap E) = Cardinality(o \cap E) - (IF e \in E THEN 1 ELSE 0)
      /\ e \in E => Cardinality(o \cap E) > 0
  BY OpsRemove, Zenon
<1>3. Count(Append(q, x), C) = Count(q, C) + (IF x \in C THEN 1 ELSE 0)
  BY CountAppend, Zenon
<1> DEFINE a == Cardinality(o \cap E)
           b == Cardinality((o \ {e}) \cap E)
           c == Count(q, C)
           d == Count(Append(q, x), C)
<1> HIDE DEF a, b, c, d
<1>4. /\ Total(s, o \ {e}, Append(q, x), E, C) = d + Count(s, E) + b
      /\ Total(s, o, q, E, C) = c + Count(s, E) + a
  BY Zenon DEF Total, a, b, c, d
<1>5. /\ c \in Nat /\ Count(s, E) \in Nat /\ a \in Nat
      /\ b = a - One(e, E) /\ (e \in E => a > 0) /\ d = c + One(x, C)
  BY <1>1, <1>2, <1>3, Zenon DEF a, b, c, d, One
<1> QED
  BY <1>4, <1>5, SMTT(30), Z3 DEF One

\* A completion is handled, which prepares no entry, one or two.
LEMMA TotalReap ==
  ASSUME NEW T, NEW U, NEW s \in Seq(T), NEW q \in Seq(U), NEW o, IsFiniteSet(o),
         NEW E, NEW C, q # <<>>, NEW x \in T, NEW y \in T
  PROVE  /\ Total(s, o, Tail(q), E, C) = Total(s, o, q, E, C) - One(Head(q), C)
         /\ Total(Append(s, x), o, Tail(q), E, C)
            = Total(s, o, q, E, C) - One(Head(q), C) + One(x, E)
         /\ Total(Append(Append(s, x), y), o, Tail(q), E, C)
            = Total(s, o, q, E, C) - One(Head(q), C) + One(x, E) + One(y, E)
<1>1. /\ Count(q, C) \in Nat /\ Count(s, E) \in Nat /\ Cardinality(o \cap E) \in Nat
  BY TotalType, Zenon
<1>2. Count(Tail(q), C) = Count(q, C) - (IF Head(q) \in C THEN 1 ELSE 0)
  BY CountTail, Zenon
<1>3. Append(s, x) \in Seq(T)
  OBVIOUS
<1>4. Count(Append(s, x), E) = Count(s, E) + (IF x \in E THEN 1 ELSE 0)
  BY CountAppend, Zenon
<1>5. Count(Append(Append(s, x), y), E) = Count(Append(s, x), E) + (IF y \in E THEN 1 ELSE 0)
  BY <1>3, CountAppend, Zenon
<1> DEFINE a == Count(q, C)
           b == Count(Tail(q), C)
           c == Count(s, E)
           d == Count(Append(s, x), E)
           f == Count(Append(Append(s, x), y), E)
           k == Cardinality(o \cap E)
<1> HIDE DEF a, b, c, d, f, k
<1>6. /\ Total(s, o, q, E, C) = a + c + k /\ Total(s, o, Tail(q), E, C) = b + c + k
      /\ Total(Append(s, x), o, Tail(q), E, C) = b + d + k
      /\ Total(Append(Append(s, x), y), o, Tail(q), E, C) = b + f + k
  BY Zenon DEF Total, a, b, c, d, f, k
<1>7. /\ a \in Nat /\ c \in Nat /\ k \in Nat
      /\ b = a - One(Head(q), C) /\ d = c + One(x, E) /\ f = d + One(y, E)
  BY <1>1, <1>2, <1>4, <1>5, Zenon DEF a, b, c, d, f, k, One
<1> DEFINE h == One(Head(q), C)
           u == One(x, E)
           v == One(y, E)
<1>8. h \in Nat /\ u \in Nat /\ v \in Nat
  BY DEF One
<1> HIDE DEF h, u, v
<1>9. b = a - h /\ d = c + u /\ f = d + v
  BY <1>7, Zenon DEF h, u, v
<1>10. a \in Nat /\ c \in Nat /\ k \in Nat
  BY <1>7, Zenon
<1>11. b \in Int /\ d \in Nat
  BY <1>8, <1>9, <1>10
<1>12. /\ b + c + k = (a + c + k) - h
       /\ b + d + k = ((a + c + k) - h) + u
  BY <1>8, <1>9, <1>10, <1>11
<1>13. b + f + k = (((a + c + k) - h) + u) + v
  BY <1>8, <1>9, <1>10, <1>11
<1> QED
  BY <1>6, <1>12, <1>13, Zenon DEF h, u, v

-----------------------------------------------------------------------------
\* Bytes on their way, and the entries and completions there can be.
Data == (Clients \X Nat) \cup {nothing}

Accepted(c) == Cqe("ACCEPT", c, NoBid, "ok")
Refusal     == Cqe("ACCEPT", nothing, NoBid, "error")
Starved(c)  == Cqe("READ", c, NoBid, "ENOBUFS")
Got(c, b)   == Cqe("READ", c, b, "ok")
Ended(c, b) == Cqe("READ", c, b, "end")
Sent(c, b)  == Cqe("WRITE", c, b, "ok")
Provided(b) == Cqe("PROV_BUF", nothing, b, "ok")

Sqes ==
  {ACCEPT} \cup {READ(c) : c \in Clients} \cup {WRITE(c, b) : c \in Clients, b \in Bids}
  \cup {PROV_BUF(b) : b \in Bids}
Cqes ==
  {Refusal} \cup {Accepted(c) : c \in Clients} \cup {Starved(c) : c \in Clients}
  \cup {Got(c, b) : c \in Clients, b \in Bids} \cup {Ended(c, b) : c \in Clients, b \in Bids}
  \cup {Sent(c, b) : c \in Clients, b \in Bids} \cup {Provided(b) : b \in Bids}

NetTypes ==
  /\ cpc \in [Clients -> {"unborn", "start", "blocked", "connect", "loop", "recv", "done"}]
  /\ asked \in [Clients -> Nat] /\ local_success \in [Clients -> Nat] /\ total_success \in Nat
  /\ backlog \in Seq(Clients)
  /\ c2s \in [Clients -> Seq(Data)] /\ s2c \in [Clients -> Seq(Data)]
  /\ hup \in [Clients -> BOOLEAN]

\* Only the server that is measured does anything; it accepts a connection only
\* when one waits.
EpollTypes ==
  /\ queue \in Seq(Clients) /\ buffer \in Data /\ conns \subseteq Clients
  /\ listen \in events => backlog # <<>>
  /\ server = "uring" => events = {} /\ queue = <<>>

RingTypes ==
  /\ size \in Sizes /\ group \subseteq Bids /\ bufs \in [Bids -> Data]
  /\ sq \in Seq(Sqes) /\ cq \in Seq(Cqes) /\ IsFiniteSet(ops)
  /\ server # "uring" => ~reaping /\ ops = {} /\ cq = <<>>

Types == NetTypes /\ EpollTypes /\ RingTypes

\* The buffers of the io_uring server are those it started with.
LEMMA SameBids ==
  ASSUME size' = size
  PROVE  Bids' = Bids /\ Sqes' = Sqes /\ Cqes' = Cqes
BY DEF Bids, Sqes, Cqes

\* The variables start with their types (RpsInit, EpollInit, UringInit).
LEMMA TypesInit == Init => Types
<1> SUFFICES ASSUME Init PROVE Types
  OBVIOUS
<1>1. NetTypes
  <2>1. <<>> \in Seq(Data) /\ <<>> \in Seq(Clients) /\ 0 \in Nat
    OBVIOUS
  <2> QED
    BY <2>1 DEF Init, RpsInit, NetTypes
<1>2. EpollTypes
  <2>1. <<>> \in Seq(Clients)
    OBVIOUS
  <2> QED
    BY <2>1 DEF Init, EpollInit, EpollTypes, Data
<1>3. RingTypes
  <2>1. nothing \in Data /\ ACCEPT \in Sqes /\ <<>> \in Seq(Cqes)
    BY DEF Data, Sqes
  <2>2. <<ACCEPT>> \in Seq(Sqes)
    BY <2>1
  <2> QED
    BY <2>1, <2>2, FS_EmptySet DEF Init, UringInit, RingTypes
<1> QED
  BY <1>1, <1>2, <1>3 DEF Types

\* A step of the generator.
LEMMA TypesRps ==
  ASSUME Types, RpsNext, UNCHANGED <<epollVars, uringVars>>
  PROVE  Types' 
<1>1. NetTypes /\ EpollTypes /\ RingTypes
  BY DEF Types
<1>2. server' = server /\ (backlog # <<>> => backlog' # <<>>) /\ NetTypes'
  <2>1. CASE Main
    <3>1. /\ UNCHANGED <<asked, local_success, total_success, backlog, c2s, s2c, hup, server>>
          /\ \/ \E c \in Clients : cpc' = [cpc EXCEPT ![c] = "start"]
             \/ cpc' = [c \in Clients |-> IF cpc[c] = "blocked" THEN "start" ELSE cpc[c]]
             \/ cpc' = cpc
      BY <2>1 DEF Main, create_worker, broadcast, stop, join, counts, net, fate
    <3> QED
      BY <1>1, <3>1, Zenon DEF NetTypes
  <2>2. ASSUME NEW c \in Clients, wait_ready(c)
        PROVE  server' = server /\ (backlog # <<>> => backlog' # <<>>) /\ NetTypes'
    BY <1>1, <2>2 DEF wait_ready, NetTypes, counts, net, fate
  <2>3. ASSUME NEW c \in Clients, connect(c)
        PROVE  server' = server /\ (backlog # <<>> => backlog' # <<>>) /\ NetTypes'
    <3>1. Append(backlog, c) \in Seq(Clients) /\ Append(backlog, c) # <<>>
      <4>1. backlog \in Seq(Clients)
        BY <1>1 DEF NetTypes
      <4> QED
        BY <4>1, AppendTo, Zenon
    <3> QED
      BY <1>1, <2>3, <3>1, Zenon DEF connect, NetTypes, counts, fate
  <2>4. ASSUME NEW c \in Clients, ask(c)
        PROVE  server' = server /\ (backlog # <<>> => backlog' # <<>>) /\ NetTypes'
    <3>1. asked[c] \in Nat /\ asked[c] + 1 \in Nat
      BY <1>1 DEF NetTypes
    <3>2. <<c, asked[c] + 1>> \in Data /\ c2s[c] \in Seq(Data)
      BY <1>1, <3>1 DEF Data, NetTypes
    <3>3. Append(c2s[c], <<c, asked[c] + 1>>) \in Seq(Data)
      BY <3>2
    <3> QED
      BY <1>1, <2>4, <3>1, <3>3 DEF ask, NetTypes, fate
  <2>5. ASSUME NEW c \in Clients, answer(c)
        PROVE  server' = server /\ (backlog # <<>> => backlog' # <<>>) /\ NetTypes'
    <3>1. Tail(s2c[c]) \in Seq(Data) /\ local_success[c] + 1 \in Nat
      BY <1>1, <2>5 DEF NetTypes, answer
    <3> QED
      BY <1>1, <2>5, <3>1 DEF answer, NetTypes, fate
  <2>6. ASSUME NEW c \in Clients, lost(c)
        PROVE  server' = server /\ (backlog # <<>> => backlog' # <<>>) /\ NetTypes'
    BY <1>1, <2>6 DEF lost, NetTypes, fate, net
  <2>7. ASSUME NEW c \in Clients, finish(c)
        PROVE  server' = server /\ (backlog # <<>> => backlog' # <<>>) /\ NetTypes'
    BY <1>1, <2>7 DEF finish, NetTypes, fate
  <2>8. CASE die
    BY <1>1, <2>8 DEF die, NetTypes, fate, counts
  <2> QED
    BY <2>1, <2>2, <2>3, <2>4, <2>5, <2>6, <2>7, <2>8, Zenon DEF RpsNext, Client
<1>3. EpollTypes'
  BY <1>1, <1>2 DEF EpollTypes, epollVars
<1>4. RingTypes'
  BY <1>1, <1>2, SameBids DEF RingTypes, uringVars
<1> QED
  BY <1>2, <1>3, <1>4 DEF Types
\* A step of the epoll server or of the worker.
LEMMA TypesEpoll ==
  ASSUME Types, EpollNext, UNCHANGED uringVars
  PROVE  Types'
<1>1. NetTypes /\ EpollTypes /\ RingTypes /\ server # "uring"
  BY DEF Types, EpollNext
<1>2. server' = server /\ NetTypes' /\ EpollTypes'
  <2>1. CASE epoll_wait
    <3>1. listen \in Ready => backlog # <<>>
      BY ListenAssumption, <1>1 DEF Ready, EpollTypes
    <3>2. UNCHANGED <<rpsVars, queue, buffer, conns>> /\ events' = Ready
      BY <2>1 DEF epoll_wait
    <3>3. UNCHANGED <<cpc, asked, local_success, total_success, backlog, c2s, s2c, hup, server>>
      BY <3>2 DEF rpsVars, threads, counts, net, fate
    <3> QED
      BY <1>1, <3>1, <3>2, <3>3, Zenon DEF NetTypes, EpollTypes
  <2>2. CASE accept4
    <3>1. backlog # <<>> /\ Tail(backlog) \in Seq(Clients) /\ Head(backlog) \in Clients
      BY <1>1, <2>2 DEF accept4, NetTypes, EpollTypes
    <3> QED
      BY <1>1, <2>2, <3>1, Zenon DEF accept4, NetTypes, EpollTypes, threads, counts, fate
  <2>3. CASE accept4_error
    BY <1>1, <2>3, Zenon DEF accept4_error, NetTypes, EpollTypes, threads, counts, net, epollVars
  <2>4. ASSUME NEW c \in Clients, recv_send(c)
        PROVE  server' = server /\ NetTypes' /\ EpollTypes'
    <3>1. /\ c2s[c] \in Seq(Data) /\ c2s[c] # <<>> /\ buffer' = Head(c2s[c])
          /\ c2s' = [c2s EXCEPT ![c] = Tail(@)]
          /\ events' = events \ {c} /\ conns' = conns
      BY <1>1, <2>4 DEF recv_send, NetTypes, Take
    <3>2. buffer' \in Data /\ Tail(c2s[c]) \in Seq(Data)
      BY <3>1
    <3>3. UNCHANGED <<cpc, asked, local_success, total_success, backlog, hup, server>>
      BY <2>4 DEF recv_send, threads, counts, fate
    <3>4. s2c[c] \in Seq(Data) /\ Append(s2c[c], buffer') \in Seq(Data)
          /\ Append(queue, c) \in Seq(Clients)
      BY <1>1, <3>2 DEF NetTypes, EpollTypes
    <3>5. /\ s2c' = s2c \/ s2c' = [s2c EXCEPT ![c] = Append(@, buffer')]
          /\ queue' = queue \/ queue' = Append(queue, c)
      BY <2>4 DEF recv_send, Deliver
    <3>6. NetTypes'
      BY <1>1, <3>1, <3>2, <3>3, <3>4, <3>5, Zenon DEF NetTypes
    <3>7. EpollTypes'
      BY <1>1, <3>1, <3>2, <3>3, <3>4, <3>5, Zenon DEF EpollTypes
    <3> QED
      BY <3>3, <3>6, <3>7
  <2>5. ASSUME NEW c \in Clients, recv_end(c)
        PROVE  server' = server /\ NetTypes' /\ EpollTypes'
    <3>1. UNCHANGED <<rpsVars, queue, buffer>> /\ events' = events \ {c} /\ conns' = conns \ {c}
      BY <2>5 DEF recv_end
    <3>2. UNCHANGED <<cpc, asked, local_success, total_success, backlog, c2s, s2c, hup, server>>
      BY <3>1 DEF rpsVars, threads, counts, net, fate
    <3> QED
      BY <1>1, <3>1, <3>2, Zenon DEF NetTypes, EpollTypes
  <2>6. CASE batch_flush \/ Sleep
    <3>1. UNCHANGED <<rpsVars, queue, buffer, events, conns>>
      BY <2>6 DEF batch_flush, Sleep
    <3>2. UNCHANGED <<cpc, asked, local_success, total_success, backlog, c2s, s2c, hup, server>>
      BY <3>1 DEF rpsVars, threads, counts, net, fate
    <3> QED
      BY <1>1, <3>1, <3>2, ZenonT(30) DEF NetTypes, EpollTypes
  <2>7. CASE Perform
    <3>1. /\ queue \in Seq(Clients) /\ queue # <<>> /\ queue' = Tail(queue)
          /\ Deliver(Head(queue), buffer)
          /\ UNCHANGED <<cpc, asked, local_success, total_success, backlog, c2s, hup, server>>
          /\ UNCHANGED <<buffer, events, conns>>
      BY <1>1, <2>7 DEF Perform, EpollTypes, threads, counts, fate
    <3>2. PICK c \in Clients : c = Head(queue)
      BY <3>1
    <3>3. s2c[c] \in Seq(Data) /\ Append(s2c[c], buffer) \in Seq(Data) /\ Tail(queue) \in Seq(Clients)
      BY <1>1, <3>1 DEF NetTypes, EpollTypes
    <3>4. s2c' = s2c \/ s2c' = [s2c EXCEPT ![c] = Append(@, buffer)]
      BY <3>1, <3>2 DEF Deliver
    <3>5. NetTypes'
      BY <1>1, <3>1, <3>3, <3>4, Zenon DEF NetTypes
    <3>6. EpollTypes'
      BY <1>1, <3>1, <3>3 DEF EpollTypes
    <3> QED
      BY <3>1, <3>5, <3>6
  <2> QED
    BY <2>1, <2>2, <2>3, <2>4, <2>5, <2>6, <2>7, Zenon DEF EpollNext, EpollServer
<1>3. RingTypes'
  BY <1>1, <1>2, SameBids DEF RingTypes, uringVars
<1> QED
  BY <1>2, <1>3 DEF Types

-----------------------------------------------------------------------------
\* What an entry or a completion is, is in its type.
LEMMA EntryTypes ==
  ASSUME NEW c, NEW b
  PROVE  /\ ACCEPT.type = "ACCEPT" /\ READ(c).type = "READ" /\ READ(c).fd = c
         /\ WRITE(c, b).type = "WRITE" /\ WRITE(c, b).fd = c /\ WRITE(c, b).bid = b
         /\ PROV_BUF(b).type = "PROV_BUF" /\ PROV_BUF(b).bid = b
BY DEF ACCEPT, READ, WRITE, PROV_BUF

\* The fields of a completion.
LEMMA CqeTypes ==
  ASSUME NEW t, NEW c, NEW b, NEW r
  PROVE  /\ Cqe(t, c, b, r).type = t /\ Cqe(t, c, b, r).fd = c
         /\ Cqe(t, c, b, r).bid = b /\ Cqe(t, c, b, r).res = r
BY DEF Cqe

\* The kernel takes an entry.
Issue ==
  /\ \/ Head(sq) = ACCEPT \/ \E c \in Clients : Head(sq) = READ(c)
     \/ \E c \in Clients, b \in Bids : Head(sq) = WRITE(c, b)
  /\ ops' = ops \cup {Head(sq)} /\ group' = group /\ cq' = cq

Provide(b) ==
  /\ Head(sq) = PROV_BUF(b)
  /\ group' = group \cup {b} /\ cq' = Append(cq, Provided(b)) /\ ops' = ops

\* io_uring_submit hands the kernel a receive, a send or an accept, or gives a
\* buffer back at once.
LEMMA SubmitCases ==
  ASSUME RingTypes, submit
  PROVE  /\ sq # <<>> /\ sq' = Tail(sq) /\ UNCHANGED <<size, reaping, bufs, rpsVars>>
         /\ Issue \/ \E b \in Bids : Provide(b)
<1>1. sq \in Seq(Sqes) /\ sq # <<>>
  BY DEF RingTypes, submit
<1>2. Head(sq) \in Sqes
  BY <1>1
<1>3. sq' = Tail(sq) /\ UNCHANGED <<size, reaping, bufs, rpsVars>>
  BY DEF submit
<1> DEFINE e == Head(sq)
<1>4. IF e.type = "PROV_BUF"
      THEN /\ group' = group \cup {e.bid} /\ ops' = ops
           /\ cq' = Append(cq, Cqe("PROV_BUF", nothing, e.bid, "ok"))
      ELSE ops' = ops \cup {e} /\ UNCHANGED <<group, cq>>
  BY DEF submit
<1> HIDE DEF e
<1>5. \/ e = ACCEPT \/ \E c \in Clients : e = READ(c)
      \/ \E c \in Clients, b \in Bids : e = WRITE(c, b)
      \/ \E b \in Bids : e = PROV_BUF(b)
  BY <1>2 DEF Sqes, e
<1>6. CASE \E b \in Bids : e = PROV_BUF(b)
  <2>1. PICK b \in Bids : e = PROV_BUF(b)
    BY <1>6
  <2>2. e.type = "PROV_BUF" /\ e.bid = b
    BY <2>1, EntryTypes
  <2>3. Provide(b)
    BY <1>4, <2>1, <2>2 DEF Provide, Provided, e
  <2> QED
    BY <1>1, <1>3, <2>3
<1>7. CASE ~ \E b \in Bids : e = PROV_BUF(b)
  <2>1. e.type # "PROV_BUF"
    BY <1>5, <1>7, EntryTypes
  <2>2. Issue
    BY <1>4, <1>5, <1>7, <2>1 DEF Issue, e
  <2> QED
    BY <1>1, <1>3, <2>2
<1> QED
  BY <1>6, <1>7

\* What the server prepares for a completion.
LEMMA EntriesOf ==
  ASSUME NEW c, NEW b
  PROVE  /\ Entries(Accepted(c)) = <<READ(c), ACCEPT>> /\ Entries(Refusal) = <<ACCEPT>>
         /\ Entries(Got(c, b)) = <<WRITE(c, b)>> /\ Entries(Ended(c, b)) = <<PROV_BUF(b)>>
         /\ Entries(Sent(c, b)) = <<PROV_BUF(b), READ(c)>> /\ Entries(Provided(b)) = <<>>
<1>1. Entries(Accepted(c)) = <<READ(c), ACCEPT>> /\ Entries(Refusal) = <<ACCEPT>>
  <2>1. ASSUME NEW x, NEW y
        PROVE  <<x>> \o <<y>> = <<x, y>> /\ <<>> \o <<y>> = <<y>>
    <3>1. <<>> \in Seq({x, y}) /\ <<x>> \in Seq({x, y}) /\ y \in {x, y}
      OBVIOUS
    <3>2. Append(<<x>>, y) = <<x>> \o <<y>> /\ Append(<<>>, y) = <<>> \o <<y>>
      BY <3>1, AppendTo, Zenon
    <3>3. Append(<<>>, y) = <<y>>
      OBVIOUS
    <3>4. Append(<<x>>, y) = <<x, y>>
      <4>1. /\ <<x, y>> \in Seq({x, y}) /\ Len(<<x, y>>) = 2
            /\ Append(<<x>>, y) \in Seq({x, y}) /\ Len(Append(<<x>>, y)) = 2
        BY <3>1
      <4>2. \A i \in 1 .. 2 : Append(<<x>>, y)[i] = <<x, y>>[i]
        BY <3>1
      <4> QED
        BY <4>1, <4>2, SameElements, Zenon
    <3> QED
      BY <3>2, <3>3, <3>4, Zenon
  <2>2. /\ Accepted(c).type = "ACCEPT" /\ Accepted(c).res = "ok" /\ Accepted(c).fd = c
        /\ Refusal.type = "ACCEPT" /\ Refusal.res = "error"
    BY CqeTypes DEF Accepted, Refusal
  <2>3. OnAccept(Accepted(c)) = <<READ(c), ACCEPT>> /\ OnAccept(Refusal) = <<ACCEPT>>
    BY <2>1, <2>2, Zenon DEF OnAccept
  <2> QED
    BY <2>2, <2>3 DEF Entries
<1>2. Entries(Got(c, b)) = <<WRITE(c, b)>> /\ Entries(Ended(c, b)) = <<PROV_BUF(b)>>
  BY CqeTypes DEF Entries, OnRead, Got, Ended
<1>3. Entries(Sent(c, b)) = <<PROV_BUF(b), READ(c)>> /\ Entries(Provided(b)) = <<>>
  BY CqeTypes DEF Entries, OnWrite, Sent, Provided
<1> QED
  BY <1>1, <1>2, <1>3

\* A completion is handled.
Handle(e) ==
  \/ \E c \in Clients : e = Accepted(c) /\ sq' = Append(Append(sq, READ(c)), ACCEPT)
  \/ e = Refusal /\ sq' = Append(sq, ACCEPT)
  \/ \E c \in Clients, b \in Bids : e = Got(c, b) /\ sq' = Append(sq, WRITE(c, b))
  \/ \E c \in Clients, b \in Bids : e = Ended(c, b) /\ sq' = Append(sq, PROV_BUF(b))
  \/ \E c \in Clients, b \in Bids :
       e = Sent(c, b) /\ sq' = Append(Append(sq, PROV_BUF(b)), READ(c))
  \/ \E b \in Bids : e = Provided(b) /\ sq' = sq

\* The server ends: there was no buffer, or there is no submission entry.
Starve(e) == gone' = "nobufs" /\ sq' = sq /\ \E c \in Clients : e = Starved(c)
Overrun(e) ==
  /\ gone' = "sqfull" /\ sq' = sq /\ Len(sq) + Len(Entries(e)) > size.sqes

\* What the server prepares goes to the end of the submission queue.
LEMMA Appends ==
  ASSUME NEW T, NEW s \in Seq(T), NEW x \in T, NEW y \in T
  PROVE  /\ s \o <<>> = s /\ s \o <<x>> = Append(s, x)
         /\ s \o <<x, y>> = Append(Append(s, x), y)
         /\ Append(s, x) \in Seq(T) /\ Append(Append(s, x), y) \in Seq(T)
OBVIOUS

\* io_uring_for_each_cqe: the server ends, or prepares what its switch says.
LEMMA ReapCases ==
  ASSUME RingTypes, for_each_cqe
  PROVE  /\ cq # <<>> /\ cq' = Tail(cq) /\ reaping
         /\ UNCHANGED <<size, reaping, ops, group, bufs, server, refusals>>
         /\ UNCHANGED <<threads, counts, net>>
         /\ \/ Starve(Head(cq)) \/ Overrun(Head(cq))
            \/ gone' = gone /\ Handle(Head(cq))
<1>1. /\ cq # <<>> /\ cq' = Tail(cq) /\ reaping
      /\ UNCHANGED <<size, reaping, ops, group, bufs, server, refusals>>
      /\ UNCHANGED <<threads, counts, net>>
  BY DEF for_each_cqe
<1> DEFINE e == Head(cq)
<1>2. sq \in Seq(Sqes) /\ e \in Cqes
  BY <1>1 DEF RingTypes
<1>3. IF e.res = "ENOBUFS" THEN gone' = "nobufs" /\ sq' = sq
      ELSE IF Len(sq) + Len(Entries(e)) <= size.sqes
           THEN sq' = sq \o Entries(e) /\ gone' = gone
           ELSE sq' = sq /\ gone' = "sqfull"
  BY DEF for_each_cqe, add
<1> HIDE DEF e
<1>4. CASE \E c \in Clients : e = Starved(c)
  <2>1. e.res = "ENOBUFS"
    BY <1>4, CqeTypes DEF Starved
  <2>2. Starve(e)
    BY <1>3, <1>4, <2>1, Zenon DEF Starve
  <2> QED
    BY <1>1, <2>2, Zenon DEF e
<1>5. CASE ~ \E c \in Clients : e = Starved(c)
  <2>1. \/ \E c \in Clients : e = Accepted(c)
        \/ e = Refusal
        \/ \E c \in Clients, b \in Bids : e = Got(c, b)
        \/ \E c \in Clients, b \in Bids : e = Ended(c, b)
        \/ \E c \in Clients, b \in Bids : e = Sent(c, b)
        \/ \E b \in Bids : e = Provided(b)
    BY <1>2, <1>5 DEF Cqes
  <2>2. e.res # "ENOBUFS"
    BY <2>1, CqeTypes DEF Accepted, Refusal, Got, Ended, Sent, Provided
  <2>3. CASE Len(sq) + Len(Entries(e)) <= size.sqes
    <3>1. sq' = sq \o Entries(e) /\ gone' = gone
      BY <1>3, <2>2, <2>3
    <3>2. /\ ACCEPT \in Sqes /\ \A c \in Clients : READ(c) \in Sqes
          /\ \A b \in Bids : PROV_BUF(b) \in Sqes
          /\ \A c \in Clients, b \in Bids : WRITE(c, b) \in Sqes
      BY DEF Sqes
    <3>4. ASSUME NEW x \in Sqes, NEW y \in Sqes
          PROVE  /\ sq \o <<>> = sq /\ sq \o <<x>> = Append(sq, x)
                 /\ sq \o <<x, y>> = Append(Append(sq, x), y)
      <4>1. sq \in Seq(Sqes)
        BY <1>2, Zenon
      <4> QED
        BY <4>1, Appends
    <3>3. Handle(e)
      <4>1. CASE \E c \in Clients : e = Accepted(c)
        <5>1. PICK c \in Clients : e = Accepted(c)
          BY <4>1
        <5>2. sq' = Append(Append(sq, READ(c)), ACCEPT)
          <6>1. Entries(e) = <<READ(c), ACCEPT>>
            BY <5>1, EntriesOf, Zenon
          <6>2. sq \o <<READ(c), ACCEPT>> = Append(Append(sq, READ(c)), ACCEPT)
            BY <3>2, <3>4, Zenon
          <6> QED
            BY <3>1, <6>1, <6>2, Zenon
        <5> QED
          BY <5>1, <5>2, Zenon DEF Handle
      <4>2. CASE e = Refusal
        <5>1. sq' = Append(sq, ACCEPT)
          <6>1. Entries(e) = <<ACCEPT>>
            BY <4>2, EntriesOf, Zenon
          <6>2. sq \o <<ACCEPT>> = Append(sq, ACCEPT)
            BY <3>2, <3>4, Zenon
          <6> QED
            BY <3>1, <6>1, <6>2, Zenon
        <5> QED
          BY <4>2, <5>1, Zenon DEF Handle
      <4>3. CASE \E c \in Clients, b \in Bids : e = Got(c, b)
        <5>1. PICK c \in Clients, b \in Bids : e = Got(c, b)
          BY <4>3
        <5>2. sq' = Append(sq, WRITE(c, b))
          <6>1. Entries(e) = <<WRITE(c, b)>>
            BY <5>1, EntriesOf, Zenon
          <6>2. sq \o <<WRITE(c, b)>> = Append(sq, WRITE(c, b))
            BY <3>2, <3>4, Zenon
          <6> QED
            BY <3>1, <6>1, <6>2, Zenon
        <5> QED
          BY <5>1, <5>2, Zenon DEF Handle
      <4>4. CASE \E c \in Clients, b \in Bids : e = Ended(c, b)
        <5>1. PICK c \in Clients, b \in Bids : e = Ended(c, b)
          BY <4>4
        <5>2. sq' = Append(sq, PROV_BUF(b))
          <6>1. Entries(e) = <<PROV_BUF(b)>>
            BY <5>1, EntriesOf, Zenon
          <6>2. sq \o <<PROV_BUF(b)>> = Append(sq, PROV_BUF(b))
            BY <3>2, <3>4, Zenon
          <6> QED
            BY <3>1, <6>1, <6>2, Zenon
        <5> QED
          BY <5>1, <5>2, Zenon DEF Handle
      <4>5. CASE \E c \in Clients, b \in Bids : e = Sent(c, b)
        <5>1. PICK c \in Clients, b \in Bids : e = Sent(c, b)
          BY <4>5
        <5>2. sq' = Append(Append(sq, PROV_BUF(b)), READ(c))
          <6>1. Entries(e) = <<PROV_BUF(b), READ(c)>>
            BY <5>1, EntriesOf, Zenon
          <6>2. sq \o <<PROV_BUF(b), READ(c)>> = Append(Append(sq, PROV_BUF(b)), READ(c))
            BY <3>2, <3>4, Zenon
          <6> QED
            BY <3>1, <6>1, <6>2, Zenon
        <5> QED
          BY <5>1, <5>2, Zenon DEF Handle
      <4>6. CASE \E b \in Bids : e = Provided(b)
        <5>1. PICK b \in Bids : e = Provided(b)
          BY <4>6
        <5>2. sq' = sq
          BY <1>2, <3>1, <3>2, <5>1, EntriesOf, Appends, Zenon
        <5> QED
          BY <5>1, <5>2, Zenon DEF Handle
      <4> QED
        BY <2>1, <4>1, <4>2, <4>3, <4>4, <4>5, <4>6, Zenon
    <3> QED
      BY <1>1, <3>1, <3>3, Zenon DEF e
  <2>4. CASE ~(Len(sq) + Len(Entries(e)) <= size.sqes)
    <3>1. gone' = "sqfull" /\ sq' = sq
      BY <1>3, <2>2, <2>4
    <3>2. size.sqes \in Nat /\ Len(sq) \in Nat /\ Len(Entries(e)) \in Nat
      <4>1. size.sqes \in Nat
        BY SizesAssumption DEF RingTypes
      <4>2. Len(Entries(e)) \in Nat
        <5>1. Entries(e) \in Seq(Sqes) 
          <6>1. /\ ACCEPT \in Sqes /\ \A c \in Clients : READ(c) \in Sqes
                /\ \A b \in Bids : PROV_BUF(b) \in Sqes
                /\ \A c \in Clients, b \in Bids : WRITE(c, b) \in Sqes
            BY DEF Sqes
          <6>2. \A x, y \in Sqes : <<>> \in Seq(Sqes) /\ <<x>> \in Seq(Sqes) /\ <<x, y>> \in Seq(Sqes)
            OBVIOUS
          <6> QED
            BY <2>1, <6>1, <6>2, EntriesOf, Zenon
        <5> QED
          BY <5>1
      <4> QED
        BY <1>2, <4>1, <4>2
    <3>3. Len(sq) + Len(Entries(e)) > size.sqes
      <4> DEFINE l == Len(sq)
                 n == Len(Entries(e))
                 m == size.sqes
      <4>1. l \in Nat /\ n \in Nat /\ m \in Nat /\ ~(l + n <= m)
        BY <2>4, <3>2, Zenon
      <4> HIDE DEF l, m, n
      <4>2. l + n > m
        BY <4>1
      <4> QED
        BY <4>2, Zenon DEF l, m, n
    <3>4. Overrun(e)
      BY <3>1, <3>3, Zenon DEF Overrun
    <3> QED
      BY <1>1, <3>4, Zenon DEF e
  <2> QED
    BY <2>3, <2>4
<1> QED
  BY <1>4, <1>5

-----------------------------------------------------------------------------
\* A step of the io_uring server or of the kernel.
LEMMA TypesUring ==
  ASSUME Types, UringNext, UNCHANGED epollVars
  PROVE  Types' /\ size' = size /\ server' = server
<1>1. NetTypes /\ EpollTypes /\ RingTypes /\ server = "uring" /\ events = {}
  BY DEF Types, UringNext, EpollTypes
<1>2. /\ ACCEPT \in Sqes /\ \A c \in Clients : READ(c) \in Sqes
      /\ \A b \in Bids : PROV_BUF(b) \in Sqes
      /\ \A c \in Clients, b \in Bids : WRITE(c, b) \in Sqes
  BY SMTT(30), Z3 DEF Sqes
<1>3. /\ Refusal \in Cqes
      /\ \A c \in Clients : Accepted(c) \in Cqes /\ Starved(c) \in Cqes
      /\ \A c \in Clients, b \in Bids : Got(c, b) \in Cqes /\ Ended(c, b) \in Cqes /\ Sent(c, b) \in Cqes
      /\ \A b \in Bids : Provided(b) \in Cqes
  BY DEF Cqes
<1>4. sq \in Seq(Sqes) /\ cq \in Seq(Cqes) /\ IsFiniteSet(ops) /\ group \subseteq Bids
      /\ bufs \in [Bids -> Data] /\ size \in Sizes
  BY <1>1 DEF RingTypes
<1>5. NetTypes' /\ RingTypes' /\ size' = size /\ server' = server
  <2>1. CASE submit
    <3>1. /\ sq # <<>> /\ sq' = Tail(sq) /\ UNCHANGED <<size, reaping, bufs, rpsVars>>
          /\ Issue \/ \E b \in Bids : Provide(b)
      BY <1>1, <2>1, SubmitCases
    <3>2. NetTypes' /\ server' = server
      BY <1>1, <3>1 DEF NetTypes, rpsVars, threads, counts, net, fate
    <3>3. Bids' = Bids /\ Sqes' = Sqes /\ Cqes' = Cqes
      BY <3>1, SameBids
    <3>4. sq' \in Seq(Sqes)
      BY <1>4, <3>1
    <3>5. IsFiniteSet(ops') /\ cq' \in Seq(Cqes) /\ group' \subseteq Bids
      <4>1. CASE Issue
        BY <1>4, <4>1, FS_AddElement, Zenon DEF Issue
      <4>2. ASSUME NEW b \in Bids, Provide(b)
            PROVE  IsFiniteSet(ops') /\ cq' \in Seq(Cqes) /\ group' \subseteq Bids
        BY <1>3, <1>4, <4>2, AppendTo, Zenon DEF Provide
      <4> QED
        BY <3>1, <4>1, <4>2
    <3> QED
      BY <1>1, <1>4, <3>1, <3>2, <3>3, <3>4, <3>5, SMTT(30), Z3 DEF RingTypes
  <2>2. CASE wait_cqe \/ cq_advance
    <3>1. UNCHANGED <<size, sq, ops, cq, group, bufs, rpsVars>>
      BY <2>2 DEF wait_cqe, cq_advance
    <3>2. NetTypes' /\ server' = server
      BY <1>1, <3>1 DEF NetTypes, rpsVars, threads, counts, net, fate
    <3>3. Bids' = Bids /\ Sqes' = Sqes /\ Cqes' = Cqes
      BY <3>1, SameBids
    <3> QED
      BY <1>1, <1>4, <3>1, <3>2, <3>3 DEF RingTypes
  <2>3. CASE for_each_cqe
    <3>1. /\ cq # <<>> /\ cq' = Tail(cq)
          /\ UNCHANGED <<size, reaping, ops, group, bufs, server, refusals>>
          /\ UNCHANGED <<threads, counts, net>>
          /\ \/ Starve(Head(cq)) \/ Overrun(Head(cq)) \/ Handle(Head(cq))
      BY <1>1, <2>3, ReapCases
    <3>2. NetTypes' /\ server' = server
      BY <1>1, <3>1 DEF NetTypes, threads, counts, net
    <3>3. Bids' = Bids /\ Sqes' = Sqes /\ Cqes' = Cqes
      BY <3>1, SameBids
    <3>4. cq' \in Seq(Cqes)
      BY <1>4, <3>1
    <3>5. sq' \in Seq(Sqes)
      <4>1. ASSUME NEW x \in Sqes, NEW y \in Sqes
            PROVE  Append(sq, x) \in Seq(Sqes) /\ Append(Append(sq, x), y) \in Seq(Sqes)
        BY <1>4, Appends
      <4>2. CASE Starve(Head(cq)) \/ Overrun(Head(cq))
        BY <1>4, <4>2, Zenon DEF Starve, Overrun
      <4>3. CASE Handle(Head(cq))
        BY <1>2, <1>4, <4>1, <4>3, Zenon DEF Handle
      <4> QED
        BY <3>1, <4>2, <4>3
    <3> QED
      BY <1>1, <1>4, <3>1, <3>2, <3>3, <3>4, <3>5, ZenonT(30) DEF RingTypes
  <2>4. ASSUME NEW e, NEW x \in Cqes, Complete(e, x), size' = size,
               group' \subseteq Bids, bufs' \in [Bids -> Data],
               backlog' \in Seq(Clients), c2s' \in [Clients -> Seq(Data)],
               s2c' \in [Clients -> Seq(Data)], hup' = hup
        PROVE  NetTypes' /\ RingTypes' /\ size' = size /\ server' = server
    <3>1. /\ e \in ops /\ ops' = ops \ {e} /\ cq' = Append(cq, x)
          /\ UNCHANGED <<size, reaping, sq, server, threads, counts>>
      BY <2>4 DEF Complete
    <3>2. NetTypes'
      BY <1>1, <2>4, <3>1 DEF NetTypes, threads, counts
    <3>3. Bids' = Bids /\ Sqes' = Sqes /\ Cqes' = Cqes
      BY <3>1, SameBids
    <3>4. IsFiniteSet(ops')
      BY <1>4, <3>1, FS_RemoveElement
    <3>5. cq' \in Seq(Cqes)
      BY <1>4, <2>4, <3>1, AppendTo, Zenon
    <3> QED
      BY <1>1, <1>4, <2>4, <3>1, <3>2, <3>3, <3>4, <3>5, SMTT(30), Z3 DEF RingTypes
  <2>5. backlog \in Seq(Clients) /\ c2s \in [Clients -> Seq(Data)] /\ s2c \in [Clients -> Seq(Data)]
    BY <1>1 DEF NetTypes
  <2>6. CASE KernelAccept
    <3>1. /\ backlog # <<>> /\ backlog' = Tail(backlog)
          /\ Complete(ACCEPT, Accepted(Head(backlog))) /\ size' = size
          /\ UNCHANGED <<group, bufs, c2s, s2c, hup>>
      BY <2>6 DEF KernelAccept, Accepted, Complete
    <3>2. Head(backlog) \in Clients /\ Tail(backlog) \in Seq(Clients)
      BY <2>5, <3>1
    <3> QED
      BY <1>3, <1>4, <2>4, <2>5, <3>1, <3>2, Zenon
  <2>7. CASE KernelRefuse
    <3>1. Complete(ACCEPT, Refusal) /\ UNCHANGED <<group, bufs, backlog, c2s, s2c, hup, size>>
      BY <2>7 DEF KernelRefuse, Refusal, Complete, net
    <3> QED
      BY <1>3, <1>4, <2>4, <2>5, <3>1, Zenon
  <2>8. ASSUME NEW c \in Clients, KernelNoBufs(c)
        PROVE  NetTypes' /\ RingTypes' /\ size' = size /\ server' = server
    <3>1. Complete(READ(c), Starved(c)) /\ UNCHANGED <<group, bufs, backlog, c2s, s2c, hup, size>>
      BY <2>8 DEF KernelNoBufs, Starved, Complete, net
    <3> QED
      BY <1>3, <1>4, <2>4, <2>5, <3>1, Zenon
  <2>9. ASSUME NEW c \in Clients, KernelRead(c)
        PROVE  NetTypes' /\ RingTypes' /\ size' = size /\ server' = server
    <3>1. PICK b \in group :
            /\ group' = group \ {b}
            /\ IF c2s[c] # <<>>
               THEN /\ bufs' = [bufs EXCEPT ![b] = Head(c2s[c])] /\ Take(c)
                    /\ Complete(READ(c), Cqe("READ", c, b, "ok"))
               ELSE /\ UNCHANGED <<bufs, c2s>>
                    /\ Complete(READ(c), Cqe("READ", c, b, "end"))
      BY <2>9, ZenonT(30) DEF KernelRead
    <3>2. UNCHANGED <<backlog, s2c, hup>>
      BY <2>9, Zenon DEF KernelRead
    <3>3. b \in Bids /\ Got(c, b) \in Cqes /\ Ended(c, b) \in Cqes
      BY <1>3, <1>4
    <3>4. CASE c2s[c] # <<>>
      <4>1. Head(c2s[c]) \in Data /\ Tail(c2s[c]) \in Seq(Data)
        BY <2>5, <3>4
      <4>2. /\ bufs' = [bufs EXCEPT ![b] = Head(c2s[c])] /\ c2s' = [c2s EXCEPT ![c] = Tail(@)]
            /\ Complete(READ(c), Got(c, b)) /\ size' = size
        BY <3>1, <3>4, ZenonT(30) DEF Take, Got, Complete
      <4>3. bufs' \in [Bids -> Data] /\ c2s' \in [Clients -> Seq(Data)] /\ group' \subseteq Bids
        BY <1>4, <2>5, <3>1, <4>1, <4>2, ZenonT(30)
      <4> QED
        BY <2>4, <2>5, <3>2, <3>3, <4>2, <4>3, Zenon
    <3>5. CASE c2s[c] = <<>>
      <4>1. UNCHANGED <<bufs, c2s>> /\ Complete(READ(c), Ended(c, b)) /\ size' = size
        BY <3>1, <3>5 DEF Ended, Complete
      <4> QED
        BY <1>4, <2>4, <2>5, <3>1, <3>2, <3>3, <4>1, ZenonT(30)
    <3> QED
      BY <3>4, <3>5, Zenon
  <2>10. ASSUME NEW c \in Clients, NEW b \in Bids, KernelWrite(c, b)
         PROVE  NetTypes' /\ RingTypes' /\ size' = size /\ server' = server
    <3>1. /\ Complete(WRITE(c, b), Sent(c, b)) /\ UNCHANGED <<group, bufs, backlog, c2s, hup, size>>
          /\ s2c' = s2c \/ s2c' = [s2c EXCEPT ![c] = Append(@, bufs[b])]
      BY <2>10 DEF KernelWrite, Sent, Complete, Deliver
    <3>2. Append(s2c[c], bufs[b]) \in Seq(Data)
      BY <1>4, <2>5
    <3>3. s2c' \in [Clients -> Seq(Data)]
      BY <2>5, <3>1, <3>2, Zenon
    <3> QED
      BY <1>3, <1>4, <2>4, <2>5, <3>1, <3>3, Zenon
  <2> QED
    BY <2>1, <2>2, <2>3, <2>6, <2>7, <2>8, <2>9, <2>10, Zenon DEF UringNext, UringServer, UringKernel
<1>6. EpollTypes'
  BY <1>1, <1>5 DEF EpollTypes, epollVars
<1> QED
  BY <1>5, <1>6 DEF Types

\* A step keeps the types.
LEMMA TypesStep ==
  ASSUME Types, [Next]_vars
  PROVE  Types' /\ size' = size /\ server' = server
<1>1. CASE RpsNext /\ UNCHANGED <<epollVars, uringVars>>
  <2>1. Types' /\ size' = size
    BY <1>1, TypesRps, Zenon DEF uringVars
  <2>2. server' = server
    BY <1>1, Zenon DEF RpsNext, Main, create_worker, broadcast, stop, join, Client, wait_ready, connect,
                ask, answer, lost, finish, die, fate
  <2> QED
    BY <2>1, <2>2
<1>2. CASE EpollNext /\ UNCHANGED uringVars
  <2>1. Types' /\ size' = size
    BY <1>2, TypesEpoll, ZenonT(30) DEF uringVars
  <2>2. server' = server
    BY <1>2 DEF EpollNext, EpollServer, epoll_wait, accept4, accept4_error, batch_flush,
                recv_send, recv_end, Perform, Sleep, rpsVars, fate
  <2> QED
    BY <2>1, <2>2
<1>3. CASE UringNext /\ UNCHANGED epollVars
  BY <1>3, TypesUring
<1>4. CASE UNCHANGED vars
  <2>1. UNCHANGED <<size, server, epollVars, uringVars>> /\ UNCHANGED rpsVars
    BY <1>4 DEF vars, rpsVars, fate, uringVars
  <2>2. NetTypes'
    BY <2>1 DEF NetTypes, Types, rpsVars, threads, counts, net
  <2>3. EpollTypes'
    BY <2>1 DEF EpollTypes, Types, epollVars, rpsVars, net
  <2>4. RingTypes'
    BY <2>1, SameBids DEF RingTypes, Types, uringVars
  <2> QED
    BY <2>1, <2>2, <2>3, <2>4, ZenonT(30) DEF Types
<1> QED
  BY <1>1, <1>2, <1>3, <1>4, ZenonT(30) DEF Next

\* The types hold, and with them: only the server that is measured works, and
\* epoll reports the listening socket only while a connection waits.
THEOREM TypesHold == Spec => []Types
<1>1. Types /\ [Next]_vars => Types'
  BY TypesStep
<1> QED
  BY <1>1, TypesInit, PTL DEF Spec

\* The servers and the kernel leave the threads of the load generator and their
\* counts alone.
LEMMA ServersLeaveThreads ==
  ASSUME EpollNext \/ UringNext
  PROVE  UNCHANGED <<threads, counts>>
<1>1. CASE epoll_wait \/ batch_flush \/ Sleep \/ accept4 \/ accept4_error \/ Perform
  BY <1>1 DEF epoll_wait, batch_flush, Sleep, accept4, accept4_error, Perform, rpsVars
<1>2. ASSUME NEW c \in Clients, recv_send(c) \/ recv_end(c)
      PROVE  UNCHANGED <<threads, counts>>
  <2>1. CASE recv_send(c)
    BY <2>1 DEF recv_send
  <2>2. CASE recv_end(c)
    BY <2>2 DEF recv_end, rpsVars
  <2> QED
    BY <1>2, <2>1, <2>2, Zenon
<1>3. CASE submit \/ wait_cqe \/ for_each_cqe \/ cq_advance
  BY <1>3 DEF submit, wait_cqe, for_each_cqe, cq_advance, rpsVars
<1>4. ASSUME NEW e, NEW x, Complete(e, x)
      PROVE  UNCHANGED <<threads, counts>>
  BY <1>4 DEF Complete
<1>5. CASE KernelAccept \/ KernelRefuse
  BY <1>4, <1>5, Zenon DEF KernelAccept, KernelRefuse
<1>6. ASSUME NEW c \in Clients, KernelNoBufs(c) \/ KernelRead(c) \/ \E b \in Bids : KernelWrite(c, b)
      PROVE  UNCHANGED <<threads, counts>>
  BY <1>4, <1>6, Zenon DEF KernelNoBufs, KernelRead, KernelWrite
<1> QED
  BY <1>1, <1>2, <1>3, <1>5, <1>6, Zenon DEF EpollNext, EpollServer, UringNext, UringServer, UringKernel

-----------------------------------------------------------------------------
\* A server that has ended does not come back.
LEMMA GoneStays ==
  ASSUME [Next]_vars, gone' = "no"
  PROVE  gone = "no"
<1>1. CASE RpsNext
  BY <1>1, Zenon DEF RpsNext, Main, create_worker, broadcast, stop, join, Client, wait_ready, connect,
              ask, answer, lost, finish, die, fate
<1>2. CASE EpollNext
  BY <1>2 DEF EpollNext, EpollServer, Perform, Sleep
<1>3. CASE UringNext
  BY <1>3 DEF UringNext, UringServer, UringKernel
<1>4. CASE UNCHANGED vars
  BY <1>4 DEF vars, rpsVars, fate
<1> QED
  BY <1>1, <1>2, <1>3, <1>4, ZenonT(30) DEF Next

\* What the steps of the io_uring server and of the kernel do to a count.
LEMMA Typed ==
  ASSUME RingTypes
  PROVE  /\ sq \in Seq(Sqes) /\ cq \in Seq(Cqes) /\ IsFiniteSet(ops)
         /\ ACCEPT \in Sqes /\ \A c \in Clients : READ(c) \in Sqes
         /\ \A b \in Bids : PROV_BUF(b) \in Sqes
         /\ \A c \in Clients, b \in Bids : WRITE(c, b) \in Sqes
         /\ Refusal \in Cqes /\ \A b \in Bids : Provided(b) \in Cqes
         /\ \A c \in Clients : Accepted(c) \in Cqes /\ Starved(c) \in Cqes
         /\ \A c \in Clients, b \in Bids : Got(c, b) \in Cqes /\ Ended(c, b) \in Cqes /\ Sent(c, b) \in Cqes
         /\ \A b \in Bids : b \in Nat
<1>1. sq \in Seq(Sqes) /\ cq \in Seq(Cqes) /\ IsFiniteSet(ops)
  BY DEF RingTypes
<1>2. /\ ACCEPT \in Sqes /\ \A c \in Clients : READ(c) \in Sqes
      /\ \A b \in Bids : PROV_BUF(b) \in Sqes
      /\ \A c \in Clients, b \in Bids : WRITE(c, b) \in Sqes
  BY SMTT(30), Z3 DEF Sqes
<1>3. /\ Refusal \in Cqes /\ \A b \in Bids : Provided(b) \in Cqes
      /\ \A c \in Clients : Accepted(c) \in Cqes /\ Starved(c) \in Cqes
      /\ \A c \in Clients, b \in Bids : Got(c, b) \in Cqes /\ Ended(c, b) \in Cqes /\ Sent(c, b) \in Cqes
  BY DEF Cqes
<1>4. \A b \in Bids : b \in Nat
  <2>1. size.bufs \in Nat
    BY SizesAssumption DEF RingTypes
  <2> QED
    BY <2>1 DEF Bids
<1> QED
  BY <1>1, <1>2, <1>3, <1>4

\* A total of the rings is a natural number before and after a step.
LEMMA Totals ==
  ASSUME RingTypes, RingTypes', NEW E, NEW C
  PROVE  Total(sq, ops, cq, E, C) \in Nat /\ Total(sq', ops', cq', E, C) \in Nat
<1>1. sq' \in Seq(Sqes') /\ cq' \in Seq(Cqes') /\ IsFiniteSet(ops')
  BY DEF RingTypes
<1> QED
  BY <1>1, Typed, TotalType, Zenon

\* io_uring_submit moves an entry from the submission queue to the kernel.
LEMMA MovesIssue ==
  ASSUME RingTypes, submit, Issue, NEW E, NEW C
  PROVE  /\ Total(sq', ops', cq', E, C)
            = Total(sq, ops, cq, E, C) - (IF Head(sq) \in ops THEN One(Head(sq), E) ELSE 0)
         /\ Head(sq) \in ops /\ Head(sq) \in E => Total(sq, ops, cq, E, C) >= 2
<1>1. sq # <<>> /\ sq' = Tail(sq) /\ ops' = ops \cup {Head(sq)} /\ cq' = cq
  BY SubmitCases DEF Issue
<1>2. Total(sq', ops', cq', E, C) = Total(Tail(sq), ops \cup {Head(sq)}, cq, E, C)
  BY <1>1
<1>3. sq \in Seq(Sqes) /\ cq \in Seq(Cqes) /\ IsFiniteSet(ops)
  BY Typed
<1> QED
  BY <1>1, <1>2, <1>3, TotalIssue, SMTT(20), Z3

\* io_uring_submit of a buffer given back makes it a completion.
LEMMA MovesProvide ==
  ASSUME RingTypes, submit, NEW b \in Bids, Provide(b), NEW E, NEW C
  PROVE  Total(sq', ops', cq', E, C)
         = Total(sq, ops, cq, E, C) - One(PROV_BUF(b), E) + One(Provided(b), C)
<1>1. /\ sq # <<>> /\ sq' = Tail(sq) /\ Head(sq) = PROV_BUF(b)
      /\ ops' = ops /\ cq' = Append(cq, Provided(b))
  BY SubmitCases DEF Provide
<1>2. Total(sq', ops', cq', E, C) = Total(Tail(sq), ops, Append(cq, Provided(b)), E, C)
  BY <1>1
<1>3. sq \in Seq(Sqes) /\ cq \in Seq(Cqes) /\ IsFiniteSet(ops) /\ Provided(b) \in Cqes
  BY Typed
<1> QED
  BY <1>1, <1>2, <1>3, TotalProvide, SMTT(20), Z3

\* The server takes a completion and prepares up to two entries.
LEMMA MovesReap ==
  ASSUME RingTypes, cq # <<>>, cq' = Tail(cq), ops' = ops, NEW E, NEW C,
         NEW x \in Sqes, NEW y \in Sqes
  PROVE  /\ sq' = sq => Total(sq', ops', cq', E, C)
                         = Total(sq, ops, cq, E, C) - One(Head(cq), C)
         /\ sq' = Append(sq, x) =>
              Total(sq', ops', cq', E, C)
              = Total(sq, ops, cq, E, C) - One(Head(cq), C) + One(x, E)
         /\ sq' = Append(Append(sq, x), y) =>
              Total(sq', ops', cq', E, C)
              = Total(sq, ops, cq, E, C) - One(Head(cq), C) + One(x, E) + One(y, E)
<1>1. sq \in Seq(Sqes) /\ cq \in Seq(Cqes) /\ IsFiniteSet(ops)
  BY Typed, SMTT(30), Z3
<1>2. /\ Total(sq, ops, Tail(cq), E, C) = Total(sq, ops, cq, E, C) - One(Head(cq), C)
      /\ Total(Append(sq, x), ops, Tail(cq), E, C)
         = Total(sq, ops, cq, E, C) - One(Head(cq), C) + One(x, E)
      /\ Total(Append(Append(sq, x), y), ops, Tail(cq), E, C)
         = Total(sq, ops, cq, E, C) - One(Head(cq), C) + One(x, E) + One(y, E)
  BY <1>1, TotalReap, SMTT(20), Z3
<1> QED
  BY <1>2, Zenon

\* The kernel turns an entry it works on into a completion.
LEMMA MovesComplete ==
  ASSUME RingTypes, NEW e, NEW x \in Cqes, Complete(e, x), NEW E, NEW C
  PROVE  /\ Total(sq', ops', cq', E, C)
            = Total(sq, ops, cq, E, C) - One(e, E) + One(x, C)
         /\ e \in E => Total(sq, ops, cq, E, C) >= 1
<1>1. e \in ops /\ ops' = ops \ {e} /\ cq' = Append(cq, x) /\ sq' = sq
  BY DEF Complete
<1>2. Total(sq', ops', cq', E, C) = Total(sq, ops \ {e}, Append(cq, x), E, C)
  BY <1>1
<1>3. sq \in Seq(Sqes) /\ cq \in Seq(Cqes) /\ IsFiniteSet(ops)
  BY Typed
<1> QED
  BY <1>1, <1>2, <1>3, TotalComplete, SMTT(20), Z3

\* What a step of the io_uring server or of the kernel does to a count of entries E and
\* completions C, from t to u: an entry is issued, a buffer is provided, the loop
\* goes on, a completion is handled, or the kernel completes an operation.
Issues(E, t, u) ==
  /\ submit /\ Issue
  /\ u = t - (IF Head(sq) \in ops THEN One(Head(sq), E) ELSE 0)
  /\ Head(sq) \in ops /\ Head(sq) \in E => t >= 2

Provides(E, C, t, u) ==
  \E x \in Bids : submit /\ Provide(x) /\ u = t - One(PROV_BUF(x), E) + One(Provided(x), C)

Rests(t, u) == (wait_cqe \/ cq_advance) /\ u = t

Handles(E, C, t, u) ==
  \/ \E d \in Clients :
       /\ Head(cq) = Accepted(d) /\ sq' = Append(Append(sq, READ(d)), ACCEPT)
       /\ u = t - One(Accepted(d), C) + One(READ(d), E) + One(ACCEPT, E)
  \/ /\ Head(cq) = Refusal /\ sq' = Append(sq, ACCEPT)
     /\ u = t - One(Refusal, C) + One(ACCEPT, E)
  \/ \E d \in Clients, x \in Bids :
       /\ Head(cq) = Got(d, x) /\ sq' = Append(sq, WRITE(d, x))
       /\ u = t - One(Got(d, x), C) + One(WRITE(d, x), E)
  \/ \E d \in Clients, x \in Bids :
       /\ Head(cq) = Ended(d, x) /\ sq' = Append(sq, PROV_BUF(x))
       /\ u = t - One(Ended(d, x), C) + One(PROV_BUF(x), E)
  \/ \E d \in Clients, x \in Bids :
       /\ Head(cq) = Sent(d, x) /\ sq' = Append(Append(sq, PROV_BUF(x)), READ(d))
       /\ u = t - One(Sent(d, x), C) + One(PROV_BUF(x), E) + One(READ(d), E)
  \/ \E x \in Bids :
       /\ Head(cq) = Provided(x) /\ sq' = sq
       /\ u = t - One(Provided(x), C)

Reaps(E, C, t, u) ==
  /\ for_each_cqe /\ cq # <<>> /\ cq' = Tail(cq)
  /\ UNCHANGED <<size, reaping, ops, group, bufs, threads, counts, net>>
  /\ Handles(E, C, t, u)

Completes(E, C, t, u) ==
  \/ /\ KernelAccept /\ Head(backlog) \in Clients
     /\ u = t - One(ACCEPT, E) + One(Accepted(Head(backlog)), C)
  \/ KernelRefuse /\ u = t - One(ACCEPT, E) + One(Refusal, C)
  \/ \E d \in Clients : KernelNoBufs(d) /\ u = t - One(READ(d), E) + One(Starved(d), C)
  \/ \E d \in Clients, x \in Bids :
       /\ KernelRead(d) /\ x \in group /\ group' = group \ {x}
       /\ \/ /\ c2s[d] # <<>> /\ c2s' = [c2s EXCEPT ![d] = Tail(@)]
             /\ u = t - One(READ(d), E) + One(Got(d, x), C)
          \/ c2s' = c2s /\ u = t - One(READ(d), E) + One(Ended(d, x), C)
  \/ \E d \in Clients, x \in Bids :
       KernelWrite(d, x) /\ u = t - One(WRITE(d, x), E) + One(Sent(d, x), C)

\* While the server lives, these are the steps.
LEMMA Weights ==
  ASSUME Types, UringNext, gone' = "no", NEW E, NEW C, NEW t, NEW u,
         t = Total(sq, ops, cq, E, C), u = Total(sq', ops', cq', E, C)
  PROVE  \/ Issues(E, t, u) \/ Provides(E, C, t, u) \/ Rests(t, u)
         \/ Reaps(E, C, t, u) \/ Completes(E, C, t, u)
<1>1. RingTypes /\ NetTypes /\ group \subseteq Bids
  BY DEF Types, RingTypes
<1>2. ASSUME submit, Issue
      PROVE  /\ u = t - (IF Head(sq) \in ops THEN One(Head(sq), E) ELSE 0)
             /\ Head(sq) \in ops /\ Head(sq) \in E => t >= 2
  BY <1>1, <1>2, MovesIssue, Zenon
<1>3. ASSUME submit, NEW x \in Bids, Provide(x)
      PROVE  u = t - One(PROV_BUF(x), E) + One(Provided(x), C)
  BY <1>1, <1>3, MovesProvide, Zenon
<1>4. ASSUME wait_cqe \/ cq_advance
      PROVE  u = t
  BY <1>4 DEF wait_cqe, cq_advance
<1>5. ASSUME for_each_cqe
      PROVE  Reaps(E, C, t, u)
  <2>1. /\ cq # <<>> /\ cq' = Tail(cq) /\ ops' = ops /\ Handle(Head(cq))
        /\ UNCHANGED <<size, reaping, ops, group, bufs, threads, counts, net>>
    BY <1>1, <1>5, ReapCases DEF Starve, Overrun
  <2>2. ASSUME NEW x \in Sqes, NEW y \in Sqes
        PROVE  /\ sq' = sq => u = t - One(Head(cq), C)
               /\ sq' = Append(sq, x) => u = t - One(Head(cq), C) + One(x, E)
               /\ sq' = Append(Append(sq, x), y) =>
                    u = t - One(Head(cq), C) + One(x, E) + One(y, E)
    BY <1>1, <2>1, MovesReap, Zenon
  <2>9. Handles(E, C, t, u)
    <3>3. CASE \E d \in Clients : Head(cq) = Accepted(d) /\ sq' = Append(Append(sq, READ(d)), ACCEPT)
      BY <1>1, <2>2, <3>3, Typed, ZenonT(30) DEF Handles
    <3>4. CASE Head(cq) = Refusal /\ sq' = Append(sq, ACCEPT)
      BY <1>1, <2>2, <3>4, Typed, Zenon DEF Handles
    <3>5. CASE \E d \in Clients, x \in Bids : Head(cq) = Got(d, x) /\ sq' = Append(sq, WRITE(d, x))
      <4>1. PICK d \in Clients, x \in Bids : Head(cq) = Got(d, x) /\ sq' = Append(sq, WRITE(d, x))
        BY <3>5, Zenon
      <4>2. u = t - One(Got(d, x), C) + One(WRITE(d, x), E)
        BY <1>1, <2>2, <4>1, Typed, Zenon
      <4> QED
        BY <4>1, <4>2, Zenon DEF Handles
    <3>6. CASE \E d \in Clients, x \in Bids : Head(cq) = Ended(d, x) /\ sq' = Append(sq, PROV_BUF(x))
      <4>1. PICK d \in Clients, x \in Bids : Head(cq) = Ended(d, x) /\ sq' = Append(sq, PROV_BUF(x))
        BY <3>6, Zenon
      <4>2. u = t - One(Ended(d, x), C) + One(PROV_BUF(x), E)
        BY <1>1, <2>2, <4>1, Typed, Zenon
      <4> QED
        BY <4>1, <4>2, Zenon DEF Handles
    <3>7. CASE \E d \in Clients, x \in Bids :
                 Head(cq) = Sent(d, x) /\ sq' = Append(Append(sq, PROV_BUF(x)), READ(d))
      <4>1. PICK d \in Clients, x \in Bids :
              Head(cq) = Sent(d, x) /\ sq' = Append(Append(sq, PROV_BUF(x)), READ(d))
        BY <3>7, Zenon
      <4>2. u = t - One(Sent(d, x), C) + One(PROV_BUF(x), E) + One(READ(d), E)
        BY <1>1, <2>2, <4>1, Typed, ZenonT(30)
      <4> QED
        BY <4>1, <4>2, Zenon DEF Handles
    <3>8. CASE \E x \in Bids : Head(cq) = Provided(x) /\ sq' = sq
      BY <1>1, <2>2, <3>8, Typed, SMTT(30), Z3 DEF Handles
    <3> QED
      BY <2>1, <3>3, <3>4, <3>5, <3>6, <3>7, <3>8, Zenon DEF Handle
  <2> QED
    BY <1>5, <2>1, <2>9, SMTT(30), Z3 DEF Reaps
<1>6. ASSUME NEW e, NEW x \in Cqes, Complete(e, x)
      PROVE  u = t - One(e, E) + One(x, C)
  BY <1>1, <1>6, MovesComplete, SMTT(20), Z3
<1>7. ASSUME KernelAccept
      PROVE  Head(backlog) \in Clients /\ u = t - One(ACCEPT, E) + One(Accepted(Head(backlog)), C)
  <2>1. Complete(ACCEPT, Accepted(Head(backlog))) /\ Head(backlog) \in Clients
    BY <1>1, <1>7 DEF KernelAccept, Accepted, NetTypes
  <2>2. Accepted(Head(backlog)) \in Cqes
    BY <2>1 DEF Cqes
  <2> QED
    BY <1>6, <2>1, <2>2, SMTT(30), Z3
<1>8. ASSUME KernelRefuse
      PROVE  u = t - One(ACCEPT, E) + One(Refusal, C)
  <2>1. Complete(ACCEPT, Refusal) /\ Refusal \in Cqes
    BY <1>8 DEF KernelRefuse, Refusal, Cqes
  <2> QED
    BY <1>6, <2>1, SMTT(30), Z3
<1>9. ASSUME NEW d \in Clients, KernelNoBufs(d)
      PROVE  u = t - One(READ(d), E) + One(Starved(d), C)
  <2>1. Complete(READ(d), Starved(d)) /\ Starved(d) \in Cqes
    BY <1>9 DEF KernelNoBufs, Starved, Cqes
  <2> QED
    BY <1>6, <2>1, Zenon
<1>10. ASSUME NEW d \in Clients, KernelRead(d)
       PROVE  Completes(E, C, t, u)
  <2>1. PICK x \in group :
          /\ group' = group \ {x}
          /\ \/ /\ c2s[d] # <<>> /\ c2s' = [c2s EXCEPT ![d] = Tail(@)]
                /\ Complete(READ(d), Got(d, x))
             \/ c2s' = c2s /\ Complete(READ(d), Ended(d, x))
    BY <1>10, SMTT(30), Z3 DEF KernelRead, Got, Ended, Take
  <2>2. x \in Bids /\ Got(d, x) \in Cqes /\ Ended(d, x) \in Cqes
    BY <1>1, SMTT(30), Z3 DEF Cqes
  <2>3. \/ /\ c2s[d] # <<>> /\ c2s' = [c2s EXCEPT ![d] = Tail(@)]
           /\ u = t - One(READ(d), E) + One(Got(d, x), C)
        \/ c2s' = c2s /\ u = t - One(READ(d), E) + One(Ended(d, x), C)
    BY <1>6, <2>1, <2>2, SMTT(30), Z3
  <2> QED
    BY <1>10, <2>1, <2>2, <2>3, Zenon DEF Completes
<1>11. ASSUME NEW d \in Clients, NEW x \in Bids, KernelWrite(d, x)
       PROVE  u = t - One(WRITE(d, x), E) + One(Sent(d, x), C)
  <2>1. Complete(WRITE(d, x), Sent(d, x)) /\ Sent(d, x) \in Cqes
    BY <1>11 DEF KernelWrite, Sent, Cqes
  <2> QED
    BY <1>6, <2>1, SMTT(30), Z3
<1>12. CASE submit
  BY <1>1, <1>2, <1>3, <1>12, SubmitCases, Zenon DEF Issues, Provides
<1>13. CASE wait_cqe \/ cq_advance
  BY <1>4, <1>13 DEF Rests
<1>14. CASE for_each_cqe
  BY <1>5, <1>14, Zenon
<1>15. CASE KernelAccept
  BY <1>7, <1>15, Zenon DEF Completes
<1>16. CASE KernelRefuse
  BY <1>8, <1>16, ZenonT(30) DEF Completes
<1>17. CASE \E d \in Clients : KernelNoBufs(d)
  BY <1>9, <1>17 DEF Completes
<1>18. CASE \E d \in Clients : KernelRead(d)
  BY <1>10, <1>18, ZenonT(30)
<1>19. CASE \E d \in Clients, x \in Bids : KernelWrite(d, x)
  BY <1>11, <1>19, SMTT(30), Z3 DEF Completes
<1> QED
  BY <1>12, <1>13, <1>14, <1>15, <1>16, <1>17, <1>18, <1>19, Zenon DEF UringNext, UringServer, UringKernel

-----------------------------------------------------------------------------
\* Which entries and completions hold a buffer.
LEMMA EntriesHolding ==
  ASSUME NEW x
  PROVE  /\ One(ACCEPT, EntriesWith(x)) = 0
         /\ \A c \in Clients : One(READ(c), EntriesWith(x)) = 0
         /\ \A b : One(PROV_BUF(b), EntriesWith(x)) = (IF b = x THEN 1 ELSE 0)
         /\ \A c \in Clients : \A b :
              One(WRITE(c, b), EntriesWith(x)) = (IF b = x THEN 1 ELSE 0)
<1>1. ACCEPT \notin EntriesWith(x) /\ \A c \in Clients : READ(c) \notin EntriesWith(x)
  BY EntryTypes DEF EntriesWith
<1>2. \A c \in Clients : \A b : WRITE(c, b) \in EntriesWith(x) <=> b = x
  BY EntryTypes DEF EntriesWith
<1>3. \A b : PROV_BUF(b) \in EntriesWith(x) <=> b = x
  BY EntryTypes, SMTT(30), Z3 DEF EntriesWith
<1> QED
  BY <1>1, <1>2, <1>3, SMTT(30), Z3 DEF One

\* Which completions hold a buffer.
LEMMA CqesHolding ==
  ASSUME NEW x \in Nat
  PROVE  /\ One(Refusal, CqesWith(x)) = 0 /\ \A b : One(Provided(b), CqesWith(x)) = 0
         /\ \A c \in Clients : /\ One(Accepted(c), CqesWith(x)) = 0
                               /\ One(Starved(c), CqesWith(x)) = 0
         /\ \A c \in Clients : \A b :
              /\ One(Got(c, b), CqesWith(x)) = (IF b = x THEN 1 ELSE 0)
              /\ One(Ended(c, b), CqesWith(x)) = (IF b = x THEN 1 ELSE 0)
              /\ One(Sent(c, b), CqesWith(x)) = (IF b = x THEN 1 ELSE 0)
<1>1. ASSUME NEW e \in CqesWith(x)
      PROVE  e.bid = x /\ e.type \in {"READ", "WRITE"} /\ e.res \in {"ok", "end"}
  BY <1>1, CqeTypes, SMTT(30), Z3 DEF CqesWith
<1>2. ASSUME NEW c \in Clients, NEW b
      PROVE  /\ Accepted(c).type = "ACCEPT" /\ Starved(c).res = "ENOBUFS"
             /\ Got(c, b).bid = b /\ Ended(c, b).bid = b /\ Sent(c, b).bid = b
  BY CqeTypes DEF Accepted, Starved, Got, Ended, Sent
<1>3. Refusal.type = "ACCEPT" /\ \A b : Provided(b).type = "PROV_BUF"
  BY CqeTypes, SMTT(30), Z3 DEF Refusal, Provided
<1>4. /\ Refusal \notin CqesWith(x) /\ \A b : Provided(b) \notin CqesWith(x)
      /\ \A c \in Clients : Accepted(c) \notin CqesWith(x) /\ Starved(c) \notin CqesWith(x)
  BY <1>1, <1>2, <1>3, SMTT(30), Z3
<1>5. ASSUME NEW c \in Clients
      PROVE  Got(c, x) \in CqesWith(x) /\ Ended(c, x) \in CqesWith(x) /\ Sent(c, x) \in CqesWith(x)
  BY DEF CqesWith, Got, Ended, Sent
<1>6. ASSUME NEW c \in Clients, NEW b
      PROVE  /\ Got(c, b) \in CqesWith(x) <=> b = x
             /\ Ended(c, b) \in CqesWith(x) <=> b = x
             /\ Sent(c, b) \in CqesWith(x) <=> b = x
  <2>1. CASE b = x
    BY <1>5, <2>1, Zenon
  <2>2. CASE b # x
    BY <1>1, <1>2, <2>2, SMTT(30), Z3
  <2> QED
    BY <2>1, <2>2
<1> QED
  BY <1>4, <1>6, SMTT(30), Z3 DEF One

\* add_provide_buf at the start gives every buffer to the group.
LEMMA BuffersInit == Init => BuffersAccounted
<1> SUFFICES ASSUME Init, NEW b \in Bids
             PROVE  (IF b \in group THEN 1 ELSE 0) + InRings(EntriesWith(b), CqesWith(b)) = 1
  BY DEF BuffersAccounted
<1>1. b \in group /\ sq = <<ACCEPT>> /\ cq = <<>> /\ ops = {}
  BY DEF Init, UringInit
<1>2. sq \in Seq({ACCEPT}) /\ cq \in Seq({ACCEPT}) /\ Len(sq) = 1 /\ sq[1] = ACCEPT
  BY <1>1, SMTT(30), Z3
<1>3. ACCEPT \notin EntriesWith(b)
  BY EntryTypes DEF EntriesWith
<1>4. \A i \in 1 .. Len(sq) : sq[i] \notin EntriesWith(b)
  BY <1>2, <1>3
<1>5. Count(sq, EntriesWith(b)) = 0
  BY <1>2, <1>4, CountNone, 0 \in Nat
<1>6. Count(cq, CqesWith(b)) = 0
  BY <1>1, <1>2, CountNone, 0 \in Nat, Zenon
<1>7. Cardinality(ops \cap EntriesWith(b)) = 0
  <2>1. ops \cap EntriesWith(b) = {}
    BY <1>1
  <2> QED
    BY <2>1, FS_EmptySet
<1> QED
  BY <1>1, <1>5, <1>6, <1>7, SMTT(30), Z3 DEF InRings

\* The entries and completions of buffer b, before and after a step.
LEMMA InRingsWith ==
  ASSUME NEW b
  PROVE  /\ InRings(EntriesWith(b), CqesWith(b)) = Total(sq, ops, cq, EntriesWith(b), CqesWith(b))
         /\ InRings(EntriesWith(b), CqesWith(b))' = Total(sq', ops', cq', EntriesWith(b), CqesWith(b))
<1>1. EntriesWith(b)' = EntriesWith(b)
  BY SMTT(30), Z3 DEF EntriesWith, WRITE, PROV_BUF
<1>2. CqesWith(b)' = CqesWith(b)
  BY SMTT(30), Z3 DEF CqesWith, Cqe
<1> QED
  BY <1>1, <1>2, ZenonT(30) DEF InRings, Total

\* Where buffer b is, and what a step does to that.
LEMMA BufferStep ==
  ASSUME Types, Types', UringNext, gone' = "no", NEW b \in Bids,
         (IF b \in group THEN 1 ELSE 0) + InRings(EntriesWith(b), CqesWith(b)) = 1
  PROVE  (IF b \in group' THEN 1 ELSE 0) + InRings(EntriesWith(b), CqesWith(b))' = 1
<1> DEFINE E == EntriesWith(b)
           C == CqesWith(b)
           t == Total(sq, ops, cq, E, C)
           u == Total(sq', ops', cq', E, C)
           In(x) == IF x = b THEN 1 ELSE 0
<1>1. InRings(EntriesWith(b), CqesWith(b)) = t /\ InRings(EntriesWith(b), CqesWith(b))' = u
  BY InRingsWith, ZenonT(30)
<1>2. RingTypes /\ RingTypes' /\ b \in Nat /\ group \subseteq Bids
  BY Typed DEF Types, RingTypes
<1>5. /\ One(ACCEPT, E) = 0 /\ \A c \in Clients : One(READ(c), E) = 0
      /\ \A x : One(PROV_BUF(x), E) = In(x)
      /\ \A c \in Clients : \A x : One(WRITE(c, x), E) = In(x)
  BY EntriesHolding, Zenon
<1>6. /\ One(Refusal, C) = 0 /\ \A x : One(Provided(x), C) = 0
      /\ \A c \in Clients : One(Accepted(c), C) = 0 /\ One(Starved(c), C) = 0
      /\ \A c \in Clients : \A x : /\ One(Got(c, x), C) = In(x)
                                   /\ One(Ended(c, x), C) = In(x)
                                   /\ One(Sent(c, x), C) = In(x)
  BY <1>2, CqesHolding, Zenon
<1>7. t \in Nat /\ u \in Nat
  BY <1>2, Totals, Zenon
<1>8. (IF b \in group THEN 1 ELSE 0) + t = 1
  BY <1>1, Zenon
<1> SUFFICES (IF b \in group' THEN 1 ELSE 0) + u = 1
  BY <1>1, ZenonT(30)
<1> HIDE DEF E, C, In, t, u
<1>9. Issues(E, t, u) \/ Provides(E, C, t, u) \/ Rests(t, u) \/ Reaps(E, C, t, u) \/ Completes(E, C, t, u)
  BY Weights DEF t, u
<1>10. ASSUME group' = group, u = t
       PROVE  (IF b \in group' THEN 1 ELSE 0) + u = 1
  BY <1>8, <1>10, SMTT(30), Z3
<1>11. CASE Issues(E, t, u)
  <2>1. One(Head(sq), E) = (IF Head(sq) \in E THEN 1 ELSE 0)
    BY DEF One
  <2>2. u = t
    BY <1>7, <1>8, <1>11, <2>1, SMTT(30), Z3 DEF Issues
  <2> QED
    BY <1>10, <1>11, <2>2 DEF Issues, Issue
<1>12. CASE Provides(E, C, t, u)
  <2>1. PICK x \in Bids : group' = group \cup {x} /\ u = t - In(x) + 0
    BY <1>5, <1>6, <1>12, SMTT(30), Z3 DEF Provides, Provide
  <2> QED
    BY <1>7, <1>8, <2>1, SMTT(30), Z3 DEF In
<1>13. CASE Rests(t, u)
  BY <1>10, <1>13 DEF Rests, wait_cqe, cq_advance
<1>14. CASE Reaps(E, C, t, u)
  <2>1. group' = group /\ Handles(E, C, t, u)
    BY <1>14, ZenonT(30) DEF Reaps
  <2>2. \/ u = t - 0 + 0 + 0 \/ u = t - 0 + 0 \/ u = t - 0
        \/ \E x \in Bids : u = t - In(x) + In(x) \/ u = t - In(x) + In(x) + 0
    BY <1>5, <1>6, <2>1, ZenonT(30) DEF Handles
  <2>3. u = t
    BY <1>7, <2>2 DEF In
  <2> QED
    BY <1>10, <2>1, <2>3
<1>15. CASE Completes(E, C, t, u)
  <2>1. \/ group' = group /\ (u = t - 0 + 0 \/ \E x \in Bids : u = t - In(x) + In(x))
        \/ \E x \in group : group' = group \ {x} /\ u = t - 0 + In(x)
    BY <1>5, <1>6, <1>15, ZenonT(30) DEF Completes, KernelAccept, KernelRefuse, KernelNoBufs, KernelWrite
  <2>2. CASE group' = group /\ (u = t - 0 + 0 \/ \E x \in Bids : u = t - In(x) + In(x))
    <3>1. u = t
      BY <1>7, <2>2, SMTT(30), Z3 DEF In
    <3> QED
      BY <1>10, <2>2, <3>1
  <2>3. CASE \E x \in group : group' = group \ {x} /\ u = t - 0 + In(x)
    BY <1>7, <1>8, <2>3, SMTT(30), Z3 DEF In
  <2> QED
    BY <2>1, <2>2, <2>3, ZenonT(30)
<1> QED
  BY <1>9, <1>11, <1>12, <1>13, <1>14, <1>15, SMTT(30), Z3

\* No step loses a buffer or has it twice.
LEMMA BuffersStep ==
  ASSUME Types, Types', BuffersAccounted, [Next]_vars
  PROVE  BuffersAccounted'
<1> SUFFICES ASSUME gone' = "no", NEW b \in Bids'
             PROVE  (IF b \in group' THEN 1 ELSE 0) + InRings(EntriesWith(b), CqesWith(b))' = 1
  BY Zenon DEF BuffersAccounted
<1>1. gone = "no"
  BY GoneStays
<1>2. b \in Bids
  BY TypesStep, SameBids
<1>3. (IF b \in group THEN 1 ELSE 0) + InRings(EntriesWith(b), CqesWith(b)) = 1
  BY <1>1, <1>2 DEF BuffersAccounted
<1>4. CASE UringNext
  BY <1>2, <1>3, <1>4, BufferStep, ZenonT(30)
<1>5. CASE UNCHANGED uringVars
  <2>1. UNCHANGED <<sq, ops, cq, group>>
    BY <1>5 DEF uringVars
  <2> QED
    BY <1>3, <2>1, InRingsWith, Zenon
<1> QED
  BY <1>4, <1>5 DEF Next, vars

\* While the io_uring server runs, each of its BUFFERS_COUNT buffers is in exactly
\* one place: the kernel's group, one entry or one completion.  The server never
\* gives back a buffer whose echo is still being sent, and it loses none.
THEOREM EachBufferInOnePlace == Spec => []BuffersAccounted
<1>1. BuffersAccounted /\ Types /\ Types' /\ [Next]_vars => BuffersAccounted'
  BY BuffersStep
<1> QED
  BY <1>1, BuffersInit, TypesHold, PTL DEF Spec
=============================================================================
