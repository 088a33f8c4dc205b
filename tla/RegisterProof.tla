--------------------------- MODULE RegisterProof ----------------------------
(***************************************************************************)
(* Proofs about EscaRegister, for servers that fork one user worker after  *)
(* the other has left init_worker.                                         *)
(***************************************************************************)
EXTENDS EscaRegister, TLAPS

(***************************************************************************)
(* The inductive invariant, in six parts.  SetServed speaks of a user      *)
(* worker whose registration is complete; the invariant adds what holds    *)
(* while it is under way and after a kill.                                 *)
(***************************************************************************)
\* While the server runs, it and the kernel have the configuration of the file,
\* and without it there are no user workers.
ConfInv ==
  /\ running => uconf = file /\ kconf = file
  /\ ~running => \A p \in Procs : p \notin Live

\* No two user workers that are alive have one index.
IndexInv ==
  /\ \A p \in Live : idx[p] <= index
  /\ \A p, q \in Live : p # q => idx[p] # idx[q]

\* One user worker at a time is in init_worker, at a table of its own set, and
\* nobody else writes to shared_info_pinned_pages meanwhile.
SerialInv ==
  /\ \A p, q \in Procs : Registering(p) /\ Registering(q) => p = q
  /\ \A p \in Procs : Registering(p) \/ pc[p] = "loop" =>
       idx[p] < uconf.max_usr_worker
  /\ \A p \in Procs : Registering(p) => at[p] \in SetOf(p)
  /\ \A p \in Procs : pc[p] \in {"pin", "map"} => at[p] = First(p)
  /\ \A p \in Procs : pc[p] = "map" => pinned = p

\* A kernel worker serves a table of its process's set, and one that
\* init_worker is through with.
ThreadInv ==
  \A t \in threads :
    /\ t.proc \in Live
    /\ t.id \in SetOf(t.proc)
    /\ Registering(t.proc) => t.id < at[t.proc]

\* table[] leads to p's own headers for all of p's set.
Mapped(p) ==
  \/ pc[p] \in {"wait", "init", "loop"}
  \/ pc[p] = "call" /\ at[p] # First(p)

TableInv ==
  \A p \in Procs : Mapped(p) =>
    \A i \in SetOf(p) : table[i] = <<p, i - First(p)>>

\* The tables init_worker is through with have their entries and their worker.
DoneInv ==
  \A p \in Procs : Registering(p) \/ pc[p] = "loop" =>
    \A i \in SetOf(p) : pc[p] = "loop" \/ i < at[p] =>
      /\ pages[<<p, i - First(p)>>] = <<p, i>>
      /\ [proc |-> p, id |-> i] \in threads

RegInv ==
  ConfInv /\ IndexInv /\ SerialInv /\ ThreadInv /\ TableInv /\ DoneInv
-----------------------------------------------------------------------------
(***************************************************************************)
(* Facts about the sets of tables.                                         *)
(***************************************************************************)
\* A smaller index has its set before the set of a larger one.
LEMMA BlocksApart ==
  ASSUME NEW m \in Nat, NEW n \in Nat, NEW r \in Nat, m < n
  PROVE  m * r + r <= n * r
<1>1. PICK d \in Nat : n = m + 1 + d
  <2>1. n - m - 1 \in Nat /\ n = m + 1 + (n - m - 1)
    OBVIOUS
  <2> QED BY <2>1
<1>2. n * r = m * r + r + d * r
  BY <1>1
<1>3. d * r \in Nat /\ m * r \in Nat
  OBVIOUS
<1> QED BY <1>2, <1>3

\* In every configuration each user worker has at least one table, and the set
\* of every index below max_usr_worker lies inside table[].
LEMMA RatioFits ==
  ASSUME NEW c \in Configs
  PROVE  /\ RATIO(c) \in Nat \ {0}
         /\ \A n \in Nat : n < c.max_usr_worker =>
              n * RATIO(c) + RATIO(c) <= CPU_NUM_LIMIT
<1> DEFINE u == c.max_usr_worker
           k == c.max_ker_worker
           r == RATIO(c)
<1>1. u \in Nat \ {0} /\ k \in Nat \ {0} /\ u <= k /\ k <= CPU_NUM_LIMIT
  BY RegisterAssumption
<1>2. r = k \div u
  BY DEF RATIO
<1>3. CPU_NUM_LIMIT \in Nat
  BY RegisterAssumption
<1> HIDE DEF u, k, r
<1>4. r \in Int /\ u * r <= k /\ k < u * r + u
  BY <1>1, <1>2
<1>5. r \in Nat \ {0}
  <2>1. r <= 0 => u * r <= 0
    BY <1>1, <1>4
  <2> QED BY <2>1, <1>1, <1>4
<1>6. ASSUME NEW n \in Nat, n < u
      PROVE  n * r + r <= CPU_NUM_LIMIT
  <2>1. n * r + r <= u * r
    BY <1>1, <1>5, <1>6, BlocksApart
  <2>2. n * r \in Nat /\ u * r \in Nat
    BY <1>1, <1>5
  <2> QED BY <2>1, <2>2, <1>1, <1>3, <1>4, <1>5
<1> QED BY <1>5, <1>6 DEF u, r

\* While the server runs, every set begins at a number, the sets of the indices
\* below max_usr_worker lie inside table[], and sets of two indices are apart.
LEMMA Sets ==
  ASSUME TypeOK, ConfInv, running
  PROVE  /\ uconf \in Configs
         /\ RATIO(uconf) \in Nat \ {0}
         /\ \A p \in Procs : First(p) \in Nat
         /\ \A p \in Procs : idx[p] < uconf.max_usr_worker =>
              \A i \in SetOf(p) : i \in Ids /\ i - First(p) \in Ids
         /\ \A p, q \in Procs : idx[p] # idx[q] =>
              \A i \in SetOf(p) : i \notin SetOf(q)
<1>1. uconf \in Configs
  BY DEF TypeOK, ConfInv
<1>2. RATIO(uconf) \in Nat \ {0}
  BY <1>1, RatioFits
<1>3. \A p \in Procs : idx[p] \in Nat
  BY DEF TypeOK
<1> DEFINE r == RATIO(uconf)
<1>4. ASSUME NEW p \in Procs
      PROVE  First(p) = idx[p] * r /\ First(p) \in Nat
  <2> HIDE DEF r
  <2>1. First(p) = idx[p] * r
    BY DEF First, r
  <2>2. r \in Nat
    BY <1>2 DEF r
  <2> QED BY <2>1, <2>2, <1>3
<1>5. ASSUME NEW p \in Procs, idx[p] < uconf.max_usr_worker,
             NEW i \in SetOf(p)
      PROVE  i \in Ids /\ i - First(p) \in Ids
  <2>1. First(p) + r <= CPU_NUM_LIMIT
    BY <1>1, <1>3, <1>4, <1>5, RatioFits
  <2>2. i \in First(p) .. First(p) + r - 1
    BY <1>5 DEF SetOf
  <2> HIDE DEF r
  <2>3. r \in Nat /\ First(p) \in Nat /\ CPU_NUM_LIMIT \in Nat
    BY <1>2, <1>4, RegisterAssumption DEF r
  <2> QED BY <2>1, <2>2, <2>3 DEF Ids
<1>6. ASSUME NEW p \in Procs, NEW q \in Procs, idx[p] < idx[q]
      PROVE  First(p) + r <= First(q)
  BY <1>2, <1>3, <1>4, <1>6, BlocksApart
<1>7. ASSUME NEW p \in Procs, NEW q \in Procs, idx[p] # idx[q],
             NEW i \in SetOf(p)
      PROVE  i \notin SetOf(q)
  <2> HIDE DEF r
  <2>1. First(p) + r <= First(q) \/ First(q) + r <= First(p)
    <3>1. idx[p] < idx[q] \/ idx[q] < idx[p]
      BY <1>3, <1>7
    <3> QED BY <3>1, <1>6
  <2>2. i \in First(p) .. First(p) + r - 1
    BY <1>7 DEF SetOf, r
  <2>3. SetOf(q) = First(q) .. First(q) + r - 1
    BY DEF SetOf, r
  <2>4. r \in Nat /\ First(p) \in Nat /\ First(q) \in Nat
    BY <1>2, <1>4 DEF r
  <2> QED BY <2>1, <2>2, <2>3, <2>4
<1> QED BY <1>1, <1>2, <1>4, <1>5, <1>7

(***************************************************************************)
(* Every action preserves the invariant.                                   *)
(***************************************************************************)
\* The server's own steps other than Setup: the file and the kernel's
\* configuration change only between two runs, or to what they are.
LEMMA ServerKeeps ==
  ASSUME TypeOK, RegInv, EditFile \/ Stop \/ OtherSetup
  PROVE  TypeOK' /\ RegInv'
<1>1. UNCHANGED <<uconf, index, pc, idx, at, pinned, table, pages, threads>>
  BY DEF EditFile, Stop, OtherSetup, server
<1>2. TypeOK'
  BY <1>1, ZenonT(60) DEF TypeOK, EditFile, Stop, OtherSetup, server
<1>3. ConfInv'
  BY <1>1 DEF RegInv, ConfInv, EditFile, Stop, OtherSetup, server, Live
<1>4. IndexInv' /\ SerialInv' /\ ThreadInv' /\ TableInv' /\ DoneInv'
  BY <1>1 DEF RegInv, IndexInv, SerialInv, ThreadInv, TableInv, DoneInv, Live,
              Registering, Mapped, First, SetOf
<1> QED BY <1>2, <1>3, <1>4 DEF RegInv

\* Setup: there are no user workers yet that the new configuration could upset.
LEMMA SetupKeeps ==
  ASSUME TypeOK, RegInv, Setup
  PROVE  TypeOK' /\ RegInv'
<1>1. TypeOK'
  BY DEF TypeOK, Setup
<1>2. \A p \in Procs : pc'[p] \in {"unborn", "gone"}
  BY DEF RegInv, ConfInv, Setup, Live
<1>3. \A p \in Procs : p \notin Live' /\ ~Registering(p)' /\ ~Mapped(p)'
  BY <1>2 DEF Live, Registering, Mapped
<1>4. threads' = {}
  BY DEF RegInv, ConfInv, ThreadInv, Setup, Live
<1>5. ConfInv' /\ IndexInv'
  BY <1>3 DEF ConfInv, IndexInv, Setup, Live
<1>6. SerialInv' /\ ThreadInv' /\ TableInv' /\ DoneInv'
  BY <1>2, <1>3, <1>4 DEF SerialInv, ThreadInv, TableInv, DoneInv
<1> QED BY <1>1, <1>5, <1>6 DEF RegInv

\* The steps of p that move its position alone.
LEMMA MoveKeeps ==
  ASSUME TypeOK, RegInv, NEW p \in Procs,
         \/ Register(p) \/ AllocFails(p) \/ AwaitHeader(p)
         \/ Kill(p) \/ Reap(p)
  PROVE  TypeOK' /\ RegInv'
<1> DEFINE moved ==
      \/ pc[p] = "call" /\ at[p] = First(p) /\ pc'[p] = "pin"
      \/ pc[p] = "call" /\ at[p] # First(p) /\ pc'[p] = "wait"
      \/ pc[p] = "wait" /\ pc'[p] = "init"
      \/ pc[p] \in {"call", "loop", "bare"} /\ pc'[p] \in {"bare", "killed"}
      \/ /\ pc[p] = "killed" /\ pc'[p] = "gone"
         /\ \A t \in threads : t.proc # p
<1>1. UNCHANGED <<server, kconf, idx, at, pinned, table, pages, threads>>
  BY DEF Register, AllocFails, AwaitHeader, Kill, Reap
<1>2. moved /\ \A q \in Procs : q # p => pc'[q] = pc[q]
  BY DEF Register, AllocFails, AwaitHeader, Kill, Reap, TypeOK
<1>3. \A q \in Procs : First(q)' = First(q) /\ SetOf(q)' = SetOf(q)
  BY <1>1 DEF First, SetOf, server
<1>4. TypeOK'
  <2>1. pc' \in [Procs -> Pcs]
    BY DEF Register, AllocFails, AwaitHeader, Kill, Reap, TypeOK, Pcs
  <2> QED BY <1>1, <2>1 DEF TypeOK, server
<1>5. \A q \in Procs : /\ q \in Live' => q \in Live
                       /\ Registering(q)' => Registering(q)
                       /\ Mapped(q)' => Mapped(q)
  BY <1>1, <1>2, <1>3 DEF Live, Registering, Mapped
<1>6. ConfInv' /\ IndexInv'
  BY <1>1, <1>5 DEF RegInv, ConfInv, IndexInv, server, Live
<1>7. SerialInv'
  <2>1. \A q \in Procs : pc'[q] = "loop" => pc[q] = "loop"
    BY <1>2
  <2>2. \A q \in Procs : pc'[q] = "map" => pc[q] = "map"
    BY <1>2
  <2>3. \A q \in Procs : pc'[q] \in {"pin", "map"} => at[q] = First(q)
    BY <1>2 DEF RegInv, SerialInv
  <2> QED BY <1>1, <1>3, <1>5, <2>1, <2>2, <2>3 DEF RegInv, SerialInv, server
<1>8. ThreadInv'
  <2>1. \A t \in threads : t.proc \in Procs /\ t.proc \in Live'
    BY <1>2 DEF RegInv, ThreadInv, Live
  <2> QED BY <1>1, <1>3, <1>5, <2>1 DEF RegInv, ThreadInv
<1>9. TableInv'
  BY <1>1, <1>3, <1>5 DEF RegInv, TableInv
<1>10. DoneInv'
  <2>1. \A q \in Procs : pc'[q] = "loop" => pc[q] = "loop"
    BY <1>2
  <2> QED BY <1>1, <1>3, <1>5, <2>1 DEF RegInv, DoneInv
<1> QED BY <1>4, <1>6, <1>7, <1>8, <1>9, <1>10 DEF RegInv

\* PinHeader: no other user worker is about to read what it overwrites.
LEMMA PinHeaderKeeps ==
  ASSUME TypeOK, RegInv, NEW p \in Procs, PinHeader(p)
  PROVE  TypeOK' /\ RegInv'
<1>1. \A q \in Procs : First(q)' = First(q) /\ SetOf(q)' = SetOf(q)
  BY DEF First, SetOf, PinHeader, server
<1>2. TypeOK'
  BY DEF TypeOK, PinHeader, server, Pcs
<1>3. SerialInv'
  BY <1>1 DEF RegInv, SerialInv, Registering, TypeOK, PinHeader, server
<1>4. ConfInv' /\ IndexInv' /\ ThreadInv'
  BY <1>1, Zenon DEF RegInv, ConfInv, IndexInv, ThreadInv, TypeOK, PinHeader,
                        server, Live, Registering
<1>5. TableInv' /\ DoneInv'
  BY <1>1, ZenonT(30) DEF RegInv, TableInv, DoneInv, TypeOK, PinHeader, server,
                        Registering, Mapped
<1> QED BY <1>2, <1>3, <1>4, <1>5 DEF RegInv

\* ExitWorker: a killed process is no longer promised its kernel workers.
LEMMA ExitWorkerKeeps ==
  ASSUME TypeOK, RegInv, NEW p \in Procs, ExitWorker(p)
  PROVE  TypeOK' /\ RegInv'
<1>1. \A q \in Procs : First(q)' = First(q) /\ SetOf(q)' = SetOf(q)
  BY DEF First, SetOf, ExitWorker, server
<1>2. PICK t \in threads : t.proc = p /\ threads' = threads \ {t}
  BY DEF ExitWorker
<1>3. TypeOK'
  BY <1>2, Zenon DEF TypeOK, ExitWorker, server
<1>4. DoneInv'
  <2>1. \A q \in Procs : Registering(q) \/ pc[q] = "loop" => q # p
    BY DEF ExitWorker, Registering
  <2>2. \A q \in Procs : \A i \in SetOf(q) : q # p =>
          [proc |-> q, id |-> i] # t
    BY <1>2
  <2>3. DoneInv /\ UNCHANGED <<pc, at, pages>>
    BY DEF RegInv, ExitWorker
  <2>4. \A q \in Procs : Registering(q)' => Registering(q)
    BY <2>3 DEF Registering
  <2> SUFFICES ASSUME NEW q \in Procs, Registering(q) \/ pc[q] = "loop",
                      NEW i \in SetOf(q), pc[q] = "loop" \/ i < at[q]
               PROVE  /\ pages[<<q, i - First(q)>>] = <<q, i>>
                      /\ [proc |-> q, id |-> i] \in threads \ {t}
    BY <1>1, <1>2, <2>3, <2>4 DEF DoneInv
  <2> QED BY <2>1, <2>2, <2>3, Zenon DEF DoneInv
<1>5. ConfInv' /\ IndexInv' /\ TableInv'
  BY <1>1, Zenon DEF RegInv, ConfInv, IndexInv, TableInv, ExitWorker, server,
                        Live, Mapped
<1>6. SerialInv' /\ ThreadInv'
  BY <1>1, <1>2, Zenon DEF RegInv, SerialInv, ThreadInv, ExitWorker, server,
                              Live, Registering
<1> QED BY <1>3, <1>4, <1>5, <1>6 DEF RegInv

\* The kernel fills table[] for the whole set of the caller, with headers of
\* the caller's own page, and for no other table (MapHeader).
LEMMA MapHeaderFills ==
  ASSUME TypeOK, RegInv, NEW p \in Procs, MapHeader(p)
  PROVE  /\ running
         /\ table' = [i \in Ids |-> IF i \in SetOf(p)
                                    THEN <<p, i - First(p)>> ELSE table[i]]
<1>1. running /\ kconf = uconf
  BY DEF RegInv, ConfInv, Live, MapHeader
<1>2. at[p] = First(p) /\ pinned = p
  BY DEF RegInv, SerialInv, MapHeader
<1> QED BY <1>1, <1>2 DEF MapHeader, SetOf

\* MapHeader: the tables of other sets stay as they are.
LEMMA MapHeaderKeeps ==
  ASSUME TypeOK, RegInv, NEW p \in Procs, MapHeader(p)
  PROVE  TypeOK' /\ RegInv'
<1>1. \A q \in Procs : First(q)' = First(q) /\ SetOf(q)' = SetOf(q)
  BY DEF First, SetOf, MapHeader, server
<1>2. running /\ table' = [i \in Ids |-> IF i \in SetOf(p)
                                       THEN <<p, i - First(p)>> ELSE table[i]]
  BY MapHeaderFills
<1>3. \A q \in Procs : Registering(q) \/ pc[q] = "loop" =>
        /\ q \in Live
        /\ \A i \in SetOf(q) : i \in Ids /\ i - First(q) \in Ids
  BY <1>2, Sets DEF RegInv, SerialInv, Registering, Live
<1>4. TypeOK'
  <2>1. \A i \in SetOf(p) : <<p, i - First(p)>> \in Headers
    BY <1>3 DEF MapHeader, Registering, Headers
  <2>2. table' \in [Ids -> Headers \cup {None}]
    BY <1>2, <2>1 DEF TypeOK
  <2> QED BY <2>2 DEF TypeOK, MapHeader, server, Pcs
<1>5. ConfInv' /\ IndexInv' /\ SerialInv' /\ ThreadInv' /\ DoneInv'
  <2>1. ConfInv' /\ IndexInv'
    BY <1>1 DEF RegInv, ConfInv, IndexInv, TypeOK, MapHeader, server, Live
  <2>2. SerialInv' /\ ThreadInv'
    BY <1>1, Zenon DEF RegInv, SerialInv, ThreadInv, TypeOK, MapHeader, server,
                          Live, Registering
  <2>3. DoneInv'
    BY <1>1 DEF RegInv, DoneInv, TypeOK, MapHeader, server, Registering
  <2> QED BY <2>1, <2>2, <2>3
<1>6. TableInv'
  <2> SUFFICES ASSUME NEW q \in Procs, Mapped(q)', NEW i \in SetOf(q)
               PROVE  table'[i] = <<q, i - First(q)>>
    BY <1>1 DEF TableInv
  <2>1. CASE q = p
    BY <2>1, <1>2, <1>3 DEF MapHeader, Registering
  <2>2. CASE q # p
    <3>1. Mapped(q)
      BY <1>1, <2>2 DEF Mapped, MapHeader, TypeOK
    <3>2. q \in Live /\ p \in Live /\ i \in Ids
      BY <3>1, <1>3 DEF Mapped, Registering, MapHeader
    <3>3. i \notin SetOf(p)
      BY <3>2, <2>2, <1>2, Sets DEF RegInv, IndexInv
    <3> QED BY <3>1, <3>2, <3>3, <1>2 DEF RegInv, TableInv
  <2> QED BY <2>1, <2>2
<1> QED BY <1>4, <1>5, <1>6 DEF RegInv

\* InitTable: the table p stands at gets its entries and its kernel worker.
LEMMA InitTableKeeps ==
  ASSUME TypeOK, RegInv, NEW p \in Procs, InitTable(p)
  PROVE  TypeOK' /\ RegInv'
<1> DEFINE r == RATIO(uconf)
           last == First(p) + r - 1
<1>1. \A q \in Procs : First(q)' = First(q) /\ SetOf(q)' = SetOf(q)
  BY DEF First, SetOf, InitTable, server
<1>2. running
  BY DEF RegInv, ConfInv, Live, InitTable
<1>3. \A q \in Procs : Registering(q) \/ pc[q] = "loop" =>
        \A i \in SetOf(q) : i \in Ids /\ i - First(q) \in Ids
  BY <1>2, Sets DEF RegInv, SerialInv, Registering
<1>4. /\ r \in Nat /\ First(p) \in Nat /\ at[p] \in Nat
      /\ SetOf(p) = First(p) .. last /\ at[p] \in SetOf(p)
  <2>1. at[p] \in SetOf(p) /\ at[p] \in Nat
    BY DEF RegInv, SerialInv, InitTable, Registering, TypeOK, Ids
  <2>2. ConfInv
    BY DEF RegInv
  <2> QED BY <1>2, <2>1, <2>2, Sets, Zenon DEF SetOf
<1>5. table[at[p]] = <<p, at[p] - First(p)>>
  BY <1>4 DEF RegInv, TableInv, Mapped, InitTable
<1> HIDE DEF r, last
<1>6. \/ at[p] < last /\ at' = [at EXCEPT ![p] = @ + 1]
         /\ pc' = [pc EXCEPT ![p] = "call"]
      \/ at[p] = last /\ at' = at /\ pc' = [pc EXCEPT ![p] = "loop"]
  BY <1>4 DEF InitTable, last, r
<1>7. last \in Int
  BY <1>4 DEF last
<1>8. TypeOK'
  <2>1. at[p] \in Ids /\ <<p, at[p]>> \in Headers
    BY <1>3, <1>4, Zenon DEF InitTable, Registering, Headers
  <2>2. at[p] < last => at[p] + 1 \in Ids
    <3>1. at[p] < last => at[p] + 1 \in SetOf(p)
      BY <1>4, <1>7
    <3> QED BY <3>1, <1>3 DEF InitTable, Registering
  <2>3. at' \in [Procs -> Ids] /\ pc' \in [Procs -> Pcs]
    BY <1>6, <2>2 DEF TypeOK, Pcs
  <2>4. pages' \in [Headers -> Headers \cup {None}]
    BY <2>1, Zenon DEF InitTable, TypeOK
  <2>5. threads' \subseteq [proc : Procs, id : Ids]
    BY <2>1 DEF InitTable, TypeOK
  <2> QED BY <2>3, <2>4, <2>5 DEF TypeOK, InitTable, server
<1>9. ConfInv' /\ IndexInv'
  BY <1>6 DEF RegInv, ConfInv, IndexInv, TypeOK, InitTable, server, Live
<1>10. SerialInv'
  <2>1. at[p] < last => at[p] + 1 \in SetOf(p)
    BY <1>4, <1>7
  <2> QED BY <1>1, <1>6, <2>1 DEF RegInv, SerialInv, TypeOK, InitTable,
                                  server, Registering
<1>11. ThreadInv'
  <2>1. \A t \in threads : t.id \in Nat
    BY DEF TypeOK, Ids
  <2>2. \A q \in Live : q \in Procs /\ q \in Live'
    BY <1>6 DEF Live, TypeOK
  <2>3. p \in Live
    BY DEF InitTable, Live
  <2>4. \A q \in Procs : q = p =>
          Registering(q) /\ (Registering(q)' => at'[q] = at[p] + 1)
    BY <1>6 DEF Registering, InitTable, TypeOK
  <2>5. \A q \in Procs : q # p => at'[q] = at[q]
                                 /\ (Registering(q)' => Registering(q))
    BY <1>6 DEF Registering, TypeOK
  <2> SUFFICES ASSUME NEW t \in threads'
               PROVE  /\ t.proc \in Live'
                      /\ t.id \in SetOf(t.proc)'
                      /\ Registering(t.proc)' => t.id < at'[t.proc]
    BY DEF ThreadInv
  <2>6. CASE t = [proc |-> p, id |-> at[p]]
    <3>1. t.proc = p /\ t.id = at[p]
      BY <2>6
    <3>2. t.proc \in Procs /\ t.proc \in Live /\ t.id \in SetOf(t.proc)
      BY <3>1, <2>3, <1>4
    <3>3. t.proc \in Live' /\ t.id \in SetOf(t.proc)'
      BY <3>2, <2>2, <1>1
    <3>4. Registering(t.proc)' => t.id < at'[t.proc]
      BY <3>1, <3>2, <2>4, <1>4
    <3> QED BY <3>3, <3>4
  <2>7. CASE t \in threads
    <3>1. /\ t.proc \in Live /\ t.id \in SetOf(t.proc)
          /\ Registering(t.proc) => t.id < at[t.proc]
      BY <2>7 DEF RegInv, ThreadInv
    <3>2. CASE t.proc = p
      <4>1. t.proc \in Live' /\ t.id \in SetOf(t.proc)'
        BY <3>1, <2>2, <1>1
      <4>2. t.id < at[p] /\ t.id \in Nat
        BY <3>1, <3>2, <2>1, <2>4, <2>7
      <4>3. Registering(t.proc)' => t.id < at'[t.proc]
        BY <4>2, <3>2, <2>4, <1>4
      <4> QED BY <4>1, <4>3
    <3>3. CASE t.proc # p
      BY <3>1, <3>3, <2>2, <2>5, <1>1, Zenon
    <3> QED BY <3>2, <3>3
  <2> QED BY <2>6, <2>7 DEF InitTable
<1>12. TableInv'
  <2>1. \A q \in Procs : Mapped(q)' => Mapped(q)
    BY <1>1, <1>6, Zenon DEF Mapped, TypeOK, InitTable
  <2> QED BY <1>1, <2>1 DEF RegInv, TableInv, InitTable
<1>13. DoneInv'
  <2> SUFFICES ASSUME NEW q \in Procs, Registering(q)' \/ pc'[q] = "loop",
                      NEW i \in SetOf(q), pc'[q] = "loop" \/ i < at'[q]
               PROVE  /\ pages'[<<q, i - First(q)>>] = <<q, i>>
                      /\ [proc |-> q, id |-> i] \in threads'
    BY <1>1 DEF DoneInv
  <2>1. Registering(q) \/ pc[q] = "loop"
    BY <1>6 DEF Registering, TypeOK, InitTable
  <2>2. i \in Ids /\ <<q, i - First(q)>> \in Headers
    BY <2>1, <1>3, SMTT(30), Z3 DEF Headers
  <2>3. pages' = [pages EXCEPT ![<<p, at[p] - First(p)>>] = <<p, at[p]>>]
    BY <1>5 DEF InitTable
  <2>4. CASE q = p /\ i = at[p]
    BY <2>2, <2>3, <2>4 DEF InitTable, TypeOK
  <2>5. CASE q # p
    <3>1. pc[q] = "loop" \/ i < at[q]
      BY <1>6, <2>5 DEF TypeOK
    <3>2. pages[<<q, i - First(q)>>] = <<q, i>>
          /\ [proc |-> q, id |-> i] \in threads
      BY <2>1, <3>1, Zenon DEF RegInv, DoneInv
    <3> QED BY <2>2, <2>3, <2>5, <3>2, Zenon DEF InitTable, TypeOK
  <2>6. CASE q = p /\ i # at[p]
    <3>1. i < at[p]
      <4>1. i \in Int /\ i <= last
        BY <2>6, <1>4, <1>7, SMTT(60), Z3
      <4>2. at[p] = last \/ (i < at[p] + 1)
        BY <1>6, <2>6, Zenon DEF TypeOK, InitTable, Registering
      <4> QED BY <4>1, <4>2, <2>6, <1>4, <1>7
    <3>2. pages[<<q, i - First(q)>>] = <<q, i>>
          /\ [proc |-> q, id |-> i] \in threads
      BY <2>1, <2>6, <3>1, Zenon DEF RegInv, DoneInv
    <3>3. i - First(p) # at[p] - First(p)
      BY <3>1, <2>2, <1>4 DEF Ids
    <3> QED BY <2>2, <2>3, <2>6, <3>2, <3>3 DEF InitTable, TypeOK
  <2> QED BY <2>4, <2>5, <2>6
<1> QED BY <1>8, <1>9, <1>10, <1>11, <1>12, <1>13 DEF RegInv

\* Fork: the new user worker gets an index nobody has, and a set of its own.
LEMMA ForkKeeps ==
  ASSUME TypeOK, RegInv, ~ForkOverlap, NEW p \in Procs, Fork(p)
  PROVE  TypeOK' /\ RegInv'
<1> DEFINE n == index + 1
           r == RATIO(uconf)
<1>1. /\ running /\ p \notin Live /\ n \in Nat
      /\ \A q \in Procs : ~Registering(q)
  BY DEF Fork, Live, TypeOK
<1>2. /\ r \in Nat \ {0} /\ n * r \in Nat
      /\ n < uconf.max_usr_worker => n * r + r <= CPU_NUM_LIMIT
  <2>1. r \in Nat \ {0} /\ (n < uconf.max_usr_worker =>
                              n * r + r <= CPU_NUM_LIMIT)
    BY <1>1, RatioFits, Sets, Zenon DEF RegInv
  <2> HIDE DEF n, r
  <2> QED BY <1>1, <2>1
<1>3. \A q \in Procs : q # p => First(q)' = First(q) /\ SetOf(q)' = SetOf(q)
  BY DEF First, SetOf, Fork, TypeOK
<1>4. First(p)' = n * r /\ SetOf(p)' = n * r .. n * r + r - 1
  BY DEF First, SetOf, Fork, TypeOK
<1>5. /\ idx' = [idx EXCEPT ![p] = n] /\ index' = n
      /\ \/ /\ n < uconf.max_usr_worker
            /\ at' = [at EXCEPT ![p] = n * r]
            /\ pc' = [pc EXCEPT ![p] = "call"]
         \/ pc' = [pc EXCEPT ![p] = "bare"] /\ at' = at
  BY DEF Fork
<1>6. UNCHANGED <<file, running, uconf, kconf, pinned, table, pages, threads>>
  BY DEF Fork
<1>7. /\ \A q \in Procs : q # p =>
           pc'[q] = pc[q] /\ at'[q] = at[q] /\ idx'[q] = idx[q]
      /\ idx'[p] = n /\ pc'[p] \in {"call", "bare"}
      /\ pc'[p] = "call" => at'[p] = n * r /\ n < uconf.max_usr_worker
  BY <1>5 DEF TypeOK
<1> HIDE DEF n, r
<1>8. TypeOK'
  <2>1. n < uconf.max_usr_worker => n * r \in Ids
    BY <1>2, RegisterAssumption DEF Ids
  <2>2. at' \in [Procs -> Ids]
    BY <1>5, <2>1 DEF TypeOK
  <2>3. pc' \in [Procs -> Pcs] /\ idx' \in [Procs -> Nat] /\ index' \in Nat
    BY <1>1, <1>5 DEF TypeOK, Pcs
  <2> QED BY <2>2, <2>3, <1>6 DEF TypeOK
<1>9. ConfInv'
  BY <1>1, <1>6 DEF RegInv, ConfInv
<1>10. IndexInv'
  <2>1. \A q \in Live' : q # p => q \in Live /\ idx'[q] <= index
    BY <1>7, Zenon DEF Live, RegInv, IndexInv
  <2>2. \A q \in Live' : q # p => idx'[q] < n /\ idx'[q] \in Nat
    BY <2>1, <1>7 DEF n, TypeOK, Live
  <2>3. \A q \in Live' : idx'[q] <= index'
    BY <2>2, <1>1, <1>5, <1>7, SMTT(60), Z3
  <2>4. \A q1, q2 \in Live' : q1 # q2 => idx'[q1] # idx'[q2]
    BY <2>1, <2>2, <1>1, <1>7, SMTT(60), Z3 DEF RegInv, IndexInv, Live
  <2> QED BY <2>3, <2>4 DEF IndexInv
<1>11. SerialInv'
  <2>1. \A q \in Procs : Registering(q)' => q = p /\ pc'[p] = "call"
    BY <1>1, <1>7, Zenon DEF Registering
  <2>2. \A q \in Procs : pc'[q] = "loop" => q # p /\ pc[q] = "loop"
    BY <1>7, Zenon
  <2>3. pc'[p] = "call" => at'[p] \in SetOf(p)'
    BY <1>2, <1>4, <1>7
  <2>4. \A q \in Procs : pc'[q] \notin {"pin", "map"}
    BY <1>1, <1>7 DEF Registering
  <2> QED BY <2>1, <2>2, <2>3, <2>4, <1>6, <1>7, ZenonT(60) DEF RegInv, SerialInv
<1>12. ThreadInv'
  <2>1. \A t \in threads : t.proc \in Procs /\ t.proc # p
    BY <1>1 DEF RegInv, ThreadInv, Live
  <2>2. \A q \in Procs : q # p /\ q \in Live => q \in Live' /\ ~Registering(q)'
    BY <1>1, <1>7 DEF Live, Registering
  <2> QED BY <2>1, <2>2, <1>3, <1>6 DEF RegInv, ThreadInv
<1>13. TableInv'
  <2>1. ~Mapped(p)'
    BY <1>4, <1>7 DEF Mapped
  <2>2. \A q \in Procs : q # p /\ Mapped(q)' => Mapped(q)
    BY <1>3, <1>7, Zenon DEF Mapped
  <2> QED BY <2>1, <2>2, <1>3, <1>6 DEF RegInv, TableInv
<1>14. DoneInv'
  <2>1. \A i \in SetOf(p)' : pc'[p] = "call" => ~(i < at'[p])
    BY <1>2, <1>4, <1>7
  <2>2. \A q \in Procs : Registering(q)' \/ pc'[q] = "loop" =>
          \/ q = p /\ pc'[p] = "call"
          \/ q # p /\ pc'[q] = "loop" /\ pc[q] = "loop"
    BY <1>1, <1>7 DEF Registering
  <2> QED BY <2>1, <2>2, <1>3, <1>6 DEF RegInv, DoneInv
<1> QED BY <1>8, <1>9, <1>10, <1>11, <1>12, <1>13, <1>14 DEF RegInv
-----------------------------------------------------------------------------
\* The invariant holds at the start and every step preserves it.
LEMMA RegInvInductive ==
  ASSUME ~ForkOverlap
  PROVE  /\ Init => TypeOK /\ RegInv
         /\ TypeOK /\ RegInv /\ [Next]_vars => TypeOK' /\ RegInv'
<1>1. ASSUME Init PROVE TypeOK /\ RegInv
  <2>1. \A p \in Procs : p \notin Live /\ ~Registering(p) /\ ~Mapped(p)
                         /\ pc[p] = "unborn"
    BY <1>1 DEF Init, Live, Registering, Mapped
  <2>2. TypeOK
    <3>1. 0 \in Ids
      <4>1. \A c \in Configs : c.max_usr_worker \in Nat \ {0}
                               /\ c.max_usr_worker <= CPU_NUM_LIMIT
        BY RegisterAssumption
      <4> QED BY <1>1, <4>1, RegisterAssumption DEF Init, Ids
    <3> QED BY <1>1, <3>1, Zenon DEF Init, TypeOK, Pcs
  <2>3. ConfInv /\ IndexInv
    BY <1>1, <2>1 DEF Init, ConfInv, IndexInv, Live
  <2>4. SerialInv /\ ThreadInv /\ TableInv /\ DoneInv
    BY <1>1, <2>1 DEF Init, SerialInv, ThreadInv, TableInv, DoneInv
  <2> QED BY <2>2, <2>3, <2>4 DEF RegInv
<1>2. ASSUME TypeOK, RegInv, [Next]_vars PROVE TypeOK' /\ RegInv'
  <2>1. CASE EditFile \/ Stop \/ OtherSetup
    BY <1>2, <2>1, ServerKeeps
  <2>2. CASE Setup
    BY <1>2, <2>2, SetupKeeps
  <2>3. ASSUME NEW p \in Procs, Fork(p) PROVE TypeOK' /\ RegInv'
    BY <1>2, <2>3, ForkKeeps
  <2>4. ASSUME NEW p \in Procs,
               \/ Register(p) \/ AllocFails(p) \/ AwaitHeader(p)
               \/ Kill(p) \/ Reap(p)
        PROVE  TypeOK' /\ RegInv'
    BY <1>2, <2>4, MoveKeeps
  <2>5. ASSUME NEW p \in Procs, PinHeader(p) PROVE TypeOK' /\ RegInv'
    BY <1>2, <2>5, PinHeaderKeeps
  <2>6. ASSUME NEW p \in Procs, MapHeader(p) PROVE TypeOK' /\ RegInv'
    BY <1>2, <2>6, MapHeaderKeeps, Zenon
  <2>7. ASSUME NEW p \in Procs, InitTable(p) PROVE TypeOK' /\ RegInv'
    BY <1>2, <2>7, InitTableKeeps
  <2>8. ASSUME NEW p \in Procs, ExitWorker(p) PROVE TypeOK' /\ RegInv'
    BY <1>2, <2>8, ExitWorkerKeeps
  <2>9. CASE UNCHANGED vars
    <3>1. \A p \in Procs : First(p)' = First(p) /\ SetOf(p)' = SetOf(p)
      BY <2>9 DEF First, SetOf, vars, server
    <3>2. TypeOK' /\ ConfInv' /\ IndexInv'
      BY <1>2, <2>9, Zenon DEF TypeOK, RegInv, ConfInv, IndexInv, Live, vars, server
    <3>3. SerialInv' /\ ThreadInv'
      <4>1. SerialInv /\ ThreadInv
        BY <1>2, Zenon DEF RegInv
      <4>2. SerialInv'
        BY <2>9, <3>1, <4>1, Zenon DEF SerialInv, Live, Registering, vars, server
      <4>3. ThreadInv'
        BY <2>9, <3>1, <4>1, Zenon DEF ThreadInv, Live, Registering, vars, server
      <4> QED
        BY <4>2, <4>3
    <3>4. TableInv'
      BY <1>2, <2>9, <3>1 DEF RegInv, TableInv, Mapped, vars, server
    <3>5. DoneInv'
      BY <1>2, <2>9, <3>1 DEF RegInv, DoneInv, Registering, vars, server
    <3> QED BY <3>2, <3>3, <3>4, <3>5 DEF RegInv
  <2> QED BY <1>2, <2>1, <2>2, <2>3, <2>4, <2>5, <2>6, <2>7, <2>8, <2>9
          DEF Next, InitWorker
<1> QED BY <1>1, <1>2

\* Two kernel workers of one table belong to one process.
LEMMA OneServer ==
  ASSUME TypeOK, RegInv, NEW p \in Live, NEW t \in threads,
         t.id \in SetOf(p)
  PROVE  t.proc = p
<1>1. running /\ p \in Procs
  BY DEF RegInv, ConfInv, Live
<1>2. t.proc \in Live /\ t.proc \in Procs /\ t.id \in SetOf(t.proc)
  BY DEF RegInv, ThreadInv, Live
<1>3. idx[t.proc] = idx[p]
  BY <1>1, <1>2, Sets DEF RegInv
<1> QED BY <1>2, <1>3 DEF RegInv, IndexInv

\* The invariant says what SetServed says.
LEMMA RegInvServes ==
  ASSUME TypeOK, RegInv
  PROVE  SetServed
<1> SUFFICES ASSUME NEW p \in Procs, pc[p] = "loop", NEW i \in SetOf(p)
             PROVE  /\ table[i] = <<p, i - First(p)>>
                    /\ pages[table[i]] = <<p, i>>
                    /\ {t \in threads : t.id = i} = {[proc |-> p, id |-> i]}
  BY DEF SetServed
<1>1. table[i] = <<p, i - First(p)>>
  BY DEF RegInv, TableInv, Mapped
<1>2. /\ pages[<<p, i - First(p)>>] = <<p, i>>
      /\ [proc |-> p, id |-> i] \in threads
  BY DEF RegInv, DoneInv
<1>3. p \in Live
  BY DEF Live
<1>4. ASSUME NEW t \in threads, t.id = i
      PROVE  t = [proc |-> p, id |-> i]
  <2>1. t.proc = p
    BY <1>3, <1>4, OneServer, Zenon
  <2> QED BY <2>1, <1>4 DEF TypeOK
<1>5. {t \in threads : t.id = i} = {[proc |-> p, id |-> i]}
  BY <1>2, <1>4
<1> QED BY <1>1, <1>2, <1>5

\* A step of a server that forks one user worker at a time keeps table[] for
\* every kernel worker there is.
LEMMA StepKeepsTable ==
  ASSUME TypeOK, RegInv, [Next]_vars
  PROVE  \A t \in threads : table'[t.id] = table[t.id]
<1>1. ASSUME NEW p \in Procs, MapHeader(p), NEW t \in threads
      PROVE  table'[t.id] = table[t.id]
  <2>1. p \in Live /\ Registering(p) /\ at[p] = First(p)
    BY <1>1 DEF MapHeader, Live, Registering, RegInv, SerialInv
  <2>2. running /\ table' = [i \in Ids |-> IF i \in SetOf(p)
                                        THEN <<p, i - First(p)>> ELSE table[i]]
    BY <1>1, MapHeaderFills
  <2>3. t.id \notin SetOf(p)
    <3> SUFFICES ASSUME t.id \in SetOf(p) PROVE FALSE
      OBVIOUS
    <3>1. t.proc = p
      BY <1>1, <2>1, OneServer
    <3>2. t.id < First(p)
      BY <2>1, <3>1 DEF RegInv, ThreadInv
    <3>3. First(p) \in Nat /\ RATIO(uconf) \in Nat
      BY <2>2, Sets DEF RegInv
    <3> QED BY <3>2, <3>3 DEF SetOf
  <2> QED BY <2>2, <2>3 DEF TypeOK
<1>2. CASE UNCHANGED table
  BY <1>2, Zenon
<1>3. (\E p \in Procs : MapHeader(p)) \/ UNCHANGED table
  BY DEF Next, InitWorker, EditFile, Setup, Stop, OtherSetup, Fork, Register,
         AllocFails, PinHeader, AwaitHeader, InitTable, Kill, ExitWorker, Reap,
         vars
<1> QED BY <1>1, <1>2, <1>3

\* A user worker that has its tables from init_worker is served through its own
\* headers and entries by kernel workers of its own process and no other, for
\* any number of processes, tables and configurations, if user workers are
\* forked one after the other (init_worker and sys_esca_register).
THEOREM OwnTables ==
  ~ForkOverlap => (Spec => []SetServed)
<1> SUFFICES ASSUME ~ForkOverlap PROVE Spec => []SetServed
  OBVIOUS
<1>1. Init => TypeOK /\ RegInv
  BY RegInvInductive
<1>2. TypeOK /\ RegInv /\ [Next]_vars => TypeOK' /\ RegInv'
  BY RegInvInductive
<1>3. TypeOK /\ RegInv => SetServed
  BY RegInvServes
<1> QED BY <1>1, <1>2, <1>3, PTL DEF Spec

\* Under the same condition the index a table is registered at stays inside
\* table[], and every variable of the registration keeps its type.
THEOREM RegisterTypeCorrect ==
  ~ForkOverlap => (Spec => []TypeOK)
<1> SUFFICES ASSUME ~ForkOverlap PROVE Spec => []TypeOK
  OBVIOUS
<1>1. Init => TypeOK /\ RegInv
  BY RegInvInductive
<1>2. TypeOK /\ RegInv /\ [Next]_vars => TypeOK' /\ RegInv'
  BY RegInvInductive
<1> QED BY <1>1, <1>2, PTL DEF Spec

\* No step of sys_esca_register, by whatever process, points table[] somewhere
\* else under a kernel worker that uses it, under the same condition.
THEOREM NeverHijacked ==
  ~ForkOverlap => (Spec => NoHijack)
<1> SUFFICES ASSUME ~ForkOverlap PROVE Spec => NoHijack
  OBVIOUS
<1>1. Init => TypeOK /\ RegInv
  BY RegInvInductive
<1>2. TypeOK /\ RegInv /\ [Next]_vars => TypeOK' /\ RegInv'
  BY RegInvInductive
<1>3. TypeOK /\ RegInv /\ [Next]_vars
        => [\A t \in threads : table'[t.id] = table[t.id]]_vars
  BY StepKeepsTable
<1> QED BY <1>1, <1>2, <1>3, PTL DEF Spec, NoHijack
=============================================================================
