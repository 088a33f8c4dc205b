---------------------------- MODULE EscaRegister ----------------------------
(***************************************************************************)
(* How a server's user workers come to have tables and kernel workers:     *)
(* the configuration (setup in wrapper/preload.c, sys_esca_init_config in  *)
(* module/lioo.c), the fork of a user worker with the next index (patches  *)
(* of nginx and lighttpd), init_worker, sys_esca_register, and the end of  *)
(* a process with its kernel workers.  The kernel's state outlives the     *)
(* processes and is shared by all of them.                                 *)
(*                                                                         *)
(* The headers of a user worker's tables lie in one page, known here by    *)
(* the process that allocated it: <<p, k>> is the k-th header in the page  *)
(* of process p.  The entries lie in pages of their own: <<p, i>> are the  *)
(* pages process p allocated for table i.                                  *)
(***************************************************************************)
EXTENDS Integers, FiniteSets

CONSTANTS
  Procs,          \* the user workers forked in one behaviour
  Configs,        \* contents of the configuration file
  CPU_NUM_LIMIT,  \* size of table[]
  None,           \* a null pointer
  ForkOverlap     \* timing: TRUE if a user worker may be forked while another
                  \* is inside init_worker

(***************************************************************************)
(* A configuration says how many user workers and how many kernel workers  *)
(* there are; its other keys play no part here.                            *)
(***************************************************************************)
ASSUME RegisterAssumption ==
  /\ CPU_NUM_LIMIT \in Nat
  /\ Configs \subseteq [max_usr_worker : Nat \ {0}, max_ker_worker : Nat \ {0}]
  /\ \A c \in Configs : c.max_usr_worker <= c.max_ker_worker
                        /\ c.max_ker_worker <= CPU_NUM_LIMIT
  /\ None \notin Procs
  /\ None \notin Procs \X (0 .. CPU_NUM_LIMIT - 1)
  /\ ForkOverlap \in BOOLEAN

VARIABLES
  file,     \* the configuration file
  running,  \* the server's master process runs
  uconf,    \* the configuration of the running server
  kconf,    \* the configuration of the kernel module
  index,    \* the server's count of user workers, ngx_worker_index
  pc,       \* where each user worker is
  idx,      \* this_worker_id
  at,       \* init_worker's i, the table it is registering
  pinned,   \* shared_info_pinned_pages[0]: whose header page it holds
  table,    \* the kernel's table[]
  pages,    \* the entries each header leads to, header->tables
  threads   \* the kernel workers, by their process and their table

server == <<file, running, uconf, index>>
vars   == <<server, kconf, pc, idx, at, pinned, table, pages, threads>>
-----------------------------------------------------------------------------
Ids     == 0 .. CPU_NUM_LIMIT - 1
Headers == Procs \X Ids

RATIO(conf) == conf.max_ker_worker \div conf.max_usr_worker

\* The first table of p's set, and the whole set.
First(p) == idx[p] * RATIO(uconf)
SetOf(p) == First(p) .. First(p) + RATIO(uconf) - 1

\* p is inside init_worker: about to make the system call, or inside it.
Registering(p) == pc[p] \in {"call", "pin", "map", "wait", "init"}

\* p runs, or has been killed and still has kernel workers.
Live == {p \in Procs : pc[p] \notin {"unborn", "gone"}}

\* The configuration variables before the first setup.
Unset == [max_usr_worker |-> 0, max_ker_worker |-> 0]

Init ==
  /\ file \in Configs /\ uconf = Unset /\ kconf = Unset
  /\ running = FALSE /\ index = -1
  /\ pc = [p \in Procs |-> "unborn"]
  /\ idx = [p \in Procs |-> 0]
  /\ at = [p \in Procs |-> 0]
  /\ pinned = None
  /\ table = [i \in Ids |-> None]
  /\ pages = [h \in Headers |-> None]
  /\ threads = {}
-----------------------------------------------------------------------------
\* The administrator edits the file, between two runs of the server.
EditFile ==
  /\ ~running
  /\ file' \in Configs
  /\ UNCHANGED <<running, uconf, index, kconf>>
  /\ UNCHANGED <<pc, idx, at, pinned, table, pages, threads>>

\* The server is started: setup reads the file, for the process and for the
\* kernel.
Setup ==
  /\ ~running
  /\ running' = TRUE
  /\ uconf' = file
  /\ kconf' = file
  /\ index' = -1
  /\ UNCHANGED <<file, pc, idx, at, pinned, table, pages, threads>>

\* The server is stopped; its user workers end before it does.
Stop ==
  /\ running /\ Live = {}
  /\ running' = FALSE
  /\ UNCHANGED <<file, uconf, index, kconf>>
  /\ UNCHANGED <<pc, idx, at, pinned, table, pages, threads>>

\* Some other program is started with the library preloaded.
OtherSetup ==
  /\ kconf' = file
  /\ UNCHANGED <<server, pc, idx, at, pinned, table, pages, threads>>

\* Faulty variant of Fork: a new user worker gets the index of the last one.
ForkSameIndex(p) ==
  /\ running /\ pc[p] = "unborn"
  /\ Cardinality(Live) < uconf.max_usr_worker
  /\ ForkOverlap \/ \A q \in Procs : ~Registering(q)
  /\ index' = 0
  /\ idx' = [idx EXCEPT ![p] = 0]
  /\ at' = [at EXCEPT ![p] = 0]
  /\ pc' = [pc EXCEPT ![p] = "call"]
  /\ UNCHANGED <<file, running, uconf, kconf, pinned, table, pages, threads>>

(***************************************************************************)
(* The master forks a user worker, the first time or in place of one that  *)
(* has ended, and the child enters init_worker.  An index past the limit   *)
(* gets no tables.                                                         *)
(***************************************************************************)
Fork(p) ==
  /\ running /\ pc[p] = "unborn"
  /\ Cardinality(Live) < uconf.max_usr_worker
  /\ ForkOverlap \/ \A q \in Procs : ~Registering(q)
  /\ index' = index + 1
  /\ idx' = [idx EXCEPT ![p] = index + 1]
  /\ \/ /\ index + 1 < uconf.max_usr_worker
        /\ at' = [at EXCEPT ![p] = (index + 1) * RATIO(uconf)]
        /\ pc' = [pc EXCEPT ![p] = "call"]
     \/ /\ index + 1 >= uconf.max_usr_worker
        /\ pc' = [pc EXCEPT ![p] = "bare"]
        /\ UNCHANGED at
  /\ UNCHANGED <<file, running, uconf, kconf, pinned, table, pages, threads>>
-----------------------------------------------------------------------------
(***************************************************************************)
(* sys_esca_register, called once for each table of the set.  The call for *)
(* the first one brings the header page, the others find table[] filled.   *)
(***************************************************************************)
Register(p) ==
  /\ pc[p] = "call"
  /\ pc' = [pc EXCEPT ![p] = IF at[p] = First(p) THEN "pin" ELSE "wait"]
  /\ UNCHANGED <<server, kconf, idx, at, pinned, table, pages, threads>>

\* There is no memory for the entries: init_worker gives up and p goes on with
\* the tables it has.
AllocFails(p) ==
  /\ pc[p] = "call"
  /\ pc' = [pc EXCEPT ![p] = "bare"]
  /\ UNCHANGED <<server, kconf, idx, at, pinned, table, pages, threads>>

\* get_user_pages stores the page in a variable all callers share ...
PinHeader(p) ==
  /\ pc[p] = "pin"
  /\ pinned' = p
  /\ pc' = [pc EXCEPT ![p] = "map"]
  /\ UNCHANGED <<server, kconf, idx, at, table, pages, threads>>

\* Faulty variant of MapHeader: all tables of the set get the first header.
MapFirstHeader(p) ==
  /\ pc[p] = "map"
  /\ table' = [i \in Ids |-> IF i \in at[p] .. at[p] + RATIO(kconf) - 1
                             THEN <<pinned, 0>> ELSE table[i]]
  /\ pc' = [pc EXCEPT ![p] = "init"]
  /\ UNCHANGED <<server, kconf, idx, at, pinned, pages, threads>>

\* Faulty variant of MapHeader: table[] is filled for the first table only.
MapOneHeader(p) ==
  /\ pc[p] = "map"
  /\ table' = [table EXCEPT ![at[p]] = <<pinned, 0>>]
  /\ pc' = [pc EXCEPT ![p] = "init"]
  /\ UNCHANGED <<server, kconf, idx, at, pinned, pages, threads>>

\* ... and kmap reads it from there.
MapHeader(p) ==
  /\ pc[p] = "map"
  /\ table' = [i \in Ids |-> IF i \in at[p] .. at[p] + RATIO(kconf) - 1
                             THEN <<pinned, i - at[p]>> ELSE table[i]]
  /\ pc' = [pc EXCEPT ![p] = "init"]
  /\ UNCHANGED <<server, kconf, idx, at, pinned, pages, threads>>

\* while (!table[id]) cond_resched();
AwaitHeader(p) ==
  /\ pc[p] = "wait"
  /\ table[at[p]] # None
  /\ pc' = [pc EXCEPT ![p] = "init"]
  /\ UNCHANGED <<server, kconf, idx, at, pinned, table, pages, threads>>

\* Faulty variant of InitTable: init_worker goes one table too far.
InitTableTooFar(p) ==
  /\ pc[p] = "init"
  /\ pages' = [pages EXCEPT ![table[at[p]]] = <<p, at[p]>>]
  /\ threads' = threads \cup {[proc |-> p, id |-> at[p]]}
  /\ IF at[p] < First(p) + RATIO(uconf)
       THEN /\ at' = [at EXCEPT ![p] = @ + 1]
            /\ pc' = [pc EXCEPT ![p] = "call"]
       ELSE /\ pc' = [pc EXCEPT ![p] = "loop"]
            /\ UNCHANGED at
  /\ UNCHANGED <<server, kconf, idx, pinned, table>>

(***************************************************************************)
(* The entries are mapped through the header that table[] leads to, marked *)
(* empty, and the kernel worker is created in the calling process; then    *)
(* init_worker goes on to the next table or returns.                       *)
(***************************************************************************)
InitTable(p) ==
  /\ pc[p] = "init"
  /\ pages' = [pages EXCEPT ![table[at[p]]] = <<p, at[p]>>]
  /\ threads' = threads \cup {[proc |-> p, id |-> at[p]]}
  /\ IF at[p] < First(p) + RATIO(uconf) - 1
       THEN /\ at' = [at EXCEPT ![p] = @ + 1]
            /\ pc' = [pc EXCEPT ![p] = "call"]
       ELSE /\ pc' = [pc EXCEPT ![p] = "loop"]
            /\ UNCHANGED at
  /\ UNCHANGED <<server, kconf, idx, pinned, table>>
-----------------------------------------------------------------------------
\* p ends or is killed, not inside the system call; one that lacks tables ends
\* in its first batch_start, which follows a null pointer.
Kill(p) ==
  /\ pc[p] \in {"call", "loop", "bare"}
  /\ pc' = [pc EXCEPT ![p] = "killed"]
  /\ UNCHANGED <<server, kconf, idx, at, pinned, table, pages, threads>>

\* A kernel worker of a killed process sees the signal.
ExitWorker(p) ==
  /\ pc[p] = "killed"
  /\ \E t \in threads : t.proc = p /\ threads' = threads \ {t}
  /\ UNCHANGED <<server, kconf, pc, idx, at, pinned, table, pages>>

\* The master learns of the end of p once its last thread is gone.
Reap(p) ==
  /\ pc[p] = "killed"
  /\ \A t \in threads : t.proc # p
  /\ pc' = [pc EXCEPT ![p] = "gone"]
  /\ UNCHANGED <<server, kconf, idx, at, pinned, table, pages, threads>>

InitWorker(p) ==
  \/ Register(p) \/ PinHeader(p) \/ MapHeader(p) \/ AwaitHeader(p)
  \/ InitTable(p) \/ AllocFails(p)

Next ==
  \/ EditFile \/ Setup \/ Stop \/ OtherSetup
  \/ \E p \in Procs :
       Fork(p) \/ InitWorker(p) \/ Kill(p) \/ ExitWorker(p) \/ Reap(p)

Spec == Init /\ [][Next]_vars

\* A process inside init_worker is scheduled again and again.
FairSpec == Spec /\ \A p \in Procs : WF_vars(InitWorker(p))
-----------------------------------------------------------------------------
(***************************************************************************)
(* Properties                                                              *)
(***************************************************************************)
Pcs == {"unborn", "call", "pin", "map", "wait", "init", "loop", "bare",
        "killed", "gone"}

\* Every variable has its type; the tables being registered are inside table[].
TypeOK ==
  /\ file \in Configs /\ running \in BOOLEAN
  /\ uconf \in Configs \cup {Unset} /\ kconf \in Configs \cup {Unset}
  /\ index \in Nat \cup {-1}
  /\ pc \in [Procs -> Pcs]
  /\ idx \in [Procs -> Nat]
  /\ at \in [Procs -> Ids]
  /\ pinned \in Procs \cup {None}
  /\ table \in [Ids -> Headers \cup {None}]
  /\ pages \in [Headers -> Headers \cup {None}]
  /\ threads \subseteq [proc : Procs, id : Ids]

\* "user worker can't touch worker's table in diff. set": a user worker that has
\* all its tables from init_worker is served through its own headers and its
\* own entries, by kernel workers of its own process and by no other
\* (init_worker and sys_esca_register).
SetServed ==
  \A p \in Procs : pc[p] = "loop" =>
    \A i \in SetOf(p) :
      /\ table[i] = <<p, i - First(p)>>
      /\ pages[table[i]] = <<p, i>>
      /\ {t \in threads : t.id = i} = {[proc |-> p, id |-> i]}

\* No step points table[] somewhere else under a kernel worker that uses it, not
\* even when its process has been killed and a new one registers.
NoHijack == [][\A t \in threads : table'[t.id] = table[t.id]]_vars

\* "make sure header has been register": init_worker returns; the loop for the
\* header in sys_esca_register does not go on for ever.
InitReturns == \A p \in Procs : Registering(p) ~> ~Registering(p)
=============================================================================
