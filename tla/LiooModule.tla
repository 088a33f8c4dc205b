----------------------------- MODULE LiooModule -----------------------------
(***************************************************************************)
(* The life of the kernel module and of one process preloaded with the     *)
(* library.  insmod runs lioo_init, which stores four handlers into the    *)
(* system call table one by one; rmmod runs lioo_exit, which puts back     *)
(* what was there, and then the module's code is freed.  A process runs    *)
(* setup when it is loaded: it scans the configuration file, configures    *)
(* itself and calls __NR_esca_config; init_worker later calls              *)
(* __NR_esca_register, which starts a thread that runs the module's code.  *)
(*                                                                         *)
(* A configuration file is a sequence of words, as fscanf splits it: <<k>> *)
(* for the word k, <<"=">>, and <<"number", n>>.                           *)
(***************************************************************************)
EXTENDS TableLayout, Sequences, FiniteSets

CONSTANTS
  CPUs,
  Keys,      \* the options that matter here
  Files,     \* contents of the configuration file to try
  NoFile,    \* the file cannot be opened
  Garbage,   \* what malloc may leave in memory
  MaxMoves   \* bound: how often the loader is moved to another CPU

usr == "max_usr_worker"
ker == "max_ker_worker"
ent == "max_table_entry"
tln == "max_table_len"

ASSUME ModuleAssumption ==
  /\ {usr, ker, ent, tln} \subseteq Keys /\ "=" \notin Keys /\ "number" \notin Keys
  /\ \A f \in Files : Len(f) \in Nat /\ \A i \in 1 .. Len(f) :
       \/ f[i] = <<f[i][1]>>
       \/ f[i] = <<"number", f[i][2]>> /\ f[i][2] \in Nat
  /\ Garbage \subseteq Nat /\ MaxMoves \in Nat

Slots == <<"register", "wakeup", "wait", "config">>
fault == -1  \* stands for the result of a division that traps

VARIABLES
  arch,              \* "x86" or "arm64"
  code,              \* the module: "absent", "loading", "live", "leaving", "oops"
  at, slot,          \* the loader's step, and the slot it stores next
  cpu,               \* the CPU the loader runs on
  open,              \* where the system call table may be written
  syscall_table,     \* what each slot holds: "ori" or "hook"
  backup,            \* what lioo_init saved of each slot
  el0,               \* arm64: user mode may read the cycle counter
  kconfig, kRATIO,   \* the module's configuration
  ppc,               \* where the process is
  file, pos,         \* the configuration file, and how far it is read
  config, RATIO,     \* the process's configuration
  worker,            \* the process's kernel worker is running
  moves,             \* history: how often the loader was moved
  careless           \* history: the module was loaded or unloaded under a
                     \* preloaded process

loader == <<arch, code, at, slot, cpu, open, syscall_table, backup, el0, moves>>
kernel == <<kconfig, kRATIO>>
proc   == <<ppc, pos, config, RATIO, worker>>
vars   == <<loader, kernel, proc, file, careless>>

zero == [key \in Keys |-> 0]
default_config == [key \in Keys |-> IF key = ent THEN 64 ELSE 1]

Init ==
  /\ arch \in {"x86", "arm64"} /\ code = "absent" /\ at = "none" /\ slot = 1
  /\ cpu = (CHOOSE c \in CPUs : TRUE) /\ open = {} /\ el0 = FALSE /\ moves = 0
  /\ syscall_table = [i \in 1 .. 4 |-> "ori"] /\ backup = [i \in 1 .. 4 |-> "null"]
  /\ kconfig = zero /\ kRATIO = 0
  /\ ppc = "none" /\ pos = 1 /\ config = zero /\ RATIO = 0 /\ worker = FALSE
  /\ file \in Files \cup {NoFile} /\ careless = FALSE
-----------------------------------------------------------------------------
(* The loader. *)

\* CR0 protects one CPU, the page attributes of arm64 hold for all of them.
Here == IF arch = "x86" THEN cpu ELSE "page"

Step(here, there) == at = here /\ at' = there

\* insmod: the module's data is initialised, and lioo_init begins.
insmod ==
  /\ code = "absent" /\ code' = "loading" /\ at' = "allow" /\ slot' = 1
  /\ kconfig' = zero /\ kRATIO' = 0
  /\ el0' = (arch = "arm64")
  /\ careless' = (careless \/ ppc # "none")
  /\ UNCHANGED <<arch, cpu, open, syscall_table, backup, moves, proc, file>>

rmmod ==
  /\ code = "live" /\ code' = "leaving" /\ at' = "allow" /\ slot' = 1
  /\ careless' = (careless \/ ppc # "none")
  /\ UNCHANGED <<arch, cpu, open, syscall_table, backup, el0, moves>>
  /\ UNCHANGED <<kernel, proc, file>>

allow_writes ==
  /\ at = "allow" /\ at' = IF code = "loading" THEN "backup" ELSE "recover"
  /\ open' = open \cup {Here}
  /\ UNCHANGED <<arch, code, slot, cpu, syscall_table, backup, el0, moves>>
  /\ UNCHANGED <<kernel, proc, file, careless>>

save ==
  /\ Step("backup", "hook")
  /\ backup' = syscall_table
  /\ UNCHANGED <<arch, code, slot, cpu, open, syscall_table, el0, moves>>
  /\ UNCHANGED <<kernel, proc, file, careless>>

\* A store to a slot; on a CPU that does not allow it the loader dies.
Store(value) ==
  IF Here \in open
  THEN /\ syscall_table' = [syscall_table EXCEPT ![slot] = value]
       /\ slot' = slot + 1
       /\ at' = IF slot = Len(Slots) THEN "disallow" ELSE at
       /\ code' = code
  ELSE code' = "oops" /\ at' = "none" /\ UNCHANGED <<syscall_table, slot>>

hook ==
  /\ at = "hook" /\ Store("hook")
  /\ UNCHANGED <<arch, cpu, open, backup, el0, moves, kernel, proc, file, careless>>

\* Faulty variant of recover: the last slot is forgotten.
recover_three ==
  /\ at = "recover"
  /\ IF slot = 3 THEN /\ at' = "disallow"
                      /\ syscall_table' = [syscall_table EXCEPT ![3] = backup[3]]
                      /\ UNCHANGED <<code, slot>>
     ELSE Store(backup[slot])
  /\ UNCHANGED <<arch, cpu, open, backup, el0, moves, kernel, proc, file, careless>>

recover ==
  /\ at = "recover" /\ Store(backup[slot])
  /\ UNCHANGED <<arch, cpu, open, backup, el0, moves, kernel, proc, file, careless>>

\* The last step of both.  lioo_exit also closes the counter to user mode, stops
\* no worker, and when it returns the code is freed.
disallow_writes ==
  /\ Step("disallow", "none")
  /\ open' = open \ {Here}
  /\ code' = IF code = "loading" THEN "live" ELSE "absent"
  /\ el0' = (el0 /\ code = "loading")
  /\ UNCHANGED <<arch, slot, cpu, syscall_table, backup, moves>>
  /\ UNCHANGED <<kernel, proc, file, careless>>

\* The loader may be preempted and go on with another CPU.
Move ==
  /\ at # "none" /\ moves < MaxMoves
  /\ cpu' \in CPUs \ {cpu}
  /\ moves' = moves + 1
  /\ UNCHANGED <<arch, code, at, slot, open, syscall_table, backup, el0>>
  /\ UNCHANGED <<kernel, proc, file, careless>>
-----------------------------------------------------------------------------
(* The process. *)

\* The memory of a process that has ended.
Gone == ppc' = "none" /\ pos' = 1 /\ config' = zero /\ RATIO' = 0

\* setup begins: the file is opened, or the defaults are used.
setup ==
  /\ ppc = "none" /\ code # "oops"
  /\ careless' = (careless \/ at # "none")
  /\ IF file = NoFile THEN ppc' = "conf" /\ config' = default_config
     ELSE ppc' = "scan" /\ config' \in [Keys -> Garbage]
  /\ UNCHANGED <<pos, RATIO, worker, loader, kernel, file>>

Word(i)    == IF i <= Len(file) THEN file[i] ELSE <<>>
Equals(i)  == Word(i) = <<"=">>
Number(i)  == Len(Word(i)) = 2

\* Faulty variant of Consumed: the word that is not "=" is lost as well.
ConsumedPast(i) == IF Equals(i + 1) /\ Number(i + 2) THEN 3 ELSE 2

\* Words that fscanf(fp, "%s = %d") takes: what matches, and no more.
Consumed(i) == IF ~Equals(i + 1) THEN 1 ELSE IF ~Number(i + 2) THEN 2 ELSE 3

\* One round of the loop; a known key that is followed by = and a number is set.
scan ==
  /\ ppc = "scan" /\ pos <= Len(file)
  /\ pos' = pos + Consumed(pos)
  /\ config' = IF Consumed(pos) = 3 /\ Word(pos)[1] \in Keys
               THEN [config EXCEPT ![Word(pos)[1]] = Word(pos + 2)[2]]
               ELSE config
  /\ UNCHANGED <<ppc, RATIO, worker, loader, kernel, file, careless>>

scan_end ==
  /\ ppc = "scan" /\ pos > Len(file)
  /\ ppc' = "conf"
  /\ UNCHANGED <<pos, config, RATIO, worker, loader, kernel, file, careless>>

\* C leaves a division by zero undefined: x86-64 traps, arm64 yields 0.
Quotient(a, b) ==
  IF b # 0 THEN a \div b ELSE IF arch = "x86" THEN fault ELSE 0

\* Faulty variant of init_config: the number of workers is taken as it is.
init_config_unchecked ==
  /\ ppc = "conf"
  /\ RATIO' = config[ker] /\ ppc' = "call"
  /\ UNCHANGED <<pos, config, worker, loader, kernel, file, careless>>

\* RATIO is computed here first; a division that traps kills the process.
init_config ==
  LET ratio == Quotient(config[ker], config[usr])
  IN  /\ ppc = "conf"
      /\ IF ratio = fault THEN Gone
         ELSE ppc' = "call" /\ RATIO' = ratio /\ UNCHANGED <<pos, config>>
      /\ UNCHANGED <<worker, loader, kernel, file, careless>>

\* Faulty variant of esca_config: the module keeps its first configuration.
esca_config_once ==
  /\ ppc = "call" /\ ppc' = "up"
  /\ IF syscall_table[4] = "hook" /\ kconfig = zero
     THEN kconfig' = config /\ kRATIO' = Quotient(config[ker], config[usr])
     ELSE UNCHANGED kernel
  /\ UNCHANGED <<pos, config, RATIO, worker, loader, file, careless>>

\* syscall(__NR_esca_config): without the module it fails, and nobody looks.
esca_config ==
  /\ ppc = "call" /\ ppc' = "up"
  /\ IF syscall_table[4] = "hook"
     THEN kconfig' = config /\ kRATIO' = Quotient(config[ker], config[usr])
     ELSE UNCHANGED kernel
  /\ UNCHANGED <<pos, config, RATIO, worker, loader, file, careless>>

\* init_worker(0): it returns early when there are no user workers, and else makes
\* RATIO turns with a syscall(__NR_esca_register) each, which starts a worker.
esca_register ==
  /\ ppc = "up" /\ ppc' = "serving"
  /\ worker' = (config[usr] > 0 /\ RATIO > 0 /\ syscall_table[1] = "hook")
  /\ UNCHANGED <<pos, config, RATIO, loader, kernel, file, careless>>

\* The process ends, or is killed, and its worker sees the signal.
die ==
  /\ ppc \notin {"none", "dying"} /\ ppc' = "dying"
  /\ UNCHANGED <<pos, config, RATIO, worker, loader, kernel, file, careless>>

exit_worker ==
  /\ ppc = "dying" /\ worker /\ worker' = FALSE
  /\ UNCHANGED <<ppc, pos, config, RATIO, loader, kernel, file, careless>>

\* Faulty variant of reap: the worker is a kernel thread of its own, and the
\* end of the process does not wait for it.
reap_early ==
  /\ ppc = "dying" /\ Gone
  /\ UNCHANGED <<worker, loader, kernel, file, careless>>

\* create_io_thread makes the worker a thread of the process, and a process is
\* gone when its last thread is.
reap ==
  /\ ppc = "dying" /\ ~worker /\ Gone
  /\ UNCHANGED <<worker, loader, kernel, file, careless>>

Loader == insmod \/ rmmod \/ allow_writes \/ save \/ hook \/ recover
          \/ disallow_writes \/ Move
Process == setup \/ scan \/ scan_end \/ init_config \/ esca_config
           \/ esca_register \/ die \/ exit_worker \/ reap

Spec == Init /\ [][Loader \/ Process]_vars
-----------------------------------------------------------------------------
(***************************************************************************)
(* "recover" (lioo.c 508): whenever the module's code is not there, the    *)
(* system call table is as before, write-protected everywhere, and the     *)
(* counters are closed; and a loaded module has all four handlers in place *)
(* and leaves nothing writable.  It needs the loader to stay on its CPU.   *)
(***************************************************************************)
TableWhole ==
  moves = 0 =>
    /\ code = "absent" => /\ \A i \in 1 .. 4 : syscall_table[i] = "ori"
                          /\ open = {} /\ ~el0
    /\ code = "live" => /\ \A i \in 1 .. 4 : syscall_table[i] = "hook"
                        /\ open = {}

(***************************************************************************)
(* No kernel worker runs the module's code after it has been freed, if the *)
(* module is only loaded and unloaded while no preloaded process exists.   *)
(* lioo_exit itself stops no worker (lioo.c 521-522 is commented out).     *)
(***************************************************************************)
CodePresent == ~careless /\ code = "absent" => ~worker

(***************************************************************************)
(* A kernel worker runs with the configuration its process has read, and   *)
(* never with a module that was loaded, or loaded again, after the         *)
(* process's esca_config call: the call's failure is not looked at.        *)
(***************************************************************************)
WorkerConfigured == ~careless /\ worker => kconfig = config /\ kRATIO = RATIO

(***************************************************************************)
(* sys_esca_init_config divides by max_usr_worker without a test, and the  *)
(* file, or memory nobody has set, may say 0.  The division never traps in *)
(* the kernel: on x86-64 the process divides by the same number first and  *)
(* dies before the system call, and on arm64 the quotient is 0.  worker    *)
(* divides by RATIO in turn (lioo.c 231, 310) and never meets a RATIO of   *)
(* 0, be it from that quotient or from fewer kernel than user workers:     *)
(* init_worker then starts no worker.  That needs the module to stay as    *)
(* it is under the process; loaded anew, it has a RATIO of 0.              *)
(***************************************************************************)
KernelDivides ==
  /\ kRATIO # fault
  /\ ~careless /\ worker => kRATIO > 0

\* The value the last "key = number" of the file gives to a key.
Written(key) ==
  LET I == {i \in 1 .. Len(file) :
              Word(i) = <<key>> /\ Equals(i + 1) /\ Number(i + 2)}
  IN  IF I = {} THEN Garbage
      ELSE {Word((CHOOSE i \in I : \A j \in I : j <= i) + 2)[2]}

(***************************************************************************)
(* The scan of setup finds its way through any file: after lines without a *)
(* "=", without a number or with extra words, each key has the value of    *)
(* the last place that gives it one; a key the file does not set is what   *)
(* malloc left there.                                                      *)
(***************************************************************************)
ParsedAsWritten ==
  ppc = "conf" /\ file # NoFile => \A key \in Keys : config[key] \in Written(key)

(***************************************************************************)
(* A worker and its process mean the same bytes by each entry, if the      *)
(* tables fill their pages: preload.c 76 against the pages that            *)
(* sys_esca_register maps.                                                 *)
(***************************************************************************)
SameMemory ==
  ~careless /\ worker /\ FillsPages(config[tln], config[ent])
    => SameEntries(kconfig[tln], config[ent])
=============================================================================
