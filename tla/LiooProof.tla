----------------------------- MODULE LiooProof ------------------------------
(***************************************************************************)
(* The properties of LiooModule for every set of CPUs, every configuration *)
(* file and every number of loads, unloads and processes; and, first,      *)
(* which configurations let the process and the module share tables.       *)
(***************************************************************************)
EXTENDS LiooModule, TLAPS


(***************************************************************************)
(* If the tables fill their pages (64 entries of 64 bytes), or there is    *)
(* one table that fits a page, the pointer arithmetic of init_worker and   *)
(* the page mapping of sys_esca_register lead to the same bytes.           *)
(***************************************************************************)
THEOREM FilledPagesAreShared ==
  ASSUME NEW len \in Nat, NEW entry \in Nat, FillsPages(len, entry)
  PROVE  SameEntries(len, entry)
<1> SUFFICES ASSUME NEW j \in 0 .. len - 1, NEW k \in 0 .. entry - 1
             PROVE  /\ UserAddr(entry, j, k) = KernelAddr(j, k)
                    /\ KernelAddr(j, k) + ENTRY_SIZE <= len * pgsize
  BY DEF SameEntries
<1>0. /\ pgsize \in Nat /\ ENTRY_SIZE \in Nat /\ j \in Nat /\ k \in Nat
      /\ len \in Nat /\ entry \in Nat /\ j <= len - 1 /\ k + 1 <= entry
  BY LayoutAssumption
<1>1. (j * entry + k) * ENTRY_SIZE = j * (entry * ENTRY_SIZE) + k * ENTRY_SIZE
  BY <1>0
<1>2. k * ENTRY_SIZE + ENTRY_SIZE <= entry * ENTRY_SIZE
  BY <1>0
<1>3. j * pgsize + pgsize <= len * pgsize
  BY <1>0
<1>4. CASE entry * ENTRY_SIZE = pgsize
  BY <1>0, <1>1, <1>2, <1>3, <1>4 DEF UserAddr, KernelAddr
<1>5. CASE len = 1 /\ entry * ENTRY_SIZE <= pgsize
  <2>1. j = 0
    BY <1>0, <1>5
  <2> QED
    BY <1>0, <1>1, <1>2, <1>3, <1>5, <2>1 DEF UserAddr, KernelAddr
<1> QED
  BY <1>4, <1>5 DEF FillsPages

(***************************************************************************)
(* The condition is needed: with two or more tables that do not fill their *)
(* pages the process writes table 1 where the module does not read it.     *)
(***************************************************************************)
THEOREM SharedPagesAreFilled ==
  ASSUME NEW len \in Nat, len >= 2, NEW entry \in Nat \ {0}, SameEntries(len, entry)
  PROVE  FillsPages(len, entry)
<1>1. 1 \in 0 .. len - 1 /\ 0 \in 0 .. entry - 1
  OBVIOUS
<1>2. UserAddr(entry, 1, 0) = KernelAddr(1, 0)
  BY <1>1 DEF SameEntries
<1>3. entry * ENTRY_SIZE = pgsize
  BY <1>2, LayoutAssumption DEF UserAddr, KernelAddr
<1> QED
  BY <1>3 DEF FillsPages
-----------------------------------------------------------------------------
Next == Loader \/ Process

\* The types the argument needs.
Typed ==
  /\ file \in Files \cup {NoFile}
  /\ pos \in Nat \ {0}
  /\ config \in [Keys -> Nat]
  /\ worker \in BOOLEAN
  /\ moves \in Nat

\* Where the process is: what its position says of its memory.
Placed ==
  /\ ppc = "none" => pos = 1
  /\ ppc = "scan" => file # NoFile
  /\ ppc = "call" => RATIO = Quotient(config[ker], config[usr]) /\ RATIO # fault
  /\ worker => ppc \in {"serving", "dying"} /\ RATIO > 0

AllOf(t, value) == \A i \in 1 .. 4 : t[i] = value

\* How far the loader is: a fault ends it, so the table is as far as it is.
Stored ==
  /\ slot \in 1 .. 5
  /\ DOMAIN syscall_table = 1 .. 4
  /\ code \in {"absent", "loading", "live", "leaving", "oops"}
  /\ at \in {"none", "allow", "backup", "hook", "recover", "disallow"}
  /\ at = "none" <=> code \in {"absent", "live", "oops"}
  /\ at \in {"allow", "backup"} => slot = 1
  /\ at \in {"hook", "recover"} => slot \in 1 .. 4
  /\ at \in {"backup", "hook"} => code = "loading"
  /\ at = "recover" => code = "leaving"
  /\ \/ code = "absent"
     \/ code = "loading" /\ at \in {"allow", "backup"}
     \/ code = "leaving" /\ at = "disallow"
     => AllOf(syscall_table, "ori")
  /\ \/ code = "live"
     \/ code = "leaving" /\ at = "allow"
     \/ code = "loading" /\ at = "disallow"
     => AllOf(syscall_table, "hook")
  /\ at = "hook" => \A i \in 1 .. 4 : i < slot => syscall_table[i] = "hook"
  /\ at = "recover" => \A i \in 1 .. 4 : i < slot => syscall_table[i] = "ori"
  /\ at = "hook" \/ code \in {"live", "leaving"} \/ (code = "loading" /\ at = "disallow")
     => AllOf(backup, "ori")

\* Without a move the table is open on the loader's CPU, and only while the
\* loader stores.
Protected ==
  moves = 0 =>
    /\ open = IF at \in {"backup", "hook", "recover", "disallow"} THEN {Here} ELSE {}
    /\ code = "absent" => ~el0

\* The module does not change under a process.
Careful ==
  ~careless =>
    /\ ppc # "none" => at = "none" /\ code # "oops"
    /\ ppc \in {"up", "serving"} /\ code = "live" => kconfig = config /\ kRATIO = RATIO
    /\ worker => code = "live" /\ kconfig = config /\ kRATIO = RATIO

\* The module's own division has not trapped.
NoTrap == kRATIO # fault

LiooInv == Typed /\ Placed /\ Stored /\ Protected /\ Careful /\ NoTrap

\* A place of the file that gives a key a value.
Place(key, i) ==
  /\ i \in 1 .. Len(file)
  /\ Word(i) = <<key>> /\ Equals(i + 1) /\ Number(i + 2)

\* The scan has seen the places before pos, and holds the value of the last.
Seen(key) ==
  \/ config[key] \in Garbage /\ \A i \in 1 .. pos - 1 : ~Place(key, i)
  \/ \E i \in 1 .. pos - 1 :
       /\ Place(key, i) /\ config[key] = Word(i + 2)[2]
       /\ \A k \in 1 .. pos - 1 : Place(key, k) => k <= i

ScanInv ==
  ppc \in {"scan", "conf"} /\ file # NoFile =>
    /\ ppc = "conf" => pos > Len(file)
    /\ \A key \in Keys : Seen(key)
-----------------------------------------------------------------------------
\* A number of the file is a natural number, and words that are keys are words.
LEMMA WordsOfFile ==
  ASSUME file \in Files, NEW i \in Nat \ {0}
  PROVE  /\ Number(i) => i <= Len(file) /\ Word(i)[2] \in Nat /\ Word(i)[1] = "number"
         /\ i <= Len(file) /\ ~Number(i) => Word(i) = <<Word(i)[1]>>
<1>1. CASE i <= Len(file)
  <2>1. i \in 1 .. Len(file) /\ Word(i) = file[i]
    BY <1>1, ModuleAssumption DEF Word
  <2>2. \/ Word(i) = <<Word(i)[1]>>
        \/ Word(i) = <<"number", Word(i)[2]>> /\ Word(i)[2] \in Nat
    BY <2>1, ModuleAssumption
  <2>3. CASE Word(i) = <<Word(i)[1]>>
    <3>1. Len(Word(i)) = 1
      BY <2>3
    <3> QED
      BY <2>3, <3>1 DEF Number
  <2>4. CASE Word(i) = <<"number", Word(i)[2]>> /\ Word(i)[2] \in Nat
    <3>1. Len(Word(i)) = 2 /\ Word(i)[1] = "number"
      BY <2>4
    <3> QED
      BY <1>1, <2>4, <3>1 DEF Number
  <2> QED
    BY <2>2, <2>3, <2>4
<1>2. CASE ~(i <= Len(file))
  <2>1. Len(Word(i)) = 0
    BY <1>2 DEF Word
  <2> QED
    BY <1>2, <2>1 DEF Number
<1> QED
  BY <1>1, <1>2

\* What a round of the scan stores is a number of the file.
LEMMA ScanStores ==
  ASSUME Typed, file # NoFile, Consumed(pos) = 3
  PROVE  /\ Equals(pos + 1) /\ Number(pos + 2)
         /\ pos + 2 <= Len(file) /\ Word(pos + 2)[2] \in Nat
<1>1. Equals(pos + 1) /\ Number(pos + 2)
  BY DEF Consumed
<1>2. pos + 2 \in Nat \ {0} /\ file \in Files
  BY DEF Typed
<1> QED
  BY <1>1, <1>2, WordsOfFile

LEMMA TypedStep ==
  ASSUME Typed, Placed, Next
  PROVE  Typed'
<1>1. CASE Loader
  BY <1>1 DEF Loader, insmod, rmmod, allow_writes, save, hook, recover, disallow_writes,
              Move, Typed, proc
<1>2. CASE setup
  <2>1. [Keys -> Garbage] \subseteq [Keys -> Nat] /\ default_config \in [Keys -> Nat]
    BY ModuleAssumption, Zenon DEF default_config
  <2> QED
    BY <1>2, <2>1 DEF setup, Typed, loader
<1>3. CASE scan
  <2>1. pos' \in Nat \ {0}
    BY <1>3 DEF scan, Typed, Consumed
  <2>2. config' \in [Keys -> Nat]
    BY <1>3, ScanStores DEF scan, Typed, Placed
  <2> QED
    BY <1>3, <2>1, <2>2 DEF scan, Typed, loader
<1>4. CASE init_config \/ reap
  BY <1>4 DEF init_config, reap, Gone, zero, Typed, loader
<1>5. CASE scan_end \/ esca_config \/ esca_register \/ die \/ exit_worker
  BY <1>5, Zenon DEF scan_end, esca_config, esca_register, die, exit_worker, Typed, loader
<1> QED
  BY <1>1, <1>2, <1>3, <1>4, <1>5 DEF Next, Process

LEMMA PlacedStep ==
  ASSUME Typed, Placed, Next
  PROVE  Placed'
<1>1. CASE Loader
  BY <1>1 DEF Loader, insmod, rmmod, allow_writes, save, hook, recover, disallow_writes,
              Move, Placed, proc, Quotient
<1>2. CASE setup \/ scan \/ scan_end
  BY <1>2 DEF setup, scan, scan_end, Placed, Typed
<1>3. CASE init_config
  <2>1. ~worker /\ worker' = worker /\ arch' = arch
    BY <1>3 DEF init_config, Placed, loader
  <2>2. CASE ppc' = "none" /\ pos' = 1
    BY <2>1, <2>2 DEF Placed
  <2>3. CASE /\ ppc' = "call" /\ UNCHANGED config
             /\ RATIO' = Quotient(config[ker], config[usr]) /\ RATIO' # fault
    <3>1. Quotient(config[ker], config[usr])' = Quotient(config[ker], config[usr])
      BY <2>1, <2>3, Zenon DEF Quotient, fault, usr, ker
    <3> QED
      BY <2>1, <2>3, <3>1 DEF Placed, fault
  <2> QED
    BY <1>3, <2>2, <2>3, Zenon DEF init_config, Gone
<1>4. CASE esca_config \/ esca_register \/ die \/ exit_worker
  BY <1>4 DEF esca_config, esca_register, die, exit_worker, Placed, Typed
<1>5. CASE reap
  BY <1>5 DEF reap, Gone, Placed, Typed
<1> QED
  BY <1>1, <1>2, <1>3, <1>4, <1>5 DEF Next, Process

\* The loader's stores.  A store that faults leaves no module to speak of.
LEMMA StoredStep ==
  ASSUME Stored, Next
  PROVE  Stored'
<1>1. CASE insmod
  BY <1>1 DEF insmod, Stored, AllOf
<1>2. CASE rmmod
  BY <1>2 DEF rmmod, Stored, AllOf
<1>3. CASE allow_writes
  BY <1>3 DEF allow_writes, Stored, AllOf
<1>4. CASE save
  BY <1>4 DEF save, Step, Stored, AllOf
<1>5. CASE hook
  BY <1>5 DEF hook, Store, Slots, Stored, AllOf
<1>6. CASE recover
  BY <1>6 DEF recover, Store, Slots, Stored, AllOf
<1>7. CASE disallow_writes
  BY <1>7 DEF disallow_writes, Step, Stored, AllOf
<1>8. CASE Move
  BY <1>8, Zenon DEF Move, Stored, AllOf
<1>9. CASE Process
  BY <1>9 DEF Process, setup, scan, scan_end, init_config, esca_config, esca_register,
              die, exit_worker, reap, loader, Stored, AllOf
<1> QED
  BY <1>1, <1>2, <1>3, <1>4, <1>5, <1>6, <1>7, <1>8, <1>9 DEF Next, Loader

LEMMA ProtectedStep ==
  ASSUME Typed, Stored, Protected, Next
  PROVE  Protected'
<1>1. CASE insmod \/ rmmod
  BY <1>1 DEF insmod, rmmod, Stored, Protected, Here
<1>2. CASE allow_writes
  BY <1>2 DEF allow_writes, Stored, Protected, Here
<1>3. CASE save
  BY <1>3 DEF save, Step, Stored, Protected, Here
<1>4. CASE hook \/ recover
  <2>1. moves = 0 => Here \in open
    BY <1>4 DEF hook, recover, Protected
  <2> QED
    BY <1>4, <2>1 DEF hook, recover, Store, Stored, Protected, Here
<1>5. CASE disallow_writes
  BY <1>5, Zenon DEF disallow_writes, Step, Stored, Protected, Here
<1>6. CASE Move
  BY <1>6 DEF Move, Typed, Protected
<1>7. CASE Process
  BY <1>7 DEF Process, setup, scan, scan_end, init_config, esca_config, esca_register,
              die, exit_worker, reap, loader, Protected, Here
<1> QED
  BY <1>1, <1>2, <1>3, <1>4, <1>5, <1>6, <1>7 DEF Next, Loader

LEMMA CarefulStep ==
  ASSUME Typed, Placed, Stored, Careful, Next
  PROVE  Careful'
<1>1. CASE insmod \/ rmmod
  BY <1>1, Zenon DEF insmod, rmmod, proc, kernel, Placed, Careful
<1>2. CASE allow_writes \/ save \/ Move
  BY <1>2 DEF allow_writes, save, Step, Move, proc, kernel, Placed, Careful
<1>3. CASE hook \/ recover
  BY <1>3 DEF hook, recover, Store, proc, kernel, Placed, Careful
<1>4. CASE disallow_writes
  BY <1>4 DEF disallow_writes, Step, proc, kernel, Placed, Careful
<1>5. CASE setup \/ scan \/ scan_end
  BY <1>5, Zenon DEF setup, scan, scan_end, loader, kernel, Placed, Stored, Careful
<1>6. CASE init_config \/ reap
  BY <1>6 DEF init_config, reap, Gone, loader, kernel, Placed, Careful
<1>7. CASE esca_config
  <2>1. code = "live" => syscall_table[4] = "hook"
    BY DEF Stored, AllOf
  <2> QED
    BY <1>7, <2>1 DEF esca_config, loader, Placed, Careful
<1>8. CASE esca_register
  <2>1. ~careless => code \in {"absent", "live"}
    BY <1>8 DEF esca_register, Careful, Stored
  <2>2. code = "absent" => syscall_table[1] = "ori"
    BY DEF Stored, AllOf
  <2> QED
    BY <1>8, <2>1, <2>2, Zenon DEF esca_register, loader, kernel, Careful
<1>9. CASE die \/ exit_worker
  BY <1>9 DEF die, exit_worker, loader, kernel, Careful
<1> QED
  BY <1>1, <1>2, <1>3, <1>4, <1>5, <1>6, <1>7, <1>8, <1>9 DEF Next, Loader, Process

\* The module divides what the process has divided on the same machine.
LEMMA NoTrapStep ==
  ASSUME Placed, NoTrap, Next
  PROVE  NoTrap'
<1>1. CASE insmod
  BY <1>1 DEF insmod, NoTrap, fault
<1>2. CASE esca_config
  <2>1. Quotient(config[ker], config[usr]) # fault
    BY <1>2, Zenon DEF esca_config, Placed
  <2>2. kRATIO' = Quotient(config[ker], config[usr]) \/ UNCHANGED kernel
    BY <1>2, Zenon DEF esca_config
  <2> QED
    BY <2>1, <2>2 DEF kernel, NoTrap, fault
<1>3. CASE UNCHANGED kernel
  BY <1>3 DEF kernel, NoTrap, fault
<1> QED
  BY <1>1, <1>2, <1>3 DEF Next, Loader, Process, rmmod, allow_writes, save, hook, recover,
     disallow_writes, Move, setup, scan, scan_end, init_config, esca_register, die,
     exit_worker, reap

\* LiooInv is an invariant.
LEMMA LiooInvariant == Spec => []LiooInv
<1>1. ASSUME Init PROVE LiooInv
  <2>0. Typed
    <3>1. zero \in [Keys -> Nat]
      BY DEF zero
    <3>2. pos \in Nat \ {0} /\ config \in [Keys -> Nat] /\ moves \in Nat
      BY <1>1, <3>1 DEF Init
    <3>3. worker \in BOOLEAN /\ file \in Files \cup {NoFile}
      BY <1>1, Zenon DEF Init
    <3> QED
      BY <3>2, <3>3, Zenon DEF Typed
  <2>1. Placed
    BY <1>1 DEF Init, Placed
  <2>2. Stored
    BY <1>1 DEF Init, Stored, AllOf
  <2>3. Protected /\ Careful
    BY <1>1 DEF Init, Protected, Careful
  <2>4. NoTrap
    BY <1>1 DEF Init, NoTrap, fault
  <2> QED
    BY <2>0, <2>1, <2>2, <2>3, <2>4 DEF LiooInv
<1>2. ASSUME LiooInv, Next PROVE LiooInv'
  BY <1>2, TypedStep, PlacedStep, StoredStep, ProtectedStep, CarefulStep,
     NoTrapStep, Zenon
  DEF LiooInv
<1>3. ASSUME LiooInv, UNCHANGED vars PROVE LiooInv'
  <2> USE <1>3 DEF vars, loader, kernel, proc
  <2>1. Typed'
    BY DEF LiooInv, Typed
  <2>2. Placed'
    <3>1. Quotient(config[ker], config[usr])' = Quotient(config[ker], config[usr])
      BY DEF Quotient, fault
    <3> QED
      BY <3>1 DEF LiooInv, Placed, fault
  <2>3. Stored' /\ Protected' /\ Careful'
    BY DEF LiooInv, Stored, Protected, Careful, AllOf, Here
  <2>4. NoTrap'
    BY DEF LiooInv, NoTrap, fault
  <2> QED
    BY <2>1, <2>2, <2>3, <2>4 DEF LiooInv
<1> QED
  BY <1>1, <1>2, <1>3, PTL DEF Spec, Next
-----------------------------------------------------------------------------
(***************************************************************************)
(* A module that is gone has left the system call table as it found it,    *)
(* and a loaded one has all its handlers in place, after any number of     *)
(* loads and unloads by a loader that keeps its CPU.                       *)
(***************************************************************************)
THEOREM TableStaysWhole == Spec => []TableWhole
<1>1. LiooInv => TableWhole
  BY DEF LiooInv, Stored, Protected, TableWhole, AllOf
<1> QED
  BY <1>1, LiooInvariant, PTL

(***************************************************************************)
(* Unless the module is loaded or unloaded under a preloaded process, no   *)
(* worker outlives the code it runs.                                       *)
(***************************************************************************)
THEOREM WorkersHaveCode == Spec => []CodePresent
<1>1. LiooInv => CodePresent
  BY DEF LiooInv, Careful, CodePresent
<1> QED
  BY <1>1, LiooInvariant, PTL

(***************************************************************************)
(* Nor does one run with another configuration than its process has, be    *)
(* it read from a file, left there by malloc or the default.               *)
(***************************************************************************)
THEOREM WorkersAreConfigured == Spec => []WorkerConfigured
<1>1. LiooInv => WorkerConfigured
  BY DEF LiooInv, Careful, WorkerConfigured
<1> QED
  BY <1>1, LiooInvariant, PTL

(***************************************************************************)
(* Whatever the file says, no division of the module traps, on x86-64 and  *)
(* on arm64, and no worker ever divides by a RATIO of 0, unless the module *)
(* is loaded or unloaded under a preloaded process.                        *)
(***************************************************************************)
THEOREM KernelNeverFaults == Spec => []KernelDivides
<1>1. LiooInv => KernelDivides
  BY DEF LiooInv, NoTrap, Placed, Careful, KernelDivides
<1> QED
  BY <1>1, LiooInvariant, PTL

(***************************************************************************)
(* A worker and its process mean the same bytes by each entry whenever the *)
(* configured tables fill their pages.                                     *)
(***************************************************************************)
THEOREM WorkersShareMemory == Spec => []SameMemory
<1>1. ASSUME LiooInv PROVE SameMemory
  <2> SUFFICES ASSUME ~careless, worker, FillsPages(config[tln], config[ent])
               PROVE  SameEntries(kconfig[tln], config[ent])
    BY DEF SameMemory
  <2>1. config[tln] \in Nat /\ config[ent] \in Nat
    BY <1>1, ModuleAssumption DEF LiooInv, Typed
  <2>2. kconfig = config
    BY <1>1 DEF LiooInv, Careful
  <2>3. SameEntries(config[tln], config[ent])
    BY <2>1, FilledPagesAreShared
  <2> QED
    BY <2>2, <2>3
<1> QED
  BY <1>1, LiooInvariant, PTL
-----------------------------------------------------------------------------
\* A round of the scan passes no place but the one it starts at.
LEMMA ScanMissesNone ==
  ASSUME Typed, file # NoFile, pos <= Len(file), NEW key \in Keys,
         NEW i \in pos + 1 .. pos + Consumed(pos) - 1
  PROVE  ~Place(key, i)
<1>0. pos \in Nat \ {0} /\ file \in Files /\ i \in Nat \ {0} /\ key # "=" /\ key # "number"
  BY ModuleAssumption DEF Typed, Consumed
<1>1. (i = pos + 1 /\ Equals(pos + 1)) \/ (i = pos + 2 /\ Number(pos + 2))
  BY <1>0 DEF Consumed
<1>2. CASE i = pos + 1 /\ Equals(pos + 1)
  <2>1. Word(i) # <<key>>
    BY <1>0, <1>2 DEF Equals
  <2> QED
    BY <2>1 DEF Place
<1>3. CASE i = pos + 2 /\ Number(pos + 2)
  <2>1. Len(Word(i)) = 2
    BY <1>3 DEF Number
  <2>2. Len(<<key>>) = 1
    OBVIOUS
  <2> QED
    BY <2>1, <2>2 DEF Place
<1> QED
  BY <1>1, <1>2, <1>3

\* A round of the scan sees the place it starts at, if it is one.
LEMMA ScanSeesOne ==
  ASSUME Typed, file # NoFile, pos <= Len(file), NEW key \in Keys
  PROVE  Place(key, pos) <=> Consumed(pos) = 3 /\ Word(pos)[1] = key
<1>0. pos \in Nat \ {0} /\ file \in Files /\ key # "=" /\ key # "number"
      /\ pos \in 1 .. Len(file)
  BY ModuleAssumption DEF Typed
<1>1. Consumed(pos) = 3 <=> Equals(pos + 1) /\ Number(pos + 2)
  BY DEF Consumed
<1>2. Word(pos) = <<key>> <=> Word(pos)[1] = key
  <2>1. CASE Number(pos)
    <3>1. Word(pos)[1] = "number" /\ Len(Word(pos)) = 2 /\ Len(<<key>>) = 1
      BY <1>0, <2>1, WordsOfFile DEF Number
    <3> QED
      BY <1>0, <3>1
  <2>2. CASE ~Number(pos)
    <3>1. Word(pos) = <<Word(pos)[1]>>
      BY <1>0, <2>2, WordsOfFile
    <3> QED
      BY <3>1
  <2> QED
    BY <2>1, <2>2
<1> QED
  BY <1>0, <1>1, <1>2 DEF Place

\* After a round the scan has seen every place up to where it is.
LEMMA ScanSees ==
  ASSUME Typed, file # NoFile, scan, NEW key \in Keys, Seen(key)
  PROVE  Seen(key)'
<1>0. /\ pos \in Nat \ {0} /\ pos <= Len(file) /\ Len(file) \in Nat
      /\ Consumed(pos) \in 1 .. 3 /\ pos' = pos + Consumed(pos) /\ file' = file
  BY ModuleAssumption DEF scan, Consumed, Typed
<1>1. \A i \in 1 .. pos' - 1 : Place(key, i) => i \in 1 .. pos
  BY <1>0, ScanMissesNone, SMTT(60), Z3
<1>2. \A i : Place(key, i)' <=> Place(key, i)
  BY <1>0 DEF Place, Word, Equals, Number
<1>3. \A i : Word(i)' = Word(i)
  BY <1>0, Zenon DEF Word
<1>4. CASE Place(key, pos)
  <2>1. Consumed(pos) = 3 /\ Word(pos)[1] = key
    BY <1>0, <1>4, ScanSeesOne
  <2>2. config'[key] = Word(pos + 2)[2]
    BY <2>1 DEF scan, Typed
  <2>3. pos \in 1 .. pos' - 1
    BY <1>0, <2>1
  <2>4. \A k \in 1 .. pos' - 1 : Place(key, k)' => k <= pos
    BY <1>0, <1>1, <1>2, SMTT(60), Z3
  <2> QED
    BY <1>2, <1>3, <1>4, <2>2, <2>3, <2>4 DEF Seen
<1>5. CASE ~Place(key, pos)
  <2>1. config'[key] = config[key]
    BY <1>0, <1>5, ScanSeesOne DEF scan, Typed
  <2>2. \A i \in 1 .. pos' - 1 : Place(key, i) => i \in 1 .. pos - 1
    BY <1>0, <1>1, <1>5
  <2>3. \A i \in 1 .. pos - 1 : i \in 1 .. pos' - 1
    BY <1>0, SMTT(60), Z3
  <2> QED
    BY <1>2, <1>3, <2>1, <2>2, <2>3 DEF Seen
<1> QED
  BY <1>4, <1>5, Zenon

\* What was seen stays seen while the process reads no further.
LEMMA SeenStays ==
  ASSUME UNCHANGED <<pos, config, file>>, NEW key, Seen(key)
  PROVE  Seen(key)'
<1>1. \A i : Word(i)' = Word(i)
  BY DEF Word
<1>2. \A i : Place(key, i)' <=> Place(key, i)
  BY <1>1 DEF Place, Equals, Number
<1> QED
  BY <1>1, <1>2 DEF Seen

(***************************************************************************)
(* Every file, however malformed, is read as it is written: the loop over  *)
(* fscanf of setup leaves each key with the value of the last place that   *)
(* gives it one.                                                           *)
(***************************************************************************)
THEOREM FileIsParsed == Spec => []ParsedAsWritten
<1>1. Init => ScanInv
  BY Zenon DEF Init, ScanInv
<1>2. ASSUME LiooInv, ScanInv, Next PROVE ScanInv'
  <2>0. Typed /\ Placed
    BY <1>2 DEF LiooInv
  <2>1. CASE setup
    <3> SUFFICES ASSUME file # NoFile, NEW key \in Keys
                 PROVE  ppc' = "scan" /\ Seen(key)'
      BY <2>1 DEF setup, ScanInv
    <3>1. ppc' = "scan" /\ pos' = 1 /\ config'[key] \in Garbage
      BY <2>0, <2>1 DEF setup, Placed
    <3> QED
      BY <3>1 DEF Seen
  <2>2. CASE scan
    <3>1. file # NoFile /\ file' = file /\ ppc = "scan" /\ ppc' = "scan"
      BY <2>0, <2>2 DEF scan, Placed
    <3>2. \A key \in Keys : Seen(key)'
      BY <1>2, <2>0, <2>2, <3>1, ScanSees DEF ScanInv
    <3> QED
      BY <3>1, <3>2 DEF ScanInv
  <2>3. CASE scan_end
    BY <1>2, <2>3, SeenStays DEF scan_end, ScanInv
  <2>4. CASE UNCHANGED <<ppc, pos, config, file>>
    BY <1>2, <2>4, SeenStays DEF ScanInv
  <2>5. CASE init_config \/ esca_config \/ esca_register \/ die \/ reap
    <3>1. ppc' \notin {"scan", "conf"}
      BY <2>5 DEF init_config, esca_config, esca_register, die, reap, Gone
    <3> QED
      BY <3>1 DEF ScanInv
  <2> QED
    BY <1>2, <2>1, <2>2, <2>3, <2>4, <2>5 DEF Next, Loader, Process, insmod, rmmod,
       allow_writes, save, hook, recover, disallow_writes, Move, exit_worker, proc
<1>3. ASSUME ScanInv, UNCHANGED vars PROVE ScanInv'
  BY <1>3, SeenStays DEF vars, proc, ScanInv
<1>4. ASSUME LiooInv, ScanInv PROVE ParsedAsWritten
  <2> SUFFICES ASSUME ppc = "conf", file # NoFile, NEW key \in Keys
               PROVE  config[key] \in Written(key)
    BY DEF ParsedAsWritten
  <2> DEFINE I == {i \in 1 .. Len(file) : Place(key, i)}
  <2>1. Written(key) = IF I = {} THEN Garbage
                       ELSE {Word((CHOOSE i \in I : \A j \in I : j <= i) + 2)[2]}
    BY Zenon DEF Written, Place
  <2>2. pos \in Nat /\ Len(file) \in Nat /\ pos > Len(file) /\ Seen(key)
    BY <1>4, ModuleAssumption DEF ScanInv, LiooInv, Typed
  <2>3. \A i : i \in I <=> i \in 1 .. pos - 1 /\ Place(key, i)
    BY <2>2 DEF Place
  <2>4. CASE I = {}
    BY <2>1, <2>2, <2>3, <2>4 DEF Seen
  <2>5. CASE I # {}
    <3>1. PICK m \in I : config[key] = Word(m + 2)[2] /\ \A k \in I : k <= m
      BY <2>2, <2>3, <2>5 DEF Seen
    <3>2. \A n \in I : (\A k \in I : k <= n) => n = m
      BY <3>1
    <3>3. (CHOOSE i \in I : \A j \in I : j <= i) = m
      BY <3>1, <3>2
    <3> QED
      BY <2>1, <2>5, <3>1, <3>3, Zenon
  <2> QED
    BY <2>4, <2>5
<1> QED
  BY <1>1, <1>2, <1>3, <1>4, LiooInvariant, PTL DEF Spec, Next
=============================================================================
