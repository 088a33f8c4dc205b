---------------------------- MODULE TableLayout ----------------------------
(***************************************************************************)
(* Where the tables of one user worker lie.  init_worker allocates         *)
(* MAX_TABLE_LEN pages for the entries of a table.  The process reaches    *)
(* table j by entry arithmetic from the start of the allocation, the       *)
(* module maps page j.  Addresses are bytes from the start of the          *)
(* allocation.                                                             *)
(***************************************************************************)
EXTENDS Integers

CONSTANTS
  pgsize,       \* bytes of a page
  ENTRY_SIZE    \* sizeof(esca_table_entry_t)

ASSUME LayoutAssumption ==
  pgsize \in Nat \ {0} /\ ENTRY_SIZE \in Nat \ {0}

\* Faulty variant of UserAddr: table j starts j * MAX_TABLE_ENTRY bytes in.
UserAddrUnscaled(entry, j, k) == j * entry + k * ENTRY_SIZE

\* user_tables[j] + k and tables[j] + k, with MAX_TABLE_ENTRY = entry.
UserAddr(entry, j, k) == (j * entry + k) * ENTRY_SIZE
KernelAddr(j, k)      == j * pgsize + k * ENTRY_SIZE

\* Both sides mean the same bytes by each entry, and these are in the pages
\* allocated for the table.
SameEntries(len, entry) ==
  \A j \in 0 .. len - 1, k \in 0 .. entry - 1 :
    /\ UserAddr(entry, j, k) = KernelAddr(j, k)
    /\ KernelAddr(j, k) + ENTRY_SIZE <= len * pgsize

\* A table that fills its page, or a single table that fits it.
FillsPages(len, entry) ==
  \/ entry * ENTRY_SIZE = pgsize
  \/ len = 1 /\ entry * ENTRY_SIZE <= pgsize
=============================================================================
