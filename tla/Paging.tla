------------------------------- MODULE Paging -------------------------------
(***************************************************************************)
(* crates/vmm/src/paging.rs: the page tables that map the first GiB of      *)
(* virtual memory to itself with 2 MiB pages, and the walk the processor    *)
(* makes through them.  Addresses count pages of 4 KiB, so a 2 MiB page is  *)
(* 512 of them; an entry is the page it points to and its flags, which the  *)
(* source joins with `|` (page addresses have their low 12 bits clear).     *)
(***************************************************************************)
EXTENDS Integers

ENTRIES == 512
GIB     == ENTRIES * ENTRIES   \* pages in the first GiB

NoEntry == [to |-> 0, flags |-> {}]

Link(page)  == [to |-> page, flags |-> {"present", "write"}]           \* 0x3
Large(page) == [to |-> page, flags |-> {"present", "write", "size"}]   \* 0x83

Table(entries) == [i \in 0..(ENTRIES - 1) |->
                     IF i \in DOMAIN entries THEN entries[i] ELSE NoEntry]

\* Page t of the three pages allocated: PML4, PDPT and PD.
create_identity_mapping(base_gpa) ==
  [t \in 0..2 |->
    CASE t = 0 -> Table([i \in {0} |-> Link(base_gpa + 1)])
      [] t = 1 -> Table([i \in {0} |-> Link(base_gpa + 2)])
      [] t = 2 -> Table([i \in 0..(ENTRIES - 1) |-> Large(i * ENTRIES)])]

-----------------------------------------------------------------------------
(* The processor (external).  tables[p] is guest-physical page p read as a   *)
(* table; the virtual page gva has nine bits of index for each level.        *)

Fault == -1

Entry(tables, page, index) ==
  IF page \in DOMAIN tables THEN tables[page][index] ELSE NoEntry

Walk(tables, cr3, gva) ==
  LET pml4e == Entry(tables, cr3, gva \div (ENTRIES * GIB))
      pdpte == Entry(tables, pml4e.to, (gva \div GIB) % ENTRIES)
      pde   == Entry(tables, pdpte.to, (gva \div ENTRIES) % ENTRIES)
  IN IF /\ "present" \in pml4e.flags /\ "present" \in pdpte.flags
        /\ {"present", "size"} \subseteq pde.flags
     THEN pde.to + (gva % ENTRIES)
     ELSE Fault
=============================================================================
