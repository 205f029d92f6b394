------------------------------- MODULE MCHost -------------------------------
(***************************************************************************)
(* Instances of Host: images of every interesting size, laid out the way a  *)
(* linker does.                                                             *)
(***************************************************************************)
EXTENDS Host

Sect(va, vsize, ptr, raw) ==
  [virtual_address |-> va, virtual_size |-> vsize,
   pointer_to_raw_data |-> ptr, size_of_raw_data |-> raw]

\* .text of 9 sectors in two pages, .data whose tail is zero, .bss without raw
\* data, and a last section of the given size that fills the image.
Linked(pages) ==
  [size_of_image |-> pages * PAGE - 7, len |-> 16,
   sections |-> <<Sect(PAGE, 9, 1, 9), Sect(3 * PAGE, 5, 10, 2), Sect(4 * PAGE, 3, 0, 0),
                  Sect(5 * PAGE, (pages - 6) * PAGE + 1, 12, 4)>>]

\* One page with a full section; no sections at all; no optional header.
OnePage   == [size_of_image |-> PAGE, len |-> 9, sections |-> <<Sect(0, PAGE, 1, PAGE)>>]
Empty     == [size_of_image |-> 1, len |-> 1, sections |-> <<>>]
NoHeader  == [size_of_image |-> 0, len |-> 1, sections |-> <<>>]

\* 240 pages are the most that fit below the page tables with the stack; with
\* 241 the stack reaches them, with 256 it starts there, with 257 and 259 the
\* image covers one and all three of them, and 260 pages pass them by.
Images == {OnePage, Empty, NoHeader} \cup
          {Linked(n) : n \in {6, 239, 240, 241, 255, 256, 257, 259, 260}}

\* An image whose stack overlaps the page tables.
TooLarge == {Linked(241)}

\* A small image.
Small == {Linked(6)}
=============================================================================
