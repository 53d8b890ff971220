------------------------------ MODULE MCMemory ------------------------------
(* Instances of Memory for TLC.                                            *)
EXTENDS Memory

Elf(pages, segs, valid) == [pages |-> pages, segs |-> segs, valid |-> valid]

\* A program of one page, with two of heap before the area of mmap.
MCSmall == Elf(1, <<[from |-> 1, to |-> 2]>>, TRUE)

\* A file of two pages, one whose segments share a page, so that the second
\* cannot be loaded, and one that is no ELF file.
MCElfFiles ==
  {MCSmall,
   Elf(2, <<[from |-> 1, to |-> 2]>>, TRUE),
   Elf(1, <<[from |-> 1, to |-> 2], [from |-> 1, to |-> 3]>>, TRUE),
   Elf(1, <<[from |-> 1, to |-> 2]>>, FALSE)}

\* Programs that come and go, one that maps memory before it executes
\* another, and two that share the memory that is left.
Mix(calls, kernel) == [calls |-> calls, kernel |-> kernel]
MCMixes == {Mix({"exec", "fork", "exit", "brk"}, 0),
            Mix({"exec", "mmap", "munmap", "mprotect"}, 6),
            Mix({"fork", "mmap", "brk"}, 7)}
=============================================================================
