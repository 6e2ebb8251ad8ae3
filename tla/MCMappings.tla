----------------------------- MODULE MCMappings -----------------------------
(* Two mapping objects over 7 pages of address space with 2-way page tables, *)
(* and 3 + 5 usable physical pages: the map's first entry is below LowMemory *)
(* and the second straddles it.  One request is unaligned and longer than a  *)
(* page; one BAR is not page-aligned, and one is smaller than a page.        *)
EXTENDS Mappings

MCWord == 2^18
MCFirstStart == 16 * 4096
MCFirstLength == 4 * 4096
MCLowMemory == 24 * 4096
MCMemoryMap == << [base |-> 8 * 4096 + 512, length |-> 6 * 4096],
                  [base |-> 22 * 4096 + 512, length |-> 8 * 4096] >>
MCAsaStart == 4 * 4096
MCAsaLength == 7 * 4096
MCBootTables == {<<3, 0>>, <<2, 0>>}
MCRequests == {[address |-> 40 * 4096 + 256, bytes |-> 4608]}
MCBars == {[base |-> 50 * 4096 + 16, size |-> 4096],
           [base |-> 54 * 4096, size |-> 512]}
MCRangeCounts == {2}

=============================================================================
