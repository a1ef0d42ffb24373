----------------------------- MODULE MCBoardMap -----------------------------
(***************************************************************************)
(* Boards of 18 pages of 2 bytes with cells of 0..5: memory in one or two  *)
(* nodes, up to three entries in a reservation where two are read, devices *)
(* in and outside RAM, and boards whose regions are more than the lists of *)
(* the map hold.                                                           *)
(***************************************************************************)
EXTENDS BoardMap

Node(d, name, props) == [depth |-> d, name |-> name, props |-> props]

NoProps == [x \in {} |-> 0]

Cells(a, s) == ("#address-cells" :> <<a>>) @@ ("#size-cells" :> <<s>>)
Memory(reg) == ("device_type" :> "memory") @@ ("reg" :> reg)
Device(reg) == ("compatible" :> <<"dev">>) @@ ("reg" :> reg)

\* Addresses and sizes have two cells.
Entry(base, size) == <<base \div 6, base % 6, size \div 6, size % 6>>
Entries(es) == FlattenSeq([q \in DOMAIN es |-> Entry(es[q][1], es[q][2])])

\* One node or none with the registers es.
NodesOf(es, node) == IF es = <<>> THEN <<>> ELSE <<node>>

MCTree(mem, resCells, res, dev) ==
    <<Node(0, "", Cells(2, 2)),
      Node(1, "memory", Memory(Entries(mem[1])))>>
    \o NodesOf(mem[2], Node(1, "memory", Memory(Entries(mem[2]))))
    \o (IF res = <<>> THEN <<>>
        ELSE <<Node(1, "reserved-memory", Cells(resCells, 2))>>
             \o [q \in DOMAIN res |-> Node(2, "res", "reg" :> Entries(res[q]))])
    \o <<Node(1, "soc", Cells(2, 2)), Node(2, "dev", Device(Entries(dev))), Node(2, "bus", NoProps)>>

\* The kernel is in 12..16.  Its bank is alone; last of three; first, or behind
\* another one, with a hole between; split in pieces that touch or share a page;
\* overlapped by a second bank; beside one that ends at the top, where the end wraps;
\* beside an empty bank that rounds to a page and one that does not; begins with the
\* kernel and is one of three.
MCMem ==
    {<< <<<<10, 16>>>>, <<>> >>,
     << <<<<0, 2>>, <<4, 3>>>>, <<<<10, 16>>>> >>,
     << <<<<10, 16>>>>, <<<<0, 4>>>> >>,
     << <<<<26, 8>>, <<10, 12>>>>, <<>> >>,
     << <<<<11, 4>>, <<15, 9>>>>, <<<<24, 3>>>> >>,
     << <<<<6, 28>>, <<20, 4>>>>, <<>> >>,
     << <<<<10, 16>>>>, <<<<30, 6>>>> >>,
     << <<<<6, 10>>, <<22, 0>>>>, <<<<33, 0>>>> >>,
     << <<<<12, 22>>, <<0, 6>>>>, <<<<8, 2>>>> >>}

\* The nodes of /reserved-memory: none; one entry in a bank; entries that overlap each
\* other, the kernel and the holes; one that wraps at the top; one node with more
\* entries than are read; more entries altogether than are kept; entries that leave
\* many small pieces free.
MCRes ==
    {<<>>,
     << <<<<18, 3>>>> >>,
     << <<<<21, 1>>, <<2, 9>>>>, <<<<18, 6>>>> >>,
     << <<<<13, 6>>, <<35, 3>>>>, <<<<24, 0>>>> >>,
     << <<<<13, 6>>, <<28, 2>>, <<22, 1>>>> >>,
     << <<<<19, 1>>, <<23, 3>>>>, <<<<3, 2>>, <<28, 2>>>> >>,
     << <<<<24, 2>>, <<28, 2>>>>, <<<<2, 2>>>> >>}

\* Registers in a hole, at the top and past it, beside RAM, in RAM, and empty.
MCDev == {<<>>, <<<<4, 2>>, <<8, 1>>>>, <<<<35, 1>>, <<8, 1>>>>, <<<<23, 2>>, <<26, 0>>>>, <<<<34, 5>>, <<26, 1>>>>}

Board(tree) == [tree |-> tree, fdt |-> [base |-> 20, size |-> 1]]

\* With three cells in an address /reserved-memory cannot be read at all.
MCBoards ==
    {Board(MCTree(m, 2, r, d)) : m \in MCMem, r \in MCRes, d \in MCDev}
    \cup {Board(MCTree(m, 3, r, <<>>)) : m \in MCMem, r \in MCRes}

MCPlatforms == {PlatformOf(b) : b \in MCBoards}
=============================================================================
