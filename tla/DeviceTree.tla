----------------------------- MODULE DeviceTree -----------------------------
(***************************************************************************)
(* The flattened device tree as src/libs/dtb/dtb.c sees it through libfdt. *)
(* libfdt is not part of the repository's sources: the fdt_ operators say   *)
(* what the code relies on.                                                *)
(*                                                                         *)
(* A tree is the sequence of its nodes in the order of the structure block.*)
(* A node has its depth (the root has 0), its name and its properties, a   *)
(* function from property names to values: cells for numbers, a string or  *)
(* a sequence of strings for text.  The offset of a node is its index.     *)
(***************************************************************************)
EXTENDS Integers, Sequences, FiniteSetsExt

\* A negative offset: the libfdt error codes, which the callers tell apart only
\* as "no such node".
NoOffset == -1

\* An offset that is not negative and at which no node begins: every libfdt call
\* on it fails.
OffNode(t) == Len(t) + 1

IsNode(t, off) == off \in DOMAIN t

FirstOf(S) == IF S = {} THEN NoOffset ELSE Min(S)

\* fdt_getprop: the property exists; its value.
HasProp(t, off, name) == IsNode(t, off) /\ name \in DOMAIN t[off].props
Prop(t, off, name) == t[off].props[name]
PropOf(t, off, name, default) == IF HasProp(t, off, name) THEN Prop(t, off, name) ELSE default

\* Every node but the root is one deeper than some node before it, with nothing
\* shallower between them; a reg property is an array of cells.
IsTree(t) ==
    /\ Len(t) \in Nat \ {0} /\ DOMAIN t = 1 .. Len(t)
    /\ t[1].depth = 0
    /\ \A k \in 2 .. Len(t) : t[k].depth \in 1 .. t[k - 1].depth + 1
    /\ \A k \in DOMAIN t : HasProp(t, k, "reg") => Prop(t, k, "reg") \in Seq(Nat)

fdt_parent_offset(t, off) ==
    LET above == {k \in 1 .. off - 1 : t[k].depth = t[off].depth - 1}
    IN  IF above = {} THEN NoOffset ELSE Max(above)

Children(t, off) == {k \in DOMAIN t : IsNode(t, off) /\ fdt_parent_offset(t, k) = off}

\* The iteration fdt_first_subnode, fdt_next_subnode: the children in order.
fdt_first_subnode(t, off) == FirstOf(Children(t, off))
fdt_next_subnode(t, off) ==
    FirstOf({k \in Children(t, fdt_parent_offset(t, off)) : k > off})

\* fdt_path_offset for the path of a child of the root.
fdt_path_offset(t, name) == FirstOf({k \in Children(t, 1) : t[k].name = name})

\* fdt_next_node(off, &depth).  The scan passes one end tag for each level it
\* leaves and stops early, behind the end tag that makes depth negative: what
\* stands there is the next node only if no further end tag does.
fdt_next_node(t, off, depth) ==
    LET next == off + 1
        ends == IF next <= Len(t) THEN t[off].depth - t[next].depth + 1
                                  ELSE t[off].depth + 1
        stop(d) == [off |-> IF next <= Len(t) /\ ends = d THEN next ELSE OffNode(t),
                    depth |-> -1]
    IN  CASE off = NoOffset -> [off |-> 1, depth |-> depth + 1]
          [] off # NoOffset /\ ~IsNode(t, off) -> [off |-> NoOffset, depth |-> depth]
          [] IsNode(t, off) /\ ends = 0 -> [off |-> next, depth |-> depth + 1]
          [] IsNode(t, off) /\ ends > 0 /\ depth < 0 -> [stop(1) EXCEPT !.depth = depth - 1]
          [] IsNode(t, off) /\ ends > depth /\ depth >= 0 -> stop(depth + 1)
          [] OTHER -> IF next <= Len(t) THEN [off |-> next, depth |-> depth - ends + 1]
                      ELSE [off |-> NoOffset, depth |-> depth - ends]

\* fdt_address_cells and fdt_size_cells: the defaults are 2 and 1, more than
\* four cells are an error, and so is an address of no cells.
BadCells == -1

fdt_cells(t, off, name, default) ==
    IF ~HasProp(t, off, name) THEN default
    ELSE LET v == Prop(t, off, name) IN IF Len(v) = 1 /\ v[1] <= 4 THEN v[1] ELSE BadCells

fdt_address_cells(t, off) ==
    LET n == fdt_cells(t, off, "#address-cells", 2) IN IF n = 0 THEN BadCells ELSE n

fdt_size_cells(t, off) == fdt_cells(t, off, "#size-cells", 1)

\* fdt_node_offset_by_compatible(start, compat): the first node after start
\* with compat in its list.
CompatOf(t, off) == PropOf(t, off, "compatible", <<>>)

fdt_node_offset_by_compatible(t, start, compat) ==
    FirstOf({k \in DOMAIN t :
        k > start /\ \E q \in DOMAIN CompatOf(t, k) : CompatOf(t, k)[q] = compat})

\* fdt_node_offset_by_phandle: the first node with that phandle.  The callers ask
\* for any number; 0 and the largest one are never found.
fdt_node_offset_by_phandle(t, phandle, largest) ==
    IF phandle \in {0, largest} THEN NoOffset
    ELSE FirstOf({k \in DOMAIN t : PropOf(t, k, "phandle", <<>>) = <<phandle>>})
=============================================================================
