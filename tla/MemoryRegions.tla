---------------------------- MODULE MemoryRegions ---------------------------
(***************************************************************************)
(* What the DDR allocator of an FPGA instance promises, whatever way it    *)
(* chooses addresses: one intermediate buffer at the bottom of memory that *)
(* only grows, and private buffers that overlap neither it nor each other. *)
(***************************************************************************)
EXTENDS Integers

CONSTANT TotalSize      \* bytes of DDR that belong to the instance

VARIABLES shared,       \* the intermediate buffer is [0, shared)
          regions       \* the private buffers handed out

Disjoint(r, s) == r.addr + r.size <= s.addr \/ s.addr + s.size <= r.addr

Init == shared = 0 /\ regions = {}

\* A graph asks for an intermediate buffer of some size and gets it.
GrowShared ==
    \E top \in 0 .. TotalSize :
        /\ top > shared
        /\ \A r \in regions : top <= r.addr
        /\ shared' = top
        /\ regions' = regions

\* A graph gets a private buffer that is free.
PlaceRegion ==
    \E addr \in shared .. TotalSize : \E size \in 1 .. TotalSize - addr :
        LET r == [addr |-> addr, size |-> size]
        IN  /\ \A s \in regions : Disjoint(r, s)
            /\ regions' = regions \cup {r}
            /\ shared' = shared

\* The device is destroyed and everything is free again.
ReleaseAll == shared' = 0 /\ regions' = {}

Next == GrowShared \/ PlaceRegion \/ ReleaseAll

Spec == Init /\ [][Next]_<<shared, regions>>
=============================================================================
