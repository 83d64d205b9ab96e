----------------------------- MODULE IpAllocator -----------------------------
(***************************************************************************)
(* The in-memory address allocator of one server (zerovpn-wg, ip_alloc.rs).*)
(* An address is its offset in the server's network.  The IPv4 allocator   *)
(* is a bitmap scanned from the bottom; the IPv6 one is a set and a cursor *)
(* that only moves up, so what it releases it does not hand out again      *)
(* until the process restarts.  Each method runs under its own mutex: an   *)
(* operation here is one atomic step of a caller.                          *)
(***************************************************************************)
EXTENDS Naturals
LOCAL INSTANCE FiniteSetsExt

CONSTANT HostBits   \* the address bits left by the network's prefix

ASSUME IpAllocatorAssumption == HostBits \in Nat

Families == {"v4", "v6"}

total == 2^HostBits
Offsets == 0..(total - 1)

\* The offsets no device may have: network, gateway and, for IPv4, broadcast.
Reserved(family) == (IF family = "v4" THEN {0, 1, total - 1} ELSE {0, 1}) \cap Offsets

Allocators == [family : Families, taken : SUBSET Offsets, cursor : {2} \cup 2..total]

(* V4Allocator::new and V6Allocator::new *)
NewAllocator(family) ==
    [family |-> family,
     taken  |-> {0} \cup (IF family = "v4"
                            THEN {total - 1} \cup (IF total > 2 THEN {1} ELSE {})
                            ELSE IF total > 1 THEN {1} ELSE {}),
     cursor |-> 2]

\* The scan for a free offset starts at the bottom, or at the cursor.
Available(a) == {o \in Offsets \ a.taken : a.family = "v6" => o >= a.cursor}

Exhausted(a) == Available(a) = {}

\* The IPv6 scan leaves its cursor past what it looked at, even in vain.
Bump(a, o) == IF a.family = "v6" /\ o >= a.cursor THEN o + 1 ELSE a.cursor

(* allocate: the offset the scan finds. *)
NextOffset(a) == Min(Available(a))

\* Mutant of mark_allocated: the cursor moves on but the offset is not marked.
MarkCursorOnly(a, o) == [a EXCEPT !.cursor = Bump(a, o)]

(* mark_allocated, and the insertion at the end of allocate and try_reserve. *)
mark_allocated(a, o) == [a EXCEPT !.taken = @ \cup {o}, !.cursor = Bump(a, o)]

\* Mutant of ScanToEnd: the scan looks at one offset past the end.
ScanPastEnd(a) == [a EXCEPT !.cursor = IF a.family = "v6" /\ @ <= total THEN total + 1 ELSE @]

\* allocate when nothing is free.
ScanToEnd(a) == [a EXCEPT !.cursor = IF a.family = "v6" /\ @ < total THEN total ELSE @]

(* try_reserve succeeds on these offsets. *)
Reservable(a) == Offsets \ (Reserved(a.family) \cup a.taken)

(* release: only the IPv6 allocator refuses to free a reserved offset. *)
release(a, o) ==
    IF a.family = "v6" /\ o < 2 THEN a ELSE [a EXCEPT !.taken = @ \ {o}]

(* build_ip_allocators: a new allocator with the addresses in use marked. *)
Seeded(family, ips) ==
    LET new == NewAllocator(family)
    IN  [new EXCEPT !.taken = @ \cup ips,
                    !.cursor = IF ips = {} THEN @ ELSE Bump(new, Max(ips))]
=============================================================================
