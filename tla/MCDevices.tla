------------------------------ MODULE MCDevices ------------------------------
\* Devices for TLC: the tasks and the accounts are interchangeable.
EXTENDS Devices, TLC

Symmetry == Permutations(Tasks) \cup Permutations(Users)

One == INSTANCE IpAllocator WITH HostBits <- 0
Two == INSTANCE IpAllocator WITH HostBits <- 1

(* In a network of one or two addresses the reserved offsets coincide or fall out
   of the network: the allocator starts with exactly those reserved that are
   there, and has none to give. *)
ASSUME TinyNetworks ==
    \A family \in Families :
        /\ One!NewAllocator(family).taken = One!Reserved(family)
        /\ One!Exhausted(One!NewAllocator(family)) /\ One!Reservable(One!NewAllocator(family)) = {}
        /\ Two!NewAllocator(family).taken = Two!Reserved(family)
        /\ Two!Exhausted(Two!NewAllocator(family)) /\ Two!Reservable(Two!NewAllocator(family)) = {}
=============================================================================
