-------------------------- MODULE DescriptorTable ---------------------------
(***************************************************************************)
(* What a table of file descriptors promises its clients.  An open gives a *)
(* descriptor that nobody holds, bound to an inode that no other           *)
(* descriptor is bound to; a close unbinds one descriptor and touches no   *)
(* other; nothing else changes a binding, except that all of them go when  *)
(* the process does.                                                       *)
(***************************************************************************)
EXTENDS Integers

CONSTANTS
  Descriptors,
  InmemInodes   \* what a descriptor can be bound to

VARIABLE bound  \* the inode of each descriptor in use

TableInit == bound = [fd \in {} |-> 0]

OpenDescriptor(fd, ip) ==
  /\ fd \notin DOMAIN bound
  /\ \A other \in DOMAIN bound : bound[other] # ip
  /\ bound' = [d \in DOMAIN bound \cup {fd} |-> IF d = fd THEN ip ELSE bound[d]]

CloseDescriptor(fd) ==
  /\ fd \in DOMAIN bound
  /\ bound' = [d \in DOMAIN bound \ {fd} |-> bound[d]]

LoseAll == bound' = [fd \in {} |-> 0]

TableNext ==
  \/ \E fd \in Descriptors, ip \in InmemInodes : OpenDescriptor(fd, ip)
  \/ \E fd \in Descriptors : CloseDescriptor(fd)
  \/ LoseAll

TableSpec == TableInit /\ [][TableNext]_bound
=============================================================================
