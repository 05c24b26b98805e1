---------------------------- MODULE MCPosixSocket ----------------------------
(* Instance of PosixSocket: two sockets, so that one can accept for the      *)
(* other, and as many descriptors; sockets of no particular family, which    *)
(* try IPv6 and then IPv4, and sockets of IPv4 only.                         *)
EXTENDS PosixSocket

Anything == [family |-> "UNSPEC", preferred |-> "UNSPEC", reuse_addr |-> TRUE]
OnlyV4 == [family |-> "INET4", preferred |-> "UNSPEC", reuse_addr |-> TRUE]

SomeConfigs == {Anything, OnlyV4}
=============================================================================
