------------------------------- MODULE Address -------------------------------
(***************************************************************************)
(* Network addresses, as the host logs them (Chat/network/address.h).      *)
(* A uint32_t holds the four parts of an IPv4 address in network order:    *)
(* on the little-endian machines this runs on, the first one is the least  *)
(* significant byte.                                                       *)
(***************************************************************************)
EXTENDS Naturals, Sequences

Address(inHost, inPort) == [host |-> inHost, port |-> inPort]

\* ENetAddress, for the four parts and the port that the other side has.
ENetAddress(parts, inPort) ==
  [host |-> parts[1] + 256 * (parts[2] + 256 * (parts[3] + 256 * parts[4])),
   port |-> inPort]

\* net::convert
convert(addr) == Address(addr.host, addr.port)

\* (i >> shift) & 0xFF, for each of the four parts in the order in which they
\* are written. Mistake: the most significant byte comes first.
IPv4_Reversed(i) == [k \in 1 .. 4 |-> (i \div 256 ^ (4 - k)) % 256]

IPv4(i) == [k \in 1 .. 4 |-> (i \div 256 ^ (k - 1)) % 256]

\* Address::str: the parts and the port.
str(address) == Append(IPv4(address.host), address.port)
=============================================================================
