---------------------------- MODULE ClientAddress ----------------------------
(***************************************************************************)
(* Who the client of a request is: resolveClientAddress and the CIDR         *)
(* matching it rests on.  Addresses of both families are compared in one     *)
(* space; the IPv4 addresses are moved to its IPv4-mapped range.             *)
(***************************************************************************)
EXTENDS Integers, Sequences

CONSTANTS
  V6Bits, V4Bits, \* widths of the two kinds of address (128 and 32)
  MappedOffset,   \* first address of the IPv4-mapped range
  TrustedProxies  \* TRUSTED_PROXY_CIDRS: records family, prefix, length

ASSUME AddressAssumption ==
  V6Bits \in Nat /\ V4Bits \in Nat /\ MappedOffset \in Nat

\* A spelling that parses as no address has family "none".
Address(family, value) == [family |-> family, value |-> value]
Value(address) ==
  IF address.family = "v4" THEN address.value + MappedOffset ELSE address.value

\* An entry that does not parse is skipped.
Width(cidr) == IF cidr.family = "v4" THEN V4Bits ELSE V6Bits
Usable(cidr) == cidr.family # "none" /\ cidr.length \in 0 .. Width(cidr)

\* Masking keeps the leading bits; the others span the range.
Span(cidr) == 2 ^ (Width(cidr) - cidr.length)
First(cidr) == Value(Address(cidr.family, (cidr.prefix \div Span(cidr)) * Span(cidr)))
Contains(cidr, address) ==
  /\ address.family # "none"
  /\ Value(address) \in First(cidr) .. First(cidr) + Span(cidr) - 1

IsProxy(address) == \E cidr \in TrustedProxies : Usable(cidr) /\ Contains(cidr, address)

\* The header is walked from the hop nearest the application leftward; the
\* first hop that is no trusted proxy is the client.
Strangers(hops) == {i \in DOMAIN hops : ~IsProxy(hops[i])}
FarthestStranger(hops) ==
  hops[CHOOSE i \in Strangers(hops) : \A j \in Strangers(hops) : i <= j]
NearestStranger(hops) ==
  hops[CHOOSE i \in Strangers(hops) : \A j \in Strangers(hops) : j <= i]

ResolveClientAddress(socket, hops) ==
  IF IsProxy(socket) /\ Strangers(hops) # {} THEN NearestStranger(hops) ELSE socket
=============================================================================
