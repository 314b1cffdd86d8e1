------------------------------ MODULE MCLogins ------------------------------
(* Small instances of Logins: an IPv4 proxy range within a space of 32.      *)
EXTENDS Logins, TLC

Office == Address("v4", 1)
Home   == Address("v4", 2)
ReverseProxy == Address("v4", 12)
OneClient  == {Office}
TwoClients == {Office, Home}

\* The proxies, once as IPv4 and once in an entry that does not parse.
ProxyRanges == {[family |-> "v4", prefix |-> 13, length |-> 2],
                [family |-> "v4", prefix |-> 0, length |-> 9]}

\* No header, one with a stranger's address, one with a proxy's mapped address.
Headers == {<< >>, <<Home>>, <<Address("v6", 28)>>}

Symmetry == Permutations(Workers)
=============================================================================
