---------------------------- MODULE MCAdminLists ----------------------------
(* Small instances of AdminLists for TLC. *)
EXTENDS AdminLists, TLC

ItemsAreAlike == Permutations(Items)

\* One call where much goes on beside it, or where a page like it has two.
CallsOn == [p \in Pages |-> IF p \in {"live", "roles", "resources", "openvpn", "wireguard"} THEN 1 ELSE 2]
=============================================================================
