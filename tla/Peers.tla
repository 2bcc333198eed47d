------------------------------- MODULE Peers -------------------------------
(***************************************************************************)
(* The Peers map of a node: a function from node ids to addresses.  The    *)
(* roles and the TLS settings that a Peer also carries are left out.       *)
(***************************************************************************)
EXTENDS Integers, Functions, FiniteSetsExt

NoPeers == <<>>

\* Peers::new: the node itself.
NewPeers(id, addr) == [i \in {id} |-> addr]

\* Peers::add_peer inserts, and replaces an address that is already there.
AddPeer(peers, id, addr) ==
  [i \in DOMAIN peers \cup {id} |-> IF i = id THEN addr ELSE peers[i]]

RemovePeer(peers, id) == Restrict(peers, DOMAIN peers \ {id})

\* Peers::reserve_id: one past the largest key; nothing is recorded.
ReserveId(peers) == IF DOMAIN peers = {} THEN 1 ELSE Max(DOMAIN peers) + 1

\* Peers::get_node_id_by_addr, or 0.
NodeIdByAddr(peers, addr) ==
  LET ids == {i \in DOMAIN peers : peers[i] = addr}
  IN  IF ids = {} THEN 0 ELSE CHOOSE i \in ids : TRUE
=============================================================================
