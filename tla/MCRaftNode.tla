----------------------------- MODULE MCRaftNode ----------------------------
(* The instances of RaftNode that TLC checks; the bounds are in the cfgs. *)
EXTENDS RaftNode

\* A bound of the search in stale_suffix_applied: this node only follows, and
\* only the last leader commits.
OnlyFollows ==
  /\ raft.role = "follower" /\ (raft.term > 0 => raft.lead)
  /\ \A t \in Terms : lcommit[t] > 0 => t = MaxTerm
=============================================================================
