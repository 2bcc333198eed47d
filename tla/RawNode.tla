------------------------------ MODULE RawNode ------------------------------
(***************************************************************************)
(* EXTERNAL.  The part of raft-rs (RawNode, Raft, RaftLog, Unstable) that  *)
(* raftify drives from RaftNodeCore: raft-rs is a git submodule, so this   *)
(* module is written from the way raftify/src/raft_node/mod.rs calls it    *)
(* and from the Ready contract of that crate.  It is the voter's side of   *)
(* Raft: a log that is the unstable entries over the storage, the hard     *)
(* state, and the messages that may only leave after persistence.          *)
(*                                                                         *)
(* r is the volatile state of one RawNode over the store s:                *)
(*   term, vote, role, lead   lead says whether a leader is known          *)
(*   unst, snap               Unstable: entries and pending snapshot       *)
(*   committed, applied       indices of RaftLog                           *)
(*   since                    RawNode::commit_since_index                  *)
(*   prevHs                   the last hard state handed out               *)
(*   voteMsgs, ackMsgs        <<term, candidate>> and <<term, index>> of   *)
(*                            the responses waiting in a non-leader        *)
(***************************************************************************)
EXTENDS StableStorage

NoSnapshot == DefaultSnapshot
NoEntries  == <<>>

HardState(r) == [term |-> r.term, vote |-> r.vote, commit |-> r.committed]

RaftFirst(r, s) == IF r.snap # NoSnapshot THEN r.snap.index + 1 ELSE FirstIndex(s)

RaftLast(r, s) ==
  IF DOMAIN r.unst # {} THEN Max(DOMAIN r.unst)
  ELSE IF r.snap # NoSnapshot THEN r.snap.index
  ELSE LastIndex(s)

RaftTerm(r, s, i) ==
  IF i > RaftLast(r, s) \/ i < RaftFirst(r, s) - 1 THEN 0
  ELSE IF i \in DOMAIN r.unst THEN r.unst[i].term
  ELSE IF r.snap # NoSnapshot /\ i = r.snap.index THEN r.snap.term
  ELSE Term(s, i)

Persisted(r, s) ==
  IF DOMAIN r.unst # {} THEN Min(DOMAIN r.unst) - 1 ELSE RaftLast(r, s)

\* Entries above since, committed and persisted, ready to be applied.
NextEntries(r, s) ==
  IF r.snap # NoSnapshot THEN NoEntries
  ELSE Entries(s, Max({r.since + 1, FirstIndex(s)}),
                  Min({r.committed, Persisted(r, s)}) + 1)

SinceAfter(r, ents) == IF DOMAIN ents = {} THEN r.since ELSE Max(DOMAIN ents)

-----------------------------------------------------------------------------
(* RawNode::new: load the stored state.  RaftLog starts with committed =   *)
(* applied = first_index - 1, and load_state panics when the stored commit *)
(* is outside [committed, last_index].                                     *)

NewPanics(s) ==
  /\ s.hs # DefaultHardState
  /\ s.hs.commit < FirstIndex(s) - 1 \/ s.hs.commit > s.last

NewRaft(s) ==
  [term |-> s.hs.term, vote |-> s.hs.vote, role |-> "follower", lead |-> FALSE,
   unst |-> NoEntries, snap |-> NoSnapshot,
   committed |-> IF s.hs = DefaultHardState THEN FirstIndex(s) - 1 ELSE s.hs.commit,
   applied |-> FirstIndex(s) - 1, since |-> 0,
   prevHs |-> [term |-> s.hs.term, vote |-> s.hs.vote,
               commit |-> IF s.hs = DefaultHardState THEN FirstIndex(s) - 1
                          ELSE s.hs.commit],
   voteMsgs |-> {}, ackMsgs |-> {}]

-----------------------------------------------------------------------------
(* Roles and terms *)

\* A message of a higher term makes the node a follower that has not voted.
StepDown(r, term) ==
  IF term > r.term
  THEN [r EXCEPT !.term = term, !.vote = NoVote, !.role = "follower", !.lead = FALSE]
  ELSE r

BecomeCandidate(r, self) ==
  [r EXCEPT !.term = @ + 1, !.vote = self, !.role = "candidate", !.lead = FALSE,
            !.voteMsgs = @ \cup {<<r.term + 1, self>>}]

\* One entry at the end of the log of a leader.
AppendLeader(r, s, entry) ==
  [r EXCEPT !.unst = Put(@, RaftLast(r, s) + 1, entry)]

\* A new leader appends an empty entry of its term.
BecomeLeader(r, s) ==
  AppendLeader([r EXCEPT !.role = "leader", !.lead = TRUE], s,
               [term |-> r.term, kind |-> "noop"])

-----------------------------------------------------------------------------
(* Raft::step, for the messages a voter receives *)

\* MsgRequestVote of candidate c, whose log the caller found up to date.
CanVote(r, c) == r.vote = c \/ (r.vote = NoVote /\ ~r.lead)

GrantVote(r, c) ==
  [r EXCEPT !.vote = c, !.voteMsgs = @ \cup {<<r.term, c>>}]

\* The entries of ents from the first one the log does not already hold.
Conflicting(r, s, ents) ==
  LET bad == {i \in DOMAIN ents : RaftTerm(r, s, i) # ents[i].term}
  IN  IF bad = {} THEN NoEntries ELSE Slice(ents, Min(bad), Max(DOMAIN ents))

\* Unstable::truncate_and_append.
TruncateAndAppend(unst, ents) ==
  PutAll(Slice(unst, 0, Min(DOMAIN ents) - 1), ents)

\* MsgAppend with previous entry (prev, prevTerm), for r already in its term.
HandleAppend(r, s, prev, prevTerm, ents, commit) ==
  LET r1   == [r EXCEPT !.role = "follower", !.lead = TRUE]
      new  == Conflicting(r1, s, ents)
      last == Max({prev} \cup DOMAIN ents)
  IN  IF prev < r1.committed
      THEN [r1 EXCEPT !.ackMsgs = @ \cup {<<r1.term, r1.committed>>}]
      ELSE IF RaftTerm(r1, s, prev) # prevTerm THEN r1
      ELSE [r1 EXCEPT
             !.unst      = IF DOMAIN new = {} THEN @ ELSE TruncateAndAppend(@, new),
             !.committed = Max({@, Min({commit, last})}),
             !.ackMsgs   = @ \cup {<<r1.term, last>>}]

\* raft-rs panics when a leader's entries conflict with a committed one.
AppendConflictPanics(r, s, prev, prevTerm, ents) ==
  LET new == Conflicting(r, s, ents)
  IN  /\ prev >= r.committed
      /\ RaftTerm(r, s, prev) = prevTerm
      /\ DOMAIN new # {}
      /\ Min(DOMAIN new) <= r.committed

\* MsgSnapshot, for r already in its term.
HandleSnapshot(r, s, snap) ==
  LET r1 == [r EXCEPT !.role = "follower", !.lead = TRUE]
  IN  IF snap.index < r1.committed
      THEN [r1 EXCEPT !.ackMsgs = @ \cup {<<r1.term, r1.committed>>}]
      ELSE IF RaftTerm(r1, s, snap.index) = snap.term
      THEN [r1 EXCEPT !.committed = snap.index,
                      !.ackMsgs = @ \cup {<<r1.term, snap.index>>}]
      ELSE [r1 EXCEPT !.unst = NoEntries, !.snap = snap, !.committed = snap.index,
                      !.ackMsgs = @ \cup {<<r1.term, snap.index>>}]

-----------------------------------------------------------------------------
(* The Ready protocol *)

HasHardState(r) == HardState(r) # r.prevHs

\* RawNode::ready: everything the application has to do; hs is to be stored
\* only when hasHs, and commit is the field of a LightReady.
Ready(r, s) ==
  [snap |-> r.snap, ents |-> r.unst,
   hasHs |-> HasHardState(r), hs |-> HardState(r),
   committed |-> NextEntries(r, s),
   voteMsgs |-> IF r.role = "leader" THEN {} ELSE r.voteMsgs,
   ackMsgs |-> IF r.role = "leader" THEN {} ELSE r.ackMsgs,
   commit |-> 0]

HasReady(rd) ==
  \/ rd.snap # NoSnapshot
  \/ DOMAIN rd.ents # {}
  \/ rd.hasHs
  \/ DOMAIN rd.committed # {}
  \/ rd.voteMsgs # {}
  \/ rd.ackMsgs # {}

\* The state after the Ready rd has been taken.
TakeReady(r, rd) ==
  [r EXCEPT !.since = IF rd.snap # NoSnapshot THEN rd.snap.index
                      ELSE SinceAfter(r, rd.committed),
            !.voteMsgs = {}, !.ackMsgs = {}]

\* RawNode::advance before its LightReady: everything handed out is stable
\* and applied.  A leader that is the only voter commits what it persisted.
Advance(r, s, rd, alone) ==
  LET r1 == [r EXCEPT !.unst = NoEntries, !.snap = NoSnapshot,
                      !.prevHs = IF rd.hasHs THEN rd.hs ELSE @]
  IN  [r1 EXCEPT !.applied = Max({@, r.since}),
                 !.committed = IF alone /\ r.role = "leader" THEN RaftLast(r1, s) ELSE @]

\* The LightReady of advance: commit is 0 when the commit index did not move
\* past the hard state handed out.
LightReady(r, s) ==
  [commit |-> IF r.committed > r.prevHs.commit THEN r.committed ELSE 0,
   committed |-> NextEntries(r, s)]

TakeLightReady(r, light) ==
  [r EXCEPT !.since = SinceAfter(r, light.committed),
            !.prevHs.commit = IF light.commit # 0 THEN light.commit ELSE @]

\* RawNode::advance_apply.
AdvanceApply(r) == [r EXCEPT !.applied = Max({@, r.since})]
=============================================================================
