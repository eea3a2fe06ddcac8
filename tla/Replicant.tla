----------------------------- MODULE Replicant -----------------------------
(***************************************************************************)
(* Leader election of the Raft module: class nodeoze::raft::replicant      *)
(* (include/nodeoze/raft/replicant.h), one record of member variables per  *)
(* replica and the messages between them.                                  *)
(*                                                                         *)
(* The header is work in progress: the timers, the transport and the       *)
(* handling of append_entries are called and not defined, so they are      *)
(* external here. A message once sent may be received at any time, any     *)
(* number of times or never, in any order: msgs only grows. A restart      *)
(* loses what the replica did not write to its log; the log itself keeps   *)
(* what it acknowledged (module RaftLog says when).                        *)
(*                                                                         *)
(* The log entries do not change: client_request, append_entries and       *)
(* advance_commit_index are empty in the code. m_next_index, m_match_index *)
(* and m_commit_index are assigned and never read; they are left out.      *)
(*                                                                         *)
(* A write of the state that fails is left out too: on_election_timeout    *)
(* calls an update_replicant_state without an error code, which the log    *)
(* does not declare, so what it does with a failure is open.               *)
(***************************************************************************)
EXTENDS Integers, FiniteSets

CONSTANTS
  Replicas,    \* m_active_replicants, the same set at every replica
  LastTerm,    \* m_log.back()->term() of each replica
  LastIndex,   \* m_log.back()->index() of each replica
  MaxTerm,     \* bound: no election timeout once the term is this large
  MaxElections,  \* bound: number of election timeouts
  MaxRestarts  \* bound: number of restarts

ASSUME ReplicantAssumption ==
  /\ IsFiniteSet(Replicas)
  /\ 0 \notin Replicas
  /\ LastTerm \in [Replicas -> Nat]
  /\ LastIndex \in [Replicas -> Nat]
  /\ MaxTerm \in Nat
  /\ MaxElections \in Nat
  /\ MaxRestarts \in Nat

VARIABLES
  m_role, m_current_term, m_voted_for,  \* the members of each replica; vote 0 is none
  m_votes_responded, m_votes_granted,
  disk,        \* the term and vote each replica's log gives back at a restart
  msgs,        \* every message sent so far
  restarts,
  votes,       \* history: <<voter, term, candidate>> of every vote cast
  forgotten,   \* history: <<voter, term>>, terms that voter lost at a restart
  leaders      \* history: <<term, replica>> of every call of become_leader

member == <<m_role, m_current_term, m_voted_for, m_votes_responded, m_votes_granted>>
replicantvars == <<member, disk, msgs, restarts, votes, forgotten, leaders>>

RequestVote == [type : {"request_vote"}, src : Replicas, dst : Replicas,
                term : Nat, index : Nat, logterm : Nat]
RequestVoteReply == [type : {"request_vote_reply"}, src : Replicas, dst : Replicas,
                     term : Nat, granted : BOOLEAN]
AppendEntries == [type : {"append_entries"}, src : Replicas, dst : Replicas, term : Nat]

(* Every member, message and history has its type. *)
ReplicantTypeOK ==
  /\ m_role \in [Replicas -> {"follower", "candidate", "leader"}]
  /\ m_current_term \in [Replicas -> Nat]
  /\ m_voted_for \in [Replicas -> Replicas \cup {0}]
  /\ m_votes_responded \in [Replicas -> SUBSET Replicas]
  /\ m_votes_granted \in [Replicas -> SUBSET Replicas]
  /\ disk \in [Replicas -> [term : Nat, vote : Replicas \cup {0}]]
  /\ msgs \subseteq (RequestVote \cup RequestVoteReply \cup AppendEntries)
  /\ restarts \in Nat
  /\ votes \subseteq (Replicas \X Nat \X Replicas)
  /\ forgotten \subseteq (Replicas \X Nat)
  /\ leaders \subseteq (Nat \X Replicas)

(* initialize: term 1 and no vote, written to the log by m_log.initialize. *)
ReplicantInit ==
  /\ m_role = [r \in Replicas |-> "follower"]
  /\ m_current_term = [r \in Replicas |-> 1]
  /\ m_voted_for = [r \in Replicas |-> 0]
  /\ m_votes_responded = [r \in Replicas |-> {}]
  /\ m_votes_granted = [r \in Replicas |-> {}]
  /\ disk = [r \in Replicas |-> [term |-> 1, vote |-> 0]]
  /\ msgs = {} /\ restarts = 0
  /\ votes = {} /\ forgotten = {} /\ leaders = {}

(* The process dies and restarts: term and vote come from the log. *)
Restart(r) ==
  /\ restarts < MaxRestarts
  /\ restarts' = restarts + 1
  /\ m_role' = [m_role EXCEPT ![r] = "follower"]
  /\ m_current_term' = [m_current_term EXCEPT ![r] = disk[r].term]
  /\ m_voted_for' = [m_voted_for EXCEPT ![r] = disk[r].vote]
  /\ m_votes_responded' = [m_votes_responded EXCEPT ![r] = {}]
  /\ m_votes_granted' = [m_votes_granted EXCEPT ![r] = {}]
  /\ forgotten' = forgotten \cup ({r} \X (disk[r].term + 1 .. m_current_term[r]))
  /\ UNCHANGED <<disk, msgs, votes, leaders>>

(* Mutant: the term is written without the vote. *)
UpdateTermOnly(r, term, vote) == disk' = [disk EXCEPT ![r].term = term]

(* m_log.update_replicant_state, which returns with the frame in the file. *)
UpdateReplicantState(r, term, vote) ==
  disk' = [disk EXCEPT ![r] = [term |-> term, vote |-> vote]]

(* The replica stands for the next term, with its own vote written to the log. *)
OnElectionTimeout(r) ==
  /\ m_role[r] # "leader"
  /\ m_current_term[r] < MaxTerm
  /\ Cardinality({v \in votes : v[1] = v[3]}) < MaxElections
  /\ LET term == m_current_term[r] + 1 IN
     /\ m_current_term' = [m_current_term EXCEPT ![r] = term]
     /\ m_role' = [m_role EXCEPT ![r] = "candidate"]
     /\ m_voted_for' = [m_voted_for EXCEPT ![r] = r]
     /\ m_votes_granted' = [m_votes_granted EXCEPT ![r] = {r}]
     /\ m_votes_responded' = [m_votes_responded EXCEPT ![r] = {r}]
     /\ UpdateReplicantState(r, term, r)
     /\ votes' = votes \cup {<<r, term, r>>}
  /\ UNCHANGED <<msgs, restarts, forgotten, leaders>>

ElectionInProgress(r, term) == m_role[r] = "candidate" /\ term = m_current_term[r]

(* The retry timer of an election: ask every replica that has not answered. *)
SendRequestVoteMessages(r) ==
  /\ ElectionInProgress(r, m_current_term[r])
  /\ msgs' = msgs \cup
       {[type |-> "request_vote", src |-> r, dst |-> d, term |-> m_current_term[r],
         index |-> LastIndex[r], logterm |-> LastTerm[r]] :
           d \in Replicas \ ({r} \cup m_votes_responded[r])}
  /\ UNCHANGED <<member, disk, restarts, votes, forgotten, leaders>>

(* start_heartbeat, not defined in the header: a leader's append_entries. *)
SendAppendEntries(r) ==
  /\ m_role[r] = "leader"
  /\ msgs' = msgs \cup
       {[type |-> "append_entries", src |-> r, dst |-> d, term |-> m_current_term[r]] :
           d \in Replicas \ {r}}
  /\ UNCHANGED <<member, disk, restarts, votes, forgotten, leaders>>

(* update_term as the first step of every receive function: the term and   *)
(* the vote it leaves behind. Nothing is written to the log.               *)
TermAfter(r, term) == IF term > m_current_term[r] THEN term ELSE m_current_term[r]
VoteAfter(r, term) == IF term > m_current_term[r] THEN 0 ELSE m_voted_for[r]
UpdateTerm(r, term) ==
  /\ m_current_term' = [m_current_term EXCEPT ![r] = TermAfter(r, term)]
  /\ m_role' = [m_role EXCEPT ![r] = IF term > m_current_term[r] THEN "follower" ELSE @]

(* log_ok. receive_request_vote_message passes the candidate's index where *)
(* handle_request_vote_message takes the term, and the term for the index. *)
LogOk(r, m) ==
  LET last_term == m.index
      last_index == m.logterm
  IN  \/ last_term > LastTerm[r]
      \/ last_term = LastTerm[r] /\ last_index >= LastIndex[r]

(* Mutant: a replica that is not a candidate itself grants every request. *)
GrantIgnoresVote(r, m) ==
  /\ m.term = TermAfter(r, m.term)
  /\ LogOk(r, m)
  /\ VoteAfter(r, m.term) # r

Grant(r, m) ==
  /\ m.term = TermAfter(r, m.term)
  /\ LogOk(r, m)
  /\ VoteAfter(r, m.term) \in {0, m.src}

ReceiveRequestVote(m) ==
  LET r == m.dst
      grant == Grant(r, m)
      vote == IF grant THEN m.src ELSE VoteAfter(r, m.term)
  IN  /\ m.type = "request_vote"
      /\ UpdateTerm(r, m.term)
      /\ m_voted_for' = [m_voted_for EXCEPT ![r] = vote]
      /\ votes' = IF grant THEN votes \cup {<<r, m.term, m.src>>} ELSE votes
      /\ msgs' = msgs \cup {[type |-> "request_vote_reply", src |-> r, dst |-> m.src,
                             term |-> TermAfter(r, m.term), granted |-> grant]}
      /\ UNCHANGED <<m_votes_responded, m_votes_granted, disk, restarts, forgotten, leaders>>

Quorum(granted) == Cardinality(granted) * 2 > Cardinality(Replicas)

(* A reply of the election in progress; become_leader on a quorum. *)
ReceiveRequestVoteReply(m) ==
  LET r == m.dst
      granted == m_votes_granted[r] \cup (IF m.granted THEN {m.src} ELSE {})
  IN  /\ m.type = "request_vote_reply"
      /\ ElectionInProgress(r, m.term)
      /\ m_votes_responded' = [m_votes_responded EXCEPT ![r] = @ \cup {m.src}]
      /\ m_votes_granted' = [m_votes_granted EXCEPT ![r] = granted]
      /\ IF Quorum(granted)
           THEN /\ m_role' = [m_role EXCEPT ![r] = "leader"]
                /\ leaders' = leaders \cup {<<m.term, r>>}
           ELSE UNCHANGED <<m_role, leaders>>
      /\ UNCHANGED <<m_current_term, m_voted_for, disk, msgs, restarts, votes, forgotten>>

(* Any other message with a newer term: a reply, or append_entries, whose  *)
(* handler is not defined in the header.                                   *)
ReceiveNewerTerm(m) ==
  LET r == m.dst IN
  /\ m.type \in {"request_vote_reply", "append_entries"}
  /\ m.term > m_current_term[r]
  /\ UpdateTerm(r, m.term)
  /\ m_voted_for' = [m_voted_for EXCEPT ![r] = VoteAfter(r, m.term)]
  /\ UNCHANGED <<m_votes_responded, m_votes_granted, disk, msgs, restarts, votes,
                 forgotten, leaders>>

ReplicantNext ==
  \/ \E r \in Replicas :
       \/ Restart(r)
       \/ OnElectionTimeout(r)
       \/ SendRequestVoteMessages(r)
       \/ SendAppendEntries(r)
  \/ \E m \in msgs :
       \/ ReceiveRequestVote(m)
       \/ ReceiveRequestVoteReply(m)
       \/ ReceiveNewerTerm(m)

ReplicantSpec == ReplicantInit /\ [][ReplicantNext]_replicantvars
-----------------------------------------------------------------------------
(* Two replicas become leader of one term (become_leader) only if some     *)
(* replica voted for both, having lost that term at a restart because      *)
(* handle_request_vote_message and update_term write nothing to the log.   *)
ElectionSafety ==
  \A p, q \in leaders :
    p[1] = q[1] /\ p[2] # q[2] =>
      \E r \in Replicas : /\ <<r, p[1]>> \in forgotten
                          /\ <<r, p[1], p[2]>> \in votes /\ <<r, q[1], q[2]>> \in votes

(* A replica that has stood for a term (on_election_timeout) never votes   *)
(* for another in that term, whatever restarts lie between: its own vote   *)
(* is in the log before any request leaves.                                *)
CandidacyIsDurable ==
  [][\A v \in votes' \ votes : <<v[1], v[2], v[1]>> \in votes => v[3] = v[1]]_replicantvars
=============================================================================
