---------------------------- MODULE ActiveCluster ---------------------------
(***************************************************************************)
(* ActiveCluster (activecluster/cluster.py) on every node: the Mediator    *)
(* (mediator.py), which keeps the node's own view of membership, health    *)
(* and primary, and the FailoverController (failover.py).                  *)
(*                                                                         *)
(* A node learns of the others by heartbeats alone, and nothing of what a  *)
(* heartbeat says is used except its sender.  The network is therefore the *)
(* set `fresh' of ids heard of within the failure threshold: a heartbeat   *)
(* adds its sender, and silence of any cause (a crash, a partition, lost   *)
(* or late messages) takes it out.  No method of these classes suspends    *)
(* outside of sleeps and HTTP calls, so each action is one step; the       *)
(* election that _check_node_health starts is a task of its own.           *)
(*                                                                         *)
(* initialize() registers a peer as hash(url) % 1000, with a hash that     *)
(* differs from process to process, while a heartbeat carries the node id  *)
(* its sender was configured with.  Only by chance are the two the same,   *)
(* and by chance a peer is registered under another peer's id or under the *)
(* node's own.                                                             *)
(***************************************************************************)
EXTENDS Integers, FiniteSets

CONSTANTS
  Nodes,      \* node ids of the nodes that are modelled
  Ids,        \* all node ids, numbers in their order as strings
  None,
  HashIds,    \* HashIds[n]: the sets of ids that hashing the urls of n's
              \* peers may give
  Senders,    \* Senders[n]: the node ids of n's peers, which heartbeats carry
  StartRoles, \* StartRoles[n]: the roles n may be initialized with
  Targets     \* targets that manual_failover is called with, None included

ASSUME ClusterAssumption ==
  /\ Nodes \subseteq Ids /\ Ids \subseteq Nat
  /\ None \notin Ids
  /\ \A n \in Nodes : HashIds[n] \subseteq SUBSET Ids
  /\ Senders \in [Nodes -> SUBSET Ids]
  /\ StartRoles \in [Nodes -> SUBSET {"PRIMARY", "SECONDARY", "WITNESS"}]

VARIABLES
  up,        \* the process runs and initialize() has returned
  peers,     \* peers[n]: the ids under which n has registered its peers
  healthy,   \* healthy[n][i]: NodeInfo.is_healthy of i at n
  role,      \* role[n][i]: NodeInfo.role of i at n
  primary,   \* _current_primary
  fresh,     \* ids whose last heartbeat is not older than the threshold
  election,  \* an initiate_election task has been created and not yet run
  fstate,    \* FailoverController._state
  original,  \* _original_primary
  cstate     \* ActiveCluster._state

view == <<healthy, role, primary>>
foVars == <<fstate, original>>
vars == <<up, peers, view, fresh, election, foVars, cstate>>

(* The keys of _nodes, and those that the health check looks at.           *)
Members(n) == {n} \cup peers[n]
Others(n) == peers[n] \ {n}
Roles == {"PRIMARY", "SECONDARY", "WITNESS"}

TypeOK ==
  /\ up \in [Nodes -> BOOLEAN]
  /\ peers \in [Nodes -> SUBSET Ids]
  /\ healthy \in [Nodes -> [Ids -> BOOLEAN]]
  /\ role \in [Nodes -> [Ids -> Roles]]
  /\ primary \in [Nodes -> Ids \cup {None}]
  /\ fresh \in [Nodes -> SUBSET Ids]
  /\ election \in [Nodes -> BOOLEAN]
  /\ fstate \in [Nodes -> {"NORMAL", "FAILED_OVER"}]
  /\ original \in [Nodes -> Ids \cup {None}]
  /\ cstate \in [Nodes -> {"INITIALIZING", "HEALTHY", "DEGRADED", "FAILED"}]

Init ==
  /\ up = [n \in Nodes |-> FALSE]
  /\ peers = [n \in Nodes |-> {}]
  /\ healthy = [n \in Nodes |-> [i \in Ids |-> TRUE]]
  /\ role = [n \in Nodes |-> [i \in Ids |-> "SECONDARY"]]
  /\ primary = [n \in Nodes |-> None]
  /\ fresh = [n \in Nodes |-> {}]
  /\ election = [n \in Nodes |-> FALSE]
  /\ fstate = [n \in Nodes |-> "NORMAL"]
  /\ original = [n \in Nodes |-> None]
  /\ cstate = [n \in Nodes |-> "INITIALIZING"]

-----------------------------------------------------------------------------
(* Mediator.                                                               *)

Healthy(n) == {i \in Members(n) : healthy[n][i]}

HasQuorum(n) == Cardinality(Healthy(n)) >= Cardinality(Members(n)) \div 2 + 1

Candidates(n) == {i \in Healthy(n) : role[n][i] \in {"PRIMARY", "SECONDARY"}}

(* Mutant: the election does not ask for a quorum.                         *)
MutElected(n) == IF Candidates(n) # {}
                 THEN CHOOSE i \in Candidates(n) : \A j \in Candidates(n) : i <= j
                 ELSE None

(* What initiate_election returns; it installs the node as primary.        *)
Elected(n) == IF HasQuorum(n) /\ Candidates(n) # {}
              THEN CHOOSE i \in Candidates(n) : \A j \in Candidates(n) : i <= j
              ELSE None

(* Mutants: the previous primary keeps its role; an unknown target is      *)
(* taken.                                                                  *)
MutSetPrimaryRole(n, p) ==
  IF p \in Members(n)
  THEN /\ primary' = [primary EXCEPT ![n] = p]
       /\ role' = [role EXCEPT ![n][p] = "PRIMARY"]
  ELSE UNCHANGED <<primary, role>>

MutSetPrimaryUnknown(n, p) ==
  /\ primary' = [primary EXCEPT ![n] = p]
  /\ role' = [role EXCEPT ![n] =
                 [i \in Ids |-> IF i = p THEN "PRIMARY"
                                ELSE IF role[n][i] = "PRIMARY" THEN "SECONDARY"
                                ELSE role[n][i]]]

(* set_primary, which refuses an unknown node, and the end of an election. *)
SetPrimary(n, p) ==
  IF p \in Members(n)
  THEN /\ primary' = [primary EXCEPT ![n] = p]
       /\ role' = [role EXCEPT ![n] =
                     [i \in Ids |-> IF i = p THEN "PRIMARY"
                                    ELSE IF role[n][i] = "PRIMARY" THEN "SECONDARY"
                                    ELSE role[n][i]]]
  ELSE UNCHANGED <<primary, role>>

(* initialize(): fresh objects in a fresh process, and then the services.  *)
(* A peer registered under the node's own id takes the place of its entry; *)
(* set_primary then puts a primary's role right.                           *)
Start(n, r, ids) ==
  /\ ~up[n]
  /\ up' = [up EXCEPT ![n] = TRUE]
  /\ peers' = [peers EXCEPT ![n] = ids]
  /\ healthy' = [healthy EXCEPT ![n] = [i \in Ids |-> TRUE]]
  /\ role' = [role EXCEPT ![n] =
                 [i \in Ids |-> IF i = n /\ (i \notin ids \/ r = "PRIMARY") THEN r
                                ELSE "SECONDARY"]]
  /\ primary' = [primary EXCEPT ![n] = IF r = "PRIMARY" THEN n ELSE None]
  /\ fresh' = [fresh EXCEPT ![n] = ids]
  /\ election' = [election EXCEPT ![n] = FALSE]
  /\ fstate' = [fstate EXCEPT ![n] = "NORMAL"]
  /\ original' = [original EXCEPT ![n] = None]
  /\ cstate' = [cstate EXCEPT ![n] = "HEALTHY"]

(* The process ends, by a crash or by shutdown(), which the server calls   *)
(* as its last step: nothing is persistent, and nobody initializes the     *)
(* same objects again.                                                     *)
Stop(n) ==
  /\ up[n]
  /\ up' = [up EXCEPT ![n] = FALSE]
  /\ UNCHANGED <<peers, view, fresh, election, foVars, cstate>>

(* A heartbeat under an id that is not registered is answered, and that is *)
(* all.                                                                    *)
ReceiveHeartbeat(n, i) ==
  /\ up[n]
  /\ IF i \in Members(n)
     THEN /\ fresh' = [fresh EXCEPT ![n] = @ \cup {i}]
          /\ healthy' = [healthy EXCEPT ![n][i] = TRUE]
     ELSE UNCHANGED <<fresh, healthy>>
  /\ UNCHANGED <<up, peers, role, primary, election, foVars, cstate>>

Silence(n, i) ==
  /\ up[n] /\ i \in fresh[n]
  /\ fresh' = [fresh EXCEPT ![n] = @ \ {i}]
  /\ UNCHANGED <<up, peers, view, election, foVars, cstate>>

(* _check_node_health: the election is created on the edge from healthy to *)
(* unhealthy, and only then.                                               *)
Lost(n) == {i \in Others(n) \ fresh[n] : healthy[n][i]}

CheckNodeHealth(n) ==
  /\ up[n] /\ Lost(n) # {}
  /\ healthy' = [healthy EXCEPT ![n] = [i \in Ids |-> healthy[n][i] /\ i \notin Lost(n)]]
  /\ election' = [election EXCEPT ![n] = @ \/ primary[n] \in Lost(n)]
  /\ UNCHANGED <<up, peers, role, primary, fresh, foVars, cstate>>

InitiateElection(n) ==
  /\ up[n] /\ election[n]
  /\ election' = [election EXCEPT ![n] = FALSE]
  /\ SetPrimary(n, Elected(n))
  /\ UNCHANGED <<up, peers, healthy, fresh, foVars, cstate>>

-----------------------------------------------------------------------------
(* FailoverController.                                                     *)

(* _execute_failover: p is the primary that was chosen, None if none was.  *)
ExecuteFailover(n, p) ==
  /\ original' = [original EXCEPT ![n] = primary[n]]
  /\ fstate' = [fstate EXCEPT ![n] = IF p = None THEN "NORMAL" ELSE "FAILED_OVER"]

(* Mutant: only a primary that has just gone silent is failed over.        *)
MutNeedsFailover(n) == fstate[n] = "NORMAL" /\ primary[n] \in Lost(n)

NeedsFailover(n) ==
  /\ fstate[n] = "NORMAL"
  /\ primary[n] \in Members(n) /\ ~healthy[n][primary[n]]

NeedsFailback(n) ==
  /\ fstate[n] = "FAILED_OVER"
  /\ original[n] \in Members(n) /\ healthy[n][original[n]]

ExecuteFailback(n) ==
  /\ SetPrimary(n, original[n])
  /\ fstate' = [fstate EXCEPT ![n] = "NORMAL"]
  /\ original' = [original EXCEPT ![n] = None]

(* Mutant: a cluster that has a quorum and a primary is called healthy.    *)
MutUpdateState(n) ==
  cstate' = [cstate EXCEPT ![n] =
               IF ~HasQuorum(n) THEN "FAILED"
               ELSE IF primary'[n] # None THEN "HEALTHY"
               ELSE "DEGRADED"]

(* _update_state, from what the mediator says after the two checks.        *)
UpdateState(n) ==
  cstate' = [cstate EXCEPT ![n] =
               IF ~HasQuorum(n) THEN "FAILED"
               ELSE IF primary'[n] # None /\ Healthy(n) = Members(n) THEN "HEALTHY"
               ELSE "DEGRADED"]

(* Mutant: the monitor forgets check_and_failback.                         *)
MutMonitorCluster(n) ==
  /\ up[n]
  /\ \/ /\ NeedsFailover(n)
        /\ ExecuteFailover(n, Elected(n))
        /\ SetPrimary(n, Elected(n))
     \/ /\ ~NeedsFailover(n)
        /\ UNCHANGED <<primary, role, foVars>>
  /\ UpdateState(n)
  /\ UNCHANGED <<up, peers, healthy, fresh, election>>

(* A round of _monitor_cluster.  A failover leaves an unhealthy original   *)
(* primary behind, so no failback follows it in the same round.            *)
MonitorCluster(n) ==
  /\ up[n]
  /\ \/ /\ NeedsFailover(n)
        /\ ExecuteFailover(n, Elected(n))
        /\ SetPrimary(n, Elected(n))
     \/ /\ NeedsFailback(n)
        /\ ExecuteFailback(n)
     \/ /\ ~NeedsFailover(n) /\ ~NeedsFailback(n)
        /\ UNCHANGED <<primary, role, foVars>>
  /\ UpdateState(n)
  /\ UNCHANGED <<up, peers, healthy, fresh, election>>

(* manual_failover: a target is reported as the new primary also when the  *)
(* mediator has refused it.                                                *)
ManualFailover(n, target) ==
  LET p == IF target = None THEN Elected(n) ELSE target
  IN /\ up[n]
     /\ SetPrimary(n, p)
     /\ ExecuteFailover(n, p)
     /\ UNCHANGED <<up, peers, healthy, fresh, election, cstate>>

ManualFailback(n) ==
  /\ up[n]
  /\ fstate[n] = "FAILED_OVER" /\ original[n] # None
  /\ ExecuteFailback(n)
  /\ UNCHANGED <<up, peers, healthy, fresh, election, cstate>>

-----------------------------------------------------------------------------
NodeStep(n) == CheckNodeHealth(n) \/ InitiateElection(n) \/ MonitorCluster(n)

Next ==
  \E n \in Nodes :
    \/ \E r \in StartRoles[n], ids \in HashIds[n] : Start(n, r, ids)
    \/ Stop(n)
    \/ \E i \in Senders[n] : ReceiveHeartbeat(n, i)
    \/ \E i \in Ids : Silence(n, i)
    \/ NodeStep(n)
    \/ \E target \in Targets : ManualFailover(n, target)
    \/ ManualFailback(n)

Spec == Init /\ [][Next]_vars

(* The loops and the election task of a running node run again and again.  *)
FairSpec == /\ Spec
            /\ \A n \in Nodes : /\ WF_vars(CheckNodeHealth(n))
                                /\ WF_vars(InitiateElection(n))
                                /\ WF_vars(MonitorCluster(n))

-----------------------------------------------------------------------------
(* In the view of a running node the primary is the one member with role   *)
(* PRIMARY; elections, failovers, failbacks and refused targets keep       *)
(* _current_primary and the roles together.                                *)
RolesAgree ==
  \A n \in Nodes : up[n] =>
    {i \in Members(n) : role[n][i] = "PRIMARY"} = {primary[n]} \ {None}

(* "Quorum-based" failover: the primary changes without an operator's call *)
(* only to a healthy member in a view with a majority of healthy members,  *)
(* or back to the original primary, and that one is healthy, too.          *)
AutomaticChange ==
  [][\A n \in Nodes : NodeStep(n) /\ primary'[n] # primary[n] =>
       /\ primary'[n] \in Healthy(n)
       /\ HasQuorum(n) \/ primary'[n] = original[n]]_vars

(* A peer that has fallen silent for good shows: whatever elections,       *)
(* failovers and failbacks happen meanwhile, the node in the end reports   *)
(* the cluster as DEGRADED or FAILED, and never again as HEALTHY.          *)
SilenceShows ==
  \A n \in Nodes, i \in Ids :
    <>[](up[n] /\ i \in Others(n) \ fresh[n]) => <>[](cstate[n] # "HEALTHY")

(* "Automatic failback when original primary recovers": an original        *)
(* primary that is back and stays is failed back to.                       *)
Returned(n, i) == up[n] /\ NeedsFailback(n) /\ original[n] = i
FailbackHappens == \A n \in Nodes, i \in Ids : Returned(n, i) ~> ~Returned(n, i)

(* "Detection of primary failure", "Coordinated failover to secondary": a  *)
(* primary that is down is replaced while there are a quorum and a         *)
(* candidate, also when there were none at the time it went down.  (It is  *)
(* not while an earlier failover is in force.)                             *)
Unserved(n) ==
  /\ up[n] /\ fstate[n] = "NORMAL"
  /\ HasQuorum(n) /\ Candidates(n) # {}
  /\ primary[n] \in Members(n) \ Healthy(n)
FailoverHappens == \A n \in Nodes : Unserved(n) ~> ~Unserved(n)
=============================================================================
