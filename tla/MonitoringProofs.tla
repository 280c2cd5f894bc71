-------------------------- MODULE MonitoringProofs --------------------------
(***************************************************************************)
(* Proofs about the two components that watch the array, each for every    *)
(* value of its constants; they share no state.                            *)
(*                                                                         *)
(* ActiveCluster, for any number of nodes and any membership: the types,   *)
(* the roles in every view, and what may change a primary.                 *)
(*                                                                         *)
(* StoragePredictor, for any history of samples, any access records and    *)
(* any drive: the forecast is the least-squares line and is certain just   *)
(* for samples on a line, temperatures and tiering advice agree, and wear  *)
(* never improves a drive's health.                                        *)
(***************************************************************************)
EXTENDS ActiveCluster, StoragePredictor, WellFoundedInduction, TLAPS

(* The part of the type invariant that the arguments below rest on.        *)
Typed ==
  /\ up \in [Nodes -> BOOLEAN]
  /\ peers \in [Nodes -> SUBSET Ids]
  /\ role \in [Nodes -> [Ids -> Roles]]
  /\ primary \in [Nodes -> Ids \cup {None}]
  /\ fresh \in [Nodes -> SUBSET Ids]
  /\ original \in [Nodes -> Ids \cup {None}]

(* Every member of a view, the node itself and its peers, is a node id.    *)
LEMMA MembersAreIds ==
  ASSUME Typed, NEW n \in Nodes
  PROVE  Members(n) \subseteq Ids /\ None \notin Members(n)
<1>1. peers[n] \subseteq Ids /\ n \in Ids /\ None \notin Ids
  BY ClusterAssumption, ZenonT(60) DEF Typed
<1>. QED
  BY <1>1, ZenonT(60) DEF Members

(* set_primary leaves a well typed view with exactly one primary, or       *)
(* changes nothing, and touches no other node's view.                      *)
LEMMA SetPrimaryEffect ==
  ASSUME Typed, NEW n \in Nodes, NEW p, SetPrimary(n, p)
  PROVE  /\ primary' \in [Nodes -> Ids \cup {None}]
         /\ role' \in [Nodes -> [Ids -> Roles]]
         /\ \A m \in Nodes \ {n} : primary'[m] = primary[m] /\ role'[m] = role[m]
         /\ \/ p \in Members(n) /\ primary'[n] = p
               /\ {i \in Members(n) : role'[n][i] = "PRIMARY"} = {p}
            \/ primary' = primary /\ role' = role
<1>1. CASE p \in Members(n)
  <2>1. p \in Ids /\ Members(n) \subseteq Ids
    BY <1>1, MembersAreIds, ZenonT(60)
  <2>2. primary' = [primary EXCEPT ![n] = p]
    BY <1>1, ZenonT(60) DEF SetPrimary
  <2>3. role' = [role EXCEPT ![n] =
                   [i \in Ids |-> IF i = p THEN "PRIMARY"
                                  ELSE IF role[n][i] = "PRIMARY" THEN "SECONDARY"
                                  ELSE role[n][i]]]
    BY <1>1, ZenonT(60) DEF SetPrimary
  <2>4. /\ primary' \in [Nodes -> Ids \cup {None}] /\ primary'[n] = p
        /\ \A m \in Nodes \ {n} : primary'[m] = primary[m]
    BY <2>1, <2>2, ZenonT(60) DEF Typed
  <2>5. /\ role' \in [Nodes -> [Ids -> Roles]]
        /\ \A m \in Nodes \ {n} : role'[m] = role[m]
        /\ \A i \in Ids : role'[n][i] = "PRIMARY" <=> i = p
    BY <2>1, <2>3, ZenonT(60) DEF Typed, Roles
  <2>. QED
    BY <1>1, <2>1, <2>4, <2>5, ZenonT(60)
<1>2. CASE p \notin Members(n)
  BY <1>2, ZenonT(60) DEF SetPrimary, Typed
<1>. QED
  BY <1>1, <1>2, ZenonT(60)

(* An election chooses a healthy candidate, and only with a quorum.        *)
LEMMA ElectedIsCandidate ==
  ASSUME Typed, NEW n \in Nodes, Elected(n) # None
  PROVE  HasQuorum(n) /\ Elected(n) \in Healthy(n)
<1>1. HasQuorum(n) /\ Candidates(n) # {}
  BY ZenonT(60) DEF Elected
<1>2. Candidates(n) \subseteq Healthy(n) /\ Healthy(n) \subseteq Nat
  BY MembersAreIds, ClusterAssumption, ZenonT(60) DEF Candidates, Healthy
<1>. DEFINE Less == OpToRel(<, Nat)
<1>3. IsWellFoundedOn(Less, Nat)
  BY NatLessThanWellFounded, ZenonT(60)
<1>4. \A i, j \in Nat : j < i => <<j, i>> \in Less
  BY ZenonT(60) DEF OpToRel
<1>. HIDE DEF Less
<1>5. \E i \in Candidates(n) : \A j \in Candidates(n) : ~(<<j, i>> \in Less)
  BY <1>1, <1>2, <1>3, WFMin, ZenonT(60)
<1>6. \E i \in Candidates(n) : \A j \in Candidates(n) : i <= j
  <2>1. \E i \in Candidates(n) : \A j \in Candidates(n) : ~(j < i)
    BY <1>2, <1>4, <1>5, ZenonT(60)
  <2>2. \A i, j \in Nat : ~(j < i) => i <= j
    OBVIOUS
  <2>. QED
    BY <1>2, <2>1, <2>2, ZenonT(60)
<1>7. Elected(n) \in Candidates(n)
  BY <1>1, <1>6, ZenonT(60) DEF Elected
<1>. QED
  BY <1>1, <1>2, <1>7, ZenonT(60)

-----------------------------------------------------------------------------
(* The inductive invariant for the roles.                                  *)
IInv == Typed /\ RolesAgree

(* The invariant holds before any node has started.                        *)
LEMMA InitRoles == Init => IInv
BY ClusterAssumption DEF Init, IInv, Typed, RolesAgree, Roles

(* set_primary keeps the roles of every view in step with its primary.     *)
LEMMA SetPrimaryKeeps ==
  ASSUME IInv, NEW n \in Nodes, NEW p, SetPrimary(n, p), UNCHANGED <<up, peers>>
  PROVE  RolesAgree'
<1>0. Typed
  BY ZenonT(60) DEF IInv
<1>1. SUFFICES ASSUME NEW m \in Nodes, up[m]
               PROVE  {i \in Members(m) : role'[m][i] = "PRIMARY"} = {primary'[m]} \ {None}
  BY ZenonT(60) DEF RolesAgree, Members
<1>2. {i \in Members(m) : role[m][i] = "PRIMARY"} = {primary[m]} \ {None}
  BY <1>1, ZenonT(60) DEF IInv, RolesAgree
<1>3. CASE m # n \/ (primary' = primary /\ role' = role)
  <2>1. primary'[m] = primary[m] /\ role'[m] = role[m]
    BY <1>3, SetPrimaryEffect, ZenonT(60) DEF IInv
  <2>. QED
    BY <1>2, <2>1, ZenonT(60)
<1>4. CASE m = n /\ p \in Members(n) /\ primary'[n] = p
           /\ {i \in Members(n) : role'[n][i] = "PRIMARY"} = {p}
  BY <1>0, <1>4, MembersAreIds, ZenonT(60)
<1>. QED
  BY <1>3, <1>4, SetPrimaryEffect, ZenonT(60) DEF IInv

(* So does initialize(), in whatever role the node starts and under        *)
(* whatever ids it registers its peers, its own among them.                *)
LEMMA StartKeeps ==
  ASSUME IInv, NEW n \in Nodes, NEW r \in StartRoles[n], NEW ids \in HashIds[n],
         Start(n, r, ids)
  PROVE  IInv'
<1>. DEFINE own == IF n \in ids /\ r # "PRIMARY" THEN "SECONDARY" ELSE r
<1>1. r \in Roles /\ n \in Ids /\ n # None /\ None \notin Ids /\ ids \subseteq Ids
  BY ClusterAssumption, ZenonT(60) DEF Roles
<1>2. /\ role' = [role EXCEPT ![n] = [i \in Ids |-> IF i = n THEN own ELSE "SECONDARY"]]
      /\ primary' = [primary EXCEPT ![n] = IF r = "PRIMARY" THEN n ELSE None]
      /\ fresh' = [fresh EXCEPT ![n] = ids]
      /\ peers' = [peers EXCEPT ![n] = ids]
      /\ original' = [original EXCEPT ![n] = None]
      /\ up' = [up EXCEPT ![n] = TRUE]
  <2>1. [i \in Ids |-> IF i = n /\ (i \notin ids \/ r = "PRIMARY") THEN r ELSE "SECONDARY"]
          = [i \in Ids |-> IF i = n THEN own ELSE "SECONDARY"]
    BY ZenonT(60)
  <2>. QED
    BY <2>1, ZenonT(60) DEF Start
<1>3. own \in Roles /\ (own = "PRIMARY" <=> r = "PRIMARY")
  BY <1>1, ZenonT(60) DEF Roles
<1>. HIDE DEF own
<1>4. Typed'
  BY <1>1, <1>2, <1>3, ZenonT(60) DEF IInv, Typed, Roles
<1>5. ASSUME NEW m \in Nodes, up'[m]
      PROVE  {i \in Members(m)' : role'[m][i] = "PRIMARY"} = {primary'[m]} \ {None}
  <2>1. CASE m = n
    <3>1. /\ \A i \in Ids : role'[n][i] = IF i = n THEN own ELSE "SECONDARY"
          /\ primary'[n] = IF r = "PRIMARY" THEN n ELSE None
          /\ peers'[n] = ids
      BY <1>2, ZenonT(60) DEF IInv, Typed
    <3>2. Members(m)' = {n} \cup ids
      BY <2>1, <3>1, ZenonT(60) DEF Members
    <3>. QED
      BY <1>1, <1>3, <2>1, <3>1, <3>2
  <2>2. CASE m # n
    <3>1. role'[m] = role[m] /\ primary'[m] = primary[m] /\ peers'[m] = peers[m]
      BY <1>2, <2>2, ZenonT(60) DEF IInv, Typed
    <3>2. up[m]
      BY <1>2, <1>5, <2>2, ZenonT(60) DEF IInv, Typed
    <3>3. Members(m)' = Members(m)
      BY <3>1, ZenonT(60) DEF Members
    <3>. QED
      BY <3>1, <3>2, <3>3 DEF IInv, RolesAgree
  <2>. QED
    BY <2>1, <2>2, ZenonT(60)
<1>. QED
  BY <1>4, <1>5, ZenonT(60) DEF IInv, RolesAgree

(* Every step keeps the invariant: only set_primary, the election and      *)
(* initialize() touch the roles or the primary.                            *)
LEMMA StepRoles == IInv /\ [Next]_vars => IInv'
<1>. SUFFICES ASSUME IInv, [Next]_vars PROVE IInv'
  BY ZenonT(60)
<1>. USE DEF IInv
<1>1. CASE \E n \in Nodes : \E r \in StartRoles[n], ids \in HashIds[n] : Start(n, r, ids)
  BY <1>1, StartKeeps, ZenonT(60)
<1>2. ASSUME NEW n \in Nodes, Stop(n)
      PROVE  IInv'
  BY <1>2, ZenonT(60) DEF Stop, Typed, RolesAgree, Members, view, foVars
<1>3. ASSUME UNCHANGED <<up, peers, role, primary, original>>, fresh' \in [Nodes -> SUBSET Ids]
      PROVE  IInv'
  BY <1>3, ZenonT(60) DEF Typed, RolesAgree, Members
<1>4. ASSUME NEW n \in Nodes, NEW i \in Senders[n], ReceiveHeartbeat(n, i)
      PROVE  IInv'
  <2>1. i \in Ids
    BY <1>4, ClusterAssumption, ZenonT(60)
  <2>2. fresh' = [fresh EXCEPT ![n] = @ \cup {i}] \/ fresh' = fresh
    BY <1>4, ZenonT(60) DEF ReceiveHeartbeat
  <2>3. fresh' \in [Nodes -> SUBSET Ids]
    BY <2>1, <2>2, SMT, SMTT(60) DEF Typed
  <2>4. UNCHANGED <<up, peers, role, primary, original>>
    BY <1>4, ZenonT(60) DEF ReceiveHeartbeat, foVars
  <2>. QED
    BY <1>3, <2>3, <2>4, ZenonT(60)
<1>5. ASSUME NEW n \in Nodes, NEW i \in Ids, Silence(n, i)
      PROVE  IInv'
  BY <1>3, <1>5, ZenonT(60) DEF Silence, Typed, view, foVars
<1>6. ASSUME NEW n \in Nodes, CheckNodeHealth(n)
      PROVE  IInv'
  BY <1>3, <1>6, ZenonT(60) DEF CheckNodeHealth, Typed, foVars
<1>7. ASSUME NEW n \in Nodes, NEW p, SetPrimary(n, p), UNCHANGED <<up, peers, fresh>>,
             original' \in [Nodes -> Ids \cup {None}]
      PROVE  IInv'
  BY <1>7, SetPrimaryEffect, SetPrimaryKeeps, ZenonT(60) DEF Typed
<1>8. ASSUME NEW n \in Nodes, NEW p, ExecuteFailover(n, p)
      PROVE  original' \in [Nodes -> Ids \cup {None}]
  BY <1>8, ZenonT(60) DEF ExecuteFailover, Typed
<1>9. ASSUME NEW n \in Nodes, ExecuteFailback(n)
      PROVE  original' \in [Nodes -> Ids \cup {None}]
  BY <1>9, ZenonT(60) DEF ExecuteFailback, Typed
<1>10. ASSUME NEW n \in Nodes, InitiateElection(n)
       PROVE  IInv'
  BY <1>7, <1>10, ZenonT(60) DEF InitiateElection, Typed, foVars
<1>11. ASSUME NEW n \in Nodes, MonitorCluster(n)
       PROVE  IInv'
  <2>1. UNCHANGED <<up, peers, fresh>>
    BY <1>11, ZenonT(60) DEF MonitorCluster
  <2>2. CASE ExecuteFailover(n, Elected(n)) /\ SetPrimary(n, Elected(n))
    BY <1>7, <1>8, <2>1, <2>2, ZenonT(60)
  <2>3. CASE ExecuteFailback(n)
    BY <1>7, <1>9, <2>1, <2>3, ZenonT(60) DEF ExecuteFailback
  <2>4. CASE UNCHANGED <<primary, role, foVars>>
    BY <1>3, <2>1, <2>4, ZenonT(60) DEF foVars, Typed
  <2>. QED
    BY <1>11, <2>2, <2>3, <2>4, ZenonT(60) DEF MonitorCluster
<1>12. ASSUME NEW n \in Nodes, NEW target \in Targets, ManualFailover(n, target)
       PROVE  IInv'
  BY <1>7, <1>8, <1>12, ZenonT(60) DEF ManualFailover
<1>13. ASSUME NEW n \in Nodes, ManualFailback(n)
       PROVE  IInv'
  BY <1>7, <1>9, <1>13, ZenonT(60) DEF ManualFailback, ExecuteFailback
<1>14. CASE UNCHANGED vars
  BY <1>3, <1>14, ZenonT(60) DEF vars, view, foVars, Typed
<1>. QED
  BY <1>1, <1>2, <1>4, <1>5, <1>6, <1>10, <1>11, <1>12, <1>13, <1>14, ZenonT(60) DEF Next, NodeStep

(* The invariant holds in every reachable state.                           *)
LEMMA Invariance == Spec => []IInv
BY InitRoles, StepRoles, PTL DEF Spec

(* In every reachable view _current_primary is the one member with role    *)
(* PRIMARY, whatever elections, failovers, failbacks and operators do.     *)
THEOREM RolesAlwaysAgree == Spec => []RolesAgree
<1>1. IInv => RolesAgree
  BY ZenonT(60) DEF IInv
<1>. QED
  BY <1>1, Invariance, PTL

(* _check_node_health, the election task and the monitor change the        *)
(* primary only to a healthy member, and with a quorum unless they fail    *)
(* back.                                                                   *)
THEOREM ChangesAreSafe == Spec => AutomaticChange
<1>1. ASSUME IInv, NEW n \in Nodes, NodeStep(n), primary'[n] # primary[n]
      PROVE  /\ primary'[n] \in Healthy(n)
             /\ HasQuorum(n) \/ primary'[n] = original[n]
  <2>1. ASSUME NEW p, SetPrimary(n, p)
        PROVE  p \in Members(n) /\ primary'[n] = p
    BY <1>1, <2>1, SetPrimaryEffect, ZenonT(60) DEF IInv
  <2>2. CASE SetPrimary(n, Elected(n))
    <3>1. Elected(n) \in Members(n) /\ primary'[n] = Elected(n)
      BY <2>1, <2>2, ZenonT(60)
    <3>2. Typed /\ Elected(n) # None
      BY <1>1, <3>1, MembersAreIds, ZenonT(60) DEF IInv
    <3>. QED
      BY <3>1, <3>2, ElectedIsCandidate, ZenonT(60)
  <2>3. CASE NeedsFailback(n) /\ SetPrimary(n, original[n])
    BY <2>1, <2>3, ZenonT(60) DEF NeedsFailback, Healthy
  <2>4. CASE primary' = primary
    BY <1>1, <2>4, ZenonT(60)
  <2>. QED
    BY <1>1, <2>2, <2>3, <2>4, ZenonT(60) DEF NodeStep, CheckNodeHealth, InitiateElection,
       MonitorCluster, ExecuteFailback
<1>2. IInv => [\A n \in Nodes : NodeStep(n) /\ primary'[n] # primary[n] =>
                 /\ primary'[n] \in Healthy(n)
                 /\ HasQuorum(n) \/ primary'[n] = original[n]]_vars
  BY <1>1, ZenonT(60)
<1>. QED
  BY <1>2, Invariance, PTL DEF AutomaticChange

(* The rest of a node's state keeps its type: the health view, the pending *)
(* election and the states of the failover controller and of the cluster.  *)
Rest ==
  /\ healthy \in [Nodes -> [Ids -> BOOLEAN]]
  /\ election \in [Nodes -> BOOLEAN]
  /\ fstate \in [Nodes -> {"NORMAL", "FAILED_OVER"}]
  /\ cstate \in [Nodes -> {"INITIALIZING", "HEALTHY", "DEGRADED", "FAILED"}]

(* Each of the four, step by step.                                         *)
LEMMA StepRest ==
  ASSUME Rest, Next
  PROVE  Rest'
<1>. PICK n \in Nodes :
       \/ \E r \in StartRoles[n], ids \in HashIds[n] : Start(n, r, ids)
       \/ Stop(n)
       \/ \E i \in Senders[n] : ReceiveHeartbeat(n, i)
       \/ \E i \in Ids : Silence(n, i)
       \/ NodeStep(n)
       \/ \E target \in Targets : ManualFailover(n, target)
       \/ ManualFailback(n)
  BY ZenonT(60) DEF Next
<1>1. ASSUME NEW r, NEW ids, Start(n, r, ids) PROVE Rest'
  BY <1>1, ZenonT(60) DEF Start, Rest
<1>2. CASE Stop(n) \/ \E i \in Ids : Silence(n, i)
  BY <1>2, ZenonT(60) DEF Stop, Silence, view, foVars, Rest
<1>3. ASSUME NEW i \in Senders[n], ReceiveHeartbeat(n, i) PROVE Rest'
  <2>1. healthy' \in [Nodes -> [Ids -> BOOLEAN]]
    BY <1>3, ZenonT(60) DEF ReceiveHeartbeat, Rest
  <2>. QED BY <1>3, <2>1, ZenonT(60) DEF ReceiveHeartbeat, foVars, Rest
<1>4. CASE CheckNodeHealth(n)
  <2>1. \A b, c : (b /\ c) \in BOOLEAN /\ (b \/ c) \in BOOLEAN
    BY ZenonT(60)
  <2>2. healthy' \in [Nodes -> [Ids -> BOOLEAN]]
    BY <1>4, ZenonT(60) DEF CheckNodeHealth, Rest
  <2>3. election' \in [Nodes -> BOOLEAN]
    BY <1>4, ZenonT(60) DEF CheckNodeHealth, Rest
  <2>. QED BY <1>4, <2>2, <2>3, ZenonT(60) DEF CheckNodeHealth, foVars, Rest
<1>5. CASE InitiateElection(n)
  BY <1>5, ZenonT(60) DEF InitiateElection, foVars, Rest
<1>6. ASSUME NEW p, ExecuteFailover(n, p) \/ ExecuteFailback(n)
      PROVE  fstate' \in [Nodes -> {"NORMAL", "FAILED_OVER"}]
  BY <1>6, ZenonT(60) DEF ExecuteFailover, ExecuteFailback, Rest
<1>7. CASE MonitorCluster(n)
  <2>1. fstate' \in [Nodes -> {"NORMAL", "FAILED_OVER"}]
    BY <1>6, <1>7, ZenonT(60) DEF MonitorCluster, foVars, Rest
  <2>2. cstate' \in [Nodes -> {"INITIALIZING", "HEALTHY", "DEGRADED", "FAILED"}]
    BY <1>7, ZenonT(60) DEF MonitorCluster, UpdateState, Rest
  <2>. QED BY <1>7, <2>1, <2>2, ZenonT(60) DEF MonitorCluster, Rest
<1>8. ASSUME NEW target, ManualFailover(n, target) PROVE Rest'
  BY <1>6, <1>8, ZenonT(60) DEF ManualFailover, Rest
<1>9. CASE ManualFailback(n)
  BY <1>6, <1>9, ZenonT(60) DEF ManualFailback, Rest
<1>. QED
  BY <1>1, <1>2, <1>3, <1>4, <1>5, <1>7, <1>8, <1>9, ZenonT(60) DEF NodeStep

(* Every field of a node keeps its type: the states of the failover        *)
(* controller and of the cluster are the ones the code names, and a        *)
(* primary, present or original, is always a node id or none, whatever     *)
(* ids heartbeats and operators name.                                      *)
THEOREM TypeCorrect == Spec => []TypeOK
<1>1. Init => Rest
  BY DEF Init, Rest
<1>2. Rest /\ [Next]_vars => Rest'
  <2>1. Rest /\ UNCHANGED vars => Rest'
    BY ZenonT(60) DEF vars, view, foVars, Rest
  <2>. QED BY <2>1, StepRest, ZenonT(60)
<1>3. IInv /\ Rest => TypeOK
  BY ZenonT(60) DEF IInv, Typed, Rest, TypeOK
<1>. QED
  BY <1>1, <1>2, <1>3, Invariance, PTL DEF Spec

-----------------------------------------------------------------------------
(* StoragePredictor.                                                       *)

(* Induction on the naturals, for the set of those with a property.        *)
LEMMA Induction ==
  ASSUME NEW S, 0 \in S, \A n \in Nat : n \in S => n + 1 \in S
  PROVE  Nat \subseteq S
<1> DEFINE Less == OpToRel(<, Nat)
           Missing == Nat \ S
<1>1. IsWellFoundedOn(Less, Nat)
  BY NatLessThanWellFounded, ZenonT(60)
<1>2. \A i, j \in Nat : j < i => <<j, i>> \in Less
  BY ZenonT(60) DEF OpToRel
<1> HIDE DEF Less
<1>3. SUFFICES ASSUME Missing # {}
               PROVE  FALSE
  BY ZenonT(60)
<1>4. \E i \in Missing : \A j \in Missing : ~(<<j, i>> \in Less)
  BY <1>1, <1>3, WFMin, ZenonT(60)
<1>5. PICK i \in Missing : \A j \in Missing : ~(j < i)
  BY <1>2, <1>4, ZenonT(60)
<1>6. i \in Nat /\ i # 0 /\ i - 1 \in Nat /\ i - 1 < i /\ (i - 1) + 1 = i
  BY <1>5
<1> QED BY <1>5, <1>6, ZenonT(60)

(* f holds the sums of the first cells of s, up to n of them.              *)
SumsUp(f, s, n) == f = [i \in 0 .. n |-> IF i = 0 THEN 0 ELSE f[i - 1] + s[i]]

(* There is such a function for every s and n: the sums are defined.       *)
LEMMA SumsExist ==
  ASSUME NEW s, NEW n \in Nat
  PROVE  \E f : SumsUp(f, s, n)
<1> DEFINE S == {m \in Nat : \E f : SumsUp(f, s, m)}
<1>1. 0 \in S
  <2>1. SumsUp([i \in 0 .. 0 |-> 0], s, 0)
    BY DEF SumsUp
  <2> QED BY <2>1, ZenonT(60)
<1>2. ASSUME NEW m \in Nat, m \in S
      PROVE  m + 1 \in S
  <2>1. PICK f : SumsUp(f, s, m)
    BY <1>2, ZenonT(60)
  <2> DEFINE g == [i \in 0 .. m + 1 |-> IF i = m + 1 THEN f[m] + s[m + 1] ELSE f[i]]
  <2>2. \A i \in 0 .. m : f[i] = IF i = 0 THEN 0 ELSE f[i - 1] + s[i]
    BY <2>1, ZenonT(60) DEF SumsUp
  <2>3. \A i \in 0 .. m + 1 : g[i] = IF i = 0 THEN 0 ELSE g[i - 1] + s[i]
    BY <2>2
  <2>4. g = [i \in 0 .. m + 1 |-> g[i]]
    BY ZenonT(60)
  <2> HIDE DEF g
  <2>5. SumsUp(g, s, m + 1)
    BY <2>3, <2>4, ZenonT(60) DEF SumsUp
  <2> QED BY <2>5
<1> HIDE DEF S
<1>3. n \in S
  BY <1>1, <1>2, Induction, ZenonT(60)
<1> QED BY <1>3, ZenonT(60) DEF S

(* What the recursion of a sum says.                                       *)
LEMMA SumSteps ==
  ASSUME NEW s \in Seq(Int)
  PROVE  /\ Len(s) \in Nat /\ Sums(s)[0] = 0
         /\ \A i \in 1 .. Len(s) : Sums(s)[i] = Sums(s)[i - 1] + s[i]
         /\ \A i \in 0 .. Len(s) : Sums(s)[i] \in Int
<1>1. SumsUp(Sums(s), s, Len(s))
  <2>1. \E f : SumsUp(f, s, Len(s))
    <3>1. Len(s) \in Nat
      OBVIOUS
    <3> QED BY <3>1, SumsExist, ZenonT(60)
  <2> QED BY <2>1, ZenonT(60) DEF Sums, SumsUp
<1> DEFINE z == Sums(s)
<1> HIDE DEF z
<1>2. z = [i \in 0 .. Len(s) |-> IF i = 0 THEN 0 ELSE z[i - 1] + s[i]]
  BY <1>1, ZenonT(60) DEF SumsUp, z
<1>3. \A i \in 0 .. Len(s) : z[i] = IF i = 0 THEN 0 ELSE z[i - 1] + s[i]
  BY <1>2, ZenonT(60)
<1>4. /\ Len(s) \in Nat /\ 0 \in 0 .. Len(s)
      /\ \A i \in 1 .. Len(s) : i \in 0 .. Len(s) /\ i # 0
  OBVIOUS
<1>5. z[0] = 0 /\ \A i \in 1 .. Len(s) : z[i] = z[i - 1] + s[i]
  BY <1>3, <1>4, ZenonT(60)
<1> DEFINE S == {m \in Nat : m \in 0 .. Len(s) => z[m] \in Int}
<1>6. 0 \in S
  BY <1>5
<1>7. ASSUME NEW m \in Nat, m \in S
      PROVE  m + 1 \in S
  <2> SUFFICES ASSUME m + 1 \in 0 .. Len(s)
               PROVE  z[m + 1] \in Int
    OBVIOUS
  <2>1. m \in 0 .. Len(s) /\ m + 1 \in 1 .. Len(s) /\ (m + 1) - 1 = m /\ s[m + 1] \in Int
    BY <1>4
  <2>2. z[m + 1] = z[m] + s[m + 1] /\ z[m] \in Int
    BY <1>5, <1>7, <2>1, ZenonT(60)
  <2> QED BY <2>1, <2>2
<1> HIDE DEF S
<1>8. Nat \subseteq S
  BY <1>6, <1>7, Induction, ZenonT(60)
<1>9. \A i \in 0 .. Len(s) : i \in Nat
  BY <1>4
<1>10. \A i \in 0 .. Len(s) : z[i] \in Int
  BY <1>8, <1>9, ZenonT(60) DEF S
<1> QED BY <1>4, <1>5, <1>10, ZenonT(60) DEF z

(* u is a * s + b * t + c, cell by cell, and so is its sum.                *)
Combines(u, s, t, a, b, c) ==
  /\ u \in Seq(Int) /\ s \in Seq(Int) /\ t \in Seq(Int) /\ a \in Int /\ b \in Int /\ c \in Int
  /\ Len(s) = Len(u) /\ Len(t) = Len(u)
  /\ \A i \in 1 .. Len(u) : u[i] = a * s[i] + b * t[i] + c
SumCombines(u, s, t, a, b, c) ==
  /\ SumOf(u) \in Int /\ SumOf(s) \in Int /\ SumOf(t) \in Int /\ Len(u) \in Nat
  /\ SumOf(u) = a * SumOf(s) + b * SumOf(t) + c * Len(u)

(* Sums are linear.                                                        *)
LEMMA SumLinear ==
  ASSUME NEW s, NEW t, NEW u, NEW a, NEW b, NEW c, Combines(u, s, t, a, b, c)
  PROVE  SumCombines(u, s, t, a, b, c)
<1>0. /\ s \in Seq(Int) /\ t \in Seq(Int) /\ u \in Seq(Int) /\ a \in Int /\ b \in Int /\ c \in Int
      /\ Len(s) = Len(u) /\ Len(t) = Len(u)
      /\ \A i \in 1 .. Len(u) : u[i] = a * s[i] + b * t[i] + c
  BY ZenonT(60) DEF Combines
<1> DEFINE n == Len(u)
           x == Sums(s)
           y == Sums(t)
           z == Sums(u)
           S == {m \in Nat : m \in 0 .. n => z[m] = a * x[m] + b * y[m] + c * m}
<1>1. /\ n \in Nat /\ x[0] = 0 /\ y[0] = 0 /\ z[0] = 0
      /\ \A i \in 1 .. n : /\ x[i] = x[i - 1] + s[i] /\ y[i] = y[i - 1] + t[i]
                           /\ z[i] = z[i - 1] + u[i]
      /\ \A i \in 0 .. n : x[i] \in Int /\ y[i] \in Int /\ z[i] \in Int
  BY <1>0, SumSteps, ZenonT(60)
<1>2. \A i \in 1 .. n : s[i] \in Int /\ t[i] \in Int
  BY <1>0, SMT, SMTT(60)
<1>3. \A i \in 1 .. n : u[i] = a * s[i] + b * t[i] + c
  BY <1>0, ZenonT(60)
<1> HIDE DEF n, x, y, z
<1>4. 0 \in S
  BY <1>0, <1>1
<1>5. ASSUME NEW m \in Nat, m \in S
      PROVE  m + 1 \in S
  <2> SUFFICES ASSUME m + 1 \in 0 .. n
               PROVE  z[m + 1] = a * x[m + 1] + b * y[m + 1] + c * (m + 1)
    OBVIOUS
  <2>1. m \in 0 .. n /\ m + 1 \in 1 .. n /\ (m + 1) - 1 = m
    BY <1>1
  <2>2. /\ x[m + 1] = x[m] + s[m + 1] /\ y[m + 1] = y[m] + t[m + 1]
        /\ z[m + 1] = z[m] + u[m + 1] /\ u[m + 1] = a * s[m + 1] + b * t[m + 1] + c
        /\ x[m] \in Int /\ y[m] \in Int /\ s[m + 1] \in Int /\ t[m + 1] \in Int
    BY <1>1, <1>2, <1>3, <2>1, ZenonT(60)
  <2>3. z[m] = a * x[m] + b * y[m] + c * m
    BY <1>5, <2>1, ZenonT(60)
  <2>4. PICK p \in Int, q \in Int, v \in Int, w \in Int :
          x[m] = p /\ y[m] = q /\ s[m + 1] = v /\ t[m + 1] = w
    BY <2>2, ZenonT(60)
  <2>5. (a * p + b * q + c * m) + (a * v + b * w + c) = a * (p + v) + b * (q + w) + c * (m + 1)
    BY <1>0
  <2>6. /\ x[m + 1] = p + v /\ y[m + 1] = q + w
        /\ z[m + 1] = (a * p + b * q + c * m) + (a * v + b * w + c)
    BY ONLY <2>2, <2>3, <2>4, ZenonT(60)
  <2> QED BY ONLY <2>5, <2>6, ZenonT(60)
<1>6. n \in S
  <2> HIDE DEF S
  <2> QED BY <1>1, <1>4, <1>5, Induction, ZenonT(60)
<1>7. n \in 0 .. n
  BY <1>1
<1>8. z[n] = a * x[n] + b * y[n] + c * n /\ x[n] \in Int /\ y[n] \in Int /\ z[n] \in Int
  BY <1>1, <1>6, <1>7, ZenonT(60)
<1>9. SumOf(u) = z[n] /\ SumOf(s) = x[n] /\ SumOf(t) = y[n]
  BY <1>0, ZenonT(60) DEF SumOf, n, x, y, z
<1> QED BY <1>1, <1>8, <1>9, ZenonT(60) DEF SumCombines, n

(* A sum of what is not negative is not, and is zero just when all is.     *)
LEMMA SumPositive ==
  ASSUME NEW s \in Seq(Int), \A i \in 1 .. Len(s) : s[i] >= 0
  PROVE  /\ SumOf(s) \in Int /\ SumOf(s) >= 0
         /\ SumOf(s) = 0 <=> \A i \in 1 .. Len(s) : s[i] = 0
<1> DEFINE n == Len(s)
           z == Sums(s)
           S == {m \in Nat : m \in 0 .. n =>
                   z[m] >= 0 /\ (z[m] = 0 <=> \A i \in 1 .. m : s[i] = 0)}
<1>1. /\ n \in Nat /\ z[0] = 0
      /\ \A i \in 1 .. n : z[i] = z[i - 1] + s[i]
      /\ \A i \in 0 .. n : z[i] \in Int
  BY SumSteps, ZenonT(60)
<1>2. \A i \in 1 .. n : s[i] \in Int /\ s[i] >= 0
  OBVIOUS
<1> HIDE DEF n, z
<1>3. 0 \in S
  BY <1>1
<1>4. ASSUME NEW m \in Nat, m \in S
      PROVE  m + 1 \in S
  <2> SUFFICES ASSUME m + 1 \in 0 .. n
               PROVE  z[m + 1] >= 0 /\ (z[m + 1] = 0 <=> \A i \in 1 .. m + 1 : s[i] = 0)
    OBVIOUS
  <2>1. m \in 0 .. n /\ m + 1 \in 1 .. n /\ (m + 1) - 1 = m
    BY <1>1
  <2>2. z[m + 1] = z[m] + s[m + 1] /\ z[m] \in Int /\ s[m + 1] \in Int /\ s[m + 1] >= 0
    BY <1>1, <1>2, <2>1, ZenonT(60)
  <2>3. z[m] >= 0 /\ (z[m] = 0 <=> \A i \in 1 .. m : s[i] = 0)
    BY <1>4, <2>1, ZenonT(60)
  <2>4. z[m + 1] >= 0 /\ (z[m + 1] = 0 <=> z[m] = 0 /\ s[m + 1] = 0)
    BY <2>2, <2>3
  <2>5. (\A i \in 1 .. m + 1 : s[i] = 0) <=> (\A i \in 1 .. m : s[i] = 0) /\ s[m + 1] = 0
    <3>1. \A i \in 1 .. m + 1 : i \in 1 .. m \/ i = m + 1
      OBVIOUS
    <3>2. m + 1 \in 1 .. m + 1 /\ \A i \in 1 .. m : i \in 1 .. m + 1
      OBVIOUS
    <3> QED BY <3>1, <3>2, ZenonT(60)
  <2> QED BY <2>3, <2>4, <2>5, ZenonT(60)
<1>5. n \in S
  <2> HIDE DEF S
  <2> QED BY <1>1, <1>3, <1>4, Induction, ZenonT(60)
<1>6. n \in 0 .. n
  BY <1>1
<1> QED BY <1>1, <1>5, <1>6, ZenonT(60) DEF SumOf, n, z

(* The larger of two numbers.                                              *)
LEMMA MaxOfTwo ==
  ASSUME NEW a \in Int, NEW b \in Int
  PROVE  Max({a, b}) = IF a >= b THEN a ELSE b
<1> DEFINE P(x) == x \in {a, b} /\ \A y \in {a, b} : x >= y
<1>1. \E x : P(x)
  BY SMT
<1>2. P(CHOOSE x : P(x))
  BY <1>1, ZenonT(60)
<1>3. Max({a, b}) = CHOOSE x : P(x)
  BY ZenonT(60) DEF Max
<1>4. P(Max({a, b}))
  BY <1>2, <1>3, ZenonT(60)
<1> QED BY <1>4

(* The smaller of two numbers.                                             *)
LEMMA MinOfTwo ==
  ASSUME NEW a \in Int, NEW b \in Int
  PROVE  Min({a, b}) = IF a <= b THEN a ELSE b
<1> DEFINE P(x) == x \in {a, b} /\ \A y \in {a, b} : x =< y
<1>1. \E x : P(x)
  BY SMT
<1>2. P(CHOOSE x : P(x))
  BY <1>1, ZenonT(60)
<1>3. Min({a, b}) = CHOOSE x : P(x)
  BY ZenonT(60) DEF Min
<1>4. P(Min({a, b}))
  BY <1>2, <1>3, ZenonT(60)
<1> QED BY <1>4

(* The largest of a set of naturals with a bound.                          *)
LEMMA MaxIsLargest ==
  ASSUME NEW S, S \subseteq Nat, S # {}, NEW n \in Nat, \A x \in S : x <= n
  PROVE  Max(S) \in S /\ \A x \in S : x <= Max(S)
<1>1. \E y \in S : \A z \in S : z <= y
  <2> SUFFICES ASSUME \A y \in S : \E z \in S : ~(z <= y)
               PROVE  FALSE
    BY ZenonT(60)
  <2> DEFINE T == {m \in Nat : \E x \in S : m <= x}
  <2>1. 0 \in T
    <3>1. PICK x : x \in S
      BY ZenonT(60)
    <3>2. 0 <= x
      BY <3>1
    <3> QED BY <3>1, <3>2, ZenonT(60)
  <2>2. ASSUME NEW m \in Nat, m \in T
        PROVE  m + 1 \in T
    <3>1. PICK x \in S : m <= x
      BY <2>2, ZenonT(60)
    <3>2. PICK z \in S : ~(z <= x)
      BY ZenonT(60)
    <3>3. m + 1 <= z
      BY <3>1, <3>2
    <3> QED BY <3>3
  <2>3. n + 1 \in T
    <3> HIDE DEF T
    <3>1. n + 1 \in Nat
      OBVIOUS
    <3> QED BY <2>1, <2>2, <3>1, Induction, ZenonT(60)
  <2>4. PICK x \in S : n + 1 <= x
    BY <2>3, ZenonT(60)
  <2> QED BY <2>4
<1> DEFINE P(y) == y \in S /\ \A z \in S : y >= z
<1>2. \E y : P(y)
  BY <1>1, ZenonT(60)
<1>3. P(CHOOSE y : P(y))
  BY <1>2, ZenonT(60)
<1>4. Max(S) = CHOOSE y : P(y)
  BY ZenonT(60) DEF Max
<1>5. P(Max(S))
  BY <1>3, <1>4, ZenonT(60)
<1> QED BY <1>5, ZenonT(60)

(* Multiplication by a number that is not negative keeps the order.        *)
LEMMA Product ==
  ASSUME NEW a \in Int, NEW b \in Int, NEW k \in Nat, a <= b
  PROVE  a * k <= b * k
<1>1. PICK c \in Nat : b = a + c
  <2>1. b - a \in Nat /\ b = a + (b - a)
    OBVIOUS
  <2> QED BY <2>1, ZenonT(60)
<1>2. (a + c) * k = a * k + c * k
  OBVIOUS
<1>3. c * k >= 0
  OBVIOUS
<1>4. a * k + c * k >= a * k
  BY ONLY <1>3, a \in Int, c \in Nat, k \in Nat
<1> QED BY <1>1, <1>2, <1>4, ZenonT(60)

(* Division by a positive number keeps the order.                          *)
LEMMA Quotient ==
  ASSUME NEW a \in Int, NEW b \in Int, NEW c \in Nat \ {0}, a <= b
  PROVE  a \div c <= b \div c
<1>1. PICK p \in Int, q \in Int : p = a \div c /\ q = b \div c
  OBVIOUS
<1>2. c * p <= a /\ b < c * q + c
  BY <1>1
<1>3. SUFFICES ASSUME p > q
               PROVE  FALSE
  BY <1>1
<1>4. (q + 1) * c <= p * c
  BY <1>3, Product
<1>5. (q + 1) * c = c * q + c /\ p * c = c * p
  OBVIOUS
<1> QED BY <1>2, <1>4, <1>5

Drive == [erases : Seq(Nat), bad : Nat, utilization : Nat, runs : Nat, reclaimed : Nat]
Worn(d) == [d EXCEPT !.erases = [i \in DOMAIN d.erases |-> d.erases[i] + 1]]
Spoiled(d) == [d EXCEPT !.bad = @ + 1]

(* The erases of a drive are a sequence of numbers, and so is their sum.   *)
LEMMA DriveErases ==
  ASSUME NEW d \in Drive, d.erases # <<>>
  PROVE  /\ d.erases \in Seq(Int) /\ Blocks(d) \in Nat \ {0}
         /\ DOMAIN d.erases = 1 .. Blocks(d)
         /\ \A i \in 1 .. Blocks(d) : d.erases[i] \in Nat
         /\ Erased(d) \in Nat
<1>1. /\ d.erases \in Seq(Nat) /\ d.erases \in Seq(Int)
  BY DEF Drive
<1>2. /\ Blocks(d) \in Nat \ {0} /\ Blocks(d) = Len(d.erases)
      /\ DOMAIN d.erases = 1 .. Blocks(d)
      /\ \A i \in 1 .. Blocks(d) : d.erases[i] \in Nat
  BY <1>1 DEF Blocks
<1>3. \A i \in 1 .. Len(d.erases) : d.erases[i] >= 0
  BY <1>2
<1>4. SumOf(d.erases) \in Int /\ SumOf(d.erases) >= 0
  BY <1>1, <1>3, SumPositive, ZenonT(60)
<1> QED BY <1>1, <1>2, <1>4 DEF Erased

(* A round of erases, seen in what the score is computed from.             *)
LEMMA WornErases ==
  ASSUME NEW d \in Drive, d.erases # <<>>
  PROVE  /\ Worn(d) \in Drive /\ Worn(d).erases # <<>>
         /\ Blocks(Worn(d)) = Blocks(d) /\ Erased(Worn(d)) = Erased(d) + Blocks(d)
         /\ \A i \in 1 .. Blocks(d) : Worn(d).erases[i] = d.erases[i] + 1
         /\ /\ Worn(d).bad = d.bad /\ Worn(d).utilization = d.utilization
            /\ Worn(d).runs = d.runs /\ Worn(d).reclaimed = d.reclaimed
<1> DEFINE e == d.erases
           w == [i \in DOMAIN e |-> e[i] + 1]
<1>1. /\ e \in Seq(Int) /\ Blocks(d) \in Nat \ {0} /\ DOMAIN e = 1 .. Blocks(d)
      /\ \A i \in 1 .. Blocks(d) : e[i] \in Nat
      /\ Erased(d) \in Nat
  BY DriveErases, ZenonT(60)
<1>2. Blocks(d) = Len(e) /\ Erased(d) = SumOf(e)
  BY ZenonT(60) DEF Blocks, Erased
<1>3. /\ Worn(d) \in Drive <=> w \in Seq(Nat)
      /\ Worn(d).erases = w
      /\ Worn(d).bad = d.bad /\ Worn(d).utilization = d.utilization
      /\ Worn(d).runs = d.runs /\ Worn(d).reclaimed = d.reclaimed
  BY ZenonT(60) DEF Worn, Drive
<1> HIDE DEF e
<1>4. w = [i \in 1 .. Len(e) |-> e[i] + 1]
  BY <1>1, <1>2, ZenonT(60)
<1> HIDE DEF w
<1>5. w \in Seq(Nat) /\ w \in Seq(Int) /\ Len(w) = Len(e) /\ w # <<>>
      /\ \A i \in 1 .. Len(e) : w[i] = e[i] + 1
  BY <1>1, <1>2, <1>4
<1>6. Combines(w, e, e, 1, 0, 1)
  BY <1>1, <1>2, <1>5 DEF Combines
<1>7. SumCombines(w, e, e, 1, 0, 1)
  BY <1>6, SumLinear, ZenonT(60)
<1>8. SumOf(w) = SumOf(e) + Len(e)
  BY <1>5, <1>7 DEF SumCombines
<1>9. Blocks(Worn(d)) = Len(w) /\ Erased(Worn(d)) = SumOf(w)
  BY <1>3, ZenonT(60) DEF Blocks, Erased
<1> QED BY <1>2, <1>3, <1>5, <1>8, <1>9, ZenonT(60) DEF e

(* A square is not negative.                                               *)
LEMMA Square ==
  ASSUME NEW a \in Int
  PROVE  a * a \in Nat /\ (a * a = 0 <=> a = 0)
<1>1. CASE a >= 0
  BY <1>1
<1>2. CASE a < 0
  <2>1. PICK b \in Nat : b > 0 /\ a = -b
    <3>1. -a \in Nat /\ -a > 0 /\ a = -(-a)
      BY <1>2
    <3> QED BY <3>1, ZenonT(60)
  <2>2. b * b > 0 /\ (-b) * (-b) = b * b
    BY <2>1
  <2> QED BY <1>2, <2>1, <2>2
<1> QED BY <1>1, <1>2

(* One round of erases leaves the variance as it was.                      *)
LEMMA WearVariance ==
  ASSUME NEW d \in Drive, d.erases # <<>>
  PROVE  Variance(d) \in Nat /\ Variance(Worn(d)) = Variance(d)
<1> DEFINE B == Blocks(d)
           E == Erased(d)
           e == d.erases
           w == Worn(d).erases
           D(x) == (x * B - E) * (x * B - E)
           F(x) == (x * B - (E + B)) * (x * B - (E + B))
           s == [i \in 1 .. B |-> D(e[i])]
<1>1. /\ B \in Nat \ {0} /\ E \in Nat /\ DOMAIN e = 1 .. B
      /\ \A i \in 1 .. B : e[i] \in Nat
  BY DriveErases, ZenonT(60)
<1>2. /\ Blocks(Worn(d)) = B /\ Erased(Worn(d)) = E + B
      /\ \A i \in 1 .. B : w[i] = e[i] + 1
  BY WornErases, ZenonT(60)
<1>3. DOMAIN w = 1 .. B
  <2>1. Worn(d) \in Drive /\ Worn(d).erases # <<>>
    BY WornErases, ZenonT(60)
  <2> QED BY <1>2, <2>1, DriveErases, ZenonT(60)
<1>4. Variance(d) = SumOf(s)
  BY <1>1, ZenonT(60) DEF Variance
<1>5. Variance(Worn(d)) = SumOf([i \in 1 .. B |-> F(w[i])])
  BY <1>2, <1>3, ZenonT(60) DEF Variance
<1> HIDE DEF B, E, e, w
<1>6. ASSUME NEW i \in 1 .. B
      PROVE  F(w[i]) = D(e[i]) /\ D(e[i]) \in Nat
  <2>1. PICK x \in Nat : x = e[i] /\ w[i] = x + 1
    BY <1>1, <1>2, ZenonT(60)
  <2>2. (x + 1) * B - (E + B) = x * B - E /\ x * B - E \in Int
    BY <1>1
  <2>3. D(x) \in Nat
    BY <2>2, Square, ZenonT(60)
  <2> QED BY <2>1, <2>2, <2>3, ZenonT(60)
<1>7. [i \in 1 .. B |-> F(w[i])] = s
  BY <1>6, ZenonT(60)
<1>8. s \in Seq(Int) /\ Len(s) = B /\ \A i \in 1 .. Len(s) : s[i] >= 0
  <2> HIDE DEF D
  <2>1. \A i \in 1 .. B : D(e[i]) \in Nat
    BY <1>6, ZenonT(60)
  <2> QED BY <1>1, <2>1
<1>9. SumOf(s) \in Int /\ SumOf(s) >= 0
  <2> HIDE DEF s
  <2> QED BY <1>8, SumPositive, ZenonT(60)
<1>10. Variance(Worn(d)) = SumOf(s)
  BY <1>5, <1>7, ZenonT(60)
<1> HIDE DEF s
<1> QED BY <1>4, <1>9, <1>10

(* Points and penalties, and how wear and bad blocks change them.          *)
LEMMA PointsKept ==
  ASSUME NEW d \in Drive, d.erases # <<>>
  PROVE  /\ Points(d) \in Nat \ {0} /\ WearPenalty(d) \in Nat /\ BadBlockPenalty(d) \in Nat
         /\ VariancePenalty(d) \in Nat
         /\ Points(Worn(d)) = Points(d) /\ WearPenalty(Worn(d)) >= WearPenalty(d)
         /\ WearPenalty(Worn(d)) \in Nat
         /\ BadBlockPenalty(Worn(d)) = BadBlockPenalty(d)
         /\ VariancePenalty(Worn(d)) = VariancePenalty(d)
<1> DEFINE B == Blocks(d)
           E == Erased(d)
           V == VarianceUnit
           M == MAX_ENDURANCE
<1>1. B \in Nat \ {0} /\ E \in Nat /\ d.bad \in Nat
  BY DriveErases, ZenonT(60) DEF Drive
<1>2. V \in Nat \ {0} /\ M \in Nat \ {0}
  BY PredictorAssumption, ZenonT(60)
<1>3. /\ Blocks(Worn(d)) = B /\ Erased(Worn(d)) = E + B /\ Worn(d).bad = d.bad
      /\ Variance(Worn(d)) = Variance(d) /\ Variance(d) \in Nat
  BY WornErases, WearVariance, ZenonT(60)
<1>4. PICK k \in Nat : k = B * B * V
  <2>1. B * B * V \in Nat
    BY <1>1, <1>2
  <2> QED BY <2>1, ZenonT(60)
<1>5. /\ Points(d) = B * B * B * M * V
      /\ WearPenalty(d) = 100 * E * B * B * V
      /\ BadBlockPenalty(d) = 20 * d.bad * B * B * M * V
      /\ Points(Worn(d)) = B * B * B * M * V
      /\ WearPenalty(Worn(d)) = 100 * (E + B) * B * B * V
      /\ BadBlockPenalty(Worn(d)) = 20 * d.bad * B * B * M * V
  BY <1>3, ZenonT(60) DEF Points, WearPenalty, BadBlockPenalty
<1> HIDE DEF B, E, V, M
<1>6. B * B * B * M * V \in Nat \ {0}
  <2>1. \A x, y \in Nat \ {0} : x * y \in Nat \ {0}
    OBVIOUS
  <2> QED BY <1>1, <1>2, <2>1, ZenonT(60)
<1>7. 100 * E * B * B * V = (100 * E) * k /\ 100 * (E + B) * B * B * V = (100 * E + 100 * B) * k
  BY <1>1, <1>2, <1>4
<1>8. /\ (100 * E) * k <= (100 * E + 100 * B) * k
      /\ (100 * E) * k \in Nat /\ (100 * E + 100 * B) * k \in Nat
  <2>1. 100 * E \in Nat /\ 100 * E + 100 * B \in Nat /\ 100 * E <= 100 * E + 100 * B
    BY <1>1
  <2>2. \A x, y \in Nat : x \in Int /\ x * y \in Nat
    OBVIOUS
  <2> QED BY <2>1, <2>2, Product, ZenonT(60)
<1>9. 20 * d.bad * B * B * M * V \in Nat
  <2>1. \A x, y \in Nat : x * y \in Nat
    OBVIOUS
  <2>2. 20 \in Nat /\ B \in Nat /\ V \in Nat /\ M \in Nat
    BY <1>1, <1>2, ZenonT(60)
  <2> QED BY <1>1, <2>1, <2>2, ZenonT(60)
<1>10. VariancePenalty(d) \in Nat
  <2>1. 10 * Points(d) \in Nat /\ Variance(d) * MAX_ENDURANCE \in Nat
    BY <1>2, <1>3, <1>5, <1>6 DEF M
  <2>2. VariancePenalty(d) = Min({10 * Points(d), Variance(d) * MAX_ENDURANCE})
    BY ZenonT(60) DEF VariancePenalty
  <2>3. \A x \in Nat : x \in Int
    OBVIOUS
  <2>4. \A x, y \in Nat : Min({x, y}) \in Nat
    BY ONLY <2>3, MinOfTwo, ZenonT(60)
  <2> QED BY ONLY <2>1, <2>2, <2>4, ZenonT(60)
<1>11. VariancePenalty(Worn(d)) = VariancePenalty(d)
  BY <1>3, <1>5, ZenonT(60) DEF VariancePenalty
<1> QED BY <1>5, <1>6, <1>7, <1>8, <1>9, <1>10, <1>11

(* Neither a round of erases nor a bad block raises the score.             *)
LEMMA ScoreFalls ==
  ASSUME NEW d \in Drive, d.erases # <<>>
  PROVE  /\ Score(d) \in Nat /\ Score(d) <= 100 * Points(d)
         /\ Score(Worn(d)) <= Score(d) /\ Score(Spoiled(d)) <= Score(d)
<1>1. PICK n \in Nat, w \in Nat, b \in Nat, v \in Nat, w2 \in Nat :
        /\ Points(d) = n /\ WearPenalty(d) = w /\ BadBlockPenalty(d) = b /\ VariancePenalty(d) = v
        /\ Points(Worn(d)) = n /\ WearPenalty(Worn(d)) = w2 /\ w2 >= w
        /\ BadBlockPenalty(Worn(d)) = b /\ VariancePenalty(Worn(d)) = v
  <2>1. Points(d) \in Nat
    BY PointsKept, ZenonT(60)
  <2> QED BY <2>1, PointsKept, ZenonT(60)
<1>2. Score(d) = Max({0, 100 * n - w - b - v}) /\ Score(Worn(d)) = Max({0, 100 * n - w2 - b - v})
  BY <1>1, ZenonT(60) DEF Score
<1>3. PICK b2 \in Nat : b2 >= b /\ BadBlockPenalty(Spoiled(d)) = b2
  <2> DEFINE B == Blocks(d)
             V == VarianceUnit
             M == MAX_ENDURANCE
  <2>1. B \in Nat \ {0} /\ V \in Nat \ {0} /\ M \in Nat \ {0} /\ d.bad \in Nat
    BY DriveErases, PredictorAssumption, ZenonT(60) DEF Drive
  <2>2. Spoiled(d).erases = d.erases /\ Spoiled(d).bad = d.bad + 1
    BY ZenonT(60) DEF Spoiled, Drive
  <2>3. /\ BadBlockPenalty(d) = 20 * d.bad * B * B * M * V
        /\ BadBlockPenalty(Spoiled(d)) = 20 * (d.bad + 1) * B * B * M * V
    BY <2>2, ZenonT(60) DEF BadBlockPenalty, Blocks
  <2> HIDE DEF B, V, M
  <2>4. PICK x \in Nat, k \in Nat : x = d.bad /\ k = 20 * B * B * M * V
    <3>1. 20 \in Nat /\ B \in Nat /\ V \in Nat /\ M \in Nat /\ \A y, z \in Nat : y * z \in Nat
      BY <2>1
    <3>2. 20 * B * B * M * V \in Nat
      BY <3>1, ZenonT(60)
    <3> QED BY <2>1, <3>2, ZenonT(60)
  <2>5. /\ 20 * x * B * B * M * V = x * (20 * B * B * M * V)
        /\ 20 * (x + 1) * B * B * M * V = x * (20 * B * B * M * V) + 20 * B * B * M * V
    BY <2>1
  <2>6. x * k \in Nat /\ x * k + k \in Nat /\ x * k + k >= x * k
    OBVIOUS
  <2> QED BY <1>1, <2>3, <2>4, <2>5, <2>6, ZenonT(60)
<1>4. /\ Points(Spoiled(d)) = n /\ WearPenalty(Spoiled(d)) = w /\ VariancePenalty(Spoiled(d)) = v
  <2>1. Spoiled(d).erases = d.erases
    BY ZenonT(60) DEF Spoiled, Drive
  <2> QED BY <1>1, <2>1, ZenonT(60) DEF Points, WearPenalty, VariancePenalty, Variance, Erased, Blocks
<1>5. Score(Spoiled(d)) = Max({0, 100 * n - w - b2 - v})
  BY <1>3, <1>4, ZenonT(60) DEF Score
<1>6. PICK x \in Int, y \in Int, z \in Int :
        x = 100 * n - w - b - v /\ y = 100 * n - w2 - b - v /\ z = 100 * n - w - b2 - v
  <2>1. /\ 100 * n - w - b - v \in Int /\ 100 * n - w2 - b - v \in Int
        /\ 100 * n - w - b2 - v \in Int
    OBVIOUS
  <2> QED BY <2>1, ZenonT(60)
<1>7. /\ Max({0, x}) = IF 0 >= x THEN 0 ELSE x
      /\ Max({0, y}) = IF 0 >= y THEN 0 ELSE y
      /\ Max({0, z}) = IF 0 >= z THEN 0 ELSE z
  <2>1. 0 \in Int
    OBVIOUS
  <2> QED BY <2>1, MaxOfTwo, ZenonT(60)
<1>8. /\ Score(d) = Max({0, x}) /\ Score(Worn(d)) = Max({0, y}) /\ Score(Spoiled(d)) = Max({0, z})
      /\ Points(d) = n
  BY <1>1, <1>2, <1>5, <1>6, ZenonT(60)
<1>9. y <= x /\ z <= x /\ x <= 100 * n
  BY <1>1, <1>3, <1>6
<1>10. n \in Nat /\ x \in Int /\ y \in Int /\ z \in Int
  BY ZenonT(60)
<1>11. PICK p \in Int, q \in Int, r \in Int :
         p = Max({0, x}) /\ q = Max({0, y}) /\ r = Max({0, z})
  BY <1>7, <1>10
<1>12. p \in Nat /\ p <= 100 * n /\ q <= p /\ r <= p
  BY ONLY <1>7, <1>9, <1>10, <1>11
<1> QED BY <1>8, <1>11, <1>12, ZenonT(60)

(* The cells of a sequence have a bound.                                   *)
LEMMA Bounded ==
  ASSUME NEW k \in Nat, NEW e, \A i \in 1 .. k : e[i] \in Nat
  PROVE  \E n \in Nat : \A i \in 1 .. k : e[i] <= n
<1> DEFINE S == {m \in Nat : m <= k => \E n \in Nat : \A i \in 1 .. m : e[i] <= n}
<1>1. 0 \in S
  <2>1. \A i \in 1 .. 0 : FALSE
    OBVIOUS
  <2>2. 0 \in Nat
    BY ZenonT(60)
  <2> QED BY <2>1, <2>2, ZenonT(60)
<1>2. ASSUME NEW m \in Nat, m \in S
      PROVE  m + 1 \in S
  <2> SUFFICES ASSUME m + 1 <= k
               PROVE  \E n \in Nat : \A i \in 1 .. m + 1 : e[i] <= n
    OBVIOUS
  <2>1. m <= k /\ m + 1 \in 1 .. k
    OBVIOUS
  <2>2. PICK n \in Nat : \A i \in 1 .. m : e[i] <= n
    BY <1>2, <2>1, ZenonT(60)
  <2>3. PICK x \in Nat : x = e[m + 1]
    BY <2>1, ZenonT(60)
  <2>4. /\ n + x \in Nat /\ x <= n + x
        /\ \A i \in 1 .. m + 1 : i = m + 1 \/ (i \in 1 .. m /\ i \in 1 .. k)
    BY <2>1
  <2>5. ASSUME NEW i \in 1 .. m
        PROVE  e[i] <= n + x
    <3>1. i \in 1 .. k
      BY <2>1
    <3>2. PICK y \in Nat : y = e[i]
      BY <3>1, ZenonT(60)
    <3>3. y <= n
      BY <2>2, <3>2, ZenonT(60)
    <3>4. y <= n + x
      BY <3>3
    <3> QED BY <3>2, <3>4, ZenonT(60)
  <2>6. \A i \in 1 .. m + 1 : e[i] <= n + x
    BY <2>3, <2>4, <2>5, ZenonT(60)
  <2> QED BY <2>4, <2>6, ZenonT(60)
<1>3. k \in S
  <2> HIDE DEF S
  <2> QED BY <1>1, <1>2, Induction, ZenonT(60)
<1>4. k <= k
  OBVIOUS
<1> QED BY <1>3, <1>4, ZenonT(60)

(* The end of life, when known, is ahead, and comes no later for a round   *)
(* of erases.                                                              *)
LEMMA LifeShortens ==
  ASSUME NEW d \in Drive, d.erases # <<>>, EndOfLife(d) # Absent
  PROVE  /\ EndOfLife(d) >= 0
         /\ EndOfLife(Worn(d)) \in {Absent} \cup 0 .. EndOfLife(d)
<1> DEFINE M == MAX_ENDURANCE
           B == Blocks(d)
           S == {d.erases[i] : i \in 1 .. B}
           T == {Worn(d).erases[i] : i \in 1 .. B}
<1>1. /\ B \in Nat \ {0} /\ DOMAIN d.erases = 1 .. B
      /\ \A i \in 1 .. B : d.erases[i] \in Nat /\ Worn(d).erases[i] = d.erases[i] + 1
      /\ Erased(d) \in Nat /\ Erased(Worn(d)) = Erased(d) + B
      /\ Worn(d).runs = d.runs /\ Worn(d).reclaimed = d.reclaimed
  BY DriveErases, WornErases, ZenonT(60)
<1>2. DOMAIN Worn(d).erases = 1 .. B
  <2>1. Worn(d) \in Drive /\ Worn(d).erases # <<>> /\ Blocks(Worn(d)) = B
    BY WornErases, ZenonT(60)
  <2> QED BY <2>1, DriveErases, ZenonT(60)
<1>3. EndOfLife(d) = IF Erased(d) = 0 \/ Max(S) >= M \/ d.runs = 0 \/ d.reclaimed = 0 THEN Absent
                     ELSE ((M - Max(S)) * d.runs) \div d.reclaimed
  BY <1>1, ZenonT(60) DEF EndOfLife
<1>4. EndOfLife(Worn(d)) =
        IF Erased(d) + B = 0 \/ Max(T) >= M \/ d.runs = 0 \/ d.reclaimed = 0 THEN Absent
        ELSE ((M - Max(T)) * d.runs) \div d.reclaimed
  BY <1>1, <1>2, ZenonT(60) DEF EndOfLife
<1>5. M \in Nat \ {0} /\ d.runs \in Nat /\ d.reclaimed \in Nat
  BY PredictorAssumption, ZenonT(60) DEF Drive
<1>6. ~(Max(S) >= M) /\ d.runs # 0 /\ d.reclaimed # 0
  BY <1>3, ZenonT(60)
<1>7. PICK a \in Nat : a = Max(S) /\ a \in S /\ \A x \in S : x <= a
  <2>1. S \subseteq Nat /\ S # {}
    <3>1. 1 \in 1 .. B
      BY <1>1
    <3> QED BY <1>1, <3>1, ZenonT(60)
  <2>2. PICK n \in Nat : \A i \in 1 .. B : d.erases[i] <= n
    <3>1. B \in Nat /\ \A i \in 1 .. B : d.erases[i] \in Nat
      BY <1>1, ZenonT(60)
    <3> QED BY <3>1, Bounded, ZenonT(60)
  <2>3. \A x \in S : x <= n
    BY <2>2, ZenonT(60)
  <2> HIDE DEF S
  <2> QED BY <2>1, <2>3, MaxIsLargest, ZenonT(60)
<1>8. a + 1 \in T /\ \A y \in T : y \in Nat /\ y <= a + 1
  <2>1. ASSUME NEW y \in T
        PROVE  y \in Nat /\ y <= a + 1
    <3>1. PICK x \in Nat : x \in S /\ y = x + 1
      BY <1>1, ZenonT(60)
    <3>2. x <= a
      BY <1>7, <3>1, ZenonT(60)
    <3> QED BY <3>1, <3>2
  <2> QED BY <1>1, <1>7, <2>1, ZenonT(60)
<1>9. Max(T) = a + 1
  <2> HIDE DEF T
  <2>1. T \subseteq Nat /\ T # {} /\ a + 1 \in Nat
    BY <1>8, ZenonT(60)
  <2>2. Max(T) \in T /\ \A y \in T : y <= Max(T)
    BY <1>8, <2>1, MaxIsLargest, ZenonT(60)
  <2>3. PICK m \in Nat : m = Max(T) /\ m <= a + 1 /\ a + 1 <= m
    BY <1>8, <2>2, ZenonT(60)
  <2> QED BY <2>3
<1>10. PICK r \in Nat \ {0}, c \in Nat \ {0}, m \in Nat \ {0} :
         r = d.runs /\ c = d.reclaimed /\ m = M /\ a < m
  <2>1. ~(a >= M) /\ d.runs \in Nat \ {0} /\ d.reclaimed \in Nat \ {0}
    BY <1>5, <1>6, <1>7, ZenonT(60)
  <2>2. a < M
    BY <1>5, <2>1
  <2> QED BY <1>5, <2>1, <2>2, ZenonT(60)
<1>11. /\ EndOfLife(d) = ((m - a) * r) \div c
       /\ EndOfLife(Worn(d)) = Absent \/ (~(a + 1 >= m) /\ EndOfLife(Worn(d)) = ((m - (a + 1)) * r) \div c)
  BY <1>3, <1>4, <1>7, <1>9, <1>10, ZenonT(60)
<1>12. (m - (a + 1)) * r <= (m - a) * r /\ 0 <= (m - (a + 1)) * r
  <2>1. m - (a + 1) \in Nat /\ m - (a + 1) <= m - a
        /\ m - (a + 1) \in Int /\ m - a \in Int /\ r \in Nat
    BY <1>10
  <2>2. (m - (a + 1)) * r <= (m - a) * r
    BY <2>1, Product, ZenonT(60)
  <2>3. \A x \in Nat : 0 <= x * r
    OBVIOUS
  <2> QED BY <2>1, <2>2, <2>3, ZenonT(60)
<1>13. PICK x \in Nat, y \in Nat : x = (m - (a + 1)) * r /\ y = (m - a) * r /\ x <= y
  <2>1. (m - (a + 1)) * r \in Int /\ (m - a) * r \in Int
    OBVIOUS
  <2> QED BY <1>12, <2>1
<1>14. x \div c <= y \div c
  BY <1>13, Quotient
<1>15. 0 <= x \div c /\ x \div c \in Int /\ y \div c \in Int
  OBVIOUS
<1>16. x \div c \in 0 .. y \div c /\ y \div c >= 0
  BY ONLY <1>14, <1>15
<1> QED BY <1>11, <1>13, <1>16, ZenonT(60)

(* HealthFallsWithWear, of one drive.                                      *)
LEMMA DriveHealth ==
  ASSUME NEW d \in Drive, d.erases # <<>>
  PROVE  Status(d) # "healthy" => Advice(d) # {}
BY ZenonT(60) DEF Status, Advice

(* get_drive_health, for every drive: a bad block or a round of erases     *)
(* never raises the score, which stays in range; a drive that is not       *)
(* healthy comes with advice; an end of life is not negative and only      *)
(* comes nearer.                                                           *)
THEOREM HealthFalls == PredictorSpec => []HealthFallsWithWear
<1>1. HealthFallsWithWear
  <2> SUFFICES ASSUME NEW d \in Drives
               PROVE  /\ Score(Worn(d)) <= Score(d) /\ Score(Spoiled(d)) <= Score(d)
                      /\ Score(d) <= 100 * Points(d)
                      /\ Status(d) # "healthy" => Advice(d) # {}
                      /\ EndOfLife(d) # Absent => EndOfLife(d) >= 0 /\ EndOfLife(Worn(d)) \in
                                                   {Absent} \cup 0 .. EndOfLife(d)
    BY ZenonT(60) DEF HealthFallsWithWear, Worn, Spoiled
  <2>1. d \in Drive /\ d.erases # <<>>
    BY PredictorAssumption, ZenonT(60) DEF Drive
  <2> QED BY <2>1, ScoreFalls, DriveHealth, LifeShortens, ZenonT(60)
<1> QED BY <1>1, PTL

(* The state is typed and no block has more accesses than were recorded.   *)
PInv ==
  /\ PredictorTypeOK
  /\ \A r \in Vols \X Offsets : access[r] # Absent => access[r].count <= calls

(* A sequence from position k on.                                          *)
LEMMA Suffix ==
  ASSUME NEW S, NEW g \in Seq(S), NEW k \in 1 .. Len(g) + 1
  PROVE  SubSeq(g, k, Len(g)) \in Seq(S) /\ Len(SubSeq(g, k, Len(g))) = Len(g) - k + 1
OBVIOUS

(* What trimming leaves of the history.                                    *)
LEMMA Trimmed ==
  ASSUME NEW h \in Seq(Sample), NEW x \in Sample, Len(h) <= MAX_HISTORY_POINTS
  PROVE  LET g == Append(h, x)
             t == SubSeq(g, Max({1, Len(g) - MAX_HISTORY_POINTS + 1}), Len(g))
         IN  t \in Seq(Sample) /\ Len(t) <= MAX_HISTORY_POINTS
<1> DEFINE g == Append(h, x)
           N == MAX_HISTORY_POINTS
<1>1. g \in Seq(Sample) /\ Len(g) = Len(h) + 1 /\ Len(h) \in Nat /\ Len(g) \in Nat
  OBVIOUS
<1>2. N \in Nat \ {0} /\ Len(h) <= N
  BY PredictorAssumption, ZenonT(60)
<1> HIDE DEF g, N
<1>3. PICK y \in Int : y = Len(g) - N + 1
  BY <1>1, <1>2
<1>4. Max({1, y}) = IF 1 >= y THEN 1 ELSE y
  BY MaxOfTwo
<1>5. PICK k \in Int : k = Max({1, y}) /\ 1 <= k /\ k <= Len(g) + 1 /\ Len(g) - k + 1 <= N
  BY <1>1, <1>2, <1>3, <1>4
<1>6. k \in 1 .. Len(g) + 1
  BY <1>1, <1>5
<1>7. SubSeq(g, k, Len(g)) \in Seq(Sample) /\ Len(SubSeq(g, k, Len(g))) = Len(g) - k + 1
  BY <1>1, <1>6, Suffix, ZenonT(60)
<1> QED BY <1>3, <1>5, <1>7, ZenonT(60) DEF g, N

(* Every request keeps the invariant; trimming keeps the history short.    *)
LEMMA PInvNext ==
  ASSUME PInv, [PredictorNext]_predictorVars
  PROVE  PInv'
<1>1. /\ clock \in 0 .. MaxTime /\ calls \in 0 .. MaxCalls
      /\ history \in Seq(Sample) /\ Len(history) <= MAX_HISTORY_POINTS
      /\ access \in [Vols \X Offsets -> AccessRecord \cup {Absent}]
      /\ tiers \in [Vols -> Tiers \cup {Absent}]
      /\ live \subseteq Vols
      /\ \A r \in Vols \X Offsets : access[r] # Absent => access[r].count <= calls
  BY ZenonT(60) DEF PInv, PredictorTypeOK
<1>2. MaxTime \in Nat /\ MaxCalls \in Nat /\ Absent \notin Int
  BY PredictorAssumption, ZenonT(60)
<1>3. ASSUME calls < MaxCalls
      PROVE  calls + 1 \in 0 .. MaxCalls /\ \A n \in Int : n <= calls => n <= calls + 1
  BY <1>1, <1>2, <1>3
<1>4. \A r \in Vols \X Offsets : access[r] # Absent => access[r].count \in 1 .. MaxCalls /\ access[r].count \in Int
  BY <1>1 DEF AccessRecord
<1>5. ASSUME access' = access, calls' = calls \/ (calls < MaxCalls /\ calls' = calls + 1)
      PROVE  \A r \in Vols \X Offsets : access'[r] # Absent => access'[r].count <= calls'
  BY <1>1, <1>3, <1>4, <1>5, ZenonT(60)
<1>6. ASSUME NEW bytes \in UsedLevels, RecordCapacitySample(bytes)
      PROVE  PInv'
  <2>1. [at |-> clock, bytes |-> bytes] \in Sample
    BY <1>1, ZenonT(60) DEF Sample
  <2>2. history' \in Seq(Sample) /\ Len(history') <= MAX_HISTORY_POINTS
    BY <1>1, <1>6, <2>1, Trimmed, ZenonT(60) DEF RecordCapacitySample
  <2>3. /\ calls < MaxCalls /\ calls' = calls + 1 /\ clock' = clock /\ access' = access
        /\ tiers' = tiers /\ live' = live
    BY <1>6, ZenonT(60) DEF RecordCapacitySample
  <2> QED BY <1>1, <1>3, <1>5, <2>2, <2>3, ZenonT(60) DEF PInv, PredictorTypeOK
<1>7. ASSUME NEW v \in Vols, NEW o \in Offsets, RecordAccess(v, o)
      PROVE  PInv'
  <2> DEFINE r == <<v, o>>
             x == [last |-> clock, count |-> IF access[r] = Absent THEN 1 ELSE access[r].count + 1]
  <2>1. /\ calls < MaxCalls /\ calls' = calls + 1 /\ clock' = clock /\ history' = history
        /\ tiers' = tiers /\ live' = live /\ access' = [access EXCEPT ![r] = x]
    BY <1>7, ZenonT(60) DEF RecordAccess
  <2>2. r \in Vols \X Offsets
    BY ZenonT(60)
  <2>3. x.count \in 1 .. MaxCalls /\ x.count <= calls + 1
    BY <1>1, <1>2, <1>4, <2>1, <2>2
  <2>4. x \in AccessRecord
    BY <1>1, <2>3, ZenonT(60) DEF AccessRecord
  <2> HIDE DEF x, r
  <2>5. /\ access' \in [Vols \X Offsets -> AccessRecord \cup {Absent}]
        /\ access'[r] = x /\ \A q \in Vols \X Offsets : q # r => access'[q] = access[q]
    BY <1>1, <2>1, <2>2, <2>4, ZenonT(60)
  <2>6. \A q \in Vols \X Offsets : access'[q] # Absent => access'[q].count <= calls'
    BY <1>1, <1>3, <1>4, <2>1, <2>3, <2>5, ZenonT(60)
  <2> QED BY <1>1, <1>3, <2>1, <2>5, <2>6, ZenonT(60) DEF PInv, PredictorTypeOK
<1>8. ASSUME NEW v \in Vols, NEW t \in Tiers, SetVolumeTier(v, t)
      PROVE  PInv'
  <2>1. /\ calls < MaxCalls /\ calls' = calls + 1 /\ clock' = clock /\ history' = history
        /\ access' = access /\ live' = live /\ tiers' = [tiers EXCEPT ![v] = t]
    BY <1>8, ZenonT(60) DEF SetVolumeTier
  <2>2. tiers' \in [Vols -> Tiers \cup {Absent}]
    BY <1>1, <2>1, ZenonT(60)
  <2> QED BY <1>1, <1>3, <1>5, <2>1, <2>2, ZenonT(60) DEF PInv, PredictorTypeOK
<1>9. ASSUME NEW v \in Vols, VolumeGone(v)
      PROVE  PInv'
  BY <1>1, <1>5, <1>9, ZenonT(60) DEF VolumeGone, PInv, PredictorTypeOK
<1>10. CASE Tick
  <2>1. clock' \in 0 .. MaxTime
    BY <1>1, <1>2, <1>10 DEF Tick
  <2> QED BY <1>1, <1>5, <1>10, <2>1, ZenonT(60) DEF Tick, PInv, PredictorTypeOK
<1>11. CASE UNCHANGED predictorVars
  BY <1>1, <1>5, <1>11, ZenonT(60) DEF predictorVars, PInv, PredictorTypeOK
<1> QED BY <1>6, <1>7, <1>8, <1>9, <1>10, <1>11, ZenonT(60) DEF PredictorNext

(* The types hold, and a block is accessed at most once per request.       *)
LEMMA PInvHolds == PredictorSpec => []PInv
<1>1. PredictorInit => PInv
  <2> SUFFICES ASSUME PredictorInit
               PROVE  PInv
    BY ZenonT(60)
  <2>1. MaxTime \in Nat /\ MaxCalls \in Nat /\ MAX_HISTORY_POINTS \in Nat
    BY PredictorAssumption, ZenonT(60)
  <2>2. 0 \in 0 .. MaxTime /\ 0 \in 0 .. MaxCalls /\ <<>> \in Seq(Sample) /\ Len(<<>>) <= MAX_HISTORY_POINTS
    BY <2>1
  <2>3. access = [r \in Vols \X Offsets |-> Absent] /\ tiers = [v \in Vols |-> Absent]
    BY ZenonT(60) DEF PredictorInit
  <2>4. /\ access \in [Vols \X Offsets -> AccessRecord \cup {Absent}] /\ tiers \in [Vols -> Tiers \cup {Absent}]
        /\ \A r \in Vols \X Offsets : access[r] = Absent
    BY <2>3, ZenonT(60)
  <2> QED BY <2>2, <2>4, ZenonT(60) DEF PredictorInit, PInv, PredictorTypeOK
<1> QED BY <1>1, PInvNext, PTL DEF PredictorSpec

(* Temperatures in their order.                                            *)
LEMMA WarmthIs ==
  Warmth("frozen") = 1 /\ Warmth("cold") = 2 /\ Warmth("warm") = 3 /\ Warmth("hot") = 4
<1>1. /\ DOMAIN Temperatures = 1 .. 4 /\ Temperatures[1] = "frozen" /\ Temperatures[2] = "cold"
      /\ Temperatures[3] = "warm" /\ Temperatures[4] = "hot"
  BY DEF Temperatures
<1>2. \A i \in 1 .. 4 : i = 1 \/ i = 2 \/ i = 3 \/ i = 4
  OBVIOUS
<1>3. 1 \in 1 .. 4 /\ 2 \in 1 .. 4 /\ 3 \in 1 .. 4 /\ 4 \in 1 .. 4
  OBVIOUS
<1>4. Warmth("frozen") = 1
  BY <1>1, <1>2, <1>3, ZenonT(60) DEF Warmth
<1>5. Warmth("cold") = 2
  BY <1>1, <1>2, <1>3, ZenonT(60) DEF Warmth
<1>6. Warmth("warm") = 3
  BY <1>1, <1>2, <1>3, ZenonT(60) DEF Warmth
<1>7. Warmth("hot") = 4
  BY <1>1, <1>2, <1>3, ZenonT(60) DEF Warmth
<1> QED BY <1>4, <1>5, <1>6, <1>7, ZenonT(60)

(* What was accessed later is at least as warm.                            *)
LEMMA LaterIsWarmer ==
  ASSUME NEW a \in Nat, NEW b \in Nat, a <= b, clock \in Nat
  PROVE  /\ Warmth(Classify(a)) <= Warmth(Classify(b))
         /\ Warmth("frozen") <= Warmth(Classify(b))
         /\ Classify(b) \in {"hot", "warm", "cold", "frozen"}
         /\ Classify(b) = "hot" <=> clock - b <= TEMP_HOT_THRESHOLD
<1>1. /\ TEMP_HOT_THRESHOLD \in Nat /\ TEMP_WARM_THRESHOLD \in Nat /\ TEMP_COLD_THRESHOLD \in Nat
      /\ TEMP_HOT_THRESHOLD < TEMP_WARM_THRESHOLD /\ TEMP_WARM_THRESHOLD < TEMP_COLD_THRESHOLD
  BY PredictorAssumption, ZenonT(60)
<1>2. clock - b <= clock - a /\ clock - a \in Int /\ clock - b \in Int
  OBVIOUS
<1>3. PICK x \in Int, y \in Int : x = clock - a /\ y = clock - b
  BY <1>2, ZenonT(60)
<1>4. /\ Classify(a) = IF x <= TEMP_HOT_THRESHOLD THEN "hot"
                       ELSE IF x <= TEMP_WARM_THRESHOLD THEN "warm"
                       ELSE IF x <= TEMP_COLD_THRESHOLD THEN "cold"
                       ELSE "frozen"
      /\ Classify(b) = IF y <= TEMP_HOT_THRESHOLD THEN "hot"
                       ELSE IF y <= TEMP_WARM_THRESHOLD THEN "warm"
                       ELSE IF y <= TEMP_COLD_THRESHOLD THEN "cold"
                       ELSE "frozen"
  BY <1>3, ZenonT(60) DEF Classify
<1>5. y <= x
  BY <1>2, <1>3, ZenonT(60)
<1> QED BY <1>1, <1>3, <1>4, <1>5, WarmthIs

(* Costs of tiers and the savings of a move.                               *)
LEMMA SavingsFit ==
  ASSUME NEW a \in Tiers, NEW b \in Tiers, NEW u \in Nat
  PROVE  0 <= Savings(a, b, u) /\ Savings(a, b, u) <= u
<1>1. Cost("nvme") = 20 /\ Cost("ssd") = 10 /\ Cost("hdd") = 4 /\ Cost("archive") = 1
  BY ZenonT(60) DEF Cost
<1>2. Cost(a) \in {20, 10, 4, 1} /\ Cost(b) \in {20, 10, 4, 1}
  BY <1>1, ZenonT(60) DEF Tiers
<1>3. PICK c \in {20, 10, 4, 1}, e \in {20, 10, 4, 1} : c = Cost(a) /\ e = Cost(b)
  BY <1>2, ZenonT(60)
<1>4. Savings(a, b, u) = IF e < c THEN (u * (c - e)) \div c ELSE 0
  BY <1>3, ZenonT(60) DEF Savings
<1>5. e < c => 0 <= (u * (c - e)) \div c /\ (u * (c - e)) \div c <= u
  <2>1. CASE c = 20
    BY <2>1
  <2>2. CASE c = 10
    BY <2>2
  <2>3. CASE c = 4
    BY <2>3
  <2>4. CASE c = 1
    BY <2>4
  <2> QED BY <2>1, <2>2, <2>3, <2>4, ZenonT(60)
<1> QED BY <1>4, <1>5

(* A volume is as warm as the warmest of its blocks.                       *)
LEMMA VolumeWarmth ==
  ASSUME PInv, NEW v \in Vols
  PROVE  /\ \A o \in Offsets : Warmth(BlockTemperature(v, o)) <= Warmth(VolumeTemperature(v))
         /\ \E o \in Offsets : BlockTemperature(v, o) = VolumeTemperature(v)
         /\ VolumeTemperature(v) = "hot" <=> HotBlocks(v) # {}
         /\ VolumeTemperature(v) \in {"hot", "warm", "cold", "frozen"}
<1>1. /\ MaxTime \in Nat /\ clock \in Nat
      /\ \A o \in Offsets : access[<<v, o>>] # Absent => access[<<v, o>>].last \in 0 .. MaxTime
  <2>1. MaxTime \in Nat /\ clock \in 0 .. MaxTime
    BY PredictorAssumption, ZenonT(60) DEF PInv, PredictorTypeOK
  <2>2. access \in [Vols \X Offsets -> AccessRecord \cup {Absent}]
    BY ZenonT(60) DEF PInv, PredictorTypeOK
  <2>3. \A x \in AccessRecord : x.last \in 0 .. MaxTime
    BY ZenonT(60) DEF AccessRecord
  <2>4. \A o \in Offsets : <<v, o>> \in Vols \X Offsets
    BY ZenonT(60)
  <2>5. clock \in Nat
    BY <2>1
  <2> QED BY <2>1, <2>2, <2>3, <2>4, <2>5, ZenonT(60)
<1>2. CASE Recorded(v) = {}
  <2>1. \A o \in Offsets : access[<<v, o>>] = Absent
    BY <1>2, ZenonT(60) DEF Recorded
  <2>2. VolumeTemperature(v) = "frozen" /\ \A o \in Offsets : BlockTemperature(v, o) = "frozen"
    BY <1>2, <2>1, ZenonT(60) DEF VolumeTemperature, BlockTemperature
  <2>3. HotBlocks(v) = {} /\ Offsets # {}
    BY <1>2, PredictorAssumption, ZenonT(60) DEF HotBlocks
  <2>4. Warmth("frozen") <= Warmth("frozen") /\ "frozen" # "hot"
    BY WarmthIs
  <2> QED BY <2>2, <2>3, <2>4, ZenonT(60)
<1>3. CASE Recorded(v) # {}
  <2> DEFINE Last(o) == access[<<v, o>>].last
             S == {Last(o) : o \in Recorded(v)}
  <2>1. \A o \in Recorded(v) : o \in Offsets /\ Last(o) \in 0 .. MaxTime
    BY <1>1, ZenonT(60) DEF Recorded
  <2>2. \A x \in S : x \in Nat /\ x <= MaxTime
    <3>1. \A x \in 0 .. MaxTime : x \in Nat /\ x <= MaxTime
      BY <1>1
    <3> QED BY <2>1, <3>1, ZenonT(60)
  <2>3. S # {} /\ S \subseteq Nat
    BY <1>3, <2>2, ZenonT(60)
  <2>4. Max(S) \in S /\ \A x \in S : x <= Max(S)
    <3> HIDE DEF S
    <3> QED BY <1>1, <2>2, <2>3, MaxIsLargest, ZenonT(60)
  <2>5. PICK m \in Nat, p \in Recorded(v) : m = Max(S) /\ m = Last(p) /\ \A x \in S : x <= m
    BY <2>2, <2>4, ZenonT(60)
  <2>6. VolumeTemperature(v) = Classify(m)
    BY <1>3, <2>5, ZenonT(60) DEF VolumeTemperature
  <2>7. p \in Offsets /\ \A o \in Recorded(v) : BlockTemperature(v, o) = Classify(Last(o))
    BY ZenonT(60) DEF Recorded, BlockTemperature
  <2>8. ASSUME NEW o \in Recorded(v)
        PROVE  /\ Warmth(Classify(Last(o))) <= Warmth(Classify(m))
               /\ Last(o) \in Nat /\ Last(o) <= m
    <3>1. Last(o) \in Nat /\ Last(o) <= m
      BY <2>2, <2>5, ZenonT(60)
    <3> QED BY <1>1, <3>1, LaterIsWarmer, ZenonT(60)
  <2>9. /\ Warmth("frozen") <= Warmth(Classify(m))
        /\ Classify(m) \in {"hot", "warm", "cold", "frozen"}
        /\ Classify(m) = "hot" <=> clock - m <= TEMP_HOT_THRESHOLD
    <3>1. m <= m
      OBVIOUS
    <3> QED BY <1>1, <3>1, LaterIsWarmer, ZenonT(60)
  <2>10. ASSUME NEW o \in Offsets
         PROVE  Warmth(BlockTemperature(v, o)) <= Warmth(VolumeTemperature(v))
    <3>1. CASE o \in Recorded(v)
      BY <2>6, <2>7, <2>8, <3>1, ZenonT(60)
    <3>2. CASE o \notin Recorded(v)
      <4>1. BlockTemperature(v, o) = "frozen"
        BY <3>2, ZenonT(60) DEF Recorded, BlockTemperature
      <4> QED BY <2>6, <2>9, <4>1, ZenonT(60)
    <3> QED BY <3>1, <3>2, ZenonT(60)
  <2>11. BlockTemperature(v, p) = VolumeTemperature(v)
    BY <2>5, <2>6, <2>7, ZenonT(60)
  <2>12. VolumeTemperature(v) = "hot" <=> HotBlocks(v) # {}
    <3>1. ASSUME VolumeTemperature(v) = "hot"
          PROVE  p \in HotBlocks(v)
      BY <2>5, <2>6, <2>9, <3>1, ZenonT(60) DEF HotBlocks
    <3>2. ASSUME NEW o \in HotBlocks(v)
          PROVE  clock - m <= TEMP_HOT_THRESHOLD
      <4>1. o \in Recorded(v) /\ clock - Last(o) <= TEMP_HOT_THRESHOLD
        BY ZenonT(60) DEF HotBlocks
      <4>2. PICK x \in Nat : x = Last(o) /\ x <= m /\ clock - x <= TEMP_HOT_THRESHOLD
        BY <2>8, <4>1, ZenonT(60)
      <4>3. TEMP_HOT_THRESHOLD \in Nat
        BY PredictorAssumption, ZenonT(60)
      <4> QED BY <1>1, <4>2, <4>3
    <3> QED BY <2>6, <2>9, <3>1, <3>2, ZenonT(60)
  <2> QED BY <2>6, <2>7, <2>9, <2>10, <2>11, <2>12, ZenonT(60)
<1> QED BY <1>2, <1>3, ZenonT(60)

(* What get_data_temperature, get_tiering_recommendations and              *)
(* get_volume_analytics derive from the access records agrees, for any     *)
(* records, tiers and volumes that are left.                               *)
THEOREM TieringAgrees == PredictorSpec => []TieringSound
<1>1. PInv => TieringSound
  <2> SUFFICES ASSUME PInv
               PROVE  TieringSound
    BY ZenonT(60)
  <2> DEFINE To(v) == TierFor(VolumeTemperature(v))
             R == {[vol |-> v, from |-> CurrentTier(v), to |-> To(v),
                    reason |-> IF NameBefore(To(v), CurrentTier(v)) THEN "faster" ELSE "cheaper"] :
                     v \in {w \in live : To(w) # CurrentTier(w)}}
  <2>1. Recommendations = R
    BY ZenonT(60) DEF Recommendations
  <2>2. live \subseteq Vols /\ tiers \in [Vols -> Tiers \cup {Absent}]
    BY ZenonT(60) DEF PInv, PredictorTypeOK
  <2>3. ASSUME NEW v \in Vols
        PROVE  To(v) \in Tiers /\ CurrentTier(v) \in Tiers
    <3>1. VolumeTemperature(v) \in {"hot", "warm", "cold", "frozen"}
      BY VolumeWarmth, ZenonT(60)
    <3>2. To(v) \in Tiers
      BY <3>1, ZenonT(60) DEF TierFor, Tiers
    <3>3. CurrentTier(v) \in Tiers
      BY <2>2, ZenonT(60) DEF CurrentTier, Tiers
    <3> QED BY <3>2, <3>3, ZenonT(60)
  <2>4. ASSUME NEW v \in live
        PROVE  To(v) # CurrentTier(v) <=> \E r \in R : r.vol = v /\ r.from = CurrentTier(v)
    <3> HIDE DEF To
    <3>1. ASSUME To(v) # CurrentTier(v)
          PROVE  \E r \in R : r.vol = v /\ r.from = CurrentTier(v)
      <4> DEFINE r == [vol |-> v, from |-> CurrentTier(v), to |-> To(v),
                       reason |-> IF NameBefore(To(v), CurrentTier(v)) THEN "faster" ELSE "cheaper"]
      <4>1. r \in R
        BY <3>1, ZenonT(60)
      <4>2. r.vol = v /\ r.from = CurrentTier(v)
        BY ZenonT(60)
      <4> QED BY <4>1, <4>2, ZenonT(60)
    <3>2. ASSUME NEW r \in R, r.vol = v
          PROVE  To(v) # CurrentTier(v)
      <4>1. PICK w \in live : /\ To(w) # CurrentTier(w)
                              /\ r = [vol |-> w, from |-> CurrentTier(w), to |-> To(w),
                                      reason |-> IF NameBefore(To(w), CurrentTier(w)) THEN "faster"
                                                 ELSE "cheaper"]
        BY ZenonT(60)
      <4>2. r.vol = w
        BY <4>1, ZenonT(60)
      <4> QED BY <3>2, <4>1, <4>2, ZenonT(60)
    <3> QED BY <3>1, <3>2, ZenonT(60)
  <2>5. ASSUME NEW r \in R, NEW u \in UsedLevels
        PROVE  0 <= Savings(r.from, r.to, u) /\ Savings(r.from, r.to, u) <= u
    <3>1. r.from \in Tiers /\ r.to \in Tiers
      <4> HIDE DEF To
      <4>1. PICK w \in live : r = [vol |-> w, from |-> CurrentTier(w), to |-> To(w),
                                   reason |-> IF NameBefore(To(w), CurrentTier(w)) THEN "faster"
                                              ELSE "cheaper"]
        BY ZenonT(60)
      <4>2. r.from = CurrentTier(w) /\ r.to = To(w)
        BY <4>1, ZenonT(60)
      <4> QED BY <2>2, <2>3, <4>2, ZenonT(60)
    <3>2. u \in Nat
      BY PredictorAssumption
    <3> QED BY <3>1, <3>2, SavingsFit, ZenonT(60)
  <2> HIDE DEF R
  <2> QED BY <2>1, <2>4, <2>5, VolumeWarmth, ZenonT(60) DEF TieringSound
<1> QED BY <1>1, PInvHolds, PTL

(* The columns that the sums of a forecast run over.                       *)
Ats(h) == [i \in DOMAIN h |-> h[i].at]
Sizes(h) == [i \in DOMAIN h |-> h[i].bytes]
Squares(h) == [i \in DOMAIN h |-> h[i].at * h[i].at]
Moments(h) == [i \in DOMAIN h |-> h[i].at * h[i].bytes]

(* Times n and n squared, the variance of the times and their covariance   *)
(* with the sizes.                                                         *)
Spread(h) == Len(h) * SumOf(Squares(h)) - SumOf(Ats(h)) * SumOf(Ats(h))
Slope(h) == Len(h) * SumOf(Moments(h)) - SumOf(Ats(h)) * SumOf(Sizes(h))
Instant(h) == \A i, j \in DOMAIN h : h[i].at = h[j].at
Steady(h) == \A i, j \in DOMAIN h : h[i].bytes = h[j].bytes

(* A function on 1 .. n with numbers as values is a sequence of them.      *)
LEMMA Column ==
  ASSUME NEW n \in Nat, NEW s, s = [i \in 1 .. n |-> s[i]], \A i \in 1 .. n : s[i] \in Int
  PROVE  s \in Seq(Int) /\ Len(s) = n /\ SumOf(s) \in Int
<1>1. s \in Seq(Int) /\ Len(s) = n
  OBVIOUS
<1>2. n \in 0 .. n
  OBVIOUS
<1> QED BY <1>1, <1>2, SumSteps, ZenonT(60) DEF SumOf

(* The samples of a history, and the columns.                              *)
LEMMA Columns ==
  ASSUME NEW h \in Seq(Sample)
  PROVE  /\ Len(h) \in Nat /\ DOMAIN h = 1 .. Len(h)
         /\ \A i \in 1 .. Len(h) : h[i].at \in Nat /\ h[i].bytes \in Nat
         /\ Ats(h) \in Seq(Int) /\ Len(Ats(h)) = Len(h) /\ SumOf(Ats(h)) \in Int
         /\ Sizes(h) \in Seq(Int) /\ Len(Sizes(h)) = Len(h) /\ SumOf(Sizes(h)) \in Int
         /\ Squares(h) \in Seq(Int) /\ Len(Squares(h)) = Len(h) /\ SumOf(Squares(h)) \in Int
         /\ Moments(h) \in Seq(Int) /\ Len(Moments(h)) = Len(h) /\ SumOf(Moments(h)) \in Int
         /\ \A i \in 1 .. Len(h) :
              /\ Ats(h)[i] = h[i].at /\ Sizes(h)[i] = h[i].bytes
              /\ Squares(h)[i] = h[i].at * h[i].at /\ Moments(h)[i] = h[i].at * h[i].bytes
<1>1. /\ Len(h) \in Nat /\ DOMAIN h = 1 .. Len(h) /\ \A i \in 1 .. Len(h) : h[i] \in Sample
  OBVIOUS
<1>2. \A x \in Sample : x.at \in Nat /\ x.bytes \in Nat
  <2>1. MaxTime \in Nat /\ Capacity \in Nat /\ UsedLevels \subseteq 0 .. Capacity
    BY PredictorAssumption, ZenonT(60)
  <2>2. \A x \in Sample : x.at \in 0 .. MaxTime /\ x.bytes \in UsedLevels
    BY ZenonT(60) DEF Sample
  <2>3. \A y \in 0 .. MaxTime : y \in Nat
    BY <2>1
  <2>4. \A y \in UsedLevels : y \in Nat
    BY <2>1
  <2> QED BY <2>2, <2>3, <2>4, ZenonT(60)
<1>3. \A i \in 1 .. Len(h) : h[i].at \in Nat /\ h[i].bytes \in Nat
  BY <1>1, <1>2, ZenonT(60)
<1>4. \A x, y \in Nat : x \in Int /\ x * y \in Int
  OBVIOUS
<1> DEFINE n == Len(h)
<1>5. /\ Ats(h) = [i \in 1 .. n |-> h[i].at] /\ Sizes(h) = [i \in 1 .. n |-> h[i].bytes]
      /\ Squares(h) = [i \in 1 .. n |-> h[i].at * h[i].at]
      /\ Moments(h) = [i \in 1 .. n |-> h[i].at * h[i].bytes]
  BY <1>1, ZenonT(60) DEF Ats, Sizes, Squares, Moments
<1>6. \A i \in 1 .. n : /\ Ats(h)[i] = h[i].at /\ Sizes(h)[i] = h[i].bytes
                        /\ Squares(h)[i] = h[i].at * h[i].at /\ Moments(h)[i] = h[i].at * h[i].bytes
  BY <1>5, ZenonT(60)
<1>7. \A i \in 1 .. n : /\ Ats(h)[i] \in Int /\ Sizes(h)[i] \in Int
                        /\ Squares(h)[i] \in Int /\ Moments(h)[i] \in Int
  BY <1>3, <1>4, <1>6, ZenonT(60)
<1>8. /\ Ats(h) = [i \in 1 .. n |-> Ats(h)[i]] /\ Sizes(h) = [i \in 1 .. n |-> Sizes(h)[i]]
      /\ Squares(h) = [i \in 1 .. n |-> Squares(h)[i]]
      /\ Moments(h) = [i \in 1 .. n |-> Moments(h)[i]]
  BY <1>5, <1>6, ZenonT(60)
<1>9. /\ Ats(h) \in Seq(Int) /\ Len(Ats(h)) = n /\ SumOf(Ats(h)) \in Int
      /\ Sizes(h) \in Seq(Int) /\ Len(Sizes(h)) = n /\ SumOf(Sizes(h)) \in Int
      /\ Squares(h) \in Seq(Int) /\ Len(Squares(h)) = n /\ SumOf(Squares(h)) \in Int
      /\ Moments(h) \in Seq(Int) /\ Len(Moments(h)) = n /\ SumOf(Moments(h)) \in Int
  BY <1>1, <1>7, <1>8, Column, ZenonT(60)
<1> QED BY <1>1, <1>3, <1>6, <1>9, ZenonT(60)

(* The line is computed from the sums of the columns.                      *)
LEMMA FitIs ==
  ASSUME NEW h \in Seq(Sample)
  PROVE  /\ Fit(h).n = Len(h) /\ Fit(h).sumX = SumOf(Ats(h)) /\ Fit(h).sumY = SumOf(Sizes(h))
         /\ Fit(h).num = IF Spread(h) = 0 THEN 0 ELSE Slope(h)
         /\ Fit(h).den = IF Spread(h) = 0 THEN 1 ELSE Spread(h)
<1>1. Fit(h) = [n |-> Len(h), sumX |-> SumOf(Ats(h)), sumY |-> SumOf(Sizes(h)),
                num |-> IF Spread(h) = 0 THEN 0 ELSE Slope(h),
                den |-> IF Spread(h) = 0 THEN 1 ELSE Spread(h)]
  BY ZenonT(60) DEF Fit, Spread, Slope, Ats, Sizes, Squares, Moments
<1> QED BY <1>1

(* A factor that is not zero cancels.                                      *)
LEMMA Cancel ==
  ASSUME NEW n \in Int \ {0}, NEW a \in Int, NEW b \in Int, n * a = n * b
  PROVE  a = b
<1>1. PICK c \in Int : c = a - b
  <2>1. a - b \in Int
    OBVIOUS
  <2> QED BY <2>1, ZenonT(60)
<1>2. n * c = n * a - n * b
  BY <1>1
<1>3. n * c = 0
  BY <1>2
<1>4. c = 0
  BY <1>3
<1> QED BY <1>1, <1>4

(* No samples, no sum.                                                     *)
LEMMA EmptySum ==
  ASSUME NEW s \in Seq(Int), Len(s) = 0
  PROVE  SumOf(s) = 0
BY SumSteps, ZenonT(60) DEF SumOf

(* The sums over samples of one instant.                                   *)
LEMMA InstantSums ==
  ASSUME NEW h \in Seq(Sample), Instant(h), NEW k \in 1 .. Len(h)
  PROVE  /\ Len(h) * h[k].at = SumOf(Ats(h))
         /\ SumOf(Moments(h)) = h[k].at * SumOf(Sizes(h))
<1>0. /\ Len(h) \in Nat /\ DOMAIN h = 1 .. Len(h)
      /\ \A i \in 1 .. Len(h) : h[i].at \in Nat /\ h[i].bytes \in Nat
      /\ Ats(h) \in Seq(Int) /\ Len(Ats(h)) = Len(h) /\ SumOf(Ats(h)) \in Int
      /\ Sizes(h) \in Seq(Int) /\ Len(Sizes(h)) = Len(h) /\ SumOf(Sizes(h)) \in Int
      /\ Moments(h) \in Seq(Int) /\ Len(Moments(h)) = Len(h) /\ SumOf(Moments(h)) \in Int
      /\ \A i \in 1 .. Len(h) : /\ Ats(h)[i] = h[i].at /\ Sizes(h)[i] = h[i].bytes
                                /\ Moments(h)[i] = h[i].at * h[i].bytes
  BY Columns, ZenonT(60)
<1>1. PICK n \in Nat, x \in Int, y \in Int, p \in Int, t \in Nat :
        /\ n = Len(h) /\ x = SumOf(Ats(h)) /\ y = SumOf(Sizes(h)) /\ p = SumOf(Moments(h))
        /\ t = h[k].at
  BY <1>0, ZenonT(60)
<1>2. \A j \in 1 .. n : h[j].at = t
  BY <1>0, <1>1, ZenonT(60) DEF Instant
<1>3. 0 \in Int /\ t \in Int /\ \A z \in Int : t = 0 * z + 0 * z + t /\ t * z = t * z + 0 * z + 0
  OBVIOUS
<1>4. Combines(Ats(h), Ats(h), Ats(h), 0, 0, t)
  <2>1. \A j \in 1 .. n : Ats(h)[j] \in Int /\ Ats(h)[j] = t
    BY <1>0, <1>1, <1>2, <1>3, ZenonT(60)
  <2>2. \A j \in 1 .. n : Ats(h)[j] = 0 * Ats(h)[j] + 0 * Ats(h)[j] + t
    BY <1>3, <2>1, ZenonT(60)
  <2> QED BY <1>0, <1>1, <1>3, <2>2, ZenonT(60) DEF Combines
<1>5. Combines(Moments(h), Sizes(h), Sizes(h), t, 0, 0)
  <2>1. ASSUME NEW j \in 1 .. n
        PROVE  Moments(h)[j] = t * Sizes(h)[j] + 0 * Sizes(h)[j] + 0
    <3>1. PICK z \in Int : z = Sizes(h)[j] /\ Moments(h)[j] = t * z
      <4>1. \A z \in Nat : z \in Int
        OBVIOUS
      <4> QED BY <1>0, <1>1, <1>2, <4>1, ZenonT(60)
    <3>2. t * z = t * z + 0 * z + 0
      BY <1>3, ZenonT(60)
    <3> QED BY ONLY <3>1, <3>2, ZenonT(60)
  <2> QED BY <1>0, <1>1, <1>3, <2>1, ZenonT(60) DEF Combines
<1>6. x = 0 * x + 0 * x + t * n
  <2>1. SumCombines(Ats(h), Ats(h), Ats(h), 0, 0, t)
    BY <1>4, SumLinear, ZenonT(60)
  <2>2. SumOf(Ats(h)) = 0 * SumOf(Ats(h)) + 0 * SumOf(Ats(h)) + t * Len(Ats(h))
    BY <2>1, ZenonT(60) DEF SumCombines
  <2>3. x = SumOf(Ats(h)) /\ n = Len(Ats(h))
    BY <1>0, <1>1, ZenonT(60)
  <2> QED BY ONLY <2>2, <2>3, ZenonT(60)
<1>7. p = t * y + 0 * y + 0 * n
  <2>1. SumCombines(Moments(h), Sizes(h), Sizes(h), t, 0, 0)
    BY <1>5, SumLinear, ZenonT(60)
  <2>2. SumOf(Moments(h)) = t * SumOf(Sizes(h)) + 0 * SumOf(Sizes(h)) + 0 * Len(Moments(h))
    BY <2>1, ZenonT(60) DEF SumCombines
  <2>3. y = SumOf(Sizes(h)) /\ p = SumOf(Moments(h)) /\ n = Len(Moments(h))
    BY <1>0, <1>1, ZenonT(60)
  <2> QED BY ONLY <2>2, <2>3, ZenonT(60)
<1>8. n * t = x /\ p = t * y
  BY <1>6, <1>7
<1> QED BY <1>1, <1>8, ZenonT(60)

(* The times have no variance just when they are all the same.             *)
LEMMA SpreadIs ==
  ASSUME NEW h \in Seq(Sample)
  PROVE  /\ Spread(h) \in Int /\ Spread(h) >= 0
         /\ Spread(h) = 0 <=> Instant(h)
<1>0. /\ Len(h) \in Nat /\ DOMAIN h = 1 .. Len(h)
      /\ \A i \in 1 .. Len(h) : h[i].at \in Nat
      /\ Ats(h) \in Seq(Int) /\ Len(Ats(h)) = Len(h) /\ SumOf(Ats(h)) \in Int
      /\ Squares(h) \in Seq(Int) /\ Len(Squares(h)) = Len(h) /\ SumOf(Squares(h)) \in Int
      /\ \A i \in 1 .. Len(h) : Ats(h)[i] = h[i].at /\ Squares(h)[i] = h[i].at * h[i].at
  BY Columns, ZenonT(60)
<1>1. PICK n \in Nat, x \in Int, q \in Int :
        n = Len(h) /\ x = SumOf(Ats(h)) /\ q = SumOf(Squares(h))
  BY <1>0, ZenonT(60)
<1>2. Spread(h) = n * q - x * x
  BY <1>1, ZenonT(60) DEF Spread
<1> DEFINE D(t) == (n * t - x) * (n * t - x)
           u == [i \in 1 .. n |-> D(h[i].at)]
<1>3. \A t \in Nat : D(t) \in Int /\ D(t) >= 0 /\ (D(t) = 0 <=> n * t = x)
  <2> TAKE t \in Nat
  <2>1. PICK e \in Int : e = n * t - x
    <3>1. n * t - x \in Int
      OBVIOUS
    <3> QED BY <3>1, ZenonT(60)
  <2>2. e * e \in Nat /\ (e * e = 0 <=> e = 0)
    BY Square, ZenonT(60)
  <2>3. D(t) = e * e
    BY <2>1, ZenonT(60)
  <2>4. e = 0 <=> n * t = x
    BY <2>1
  <2> HIDE DEF D
  <2> QED BY <2>2, <2>3, <2>4
<1>4. \A t \in Nat : D(t) = (n * n) * (t * t) + (-(2 * n * x)) * t + x * x
  OBVIOUS
<1>5. u \in Seq(Int) /\ Len(u) = n /\ \A i \in 1 .. n : u[i] = D(h[i].at)
  <2> HIDE DEF D
  <2>1. \A i \in 1 .. n : u[i] = D(h[i].at) /\ u[i] \in Int
    BY <1>0, <1>1, <1>3, ZenonT(60)
  <2>2. u = [i \in 1 .. n |-> u[i]]
    BY <2>1, ZenonT(60)
  <2> HIDE DEF u
  <2> QED BY <2>1, <2>2, Column, ZenonT(60)
<1> HIDE DEF u
<1>6. SumOf(u) = n * (n * q - x * x)
  <2>1. n * n \in Int /\ -(2 * n * x) \in Int /\ x * x \in Int
    OBVIOUS
  <2>2. \A i \in 1 .. n : u[i] = (n * n) * Squares(h)[i] + (-(2 * n * x)) * Ats(h)[i] + x * x
    <3> TAKE i \in 1 .. n
    <3>1. PICK t \in Nat : t = h[i].at
      BY <1>0, <1>1, ZenonT(60)
    <3>2. u[i] = D(t) /\ Squares(h)[i] = t * t /\ Ats(h)[i] = t
      <4> HIDE DEF D
      <4> QED BY <1>0, <1>1, <1>5, <3>1, ZenonT(60)
    <3>3. u[i] = (n * n) * (t * t) + (-(2 * n * x)) * t + x * x
      BY <1>4, <3>2, ZenonT(60)
    <3> QED BY ONLY <3>2, <3>3, ZenonT(60)
  <2>3. Combines(u, Squares(h), Ats(h), n * n, -(2 * n * x), x * x)
    BY <1>0, <1>1, <1>5, <2>1, <2>2, ZenonT(60) DEF Combines
  <2>4. SumCombines(u, Squares(h), Ats(h), n * n, -(2 * n * x), x * x)
    BY <2>3, SumLinear, ZenonT(60)
  <2>5. SumOf(u) = (n * n) * q + (-(2 * n * x)) * x + (x * x) * n
    <3>1. SumOf(u) = (n * n) * SumOf(Squares(h)) + (-(2 * n * x)) * SumOf(Ats(h)) + (x * x) * Len(u)
      BY <2>4, ZenonT(60) DEF SumCombines
    <3>2. SumOf(Squares(h)) = q /\ SumOf(Ats(h)) = x /\ Len(u) = n
      BY <1>1, <1>5, ZenonT(60)
    <3> QED BY ONLY <3>1, <3>2, ZenonT(60)
  <2>6. (n * n) * q + (-(2 * n * x)) * x + (x * x) * n = n * (n * q - x * x)
    OBVIOUS
  <2> QED BY <2>5, <2>6, ZenonT(60)
<1>7. /\ SumOf(u) >= 0
      /\ SumOf(u) = 0 <=> \A i \in 1 .. n : n * h[i].at = x
  <2> HIDE DEF D
  <2>1. \A i \in 1 .. n : u[i] >= 0 /\ (u[i] = 0 <=> n * h[i].at = x)
    BY <1>0, <1>1, <1>3, <1>5, ZenonT(60)
  <2>2. SumOf(u) >= 0 /\ (SumOf(u) = 0 <=> \A i \in 1 .. n : u[i] = 0)
    BY <1>5, <2>1, SumPositive, ZenonT(60)
  <2> QED BY <2>1, <2>2, ZenonT(60)
<1>8. PICK y \in Int : y = n * q - x * x
  <2>1. n * q - x * x \in Int
    OBVIOUS
  <2> QED BY <2>1, ZenonT(60)
<1>9. CASE n = 0
  <2>1. x = 0 /\ y = 0
    <3>1. x = 0
      BY <1>0, <1>1, <1>9, EmptySum, ZenonT(60)
    <3> QED BY <1>8, <1>9, <3>1
  <2>2. Instant(h)
    <3>1. \A i \in 1 .. n : FALSE
      BY <1>9
    <3> QED BY <1>0, <1>1, <3>1, ZenonT(60) DEF Instant
  <2> QED BY <1>2, <1>8, <2>1, <2>2
<1>10. CASE n # 0
  <2>1. y >= 0 /\ (y = 0 <=> n * y = 0)
    <3>1. n * y >= 0
      BY <1>6, <1>7, <1>8, ZenonT(60)
    <3> QED BY <1>10, <3>1
  <2>2. y = 0 <=> \A i \in 1 .. n : n * h[i].at = x
    BY <1>6, <1>7, <1>8, <2>1, ZenonT(60)
  <2>3. ASSUME \A i \in 1 .. n : n * h[i].at = x
        PROVE  Instant(h)
    <3> SUFFICES ASSUME NEW i \in 1 .. n, NEW j \in 1 .. n
                 PROVE  h[i].at = h[j].at
      BY <1>0, <1>1, ZenonT(60) DEF Instant
    <3>1. PICK a \in Int, b \in Int : a = h[i].at /\ b = h[j].at
      <4>1. \A t \in Nat : t \in Int
        OBVIOUS
      <4> QED BY <1>0, <1>1, <4>1, ZenonT(60)
    <3>2. n * a = n * b
      BY <2>3, <3>1, ZenonT(60)
    <3>3. n \in Int \ {0}
      BY <1>10
    <3> QED BY <3>1, <3>2, <3>3, Cancel, ZenonT(60)
  <2>4. ASSUME Instant(h), NEW i \in 1 .. n
        PROVE  n * h[i].at = x
    BY <1>1, <2>4, InstantSums, ZenonT(60)
  <2> QED BY <1>2, <1>8, <2>1, <2>2, <2>3, <2>4, ZenonT(60)
<1> QED BY <1>9, <1>10, ZenonT(60)

(* Samples of one instant have no slope.                                   *)
LEMMA SlopeZero ==
  ASSUME NEW h \in Seq(Sample), Instant(h)
  PROVE  Slope(h) = 0
<1>0. /\ Len(h) \in Nat /\ \A i \in 1 .. Len(h) : h[i].at \in Nat
      /\ Ats(h) \in Seq(Int) /\ Len(Ats(h)) = Len(h) /\ SumOf(Ats(h)) \in Int
      /\ SumOf(Sizes(h)) \in Int /\ SumOf(Moments(h)) \in Int
  BY Columns, ZenonT(60)
<1>1. PICK n \in Nat, x \in Int, y \in Int, p \in Int :
        n = Len(h) /\ x = SumOf(Ats(h)) /\ y = SumOf(Sizes(h)) /\ p = SumOf(Moments(h))
  BY <1>0, ZenonT(60)
<1>2. Slope(h) = n * p - x * y
  BY <1>1, ZenonT(60) DEF Slope
<1>3. CASE n = 0
  <2>1. x = 0
    BY <1>0, <1>1, <1>3, EmptySum, ZenonT(60)
  <2>2. n * p - x * y = 0
    BY <1>3, <2>1
  <2> QED BY <1>2, <2>2, ZenonT(60)
<1>4. CASE n # 0
  <2>1. 1 \in 1 .. n
    BY <1>4
  <2>2. PICK t \in Nat : n * t = x /\ p = t * y
    BY <1>0, <1>1, <2>1, InstantSums, ZenonT(60)
  <2>3. n * (t * y) - (n * t) * y = 0
    OBVIOUS
  <2> QED BY <1>2, <2>2, <2>3, ZenonT(60)
<1> QED BY <1>3, <1>4, ZenonT(60)

(* The denominator is positive, and the line is flat for one instant.      *)
LEMMA FitTyped ==
  ASSUME NEW h \in Seq(Sample)
  PROVE  /\ Fit(h).n \in Nat /\ Fit(h).sumX \in Int /\ Fit(h).sumY \in Int
         /\ Fit(h).num \in Int /\ Fit(h).den \in Nat \ {0}
         /\ Instant(h) => Fit(h).num = 0
<1>1. /\ Fit(h).n = Len(h) /\ Fit(h).sumX = SumOf(Ats(h)) /\ Fit(h).sumY = SumOf(Sizes(h))
      /\ Fit(h).num = IF Spread(h) = 0 THEN 0 ELSE Slope(h)
      /\ Fit(h).den = IF Spread(h) = 0 THEN 1 ELSE Spread(h)
  BY FitIs, ZenonT(60)
<1>2. /\ Len(h) \in Nat /\ SumOf(Ats(h)) \in Int /\ SumOf(Sizes(h)) \in Int
      /\ SumOf(Moments(h)) \in Int
  BY Columns, ZenonT(60)
<1>3. Spread(h) \in Int /\ Spread(h) >= 0 /\ (Spread(h) = 0 <=> Instant(h))
  BY SpreadIs, ZenonT(60)
<1>4. Slope(h) \in Int
  BY <1>2 DEF Slope
<1>5. Fit(h).num \in Int /\ Fit(h).den \in Nat \ {0}
  BY <1>1, <1>3, <1>4
<1> QED BY <1>1, <1>2, <1>3, <1>5, ZenonT(60)

(* The residuals sum to zero, also weighted by time.                       *)
LEMMA ResidualsCancel ==
  ASSUME NEW h \in Seq(Sample)
  PROVE  LET f == Fit(h)
         IN  /\ SumOf([i \in DOMAIN h |-> ResidualTimes(f, h[i])]) = 0
             /\ SumOf([i \in DOMAIN h |-> h[i].at * ResidualTimes(f, h[i])]) = 0
             /\ \A i \in 1 .. Len(h) : ResidualTimes(f, h[i]) \in Int
<1> DEFINE f == Fit(h)
<1>0. /\ Len(h) \in Nat /\ DOMAIN h = 1 .. Len(h)
      /\ \A i \in 1 .. Len(h) : h[i].at \in Nat /\ h[i].bytes \in Nat
      /\ Ats(h) \in Seq(Int) /\ Len(Ats(h)) = Len(h) /\ SumOf(Ats(h)) \in Int
      /\ Sizes(h) \in Seq(Int) /\ Len(Sizes(h)) = Len(h) /\ SumOf(Sizes(h)) \in Int
      /\ Squares(h) \in Seq(Int) /\ Len(Squares(h)) = Len(h) /\ SumOf(Squares(h)) \in Int
      /\ Moments(h) \in Seq(Int) /\ Len(Moments(h)) = Len(h) /\ SumOf(Moments(h)) \in Int
      /\ \A i \in 1 .. Len(h) :
           /\ Ats(h)[i] = h[i].at /\ Sizes(h)[i] = h[i].bytes
           /\ Squares(h)[i] = h[i].at * h[i].at /\ Moments(h)[i] = h[i].at * h[i].bytes
  BY Columns, ZenonT(60)
<1>1. PICK n \in Nat, x \in Int, y \in Int, q \in Int, p \in Int, k \in Int, e \in Int :
        /\ n = Len(h) /\ x = SumOf(Ats(h)) /\ y = SumOf(Sizes(h)) /\ q = SumOf(Squares(h))
        /\ p = SumOf(Moments(h)) /\ k = f.num /\ e = f.den
  <2>1. f.den \in Int /\ f.num \in Int
    BY FitTyped
  <2> QED BY <1>0, <2>1, ZenonT(60)
<1>2. f.n = n /\ f.sumX = x /\ f.sumY = y
  BY <1>1, FitIs, ZenonT(60)
<1>3. e * (n * p - x * y) = k * (n * q - x * x)
  <2>1. k = (IF Spread(h) = 0 THEN 0 ELSE Slope(h)) /\ e = (IF Spread(h) = 0 THEN 1 ELSE Spread(h))
    BY <1>1, FitIs, ZenonT(60)
  <2>2. Slope(h) = n * p - x * y /\ Spread(h) = n * q - x * x
    BY <1>1, ZenonT(60) DEF Slope, Spread
  <2>3. PICK a \in Int, b \in Int : a = n * p - x * y /\ b = n * q - x * x
    <3>1. n * p - x * y \in Int /\ n * q - x * x \in Int
      OBVIOUS
    <3> QED BY <3>1, ZenonT(60)
  <2>4. b = 0 => a = 0
    BY <2>2, <2>3, SpreadIs, SlopeZero, ZenonT(60)
  <2>5. e * a = k * b
    <3>1. CASE b = 0
      <4>1. k = 0 /\ e = 1 /\ a = 0
        BY <2>1, <2>2, <2>3, <2>4, <3>1, ZenonT(60)
      <4> QED BY <3>1, <4>1
    <3>2. CASE b # 0
      <4>1. k = a /\ e = b
        BY <2>1, <2>2, <2>3, <3>2, ZenonT(60)
      <4> QED BY <4>1
    <3> QED BY <3>1, <3>2, ZenonT(60)
  <2> QED BY <2>3, <2>5, ZenonT(60)
<1> HIDE DEF f
<1> DEFINE c == y * e - k * x
           R(t, b) == b * n * e - (c + n * k * t)
<1>4. \A i \in 1 .. n : ResidualTimes(f, h[i]) = R(h[i].at, h[i].bytes)
  BY <1>1, <1>2, ZenonT(60) DEF ResidualTimes, LineTimes
<1>5. PICK d \in Int, a \in Int, m \in Int : d = -(y * e - k * x) /\ a = n * e /\ m = -(n * k)
  <2>1. -(y * e - k * x) \in Int /\ n * e \in Int /\ -(n * k) \in Int
    OBVIOUS
  <2> QED BY <2>1, ZenonT(60)
<1>6. \A t, b \in Nat : R(t, b) = a * b + m * t + d /\ R(t, b) \in Int
  <2> TAKE t \in Nat, b \in Nat
  <2>1. b * n * e - ((y * e - k * x) + n * k * t) = (n * e) * b + (-(n * k)) * t + (-(y * e - k * x))
    OBVIOUS
  <2>2. R(t, b) = a * b + m * t + d
    BY <1>5, <2>1, ZenonT(60)
  <2>3. a * b + m * t + d \in Int
    OBVIOUS
  <2> QED BY <2>2, <2>3, ZenonT(60)
<1>7. SumOf([i \in DOMAIN h |-> ResidualTimes(f, h[i])]) = 0
  <2> DEFINE s == [i \in 1 .. n |-> R(h[i].at, h[i].bytes)]
  <2>1. [i \in DOMAIN h |-> ResidualTimes(f, h[i])] = s
    BY <1>0, <1>1, <1>4, ZenonT(60)
  <2> HIDE DEF R
  <2>2. \A i \in 1 .. n : s[i] \in Int /\ s[i] = a * Sizes(h)[i] + m * Ats(h)[i] + d
    BY <1>0, <1>1, <1>6, ZenonT(60)
  <2>3. s = [i \in 1 .. n |-> s[i]]
    BY ZenonT(60)
  <2> HIDE DEF s
  <2>4. s \in Seq(Int) /\ Len(s) = n
    BY <2>2, <2>3, Column, ZenonT(60)
  <2>5. Combines(s, Sizes(h), Ats(h), a, m, d)
    BY <1>0, <1>1, <2>2, <2>4, ZenonT(60) DEF Combines
  <2>6. SumOf(s) = a * y + m * x + d * n
    <3>1. SumCombines(s, Sizes(h), Ats(h), a, m, d)
      BY <2>5, SumLinear, ZenonT(60)
    <3>2. SumOf(s) = a * SumOf(Sizes(h)) + m * SumOf(Ats(h)) + d * Len(s)
      BY <3>1, ZenonT(60) DEF SumCombines
    <3>3. SumOf(Sizes(h)) = y /\ SumOf(Ats(h)) = x
      BY <1>1, ZenonT(60)
    <3> QED BY ONLY <2>4, <3>2, <3>3, ZenonT(60)
  <2>7. (n * e) * y + (-(n * k)) * x + (-(y * e - k * x)) * n = 0
    OBVIOUS
  <2>8. a * y + m * x + d * n = 0
    BY ONLY <1>5, <2>7, ZenonT(60)
  <2> QED BY ONLY <2>1, <2>6, <2>8, ZenonT(60)
<1>8. SumOf([i \in DOMAIN h |-> h[i].at * ResidualTimes(f, h[i])]) = 0
  <2> DEFINE s == [i \in 1 .. n |-> h[i].at * R(h[i].at, h[i].bytes)]
             w == [i \in 1 .. n |-> a * Moments(h)[i] + m * Squares(h)[i] + 0]
  <2>1. [i \in DOMAIN h |-> h[i].at * ResidualTimes(f, h[i])] = s
    BY <1>0, <1>1, <1>4, ZenonT(60)
  <2> HIDE DEF R
  <2>2. ASSUME NEW i \in 1 .. n
        PROVE  w[i] \in Int /\ s[i] \in Int /\ s[i] = 1 * w[i] + d * Ats(h)[i] + 0
    <3>1. PICK t \in Nat, b \in Nat : t = h[i].at /\ b = h[i].bytes
      BY <1>0, <1>1, ZenonT(60)
    <3>2. s[i] = t * R(t, b) /\ R(t, b) = a * b + m * t + d
      BY <1>6, <3>1, ZenonT(60)
    <3>3. w[i] = a * (t * b) + m * (t * t) + 0 /\ Ats(h)[i] = t
      BY <1>0, <1>1, <3>1, ZenonT(60)
    <3>4. /\ t * (a * b + m * t + d) = 1 * (a * (t * b) + m * (t * t) + 0) + d * t + 0
          /\ t * (a * b + m * t + d) \in Int /\ a * (t * b) + m * (t * t) + 0 \in Int
      OBVIOUS
    <3> HIDE DEF s, w
    <3> QED BY ONLY <3>2, <3>3, <3>4, ZenonT(60)
  <2>3. s = [i \in 1 .. n |-> s[i]] /\ w = [i \in 1 .. n |-> w[i]]
    BY ZenonT(60)
  <2>4. \A i \in 1 .. n : w[i] = a * Moments(h)[i] + m * Squares(h)[i] + 0
    BY ZenonT(60)
  <2> HIDE DEF s, w
  <2>5. s \in Seq(Int) /\ Len(s) = n /\ w \in Seq(Int) /\ Len(w) = n
    BY <2>2, <2>3, Column, ZenonT(60)
  <2>6. 0 \in Int /\ 1 \in Int
    OBVIOUS
  <2>7. Combines(w, Moments(h), Squares(h), a, m, 0) /\ Combines(s, w, Ats(h), 1, d, 0)
    BY <1>0, <1>1, <2>2, <2>4, <2>5, <2>6, ZenonT(60) DEF Combines
  <2>8. SumOf(w) = a * p + m * q + 0 * n
    <3>1. SumCombines(w, Moments(h), Squares(h), a, m, 0)
      BY <2>7, SumLinear, ZenonT(60)
    <3>2. SumOf(w) = a * SumOf(Moments(h)) + m * SumOf(Squares(h)) + 0 * Len(w)
      BY <3>1, ZenonT(60) DEF SumCombines
    <3>3. SumOf(Moments(h)) = p /\ SumOf(Squares(h)) = q
      BY <1>1, ZenonT(60)
    <3> QED BY ONLY <2>5, <3>2, <3>3, ZenonT(60)
  <2>9. SumOf(s) = 1 * SumOf(w) + d * x + 0 * n
    <3>1. SumCombines(s, w, Ats(h), 1, d, 0)
      BY <2>7, SumLinear, ZenonT(60)
    <3>2. SumOf(s) = 1 * SumOf(w) + d * SumOf(Ats(h)) + 0 * Len(s)
      BY <3>1, ZenonT(60) DEF SumCombines
    <3>3. SumOf(Ats(h)) = x
      BY <1>1, ZenonT(60)
    <3> QED BY ONLY <2>5, <3>2, <3>3, ZenonT(60)
  <2>10. 1 * ((n * e) * p + (-(n * k)) * q + 0 * n) + (-(y * e - k * x)) * x + 0 * n
           = e * (n * p - x * y) - k * (n * q - x * x)
    OBVIOUS
  <2>11. e * (n * p - x * y) - k * (n * q - x * x) = 0
    <3>1. k * (n * q - x * x) \in Int
      OBVIOUS
    <3> QED BY <1>3, <3>1
  <2>12. SumOf(s) = 1 * (a * p + m * q + 0 * n) + d * x + 0 * n
    BY ONLY <2>8, <2>9, ZenonT(60)
  <2>13. SumOf(s) = 1 * ((n * e) * p + (-(n * k)) * q + 0 * n) + (-(y * e - k * x)) * x + 0 * n
    BY ONLY <1>5, <2>12, ZenonT(60)
  <2> QED BY ONLY <2>1, <2>10, <2>11, <2>13, ZenonT(60)
<1>9. \A i \in 1 .. n : ResidualTimes(f, h[i]) \in Int
  <2> HIDE DEF R
  <2> TAKE i \in 1 .. n
  <2>1. PICK t \in Nat, b \in Nat : t = h[i].at /\ b = h[i].bytes
    BY <1>0, <1>1, ZenonT(60)
  <2>2. R(t, b) \in Int
    BY <1>6, ZenonT(60)
  <2>3. ResidualTimes(f, h[i]) = R(t, b)
    BY <1>4, <2>1, ZenonT(60)
  <2> QED BY <2>2, <2>3, ZenonT(60)
<1> QED BY <1>1, <1>7, <1>8, <1>9, ZenonT(60) DEF f

(* The sum of a column that is constant.                                   *)
LEMMA ConstantSum ==
  ASSUME NEW s \in Seq(Int), NEW v \in Int, \A i \in 1 .. Len(s) : s[i] = v
  PROVE  SumOf(s) = Len(s) * v
<1>1. 0 \in Int /\ v = 0 * v + 0 * v + v /\ Len(s) \in Nat
  OBVIOUS
<1>2. Combines(s, s, s, 0, 0, v)
  <2>1. \A i \in 1 .. Len(s) : s[i] = 0 * s[i] + 0 * s[i] + v
    BY <1>1, ZenonT(60)
  <2> QED BY <1>1, <2>1, ZenonT(60) DEF Combines
<1>3. PICK x \in Int, n \in Nat : x = SumOf(s) /\ n = Len(s)
  <2>1. Len(s) \in 0 .. Len(s)
    BY <1>1
  <2> QED BY <1>1, <2>1, SumSteps, ZenonT(60) DEF SumOf
<1>4. SumOf(s) = 0 * SumOf(s) + 0 * SumOf(s) + v * Len(s)
  <2>1. SumCombines(s, s, s, 0, 0, v)
    BY <1>2, SumLinear, ZenonT(60)
  <2> QED BY <2>1, ZenonT(60) DEF SumCombines
<1>5. x = 0 * x + 0 * x + v * n
  BY ONLY <1>3, <1>4, ZenonT(60)
<1>6. x = n * v
  BY <1>5
<1> QED BY ONLY <1>3, <1>6, ZenonT(60)

(* A sum of squares vanishes only with every one of them.                  *)
LEMMA SquareSum ==
  ASSUME NEW n \in Nat, NEW g, \A i \in 1 .. n : g[i] \in Int
  PROVE  LET z == SumOf([i \in 1 .. n |-> g[i] * g[i]])
         IN  z \in Int /\ z >= 0 /\ (z = 0 <=> \A i \in 1 .. n : g[i] = 0)
<1> DEFINE s == [i \in 1 .. n |-> g[i] * g[i]]
<1>0. \A a \in Nat : a \in Int /\ a >= 0
  OBVIOUS
<1>1. \A i \in 1 .. n : s[i] \in Int /\ s[i] >= 0 /\ (s[i] = 0 <=> g[i] = 0)
  BY <1>0, Square, ZenonT(60)
<1>2. s = [i \in 1 .. n |-> s[i]]
  BY ZenonT(60)
<1> HIDE DEF s
<1>3. s \in Seq(Int) /\ Len(s) = n
  BY <1>1, <1>2, Column, ZenonT(60)
<1>4. SumOf(s) \in Int /\ SumOf(s) >= 0 /\ (SumOf(s) = 0 <=> \A i \in 1 .. n : s[i] = 0)
  BY <1>1, <1>3, SumPositive, ZenonT(60)
<1>5. (\A i \in 1 .. n : s[i] = 0) <=> \A i \in 1 .. n : g[i] = 0
  BY <1>1, ZenonT(60)
<1> QED BY <1>4, <1>5, ZenonT(60) DEF s

(* The sizes have no variance just when usage is constant.                 *)
LEMMA DeviationsCancel ==
  ASSUME NEW h \in Seq(Sample)
  PROVE  LET z == SumOf([i \in DOMAIN h |->
                          DeviationTimes(Fit(h), h[i]) * DeviationTimes(Fit(h), h[i])])
         IN  z \in Int /\ z >= 0 /\ (z = 0 <=> Steady(h))
<1> DEFINE f == Fit(h)
           g == [i \in 1 .. Len(h) |-> DeviationTimes(f, h[i])]
<1>0. /\ Len(h) \in Nat /\ DOMAIN h = 1 .. Len(h)
      /\ \A i \in 1 .. Len(h) : h[i].bytes \in Nat
      /\ Sizes(h) \in Seq(Int) /\ Len(Sizes(h)) = Len(h) /\ SumOf(Sizes(h)) \in Int
      /\ \A i \in 1 .. Len(h) : Sizes(h)[i] = h[i].bytes
  BY Columns, ZenonT(60)
<1>1. PICK n \in Nat, y \in Int : n = Len(h) /\ y = SumOf(Sizes(h))
  BY <1>0, ZenonT(60)
<1>2. f.n = n /\ f.sumY = y
  BY <1>1, FitIs, ZenonT(60)
<1> HIDE DEF f
<1>3. \A b \in Nat : b * n - y \in Int /\ (b * n - y = 0 <=> n * b = y)
  <2> TAKE b \in Nat
  <2>1. PICK c \in Int : c = n * b
    <3>1. n * b \in Int
      OBVIOUS
    <3> QED BY <3>1, ZenonT(60)
  <2>2. n * b = b * n
    OBVIOUS
  <2>3. b * n = c
    BY ONLY <2>1, <2>2, ZenonT(60)
  <2>4. c - y \in Int /\ (c - y = 0 <=> c = y)
    OBVIOUS
  <2> QED BY ONLY <2>1, <2>3, <2>4, ZenonT(60)
<1>4. \A i \in 1 .. n : g[i] \in Int /\ (g[i] = 0 <=> n * h[i].bytes = y)
  <2> TAKE i \in 1 .. n
  <2>1. g[i] = h[i].bytes * n - y
    BY <1>1, <1>2, ZenonT(60) DEF DeviationTimes
  <2>2. h[i].bytes \in Nat
    BY <1>0, <1>1, ZenonT(60)
  <2> HIDE DEF g
  <2> QED BY <1>3, <2>1, <2>2, ZenonT(60)
<1>5. [i \in DOMAIN h |-> DeviationTimes(f, h[i]) * DeviationTimes(f, h[i])]
        = [i \in 1 .. n |-> g[i] * g[i]]
  BY <1>0, <1>1, ZenonT(60)
<1> DEFINE z == SumOf([i \in 1 .. n |-> g[i] * g[i]])
<1> HIDE DEF g
<1>6. z \in Int /\ z >= 0 /\ (z = 0 <=> \A i \in 1 .. n : g[i] = 0)
  BY <1>4, SquareSum, ZenonT(60)
<1> HIDE DEF z
<1>7. ASSUME Steady(h), NEW i \in 1 .. n
      PROVE  n * h[i].bytes = y
  <2>1. PICK v \in Int : v = h[i].bytes
    <3>1. \A a \in Nat : a \in Int
      OBVIOUS
    <3> QED BY <1>0, <1>1, <3>1, ZenonT(60)
  <2>2. \A j \in 1 .. Len(Sizes(h)) : Sizes(h)[j] = v
    BY <1>0, <1>1, <1>7, <2>1, ZenonT(60) DEF Steady
  <2>3. SumOf(Sizes(h)) = Len(Sizes(h)) * v
    BY <1>0, <2>2, ConstantSum, ZenonT(60)
  <2> QED BY <1>0, <1>1, <2>1, <2>3, ZenonT(60)
<1>8. ASSUME \A i \in 1 .. n : n * h[i].bytes = y
      PROVE  Steady(h)
  <2> SUFFICES ASSUME NEW i \in 1 .. n, NEW j \in 1 .. n
               PROVE  h[i].bytes = h[j].bytes
    BY <1>0, <1>1, ZenonT(60) DEF Steady
  <2>1. PICK a \in Int, b \in Int : a = h[i].bytes /\ b = h[j].bytes
    <3>1. \A t \in Nat : t \in Int
      OBVIOUS
    <3> QED BY <1>0, <1>1, <3>1, ZenonT(60)
  <2>2. n * a = n * b
    BY <1>8, <2>1, ZenonT(60)
  <2>3. n \in Int \ {0}
    OBVIOUS
  <2> QED BY <2>1, <2>2, <2>3, Cancel, ZenonT(60)
<1>9. z = 0 <=> Steady(h)
  BY <1>4, <1>6, <1>7, <1>8, ZenonT(60)
<1> QED BY <1>5, <1>6, <1>9, ZenonT(60) DEF f, z

(* A residual, written out.                                                *)
LEMMA ResidualIs ==
  ASSUME NEW h \in Seq(Sample), NEW i \in 1 .. Len(h)
  PROVE  LET f == Fit(h)
         IN  ResidualTimes(f, h[i]) = h[i].bytes * f.n * f.den
               - (f.sumY * f.den - f.num * f.sumX + f.n * f.num * h[i].at)
BY ZenonT(60) DEF ResidualTimes, LineTimes

(* Samples without residuals rise as the line does.                        *)
LEMMA OnLine ==
  ASSUME NEW h \in Seq(Sample), NEW i \in 1 .. Len(h), NEW j \in 1 .. Len(h),
         ResidualTimes(Fit(h), h[i]) = 0, ResidualTimes(Fit(h), h[j]) = 0
  PROVE  Fit(h).den * (h[j].bytes - h[i].bytes) = Fit(h).num * (h[j].at - h[i].at)
<1>0. /\ Len(h) \in Nat /\ h[i].at \in Nat /\ h[i].bytes \in Nat
      /\ h[j].at \in Nat /\ h[j].bytes \in Nat
  BY Columns, ZenonT(60)
<1>1. PICK n \in Nat, x \in Int, y \in Int, k \in Int, e \in Int :
        Fit(h).n = n /\ Fit(h).sumX = x /\ Fit(h).sumY = y /\ Fit(h).num = k /\ Fit(h).den = e
  <2>1. \A a \in Nat \ {0} : a \in Int
    OBVIOUS
  <2> QED BY <2>1, FitTyped, ZenonT(60)
<1>2. PICK s \in Nat, b \in Nat, t \in Nat, c \in Nat :
        s = h[i].at /\ b = h[i].bytes /\ t = h[j].at /\ c = h[j].bytes
  BY <1>0, ZenonT(60)
<1>3. /\ b * n * e - (y * e - k * x + n * k * s) = 0
      /\ c * n * e - (y * e - k * x + n * k * t) = 0
  BY <1>1, <1>2, ResidualIs, ZenonT(60)
<1>4. n * (e * (c - b)) - n * (k * (t - s))
        = (c * n * e - (y * e - k * x + n * k * t)) - (b * n * e - (y * e - k * x + n * k * s))
  OBVIOUS
<1>5. PICK u \in Int, v \in Int : u = e * (c - b) /\ v = k * (t - s)
  <2>1. e * (c - b) \in Int /\ k * (t - s) \in Int
    OBVIOUS
  <2> QED BY <2>1, ZenonT(60)
<1>6. n * u - n * v = 0 - 0
  BY ONLY <1>3, <1>4, <1>5, ZenonT(60)
<1>7. n * u = n * v
  BY <1>6
<1>8. n \in Int \ {0}
  <2>1. n = Len(h)
    BY <1>1, FitIs, ZenonT(60)
  <2>2. Len(h) # 0
    BY <1>0
  <2> QED BY <2>1, <2>2
<1>9. u = v
  BY <1>7, <1>8, Cancel, ZenonT(60)
<1> QED BY ONLY <1>1, <1>2, <1>5, <1>9, ZenonT(60)

(* All samples on one line.                                                *)
Collinear(h) ==
  \A i, j, k \in DOMAIN h :
    (h[j].at - h[i].at) * (h[k].bytes - h[i].bytes)
      = (h[k].at - h[i].at) * (h[j].bytes - h[i].bytes)

(* When no sample has a residual they are on one line, which is not        *)
(* upright unless usage is constant.                                       *)
LEMMA NoResiduals ==
  ASSUME NEW h \in Seq(Sample), \A i \in 1 .. Len(h) : ResidualTimes(Fit(h), h[i]) = 0
  PROVE  Collinear(h) /\ (Instant(h) => Steady(h))
<1>0. /\ Len(h) \in Nat /\ DOMAIN h = 1 .. Len(h)
      /\ \A i \in 1 .. Len(h) : h[i].at \in Nat /\ h[i].bytes \in Nat
  BY Columns, ZenonT(60)
<1>1. PICK k \in Int, e \in Int \ {0} :
        Fit(h).num = k /\ Fit(h).den = e /\ (Instant(h) => k = 0)
  <2>1. \A a \in Nat \ {0} : a \in Int \ {0}
    OBVIOUS
  <2> QED BY <2>1, FitTyped, ZenonT(60)
<1>2. \A i, j \in 1 .. Len(h) : e * (h[j].bytes - h[i].bytes) = k * (h[j].at - h[i].at)
  BY <1>1, OnLine, ZenonT(60)
<1>3. ASSUME NEW i \in 1 .. Len(h), NEW j \in 1 .. Len(h), NEW m \in 1 .. Len(h)
      PROVE  (h[j].at - h[i].at) * (h[m].bytes - h[i].bytes)
               = (h[m].at - h[i].at) * (h[j].bytes - h[i].bytes)
  <2>1. PICK a \in Int, b \in Int, c \in Int, d \in Int :
          /\ a = h[j].at - h[i].at /\ b = h[m].at - h[i].at
          /\ c = h[j].bytes - h[i].bytes /\ d = h[m].bytes - h[i].bytes
    <3>1. \A s, t \in Nat : s - t \in Int
      OBVIOUS
    <3> QED BY <1>0, <3>1, ZenonT(60)
  <2>2. e * c = k * a /\ e * d = k * b
    BY <1>2, <2>1, ZenonT(60)
  <2>3. e * (a * d) = a * (e * d) /\ e * (b * c) = b * (e * c) /\ a * (k * b) = b * (k * a)
    OBVIOUS
  <2>4. e * (a * d) = e * (b * c)
    BY ONLY <2>2, <2>3, ZenonT(60)
  <2>5. a * d \in Int /\ b * c \in Int
    OBVIOUS
  <2>6. a * d = b * c
    BY <2>4, <2>5, Cancel, ZenonT(60)
  <2> QED BY ONLY <2>1, <2>6, ZenonT(60)
<1>4. ASSUME Instant(h), NEW i \in 1 .. Len(h), NEW j \in 1 .. Len(h)
      PROVE  h[i].bytes = h[j].bytes
  <2>1. PICK a \in Int, b \in Int, c \in Int :
          a = h[i].bytes /\ b = h[j].bytes /\ c = h[j].at - h[i].at
    <3>1. \A s, t \in Nat : s - t \in Int /\ s \in Int
      OBVIOUS
    <3> QED BY <1>0, <3>1, ZenonT(60)
  <2>2. e * (b - a) = 0 * c
    BY <1>1, <1>2, <1>4, <2>1, ZenonT(60)
  <2>3. b - a = 0
    BY <2>2
  <2>4. a = b
    BY <2>3
  <2> QED BY <2>1, <2>4, ZenonT(60)
<1> QED BY <1>0, <1>3, <1>4, ZenonT(60) DEF Collinear, Steady

(* Columns on a line: a multiple of one is a combination of two others, as *)
(* are their sums.                                                         *)
InLine(s, t, w, a, b, c, d) ==
  /\ s \in Seq(Int) /\ t \in Seq(Int) /\ w \in Seq(Int) /\ Len(t) = Len(s) /\ Len(w) = Len(s)
  /\ a \in Int /\ b \in Int /\ c \in Int /\ d \in Int
  /\ \A i \in 1 .. Len(s) : a * s[i] = b * t[i] + c * w[i] + d
SumInLine(s, t, w, a, b, c, d) ==
  a * SumOf(s) = b * SumOf(t) + c * SumOf(w) + d * Len(s)

(* So it is for the sums.                                                  *)
LEMMA SumsOnLine ==
  ASSUME NEW s, NEW t, NEW w, NEW a, NEW b, NEW c, NEW d, InLine(s, t, w, a, b, c, d)
  PROVE  SumInLine(s, t, w, a, b, c, d)
<1>0. /\ Len(s) \in Nat /\ 0 \in Int
      /\ \A i \in 1 .. Len(s) : s[i] \in Int /\ t[i] \in Int /\ w[i] \in Int
  <2>1. /\ s \in Seq(Int) /\ t \in Seq(Int) /\ w \in Seq(Int)
        /\ Len(t) = Len(s) /\ Len(w) = Len(s)
    BY ZenonT(60) DEF InLine
  <2> QED BY ONLY <2>1
<1> USE DEF InLine
<1>1. PICK n \in Nat : n = Len(s)
  BY <1>0, ZenonT(60)
<1> DEFINE u == [i \in 1 .. n |-> a * s[i] + 0 * s[i] + 0]
<1>2. \A i \in 1 .. n : /\ u[i] \in Int /\ u[i] = a * s[i] + 0 * s[i] + 0
                        /\ u[i] = b * t[i] + c * w[i] + d
  <2> TAKE i \in 1 .. n
  <2>1. PICK x \in Int, y \in Int, z \in Int : x = s[i] /\ y = t[i] /\ z = w[i]
    BY <1>0, <1>1, ZenonT(60)
  <2>2. u[i] = a * x + 0 * x + 0
    BY <2>1, ZenonT(60)
  <2>3. a * x + 0 * x + 0 = a * x /\ a * x \in Int
    OBVIOUS
  <2>4. a * x = b * y + c * z + d
    BY <1>1, <2>1, ZenonT(60)
  <2> HIDE DEF u
  <2> QED BY ONLY <2>1, <2>2, <2>3, <2>4, ZenonT(60)
<1>3. u = [i \in 1 .. n |-> u[i]]
  BY ZenonT(60)
<1> HIDE DEF u
<1>4. u \in Seq(Int) /\ Len(u) = n
  BY <1>2, <1>3, Column, ZenonT(60)
<1>5. Combines(u, s, s, a, 0, 0) /\ Combines(u, t, w, b, c, d)
  BY <1>0, <1>1, <1>2, <1>4, ZenonT(60) DEF Combines, InLine
<1>6. SumCombines(u, s, s, a, 0, 0) /\ SumCombines(u, t, w, b, c, d)
  BY <1>5, SumLinear, ZenonT(60)
<1>7. /\ SumOf(u) = a * SumOf(s) + 0 * SumOf(s) + 0 * Len(u)
      /\ SumOf(u) = b * SumOf(t) + c * SumOf(w) + d * Len(u)
  BY <1>6, ZenonT(60) DEF SumCombines
<1>8. PICK x \in Int : x = SumOf(s)
  <2>1. Len(s) \in 0 .. Len(s)
    BY <1>0
  <2> QED BY <2>1, SumSteps, ZenonT(60) DEF SumOf
<1>9. a * x + 0 * x + 0 * n = a * x
  OBVIOUS
<1>10. a * SumOf(s) = b * SumOf(t) + c * SumOf(w) + d * Len(s)
  BY ONLY <1>1, <1>4, <1>7, <1>8, <1>9, ZenonT(60)
<1> QED BY <1>10, ZenonT(60) DEF SumInLine

(* Samples on a line that is neither flat in time nor in usage have no     *)
(* residuals: it is the line fitted to them.                               *)
LEMMA LineThrough ==
  ASSUME NEW h \in Seq(Sample), Collinear(h), ~Instant(h), NEW r \in 1 .. Len(h)
  PROVE  ResidualTimes(Fit(h), h[r]) = 0
<1>0. /\ Len(h) \in Nat /\ DOMAIN h = 1 .. Len(h)
      /\ \A i \in 1 .. Len(h) : h[i].at \in Nat /\ h[i].bytes \in Nat
      /\ Ats(h) \in Seq(Int) /\ Len(Ats(h)) = Len(h) /\ SumOf(Ats(h)) \in Int
      /\ Sizes(h) \in Seq(Int) /\ Len(Sizes(h)) = Len(h) /\ SumOf(Sizes(h)) \in Int
      /\ Squares(h) \in Seq(Int) /\ Len(Squares(h)) = Len(h) /\ SumOf(Squares(h)) \in Int
      /\ Moments(h) \in Seq(Int) /\ Len(Moments(h)) = Len(h) /\ SumOf(Moments(h)) \in Int
      /\ \A i \in 1 .. Len(h) :
           /\ Ats(h)[i] = h[i].at /\ Sizes(h)[i] = h[i].bytes
           /\ Squares(h)[i] = h[i].at * h[i].at /\ Moments(h)[i] = h[i].at * h[i].bytes
  BY Columns, ZenonT(60)
<1>1. PICK n \in Nat, x \in Int, y \in Int, q \in Int, p \in Int, k \in Int, e \in Int :
        /\ n = Len(h) /\ x = SumOf(Ats(h)) /\ y = SumOf(Sizes(h)) /\ q = SumOf(Squares(h))
        /\ p = SumOf(Moments(h)) /\ k = Fit(h).num /\ e = Fit(h).den
  <2>1. Fit(h).den \in Int /\ Fit(h).num \in Int
    BY FitTyped
  <2> QED BY <1>0, <2>1, ZenonT(60)
<1>2. Fit(h).n = n /\ Fit(h).sumX = x /\ Fit(h).sumY = y
  BY <1>1, FitIs, ZenonT(60)
<1>3. k = n * p - x * y /\ e = n * q - x * x
  <2>1. Spread(h) # 0
    BY SpreadIs, ZenonT(60)
  <2>2. k = Slope(h) /\ e = Spread(h)
    BY <1>1, <2>1, FitIs, ZenonT(60)
  <2> QED BY <1>1, <2>2, ZenonT(60) DEF Slope, Spread
<1>4. PICK i \in 1 .. n, j \in 1 .. n : h[i].at # h[j].at
  BY <1>0, <1>1, ZenonT(60) DEF Instant
<1>5. PICK dx \in Int \ {0}, dy \in Int, c \in Int :
        /\ dx = h[j].at - h[i].at /\ dy = h[j].bytes - h[i].bytes
        /\ c = dx * h[i].bytes - dy * h[i].at
  <2>1. \A s, t \in Nat : s # t => t - s \in Int \ {0}
    OBVIOUS
  <2>2. \A s, t \in Nat : t - s \in Int
    OBVIOUS
  <2>3. PICK dx \in Int \ {0}, dy \in Int : dx = h[j].at - h[i].at /\ dy = h[j].bytes - h[i].bytes
    BY <1>0, <1>1, <1>4, <2>1, <2>2, ZenonT(60)
  <2>4. \A s, t \in Nat : dx * s - dy * t \in Int
    OBVIOUS
  <2>5. dx * h[i].bytes - dy * h[i].at \in Int
    BY <1>0, <1>1, <2>4, ZenonT(60)
  <2> QED BY <2>3, <2>5, ZenonT(60)
<1>6. ASSUME NEW m \in 1 .. n
      PROVE  dx * h[m].bytes = dy * h[m].at + c
  <2>1. PICK s \in Nat, b \in Nat, t \in Nat, g \in Nat :
          s = h[i].at /\ b = h[i].bytes /\ t = h[m].at /\ g = h[m].bytes
    BY <1>0, <1>1, ZenonT(60)
  <2>2. dx * (g - b) = (t - s) * dy
    BY <1>0, <1>1, <1>5, <2>1, ZenonT(60) DEF Collinear
  <2>3. c = dx * b - dy * s
    BY <1>5, <2>1, ZenonT(60)
  <2>4. dx * g = dx * (g - b) + dx * b /\ (t - s) * dy + dx * b = dy * t + (dx * b - dy * s)
    OBVIOUS
  <2>5. dx * g = dy * t + c
    BY ONLY <2>2, <2>3, <2>4, ZenonT(60)
  <2> QED BY ONLY <2>1, <2>5, ZenonT(60)
<1>7. dx * y = dy * x + c * n
  <2>1. \A m \in 1 .. n : dx * Sizes(h)[m] = dy * Ats(h)[m] + 0 * Ats(h)[m] + c
    <3> TAKE m \in 1 .. n
    <3>1. PICK t \in Nat, g \in Nat : t = Ats(h)[m] /\ g = Sizes(h)[m] /\ dx * g = dy * t + c
      BY <1>0, <1>1, <1>6, ZenonT(60)
    <3>2. dy * t + c = dy * t + 0 * t + c
      OBVIOUS
    <3> QED BY ONLY <3>1, <3>2, ZenonT(60)
  <2>2. 0 \in Int /\ dx \in Int
    OBVIOUS
  <2>3. dx * SumOf(Sizes(h)) = dy * SumOf(Ats(h)) + 0 * SumOf(Ats(h)) + c * Len(Sizes(h))
    <3> DEFINE s == Sizes(h)
               t == Ats(h)
    <3>1. /\ s \in Seq(Int) /\ t \in Seq(Int) /\ Len(t) = Len(s)
          /\ \A m \in 1 .. Len(s) : dx * s[m] = dy * t[m] + 0 * t[m] + c
      BY <1>0, <1>1, <2>1, ZenonT(60)
    <3> HIDE DEF s, t
    <3>2. InLine(s, t, t, dx, dy, 0, c)
      BY <2>2, <3>1, ZenonT(60) DEF InLine
    <3>3. SumInLine(s, t, t, dx, dy, 0, c)
      BY <3>2, SumsOnLine, ZenonT(60)
    <3> QED BY <3>3, ZenonT(60) DEF SumInLine, s, t
  <2>4. dx * y = dy * x + 0 * x + c * n
    BY <1>0, <1>1, <2>3, ZenonT(60)
  <2>5. dy * x + 0 * x + c * n = dy * x + c * n
    OBVIOUS
  <2> QED BY <2>4, <2>5, ZenonT(60)
<1>8. dx * p = dy * q + c * x
  <2>1. \A m \in 1 .. n : dx * Moments(h)[m] = dy * Squares(h)[m] + c * Ats(h)[m] + 0
    <3> TAKE m \in 1 .. n
    <3>1. PICK t \in Nat, g \in Nat :
            t = Ats(h)[m] /\ Squares(h)[m] = t * t /\ Moments(h)[m] = t * g /\ dx * g = dy * t + c
      BY <1>0, <1>1, <1>6, ZenonT(60)
    <3>2. dx * (t * g) = t * (dx * g) /\ t * (dy * t + c) = dy * (t * t) + c * t + 0
      OBVIOUS
    <3>3. dx * (t * g) = dy * (t * t) + c * t + 0
      BY ONLY <3>1, <3>2, ZenonT(60)
    <3> QED BY ONLY <3>1, <3>3, ZenonT(60)
  <2>2. 0 \in Int /\ dx \in Int
    OBVIOUS
  <2>3. dx * SumOf(Moments(h)) = dy * SumOf(Squares(h)) + c * SumOf(Ats(h)) + 0 * Len(Moments(h))
    <3> DEFINE s == Moments(h)
               t == Squares(h)
               w == Ats(h)
    <3>1. /\ s \in Seq(Int) /\ t \in Seq(Int) /\ w \in Seq(Int)
          /\ Len(t) = Len(s) /\ Len(w) = Len(s)
          /\ \A m \in 1 .. Len(s) : dx * s[m] = dy * t[m] + c * w[m] + 0
      BY <1>0, <1>1, <2>1, ZenonT(60)
    <3> HIDE DEF s, t, w
    <3>2. InLine(s, t, w, dx, dy, c, 0)
      BY <2>2, <3>1, ZenonT(60) DEF InLine
    <3>3. SumInLine(s, t, w, dx, dy, c, 0)
      BY <3>2, SumsOnLine, ZenonT(60)
    <3> QED BY <3>3, ZenonT(60) DEF SumInLine, s, t, w
  <2>4. dx * p = dy * q + c * x + 0 * n
    BY <1>0, <1>1, <2>3, ZenonT(60)
  <2>5. dy * q + c * x + 0 * n = dy * q + c * x
    OBVIOUS
  <2> QED BY <2>4, <2>5, ZenonT(60)
<1>9. dx * k = dy * e
  <2>1. dx * (n * p - x * y) = n * (dx * p) - x * (dx * y)
    OBVIOUS
  <2>2. n * (dy * q + c * x) - x * (dy * x + c * n) = dy * (n * q - x * x)
    OBVIOUS
  <2>3. dx * (n * p - x * y) = dy * (n * q - x * x)
    BY ONLY <1>7, <1>8, <2>1, <2>2, ZenonT(60)
  <2> QED BY ONLY <1>3, <2>3, ZenonT(60)
<1>10. PICK t \in Nat, b \in Nat : t = h[r].at /\ b = h[r].bytes /\ dx * b = dy * t + c
  BY <1>0, <1>1, <1>6, ZenonT(60)
<1>11. PICK z \in Int : z = b * n * e - (y * e - k * x + n * k * t)
  <2>1. b * n * e - (y * e - k * x + n * k * t) \in Int
    OBVIOUS
  <2> QED BY <2>1, ZenonT(60)
<1>12. dx * z = dx * 0
  <2>1. dx * (b * n * e - (y * e - k * x + n * k * t))
          = n * e * (dx * b) - e * (dx * y) + x * (dx * k) - n * t * (dx * k)
    OBVIOUS
  <2>2. n * e * (dy * t + c) - e * (dy * x + c * n) + x * (dy * e) - n * t * (dy * e) = dx * 0
    OBVIOUS
  <2>3. dx * (b * n * e - (y * e - k * x + n * k * t)) = dx * 0
    BY ONLY <1>7, <1>9, <1>10, <2>1, <2>2, ZenonT(60)
  <2> QED BY ONLY <1>11, <2>3, ZenonT(60)
<1>13. z = 0
  <2>1. 0 \in Int
    OBVIOUS
  <2> QED BY <1>12, <2>1, Cancel, ZenonT(60)
<1>14. ResidualTimes(Fit(h), h[r]) = b * n * e - (y * e - k * x + n * k * t)
  BY <1>1, <1>2, <1>10, ResidualIs, ZenonT(60)
<1> QED BY ONLY <1>11, <1>13, <1>14, ZenonT(60)

(* R-squared is one just for samples on a line that is not flat.           *)
LEMMA Certain ==
  ASSUME NEW h \in Seq(Sample)
  PROVE  Confidence(h, Fit(h)).num = Confidence(h, Fit(h)).den
           <=> Collinear(h) /\ ~Steady(h) /\ ~Instant(h)
<1> DEFINE f == Fit(h)
           g == [i \in 1 .. Len(h) |-> ResidualTimes(f, h[i])]
           R == SumOf([i \in DOMAIN h |-> ResidualTimes(f, h[i]) * ResidualTimes(f, h[i])])
           D == SumOf([i \in DOMAIN h |-> DeviationTimes(f, h[i]) * DeviationTimes(f, h[i])])
           C == Confidence(h, f)
<1>0. Len(h) \in Nat /\ DOMAIN h = 1 .. Len(h)
  BY Columns, ZenonT(60)
<1>1. PICK n \in Nat, e \in Nat \ {0} : n = Len(h) /\ f.n = n /\ f.den = e
  BY <1>0, FitIs, FitTyped, ZenonT(60)
<1>2. \A i \in 1 .. n : g[i] = ResidualTimes(f, h[i]) /\ g[i] \in Int
  <2>1. \A i \in 1 .. n : g[i] = ResidualTimes(f, h[i])
    BY <1>1, ZenonT(60)
  <2>2. \A i \in 1 .. Len(h) : ResidualTimes(f, h[i]) \in Int
    BY ResidualsCancel, ZenonT(60)
  <2> QED BY <1>1, <2>1, <2>2, ZenonT(60)
<1>3. [i \in DOMAIN h |-> ResidualTimes(f, h[i]) * ResidualTimes(f, h[i])]
        = [i \in 1 .. n |-> g[i] * g[i]]
  BY <1>0, <1>1, ZenonT(60)
<1>4. PICK res \in Nat : res = R /\ (res = 0 <=> \A i \in 1 .. n : ResidualTimes(f, h[i]) = 0)
  <2> HIDE DEF g
  <2>1. LET z == SumOf([i \in 1 .. n |-> g[i] * g[i]])
        IN  z \in Int /\ z >= 0 /\ (z = 0 <=> \A i \in 1 .. n : g[i] = 0)
    BY <1>2, SquareSum, ZenonT(60)
  <2>2. R = SumOf([i \in 1 .. n |-> g[i] * g[i]])
    BY <1>3, ZenonT(60)
  <2>3. R \in Int /\ R >= 0 /\ (R = 0 <=> \A i \in 1 .. n : ResidualTimes(f, h[i]) = 0)
    BY <1>2, <2>1, <2>2, ZenonT(60)
  <2> HIDE DEF R
  <2>4. R \in Nat
    BY <2>3
  <2> QED BY <2>3, <2>4, ZenonT(60)
<1>5. PICK dev \in Nat : dev = D /\ (dev = 0 <=> Steady(h))
  <2>1. D \in Int /\ D >= 0 /\ (D = 0 <=> Steady(h))
    BY DeviationsCancel, ZenonT(60)
  <2> HIDE DEF D
  <2>2. D \in Nat
    BY <2>1
  <2> QED BY <2>1, <2>2, ZenonT(60)
<1>6. PICK tot \in Nat : tot = e * e * dev /\ (tot = 0 <=> dev = 0)
  <2>1. e * e * dev \in Nat /\ (e * e * dev = 0 <=> dev = 0)
    <3>1. PICK m \in Nat \ {0} : m = e * e
      <4>1. e * e \in Nat \ {0}
        <5>1. e \in Int
          OBVIOUS
        <5>2. e * e \in Nat /\ (e * e = 0 <=> e = 0)
          BY <5>1, Square, ZenonT(60)
        <5> QED BY <5>2, ZenonT(60)
      <4> QED BY <4>1, ZenonT(60)
    <3>2. m * dev \in Nat /\ (m * dev = 0 <=> dev = 0)
      OBVIOUS
    <3> QED BY ONLY <3>1, <3>2, ZenonT(60)
  <2> QED BY <2>1, ZenonT(60)
<1>7. C = IF n < 2 \/ tot = 0 THEN [num |-> 0, den |-> 1]
          ELSE [num |-> Max({0, tot - res}), den |-> tot]
  BY <1>1, <1>4, <1>5, <1>6, ZenonT(60) DEF Confidence
<1>8. ~Steady(h) => n >= 2
  <2> SUFFICES ASSUME n < 2
               PROVE  Steady(h)
    OBVIOUS
  <2> SUFFICES ASSUME NEW i \in 1 .. n, NEW j \in 1 .. n
               PROVE  h[i].bytes = h[j].bytes
    BY <1>0, <1>1, ZenonT(60) DEF Steady
  <2>1. i = j
    OBVIOUS
  <2> QED BY ONLY <2>1, ZenonT(60)
<1> HIDE DEF C, R, D, f, g
<1>9. CASE n < 2 \/ Steady(h)
  <2>1. Steady(h)
    BY <1>8, <1>9
  <2>2. tot = 0
    BY <1>5, <1>6, <2>1, ZenonT(60)
  <2>3. C.num # C.den
    BY <1>7, <2>2
  <2> QED BY <2>1, <2>3, ZenonT(60) DEF C, f
<1>10. CASE ~(n < 2) /\ ~Steady(h)
  <2>1. tot # 0
    BY <1>5, <1>6, <1>10, ZenonT(60)
  <2>2. C.num = Max({0, tot - res}) /\ C.den = tot
    BY <1>7, <1>10, <2>1, ZenonT(60)
  <2>3. Max({0, tot - res}) = IF 0 >= tot - res THEN 0 ELSE tot - res
    <3>1. 0 \in Int /\ tot - res \in Int
      OBVIOUS
    <3> QED BY <3>1, MaxOfTwo, ZenonT(60)
  <2>4. C.num = C.den <=> res = 0
    BY <2>1, <2>2, <2>3
  <2>5. ASSUME res = 0
        PROVE  Collinear(h) /\ ~Instant(h)
    <3>1. \A i \in 1 .. Len(h) : ResidualTimes(Fit(h), h[i]) = 0
      BY <1>1, <1>4, <2>5, ZenonT(60) DEF f
    <3> QED BY <1>10, <3>1, NoResiduals, ZenonT(60)
  <2>6. ASSUME Collinear(h), ~Instant(h)
        PROVE  res = 0
    <3>1. \A i \in 1 .. Len(h) : ResidualTimes(Fit(h), h[i]) = 0
      BY <2>6, LineThrough, ZenonT(60)
    <3> QED BY <1>1, <1>4, <3>1, ZenonT(60) DEF f
  <2>7. C.num = C.den <=> Collinear(h) /\ ~Instant(h)
    BY <2>4, <2>5, <2>6, ZenonT(60)
  <2> QED BY <1>10, <2>7, ZenonT(60) DEF C, f
<1> QED BY <1>9, <1>10, ZenonT(60)

(* Cutting off the fraction keeps the order.                               *)
LEMMA TruncateUp ==
  ASSUME NEW a \in Int, NEW b \in Int, NEW c \in Nat \ {0}, a <= b
  PROVE  Truncate(a, c) \in Int /\ Truncate(b, c) \in Int /\ Truncate(a, c) <= Truncate(b, c)
<1>1. \A x \in Nat : x \div c \in Nat
  OBVIOUS
<1>2. CASE a >= 0
  <2>1. a \div c <= b \div c
    BY Quotient, ZenonT(60)
  <2>2. Truncate(a, c) = a \div c /\ Truncate(b, c) = b \div c
    <3>1. b >= 0
      BY <1>2
    <3> QED BY <1>2, <3>1, ZenonT(60) DEF Truncate
  <2>3. a \div c \in Int /\ b \div c \in Int
    OBVIOUS
  <2> QED BY <2>1, <2>2, <2>3, ZenonT(60)
<1>3. CASE a < 0 /\ b >= 0
  <2>1. PICK x \in Nat, y \in Nat : x = (-a) \div c /\ y = b \div c
    <3>1. -a \in Nat /\ b \in Nat
      BY <1>3
    <3> QED BY <1>1, <3>1, ZenonT(60)
  <2>2. Truncate(a, c) = -x /\ Truncate(b, c) = y
    <3>1. ~(a >= 0)
      BY <1>3
    <3> QED BY <1>3, <2>1, <3>1, ZenonT(60) DEF Truncate
  <2> QED BY <2>2
<1>4. CASE b < 0
  <2>1. -a \in Nat /\ -b \in Nat /\ -b <= -a /\ ~(a >= 0) /\ ~(b >= 0) /\ -a \in Int /\ -b \in Int
    BY <1>4
  <2>2. PICK x \in Nat, y \in Nat : x = (-a) \div c /\ y = (-b) \div c
    BY <1>1, <2>1, ZenonT(60)
  <2>3. y <= x
    BY <2>1, <2>2, Quotient, ZenonT(60)
  <2>4. Truncate(a, c) = -x /\ Truncate(b, c) = -y
    BY <2>1, <2>2, ZenonT(60) DEF Truncate
  <2> QED BY <2>3, <2>4
<1> QED BY <1>2, <1>3, <1>4

(* What is predicted lies between what is used and the capacity.           *)
Clip(u, a) == Max({u, Min({a, Capacity})})

(* Clipping keeps the order.                                               *)
LEMMA ClipUp ==
  ASSUME NEW u \in 0 .. Capacity, NEW a \in Int, NEW b \in Int, a <= b
  PROVE  /\ Clip(u, a) \in u .. Capacity /\ Clip(u, b) \in u .. Capacity
         /\ Clip(u, a) <= Clip(u, b)
<1>1. Capacity \in Int /\ u \in Int /\ u <= Capacity
  BY PredictorAssumption
<1>2. PICK c \in Int, d \in Int :
        /\ c = Min({a, Capacity}) /\ d = Min({b, Capacity})
        /\ c <= d /\ c <= Capacity /\ d <= Capacity
  <2>1. /\ Min({a, Capacity}) = IF a <= Capacity THEN a ELSE Capacity
        /\ Min({b, Capacity}) = IF b <= Capacity THEN b ELSE Capacity
    BY <1>1, MinOfTwo, ZenonT(60)
  <2> DEFINE x == Min({a, Capacity})
             y == Min({b, Capacity})
  <2> HIDE DEF x, y
  <2>2. x = (IF a <= Capacity THEN a ELSE Capacity) /\ y = IF b <= Capacity THEN b ELSE Capacity
    BY <2>1, ZenonT(60) DEF x, y
  <2>3. x \in Int /\ y \in Int /\ x <= y /\ x <= Capacity /\ y <= Capacity
    BY <1>1, <2>2
  <2> QED BY <2>3, ZenonT(60) DEF x, y
<1>3. Clip(u, a) = Max({u, c}) /\ Clip(u, b) = Max({u, d})
  BY <1>2, ZenonT(60) DEF Clip
<1>4. Max({u, c}) = (IF u >= c THEN u ELSE c) /\ Max({u, d}) = IF u >= d THEN u ELSE d
  BY <1>1, MaxOfTwo, ZenonT(60)
<1>5. Clip(u, a) = (IF u >= c THEN u ELSE c) /\ Clip(u, b) = IF u >= d THEN u ELSE d
  BY ONLY <1>3, <1>4, ZenonT(60)
<1> QED BY <1>1, <1>2, <1>5

(* The line rises or falls as its slope says.                              *)
LEMMA LineSlopes ==
  ASSUME NEW f, f.n \in Nat, f.sumX \in Int, f.sumY \in Int, f.num \in Int, f.den \in Nat \ {0},
         NEW s \in Nat, NEW t \in Nat, s <= t
  PROVE  /\ LineTimes(f, s) \in Int /\ LineTimes(f, t) \in Int
         /\ f.num >= 0 => LineTimes(f, s) <= LineTimes(f, t)
         /\ f.num <= 0 => LineTimes(f, t) <= LineTimes(f, s)
<1>1. PICK n \in Nat, x \in Int, y \in Int, k \in Int, e \in Int :
        f.n = n /\ f.sumX = x /\ f.sumY = y /\ f.num = k /\ f.den = e
  <2>1. \A a \in Nat \ {0} : a \in Int
    OBVIOUS
  <2> QED BY <2>1, ZenonT(60)
<1>2. PICK c \in Int, m \in Int : c = y * e - k * x /\ m = n * k
  <2>1. y * e - k * x \in Int /\ n * k \in Int
    OBVIOUS
  <2> QED BY <2>1, ZenonT(60)
<1>3. LineTimes(f, s) = c + m * s /\ LineTimes(f, t) = c + m * t
  BY <1>1, <1>2, ZenonT(60) DEF LineTimes
<1>4. m * t = m * s + m * (t - s) /\ m * s \in Int /\ m * t \in Int /\ m * (t - s) \in Int
  OBVIOUS
<1>5. k >= 0 => m * (t - s) >= 0
  <2> SUFFICES ASSUME k >= 0
               PROVE  m * (t - s) >= 0
    BY ZenonT(60)
  <2>1. n * k \in Nat
    OBVIOUS
  <2>2. m \in Nat
    BY <1>2, <2>1, ZenonT(60)
  <2> QED BY <2>2
<1>6. k <= 0 => m * (t - s) <= 0
  <2> SUFFICES ASSUME k <= 0
               PROVE  m * (t - s) <= 0
    BY ZenonT(60)
  <2>1. PICK j \in Nat : j = -k
    <3>1. -k \in Nat
      OBVIOUS
    <3> QED BY <3>1, ZenonT(60)
  <2>2. k = -j
    BY <2>1
  <2>3. n * (-j) = -(n * j) /\ n * j \in Nat
    OBVIOUS
  <2>4. PICK i \in Nat : m = -i
    BY <1>2, <2>2, <2>3, ZenonT(60)
  <2>5. PICK d \in Nat : d = t - s
    <3>1. t - s \in Nat
      OBVIOUS
    <3> QED BY <3>1, ZenonT(60)
  <2>6. (-i) * d = -(i * d) /\ i * d \in Nat
    OBVIOUS
  <2>7. m * (t - s) = -(i * d)
    BY ONLY <2>4, <2>5, <2>6, ZenonT(60)
  <2>8. -(i * d) <= 0
    BY <2>6
  <2> QED BY ONLY <2>7, <2>8, ZenonT(60)
<1>7. PICK a \in Int, b \in Int, w \in Int : a = m * s /\ b = m * t /\ w = m * (t - s)
  BY <1>4, ZenonT(60)
<1>8. b = a + w /\ (k >= 0 => w >= 0) /\ (k <= 0 => w <= 0)
  BY ONLY <1>4, <1>5, <1>6, <1>7, ZenonT(60)
<1>9. /\ c + a \in Int /\ c + b \in Int /\ (k >= 0 => c + a <= c + b)
      /\ (k <= 0 => c + b <= c + a)
  BY <1>8
<1> QED BY ONLY <1>1, <1>3, <1>7, <1>9, ZenonT(60)

(* Predictions lie between what is used and the capacity, and rise or fall *)
(* with the days ahead as the slope says.                                  *)
LEMMA Predictions ==
  ASSUME NEW f, f.n \in Nat, f.sumX \in Int, f.sumY \in Int, f.num \in Int, f.den \in Nat \ {0},
         clock \in Nat, NEW u \in 0 .. Capacity, NEW d \in Nat, NEW e \in Nat, d <= e
  PROVE  /\ Predict(f, u, d) \in u .. Capacity /\ Predict(f, u, e) \in u .. Capacity
         /\ f.n < 2 \/ f.num >= 0 => Predict(f, u, d) <= Predict(f, u, e)
         /\ f.n < 2 \/ f.num <= 0 => Predict(f, u, e) <= Predict(f, u, d)
<1>1. CASE f.n < 2
  <2>1. Predict(f, u, d) = u /\ Predict(f, u, e) = u
    BY <1>1, ZenonT(60) DEF Predict
  <2>2. Capacity \in Nat /\ u \in u .. Capacity /\ u <= u
    BY PredictorAssumption
  <2> QED BY <2>1, <2>2, ZenonT(60)
<1>2. CASE ~(f.n < 2)
  <2>1. PICK s \in Nat, t \in Nat : s = clock + d * DAY /\ t = clock + e * DAY /\ s <= t
    <3>1. DAY \in Nat
      BY PredictorAssumption, ZenonT(60)
    <3>2. PICK a \in Nat, b \in Nat : a = d * DAY /\ b = e * DAY
      <4>1. d * DAY \in Nat /\ e * DAY \in Nat
        BY <3>1
      <4> QED BY <4>1, ZenonT(60)
    <3>3. a <= b
      <4>1. d \in Int /\ e \in Int
        OBVIOUS
      <4> QED BY <3>1, <3>2, <4>1, Product, ZenonT(60)
    <3>4. clock + a \in Nat /\ clock + b \in Nat /\ clock + a <= clock + b
      BY <3>3
    <3> QED BY <3>2, <3>4, ZenonT(60)
  <2>2. PICK a \in Int, b \in Int :
          /\ a = LineTimes(f, s) /\ b = LineTimes(f, t)
          /\ (f.num >= 0 => a <= b) /\ (f.num <= 0 => b <= a)
    <3>1. /\ LineTimes(f, s) \in Int /\ LineTimes(f, t) \in Int
          /\ f.num >= 0 => LineTimes(f, s) <= LineTimes(f, t)
          /\ f.num <= 0 => LineTimes(f, t) <= LineTimes(f, s)
      BY ONLY <2>1, LineSlopes, f.n \in Nat, f.sumX \in Int, f.sumY \in Int,
              f.num \in Int, f.den \in Nat \ {0}, ZenonT(60)
    <3> QED BY <3>1, ZenonT(60)
  <2>3. PICK c \in Nat \ {0} : c = f.n * f.den
    <3>1. f.n * f.den \in Nat \ {0}
      <4>1. PICK n \in Nat \ {0}, m \in Nat \ {0} : n = f.n /\ m = f.den
        <5>1. \A n \in Nat : ~(n < 2) => n \in Nat \ {0}
          OBVIOUS
        <5> QED BY <1>2, <5>1, ZenonT(60)
      <4>2. n * m \in Nat \ {0}
        OBVIOUS
      <4> QED BY <4>1, <4>2, ZenonT(60)
    <3> QED BY <3>1, ZenonT(60)
  <2>4. PICK p \in Int, q \in Int : /\ p = Truncate(a, c) /\ q = Truncate(b, c)
                                    /\ (f.num >= 0 => p <= q) /\ (f.num <= 0 => q <= p)
    <3>1. f.num >= 0 \/ f.num <= 0
      OBVIOUS
    <3> QED BY <2>2, <3>1, TruncateUp, ZenonT(60)
  <2>5. Predict(f, u, d) = Clip(u, p) /\ Predict(f, u, e) = Clip(u, q)
    BY <1>2, <2>1, <2>2, <2>3, <2>4, ZenonT(60) DEF Predict, Clip
  <2>6. p <= q \/ q <= p
    OBVIOUS
  <2> QED BY <1>2, <2>4, <2>5, <2>6, ClipUp, ZenonT(60)
<1> QED BY <1>1, <1>2, ZenonT(60)

(* A higher threshold is never reached earlier.                            *)
LEMMA ThresholdsInOrder ==
  ASSUME NEW f, f.n \in Nat, ~(f.n < 2), f.num \in Int, ~(f.num <= 0), f.den \in Nat \ {0},
         NEW u \in 0 .. Capacity, NEW a \in Nat, NEW b \in Nat, a <= b
  PROVE  /\ DaysUntil(f, u, a) \in Int /\ DaysUntil(f, u, b) \in Int
         /\ DaysUntil(f, u, a) <= DaysUntil(f, u, b)
<1>1. Capacity \in Nat /\ DAY \in Nat \ {0}
  BY PredictorAssumption, ZenonT(60)
<1>2. PICK s \in Nat, t \in Nat :
        s = (Capacity * a) \div 100 /\ t = (Capacity * b) \div 100 /\ s <= t
  <2>1. PICK x \in Nat, y \in Nat : x = Capacity * a /\ y = Capacity * b /\ x <= y
    <3>1. /\ Capacity * a \in Nat /\ Capacity * b \in Nat /\ a * Capacity = Capacity * a
          /\ b * Capacity = Capacity * b /\ a \in Int /\ b \in Int
      BY <1>1
    <3>2. a * Capacity <= b * Capacity
      BY <1>1, <3>1, Product, ZenonT(60)
    <3> QED BY <3>1, <3>2, ZenonT(60)
  <2>2. x \div 100 \in Nat /\ y \div 100 \in Nat /\ x \in Int /\ y \in Int /\ 100 \in Nat \ {0}
    OBVIOUS
  <2>3. x \div 100 <= y \div 100
    BY <2>1, <2>2, Quotient, ZenonT(60)
  <2> QED BY <2>1, <2>2, <2>3, ZenonT(60)
<1>3. PICK k \in Nat, e \in Nat : k = f.num /\ e = f.den /\ k > 0 /\ e > 0
  <2>1. f.num \in Nat /\ f.den \in Nat /\ f.num > 0 /\ f.den > 0
    OBVIOUS
  <2> QED BY <2>1, ZenonT(60)
<1>4. PICK m \in Nat \ {0} : m = Max({f.num * DAY, f.den})
  <2>1. PICK j \in Int : j = k * DAY
    <3>1. k * DAY \in Int
      BY <1>1
    <3> QED BY <3>1, ZenonT(60)
  <2>2. e \in Int
    OBVIOUS
  <2>3. Max({j, e}) = IF j >= e THEN j ELSE e
    BY <2>2, MaxOfTwo, ZenonT(60)
  <2>4. (IF j >= e THEN j ELSE e) \in Nat \ {0}
    BY <1>3
  <2> QED BY <1>3, <2>1, <2>3, <2>4, ZenonT(60)
<1>5. /\ DaysUntil(f, u, a) = IF u >= s THEN 0 ELSE ((s - u) * e) \div m
      /\ DaysUntil(f, u, b) = IF u >= t THEN 0 ELSE ((t - u) * e) \div m
  BY <1>2, <1>3, <1>4, ZenonT(60) DEF DaysUntil
<1>6. u \in Nat
  OBVIOUS
<1>7. ASSUME NEW z \in Nat, ~(u >= z)
      PROVE  z - u \in Nat /\ (z - u) * e \in Nat /\ ((z - u) * e) \div m \in Nat
  <2>1. PICK d \in Nat : d = z - u
    <3>1. z - u \in Nat
      BY <1>6, <1>7
    <3> QED BY <3>1, ZenonT(60)
  <2>2. PICK w \in Nat : w = d * e
    <3>1. d * e \in Nat
      OBVIOUS
    <3> QED BY <3>1, ZenonT(60)
  <2>3. w \div m \in Nat
    OBVIOUS
  <2> QED BY ONLY <2>1, <2>2, <2>3, d \in Nat, w \in Nat, ZenonT(60)
<1>8. CASE u >= s
  <2>1. DaysUntil(f, u, a) = 0
    BY <1>5, <1>8, ZenonT(60)
  <2>2. DaysUntil(f, u, b) \in Nat
    <3>1. 0 \in Nat
      BY ZenonT(60)
    <3> QED BY <1>5, <1>7, <3>1, ZenonT(60)
  <2> HIDE DEF DaysUntil
  <2> QED BY <2>1, <2>2
<1>9. CASE ~(u >= s)
  <2>1. ~(u >= t)
    BY <1>2, <1>6, <1>9
  <2>2. PICK x \in Int, y \in Int : x = s - u /\ y = t - u /\ x <= y
    <3>1. s - u \in Int /\ t - u \in Int /\ s - u <= t - u
      BY <1>2, <1>6
    <3> QED BY <3>1, ZenonT(60)
  <2>3. PICK v \in Int, w \in Int : v = x * e /\ w = y * e /\ v <= w
    <3>1. x * e \in Int /\ y * e \in Int
      OBVIOUS
    <3>2. x * e <= y * e
      BY <2>2, Product, ZenonT(60)
    <3> QED BY <3>1, <3>2, ZenonT(60)
  <2>4. v \div m <= w \div m
    BY <2>3, Quotient, ZenonT(60)
  <2>5. v \div m \in Int /\ w \div m \in Int
    OBVIOUS
  <2>6. DaysUntil(f, u, a) = v \div m /\ DaysUntil(f, u, b) = w \div m
    BY <1>5, <1>9, <2>1, <2>2, <2>3, ZenonT(60)
  <2> QED BY <2>4, <2>5, <2>6, ZenonT(60)
<1> QED BY <1>8, <1>9, ZenonT(60)

(* get_capacity_forecast, for every history: the line is the least-squares *)
(* one, R-squared is one just for samples on a line that is neither flat   *)
(* nor upright, predictions lie between what is used and the capacity and  *)
(* follow the slope, and thresholds are reached in their order.            *)
THEOREM ForecastHolds == PredictorSpec => []ForecastSound
<1>1. PInv => ForecastSound
  <2> SUFFICES ASSUME PInv
               PROVE  ForecastSound
    BY ZenonT(60)
  <2> DEFINE f == Fit(history)
  <2>1. PredictorTypeOK /\ history \in Seq(Sample)
    BY ZenonT(60) DEF PInv, PredictorTypeOK
  <2>2. clock \in Nat
    BY PredictorAssumption DEF PInv, PredictorTypeOK
  <2>3. /\ SumOf([i \in DOMAIN history |-> ResidualTimes(f, history[i])]) = 0
        /\ SumOf([i \in DOMAIN history |-> history[i].at * ResidualTimes(f, history[i])]) = 0
    BY <2>1, ResidualsCancel, ZenonT(60)
  <2>4. /\ f.n \in Nat /\ f.sumX \in Int /\ f.sumY \in Int
        /\ f.num \in Int /\ f.den \in Nat \ {0} /\ (Instant(history) => f.num = 0)
    BY <2>1, FitTyped, ZenonT(60)
  <2>5. Confidence(history, f).num = Confidence(history, f).den
          <=> Collinear(history) /\ ~Steady(history) /\ ~Instant(history)
    BY <2>1, Certain, ZenonT(60)
  <2> HIDE DEF f
  <2>6. ASSUME NEW u \in UsedLevels
        PROVE  LET p7 == Predict(f, u, 7)
                   p30 == Predict(f, u, 30)
                   p90 == Predict(f, u, 90)
                   d80 == DaysUntil(f, u, 80)
                   d90 == DaysUntil(f, u, 90)
                   d99 == DaysUntil(f, u, 99)
               IN  /\ {p7, p30, p90} \subseteq u .. Capacity
                   /\ d80 # Absent => p7 <= p30 /\ p30 <= p90 /\ d80 <= d90 /\ d90 <= d99
                   /\ d80 = Absent => p7 >= p30 /\ p30 >= p90 /\ d90 = Absent /\ d99 = Absent
    <3>1. u \in 0 .. Capacity /\ Absent \notin Int
      BY PredictorAssumption, ZenonT(60)
    <3>2. ASSUME NEW d \in Nat, NEW e \in Nat, d <= e
          PROVE  /\ Predict(f, u, d) \in u .. Capacity /\ Predict(f, u, e) \in u .. Capacity
                 /\ f.n < 2 \/ f.num >= 0 => Predict(f, u, d) <= Predict(f, u, e)
                 /\ f.n < 2 \/ f.num <= 0 => Predict(f, u, e) <= Predict(f, u, d)
      BY <2>2, <2>4, <3>1, <3>2, Predictions, ZenonT(60)
    <3>3. /\ Predict(f, u, 7) \in u .. Capacity /\ Predict(f, u, 30) \in u .. Capacity
          /\ f.n < 2 \/ f.num >= 0 => Predict(f, u, 7) <= Predict(f, u, 30)
          /\ f.n < 2 \/ f.num <= 0 => Predict(f, u, 30) <= Predict(f, u, 7)
      <4>1. 7 \in Nat /\ 30 \in Nat /\ 7 <= 30
        OBVIOUS
      <4> QED BY ONLY <3>2, <4>1, ZenonT(60)
    <3>4. /\ Predict(f, u, 90) \in u .. Capacity
          /\ f.n < 2 \/ f.num >= 0 => Predict(f, u, 30) <= Predict(f, u, 90)
          /\ f.n < 2 \/ f.num <= 0 => Predict(f, u, 90) <= Predict(f, u, 30)
      <4>1. 30 \in Nat /\ 90 \in Nat /\ 30 <= 90
        OBVIOUS
      <4> QED BY ONLY <3>2, <4>1, ZenonT(60)
    <3>5. CASE f.n < 2 \/ f.num <= 0
      <4>1. DaysUntil(f, u, 80) = Absent /\ DaysUntil(f, u, 90) = Absent /\ DaysUntil(f, u, 99) = Absent
        BY <3>5, ZenonT(60) DEF DaysUntil
      <4>2. Predict(f, u, 7) >= Predict(f, u, 30) /\ Predict(f, u, 30) >= Predict(f, u, 90)
        <5>1. \A a, b \in u .. Capacity : a <= b => b >= a
          BY ZenonT(60)
        <5> QED BY <3>3, <3>4, <3>5, <5>1, ZenonT(60)
      <4> QED BY <3>3, <3>4, <4>1, <4>2, ZenonT(60)
    <3>6. CASE ~(f.n < 2 \/ f.num <= 0)
      <4>1. ~(f.n < 2) /\ ~(f.num <= 0) /\ f.num >= 0
        BY <2>4, <3>6
      <4>2. ASSUME NEW a \in Nat, NEW b \in Nat, a <= b
            PROVE  DaysUntil(f, u, a) \in Int /\ DaysUntil(f, u, a) <= DaysUntil(f, u, b)
        BY <2>4, <3>1, <4>1, <4>2, ThresholdsInOrder, ZenonT(60)
      <4>3. DaysUntil(f, u, 80) \in Int /\ DaysUntil(f, u, 80) <= DaysUntil(f, u, 90)
        <5>1. 80 \in Nat /\ 90 \in Nat /\ 80 <= 90
          OBVIOUS
        <5> QED BY ONLY <4>2, <5>1, ZenonT(60)
      <4>4. DaysUntil(f, u, 90) <= DaysUntil(f, u, 99)
        <5>1. 90 \in Nat /\ 99 \in Nat /\ 90 <= 99
          OBVIOUS
        <5> QED BY ONLY <4>2, <5>1, ZenonT(60)
      <4>5. DaysUntil(f, u, 80) # Absent
        BY <3>1, <4>3, ZenonT(60)
      <4> QED BY <3>3, <3>4, <4>1, <4>3, <4>4, <4>5, ZenonT(60)
    <3> QED BY <3>5, <3>6, ZenonT(60)
  <2> QED BY <2>1, <2>3, <2>4, <2>5, <2>6, ZenonT(60)
          DEF ForecastSound, Collinear, Steady, Instant, f
<1> QED BY <1>1, PInvHolds, PTL
=============================================================================
