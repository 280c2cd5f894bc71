----------------------------- MODULE Replication ----------------------------
(***************************************************************************)
(* ReplicationEngine (activecluster/replication.py) of one node: SYNC mode,*)
(* where the caller waits for the peers, and ASYNC mode, where operations  *)
(* go through an in-memory journal that a background loop drains.  Both    *)
(* send with _sync_replicate, one HTTP request per peer in parallel.       *)
(*                                                                         *)
(* A request is lost, arrives and is answered, or times out before or      *)
(* after it arrives; one that timed out may still arrive.                  *)
(*                                                                         *)
(* The engine posts to /api/v1/replication/apply.  This repository's own   *)
(* server has its handler under /api/v1/cluster and answers the post with  *)
(* 404: with Answers = {"error"} the peers are such servers.  A peer that  *)
(* answers "ok" is a server outside the repository, or one behind a proxy, *)
(* that does what the handler does: it takes the operation and answers 200.*)
(***************************************************************************)
EXTENDS Naturals, Sequences, FiniteSets, SequencesExt

CONSTANTS Peers,     \* node ids of possible peers
          Modes,     \* what replication_mode may be set to
          MaxOps,    \* bound on operations
          Answers,   \* what a peer may do with a post it gets: "ok", take it and
                     \* answer 200, or "error", answer another status
          Volatile,  \* the node may crash
          Rewire     \* peers may be added and removed, and the loop stopped

ASSUME ReplicationAssumption ==
  /\ Modes \subseteq {"SYNC", "ASYNC"} /\ MaxOps \in Nat
  /\ Answers \subseteq {"ok", "error"}
  /\ {Volatile, Rewire} \subseteq BOOLEAN

VARIABLES
  mode,      \* mode: "SYNC" or "ASYNC", for the life of the engine
  seq,       \* _sequence_number; an operation is known by its number
  peer,      \* _peers: the state of the link, or "absent"
  req,       \* req[o][p]: the request of operation o that is under way to p
  orphan,    \* requests whose ReplicationPeer is no longer the one in _peers
  active,    \* operations inside _sync_replicate
  success,   \* those of them that one peer has taken, or that found no peer
  journal,   \* _journal
  pending,   \* _stats.operations_pending
  loop,      \* _replication_task is set
  batch,     \* what _process_journal has copied and not yet dealt with
  late,      \* requests whose sender has given up
  received,  \* received[p]: the operations that peer p has taken
  acked,     \* operations for which replicate_* returned True
  alone,     \* operations that were replicated while there was no peer
  lost       \* operations that were in the journal when the process ended

vars == <<mode, seq, peer, req, orphan, active, success, journal, pending, loop, batch,
          late, received, acked, alone, lost>>
net == <<late, received>>

Ops == 1 .. MaxOps
Linked == {p \in Peers : peer[p] # "absent"}
Quiet == [p \in Peers |-> "none"]

TypeOK ==
  /\ mode \in {"SYNC", "ASYNC"} /\ seq \in 0 .. MaxOps
  /\ peer \in [Peers -> {"absent", "SYNCING", "HEALTHY", "DEGRADED"}]
  /\ req \in [Ops -> [Peers -> {"none", "sent", "taken", "refused"}]]
  /\ orphan \subseteq Ops \X Peers
  /\ active \subseteq Ops /\ success \subseteq active
  /\ journal \in Seq(Ops) /\ batch \in Seq(Ops) /\ pending \in Nat /\ loop \in BOOLEAN
  /\ late \subseteq Ops \X Peers
  /\ received \in [Peers -> SUBSET Ops]
  /\ acked \subseteq Ops /\ alone \subseteq Ops /\ lost \subseteq Ops

Init ==
  /\ mode \in Modes /\ seq = 0
  /\ peer = [p \in Peers |-> "SYNCING"]
  /\ req = [o \in Ops |-> Quiet] /\ orphan = {}
  /\ active = {} /\ success = {}
  /\ journal = <<>> /\ pending = 0 /\ batch = <<>>
  /\ loop = (mode = "ASYNC")
  /\ late = {} /\ received = [p \in Peers |-> {}]
  /\ acked = {} /\ alone = {} /\ lost = {}

-----------------------------------------------------------------------------
(* A peer added is a new ReplicationPeer, also under an id that is known.  *)
Orphaned(p) == orphan' = orphan \cup {x \in Ops \X {p} : req[x[1]][p] # "none"}

AddPeer(p) ==
  /\ Rewire
  /\ peer' = [peer EXCEPT ![p] = "SYNCING"]
  /\ Orphaned(p)
  /\ UNCHANGED <<mode, lost, seq, req, active, success, journal, pending, loop, batch, net, acked, alone>>

RemovePeer(p) ==
  /\ Rewire /\ peer[p] # "absent"
  /\ peer' = [peer EXCEPT ![p] = "absent"]
  /\ Orphaned(p)
  /\ UNCHANGED <<mode, lost, seq, req, active, success, journal, pending, loop, batch, net, acked, alone>>

(* Mutant of Queue: the counter of pending operations is not kept.         *)
MutQueue ==
  /\ mode = "ASYNC" /\ seq < MaxOps
  /\ seq' = seq + 1
  /\ journal' = Append(journal, seq')
  /\ acked' = acked \cup {seq'}
  /\ UNCHANGED <<mode, lost, pending, peer, req, orphan, active, success, loop, batch, net, alone>>

(* replicate_write and replicate_delete.                                   *)
Queue ==
  /\ mode = "ASYNC" /\ seq < MaxOps
  /\ seq' = seq + 1
  /\ journal' = Append(journal, seq')
  /\ pending' = pending + 1
  /\ acked' = acked \cup {seq'}
  /\ UNCHANGED <<mode, lost, peer, req, orphan, active, success, loop, batch, net, alone>>

(* _sync_replicate up to the gather: one request to every peer.  No link   *)
(* is ever set to BROKEN, so none is left out.  Without peers it is True.  *)
Send(o) ==
  /\ active' = active \cup {o}
  /\ req' = [req EXCEPT ![o] = [p \in Peers |-> IF p \in Linked THEN "sent" ELSE "none"]]
  /\ success' = IF Linked = {} THEN success \cup {o} ELSE success
  /\ alone' = IF Linked = {} THEN alone \cup {o} ELSE alone

Replicate ==
  /\ mode = "SYNC" /\ seq < MaxOps
  /\ seq' = seq + 1
  /\ Send(seq')
  /\ UNCHANGED <<mode, lost, peer, orphan, journal, pending, loop, batch, net, acked>>

-----------------------------------------------------------------------------
(* The network and the peer.                                               *)
Arrive(o, p) ==
  /\ "ok" \in Answers /\ req[o][p] = "sent"
  /\ req' = [req EXCEPT ![o][p] = "taken"]
  /\ received' = [received EXCEPT ![p] = @ \cup {o}]
  /\ UNCHANGED <<mode, lost, seq, peer, orphan, active, success, journal, pending, loop, batch, late, acked, alone>>

Refuse(o, p) ==
  /\ "error" \in Answers /\ req[o][p] = "sent"
  /\ req' = [req EXCEPT ![o][p] = "refused"]
  /\ UNCHANGED <<mode, lost, seq, peer, orphan, active, success, journal, pending, loop, batch, net, acked, alone>>

ArriveLate(o, p) ==
  /\ "ok" \in Answers /\ <<o, p>> \in late
  /\ late' = late \ {<<o, p>>}
  /\ received' = [received EXCEPT ![p] = @ \cup {o}]
  /\ UNCHANGED <<mode, lost, seq, peer, req, orphan, active, success, journal, pending, loop, batch, acked, alone>>

(* The end of _send_to_peer, which writes the state into the peer object   *)
(* it was called with.                                                     *)
RequestEnds(o, p) ==
  /\ req' = [req EXCEPT ![o][p] = "none"]
  /\ orphan' = orphan \ {<<o, p>>}

LinkState(o, p, s) ==
  peer' = IF <<o, p>> \in orphan THEN peer ELSE [peer EXCEPT ![p] = s]

AnsweredOk(o, p) ==
  /\ req[o][p] = "taken"
  /\ RequestEnds(o, p)
  /\ success' = success \cup {o}
  /\ LinkState(o, p, "HEALTHY")
  /\ UNCHANGED <<mode, lost, seq, active, journal, pending, loop, batch, net, acked, alone>>

AnsweredError(o, p) ==
  /\ req[o][p] = "refused"
  /\ RequestEnds(o, p)
  /\ UNCHANGED <<mode, lost, seq, peer, active, success, journal, pending, loop, batch, net, acked, alone>>

(* The HTTP call raises: no connection, or the timeout.                    *)
Raised(o, p) ==
  /\ req[o][p] # "none"
  /\ RequestEnds(o, p)
  /\ LinkState(o, p, "DEGRADED")
  /\ late' \in {late} \cup (IF req[o][p] = "sent" THEN {late \cup {<<o, p>>}} ELSE {})
  /\ UNCHANGED <<mode, lost, seq, active, success, journal, pending, loop, batch, received, acked, alone>>

-----------------------------------------------------------------------------
(* Mutant: any answer counts as success.                                   *)
MutSucceeds(o) == o \in active

(* _sync_replicate returns: it succeeded if one peer did, or if there is   *)
(* no peer by now.                                                         *)
Succeeds(o) == o \in success \/ Linked = {}

Returns(o) ==
  /\ o \in active /\ req[o] = Quiet
  /\ active' = active \ {o}
  /\ success' = success \ {o}
  /\ alone' = IF o \notin success /\ Linked = {} THEN alone \cup {o} ELSE alone

Reply(o) ==
  /\ mode = "SYNC"
  /\ Returns(o)
  /\ acked' = IF Succeeds(o) THEN acked \cup {o} ELSE acked
  /\ UNCHANGED <<mode, lost, seq, peer, req, orphan, journal, pending, loop, batch, net>>

(* _process_journal: a copy of the journal, and its operations in turn.    *)
CopyJournal ==
  /\ loop /\ batch = <<>> /\ journal # <<>>
  /\ batch' = journal
  /\ UNCHANGED <<mode, lost, seq, peer, req, orphan, active, success, journal, pending, loop, net, acked, alone>>

SendNext ==
  /\ batch # <<>> /\ active = {}
  /\ Send(Head(batch))
  /\ UNCHANGED <<mode, lost, seq, peer, orphan, journal, pending, loop, batch, net, acked>>

(* list.remove takes the first of equal elements out.                      *)
FirstIndex(s, o) ==
  CHOOSE k \in 1 .. Len(s) : s[k] = o /\ \A j \in 1 .. k - 1 : s[j] # o

Sent(o) ==
  /\ mode = "ASYNC"
  /\ Returns(o)
  /\ batch' = Tail(batch)
  /\ IF Succeeds(o) /\ o \in Range(journal)
     THEN /\ journal' = RemoveAt(journal, FirstIndex(journal, o))
          /\ pending' = pending - 1
     ELSE UNCHANGED <<journal, pending>>
  /\ UNCHANGED <<mode, lost, seq, peer, req, orphan, loop, net, acked>>

(* What is under way is given up; a request already sent may still arrive. *)
Abandon ==
  /\ late' = late \cup {x \in Ops \X Peers : req[x[1]][x[2]] = "sent"}
  /\ req' = [o \in Ops |-> Quiet] /\ orphan' = {}
  /\ active' = {} /\ success' = {} /\ batch' = <<>>

(* stop_async_replication cancels the loop at its await.                   *)
StopAsync ==
  /\ Rewire /\ loop
  /\ loop' = FALSE
  /\ Abandon
  /\ UNCHANGED <<mode, lost, seq, peer, journal, pending, received, acked, alone>>

StartAsync ==
  /\ mode = "ASYNC" /\ ~loop
  /\ loop' = TRUE
  /\ UNCHANGED <<mode, lost, seq, peer, req, orphan, active, success, journal, pending, batch, net, acked, alone>>

(* The process ends and starts again with the peers of its settings.  The  *)
(* journal was in memory.  (The numbers start again too; the model goes on *)
(* counting, so that a number still names one operation.)                  *)
Crash ==
  /\ Volatile
  /\ peer' = [p \in Peers |-> "SYNCING"]
  /\ Abandon
  /\ journal' = <<>> /\ pending' = 0 /\ loop' = (mode = "ASYNC")
  /\ lost' = lost \cup Range(journal)
  /\ UNCHANGED <<mode, seq, received, acked, alone>>

-----------------------------------------------------------------------------
Engine == \/ CopyJournal \/ SendNext
          \/ \E o \in Ops : \/ Reply(o) \/ Sent(o)
                            \/ \E p \in Peers : \/ AnsweredOk(o, p) \/ AnsweredError(o, p)
                                                \/ Raised(o, p)

Next ==
  \/ Queue \/ Replicate \/ Engine
  \/ StartAsync \/ StopAsync \/ Crash
  \/ \E p \in Peers : AddPeer(p) \/ RemovePeer(p)
  \/ \E o \in Ops, p \in Peers : Arrive(o, p) \/ Refuse(o, p) \/ ArriveLate(o, p)

Spec == Init /\ [][Next]_vars

(* The loop goes on and each request ends, and the network is as good as   *)
(* can be asked for: a peer that is sent the same operation again and      *)
(* again gets it and has its answer, whichever it is, heard some time.     *)
FairSpec ==
  /\ Spec /\ WF_vars(Engine)
  /\ \A o \in Ops, p \in Peers :
       /\ SF_vars(Arrive(o, p) \/ Refuse(o, p))
       /\ SF_vars(AnsweredOk(o, p) \/ AnsweredError(o, p))

-----------------------------------------------------------------------------
(* An operation whose caller was told True was taken by a peer, or is in   *)
(* the journal, whatever was lost, refused, timed out or arrived late,     *)
(* unless there was no peer to replicate to or a crash took the journal.   *)
AckedKept ==
  \A o \in acked : \/ o \in Range(journal) \cup alone \cup lost
                   \/ \E p \in Peers : o \in received[p]

(* The journal keeps the operations in the order of their numbers, the     *)
(* loop's copy is in step with it, and operations_pending is its length.   *)
JournalSound ==
  /\ TypeOK
  /\ pending = Len(journal)
  /\ \A i, j \in DOMAIN journal : i < j => journal[i] < journal[j]
  /\ Range(batch) \subseteq Range(journal)
  /\ mode = "ASYNC" => \A o \in active : batch # <<>> /\ o = Head(batch)

(* "Asynchronous replication (ack after primary, replicate in             *)
(* background)": what was acknowledged and queued is taken by a peer some  *)
(* time.                                                                   *)
ReplicatedInBackground ==
  \A o \in Ops : o \in Range(journal) ~> \E p \in Peers : o \in received[p]
=============================================================================
