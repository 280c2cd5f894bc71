-------------------------- MODULE ReplicationProofs -------------------------
(***************************************************************************)
(* The replication engine, for any peers and any number of operations, in  *)
(* both modes, with lost, late and refused requests, peers that come and   *)
(* go, a loop that is stopped and started, and crashes: nothing that was   *)
(* acknowledged is forgotten, and journal, copy and counter stay in step.  *)
(***************************************************************************)
EXTENDS Replication, SequenceTheorems, TLAPS

Increasing(s) == \A i, j \in DOMAIN s : i < j => s[i] < s[j]

(* A request under way belongs to an operation inside _sync_replicate.     *)
Requests == \A o \in Ops, p \in Peers : req[o][p] # "none" => o \in active

(* Operation o was taken by a peer.                                        *)
Taken(o) == \E p \in Peers : o \in received[p]

(* Why an operation may be acknowledged: an answer of 200 comes from a     *)
(* peer that has the operation, and so does every success.                 *)
Kept ==
  /\ \A o \in Ops, p \in Peers : req[o][p] = "taken" => o \in received[p]
  /\ \A o \in success : o \in alone \/ Taken(o)
  /\ AckedKept

(* What the loop knows: the copy is an ordered part of the journal, and    *)
(* the operation it is waiting for is the first of the copy.               *)
Journal ==
  /\ pending = Len(journal)
  /\ Increasing(journal) /\ Increasing(batch)
  /\ \A i \in DOMAIN journal : journal[i] <= seq
  /\ Range(batch) \subseteq Range(journal)
  /\ mode = "ASYNC" => \A o \in active : batch # <<>> /\ o = Head(batch)

IInv == TypeOK /\ Requests /\ Kept /\ Journal

-----------------------------------------------------------------------------
(* list.remove: the elements after the one removed move up.                *)
LEMMA Removal ==
  ASSUME NEW s \in Seq(Ops), NEW k \in 1 .. Len(s)
  PROVE  /\ RemoveAt(s, k) \in Seq(Ops)
         /\ Len(RemoveAt(s, k)) = Len(s) - 1
         /\ \A i \in 1 .. Len(s) - 1 :
              RemoveAt(s, k)[i] = IF i < k THEN s[i] ELSE s[i + 1]
<1> DEFINE a == SubSeq(s, 1, k - 1)
           b == SubSeq(s, k + 1, Len(s))
<1>1. Len(s) \in Nat /\ k \in Nat /\ 1 <= k /\ k <= Len(s)
  OBVIOUS
<1>2. a \in Seq(Ops) /\ Len(a) = k - 1 /\ \A i \in 1 .. k - 1 : a[i] = s[i]
  BY <1>1
<1>3. b \in Seq(Ops) /\ Len(b) = Len(s) - k /\ \A i \in 1 .. Len(s) - k : b[i] = s[k + i]
  BY <1>1
<1> HIDE DEF a, b
<1>4. /\ a \o b \in Seq(Ops) /\ Len(a \o b) = Len(s) - 1
      /\ \A i \in 1 .. Len(s) - 1 : (a \o b)[i] = IF i <= k - 1 THEN a[i] ELSE b[i - (k - 1)]
  <2>1. Len(a) + Len(b) = Len(s) - 1
    BY <1>1, <1>2, <1>3
  <2>2. /\ a \o b \in Seq(Ops) /\ Len(a \o b) = Len(a) + Len(b)
        /\ \A i \in 1 .. Len(a) + Len(b) :
             (a \o b)[i] = IF i <= Len(a) THEN a[i] ELSE b[i - Len(a)]
    BY <1>2, <1>3, ConcatProperties, ZenonT(60)
  <2>3. Len(a) = k - 1
    BY <1>2, ZenonT(60)
  <2> QED BY <2>1, <2>2, <2>3, ZenonT(60)
<1>5. ASSUME NEW i \in 1 .. Len(s) - 1
      PROVE  (a \o b)[i] = IF i < k THEN s[i] ELSE s[i + 1]
  <2>1. CASE i < k
    <3>1. i <= k - 1 /\ i \in 1 .. k - 1
      BY <1>1, <2>1
    <3> QED BY <1>2, <1>4, <2>1, <3>1, ZenonT(60)
  <2>2. CASE ~(i < k)
    <3>1. ~(i <= k - 1) /\ i - (k - 1) \in 1 .. Len(s) - k /\ k + (i - (k - 1)) = i + 1
      BY <1>1, <2>2
    <3> QED BY <1>3, <1>4, <2>2, <3>1, ZenonT(60)
  <2> QED BY <2>1, <2>2, ZenonT(60)
<1> QED BY <1>4, <1>5, ZenonT(60) DEF RemoveAt, a, b

(* The journal and its copy are sequences of numbers.                      *)
LEMMA SeqElements ==
  ASSUME NEW s \in Seq(Ops)
  PROVE  /\ DOMAIN s = 1 .. Len(s) /\ Len(s) \in Nat
         /\ \A i \in 1 .. Len(s) : s[i] \in Nat
<1>1. DOMAIN s = 1 .. Len(s) /\ Len(s) \in Nat /\ \A i \in 1 .. Len(s) : s[i] \in Ops
  OBVIOUS
<1>2. \A o \in Ops : o \in Nat
  BY ReplicationAssumption DEF Ops
<1> QED BY <1>1, <1>2, ZenonT(60)

(* Removing one element of an ordered sequence keeps the others, in order. *)
LEMMA RemovalKeeps ==
  ASSUME NEW s \in Seq(Ops), NEW k \in 1 .. Len(s), Increasing(s)
  PROVE  /\ Increasing(RemoveAt(s, k))
         /\ Range(RemoveAt(s, k)) \subseteq Range(s)
         /\ Range(s) \ {s[k]} \subseteq Range(RemoveAt(s, k))
<1> DEFINE r == RemoveAt(s, k)
<1>1. /\ r \in Seq(Ops) /\ Len(r) = Len(s) - 1
      /\ \A i \in 1 .. Len(s) - 1 : r[i] = IF i < k THEN s[i] ELSE s[i + 1]
  BY Removal, ZenonT(60)
<1> HIDE DEF r
<1>2. DOMAIN r = 1 .. Len(s) - 1 /\ DOMAIN s = 1 .. Len(s) /\ Len(s) \in Nat
  BY <1>1, SeqElements, ZenonT(60)
<1>3. \A i \in 1 .. Len(s) : s[i] \in Nat
  BY SeqElements, ZenonT(60)
<1>4. Increasing(r)
  <2> SUFFICES ASSUME NEW i \in 1 .. Len(s) - 1, NEW j \in 1 .. Len(s) - 1, i < j
               PROVE  r[i] < r[j]
    BY <1>2, ZenonT(60) DEF Increasing
  <2>1. i \in 1 .. Len(s) /\ j \in 1 .. Len(s) /\ i + 1 \in 1 .. Len(s) /\ j + 1 \in 1 .. Len(s)
    BY <1>2
  <2>2. \A a, b \in 1 .. Len(s) : a < b => s[a] < s[b]
    BY <1>2, ZenonT(60) DEF Increasing
  <2> QED BY <1>1, <1>2, <2>1, <2>2
<1>5. Range(r) \subseteq Range(s)
  <2> SUFFICES ASSUME NEW i \in 1 .. Len(s) - 1 PROVE r[i] \in Range(s)
    BY <1>2, ZenonT(60) DEF Range
  <2>1. i \in DOMAIN s /\ i + 1 \in DOMAIN s
    BY <1>2
  <2>2. r[i] = s[i] \/ r[i] = s[i + 1]
    BY <1>1, ZenonT(60)
  <2> QED BY <2>1, <2>2, ZenonT(60) DEF Range
<1>6. Range(s) \ {s[k]} \subseteq Range(r)
  <2> SUFFICES ASSUME NEW i \in 1 .. Len(s), i # k PROVE s[i] \in Range(r)
    BY <1>2, ZenonT(60) DEF Range
  <2>1. CASE i < k
    <3>1. i \in 1 .. Len(s) - 1 /\ r[i] = s[i]
      BY <1>1, <1>2, <2>1
    <3> QED BY <1>2, <3>1, ZenonT(60) DEF Range
  <2>2. CASE i > k
    <3>1. i - 1 \in 1 .. Len(s) - 1 /\ ~(i - 1 < k) /\ (i - 1) + 1 = i
      BY <1>2, <2>2
    <3>2. r[i - 1] = s[i]
      BY <1>1, <3>1, ZenonT(60)
    <3> QED BY <1>2, <3>1, <3>2, ZenonT(60) DEF Range
  <2> QED BY <1>2, <2>1, <2>2
<1> QED BY <1>4, <1>5, <1>6, ZenonT(60) DEF r

(* The copy without its first operation.                                   *)
LEMMA TailKeeps ==
  ASSUME NEW s \in Seq(Ops), s # <<>>, Increasing(s)
  PROVE  /\ Tail(s) \in Seq(Ops) /\ Increasing(Tail(s))
         /\ Head(s) \in Range(s)
         /\ Range(Tail(s)) \subseteq Range(s) \ {Head(s)}
<1>1. /\ Tail(s) \in Seq(Ops) /\ Len(s) \in Nat \ {0} /\ Len(Tail(s)) = Len(s) - 1
      /\ Head(s) = s[1]
      /\ \A i \in 1 .. Len(s) - 1 : Tail(s)[i] = s[i + 1]
  OBVIOUS
<1>2. DOMAIN Tail(s) = 1 .. Len(s) - 1 /\ DOMAIN s = 1 .. Len(s)
  BY <1>1, SeqElements, ZenonT(60)
<1>3. \A i \in 1 .. Len(s) : s[i] \in Nat
  BY SeqElements, ZenonT(60)
<1>4. \A a, b \in 1 .. Len(s) : a < b => s[a] < s[b]
  BY <1>2, ZenonT(60) DEF Increasing
<1>5. Increasing(Tail(s))
  <2> SUFFICES ASSUME NEW i \in 1 .. Len(s) - 1, NEW j \in 1 .. Len(s) - 1, i < j
               PROVE  Tail(s)[i] < Tail(s)[j]
    BY <1>2, ZenonT(60) DEF Increasing
  <2>1. i + 1 \in 1 .. Len(s) /\ j + 1 \in 1 .. Len(s) /\ i + 1 < j + 1
    BY <1>1
  <2> QED BY <1>1, <1>4, <2>1, ZenonT(60)
<1>6. Head(s) \in Range(s)
  BY <1>1, <1>2 DEF Range
<1>7. ASSUME NEW i \in 1 .. Len(s) - 1 PROVE Tail(s)[i] \in Range(s) \ {Head(s)}
  <2>1. i + 1 \in 1 .. Len(s) /\ 1 \in 1 .. Len(s) /\ 1 < i + 1
    BY <1>1
  <2>2. s[1] < s[i + 1] /\ s[1] \in Nat /\ s[i + 1] \in Nat
    BY <1>3, <1>4, <2>1, ZenonT(60)
  <2>3. s[i + 1] # s[1]
    BY <2>2
  <2> QED BY <1>1, <1>2, <2>1, <2>3, ZenonT(60) DEF Range
<1> QED BY <1>1, <1>2, <1>5, <1>6, <1>7, ZenonT(60) DEF Range

-----------------------------------------------------------------------------
(* Why o may be acknowledged.                                              *)
Safe(o) == o \in Range(journal) \cup alone \cup lost \/ Taken(o)

(* Peers forget nothing, so what was acknowledged stays safe as long as    *)
(* the journal gives up only what is safe without it.                      *)
LEMMA AckedStays ==
  ASSUME AckedKept,
         \A o \in acked' \ acked : Safe(o)',
         \A o \in Range(journal) : Safe(o)',
         alone \subseteq alone', lost \subseteq lost',
         \A p \in Peers : received[p] \subseteq received'[p]
  PROVE  AckedKept'
BY ZenonT(60) DEF AckedKept, Safe, Taken

(* A new engine satisfies the invariant.                                   *)
LEMMA InitInv == Init => IInv
<1> SUFFICES ASSUME Init PROVE IInv
  BY ZenonT(60)
<1>1. TypeOK
  BY ReplicationAssumption DEF Init, TypeOK, Quiet
<1>2. Requests /\ Kept
  BY ZenonT(60) DEF Init, Requests, Kept, AckedKept, Quiet
<1>3. Journal
  BY DEF Init, Journal, Increasing, Range
<1> QED BY <1>1, <1>2, <1>3, ZenonT(60) DEF IInv

(* Steps that leave the journal, its copy and the loop's operation alone.  *)
JournalVars == <<mode, seq, journal, pending, batch, active>>
(* They keep what the loop knows.                                          *)
LEMMA JournalStays == Journal /\ UNCHANGED JournalVars => Journal'
BY ZenonT(60) DEF Journal, JournalVars, Increasing, Range

(* And steps that leave requests, peers and acknowledgements alone.        *)
KeptVars == <<req, received, success, alone, acked, journal, lost>>
(* They keep the reasons for acknowledging.                                *)
LEMMA KeptStays == Kept /\ UNCHANGED KeptVars => Kept'
BY ZenonT(60) DEF Kept, KeptVars, AckedKept, Taken, Range

(* add_peer and remove_peer keep the invariant.                            *)
LEMMA PeersInv ==
  ASSUME IInv, NEW p \in Peers, AddPeer(p) \/ RemovePeer(p)
  PROVE  IInv'
<1> USE DEF AddPeer, RemovePeer, net
<1>1. TypeOK'
  BY ZenonT(60) DEF IInv, TypeOK, Orphaned
<1>2. Requests'
  BY ZenonT(60) DEF IInv, Requests
<1>3. Kept'
  BY KeptStays, ZenonT(60) DEF IInv, KeptVars
<1>4. Journal'
  BY JournalStays, ZenonT(60) DEF IInv, JournalVars
<1> QED BY <1>1, <1>2, <1>3, <1>4, ZenonT(60) DEF IInv

(* _queue_for_async appends the newest operation to the journal.           *)
LEMMA QueueInv ==
  ASSUME IInv, Queue
  PROVE  IInv'
<1> USE DEF Queue, net
<1>1. /\ journal \in Seq(Ops) /\ seq \in Nat /\ seq' = seq + 1 /\ seq' \in Ops
      /\ journal' = Append(journal, seq')
  BY ReplicationAssumption DEF IInv, TypeOK, Ops
<1>2. /\ journal' \in Seq(Ops) /\ Len(journal') = Len(journal) + 1
      /\ \A i \in 1 .. Len(journal) : journal'[i] = journal[i]
      /\ journal'[Len(journal) + 1] = seq'
      /\ Len(journal) \in Nat
      /\ DOMAIN journal = 1 .. Len(journal) /\ DOMAIN journal' = 1 .. Len(journal) + 1
  BY <1>1
<1>3. Range(journal) \subseteq Range(journal') /\ seq' \in Range(journal')
  BY <1>2 DEF Range
<1>4. TypeOK'
  <2>1. seq' \in 0 .. MaxOps
    BY <1>1 DEF Ops
  <2>2. pending' \in Nat /\ acked' \subseteq Ops
    BY <1>1 DEF IInv, TypeOK
  <2> QED BY <1>2, <2>1, <2>2, ZenonT(60) DEF IInv, TypeOK
<1>5. Requests'
  BY ZenonT(60) DEF IInv, Requests
<1>6. Kept'
  <2>1. AckedKept'
    BY <1>3, AckedStays, ZenonT(60) DEF IInv, Kept, Safe
  <2> QED BY <2>1, ZenonT(60) DEF IInv, Kept, Taken
<1>7. Journal'
  <2>1. \A i \in 1 .. Len(journal) : journal[i] <= seq /\ journal[i] \in Nat
    BY <1>1, <1>2, SeqElements, ZenonT(60) DEF IInv, Journal
  <2>2. Increasing(journal')
    <3> SUFFICES ASSUME NEW i \in 1 .. Len(journal) + 1, NEW j \in 1 .. Len(journal) + 1, i < j
                 PROVE  journal'[i] < journal'[j]
      BY <1>2, ZenonT(60) DEF Increasing
    <3>1. i \in 1 .. Len(journal)
      BY <1>2
    <3>2. CASE j \in 1 .. Len(journal)
      BY <1>2, <3>1, <3>2, ZenonT(60) DEF IInv, Journal, Increasing
    <3>3. CASE j = Len(journal) + 1
      BY <1>1, <1>2, <2>1, <3>1, <3>3, SMT, SMTT(60)
    <3> QED BY <1>2, <3>2, <3>3
  <2>3. \A i \in DOMAIN journal' : journal'[i] <= seq'
    <3> SUFFICES ASSUME NEW i \in 1 .. Len(journal) + 1 PROVE journal'[i] <= seq'
      BY <1>2, ZenonT(60)
    <3>1. CASE i \in 1 .. Len(journal)
      BY <1>1, <1>2, <2>1, <3>1
    <3>2. CASE i = Len(journal) + 1
      BY <1>1, <1>2, <3>2
    <3> QED BY <1>2, <3>1, <3>2
  <2>4. pending' = Len(journal')
    BY <1>2, ZenonT(60) DEF IInv, Journal
  <2>5. Increasing(batch)' /\ Range(batch)' \subseteq Range(journal)'
    BY <1>3, ZenonT(60) DEF IInv, Journal, Increasing, Range
  <2> QED BY <2>2, <2>3, <2>4, <2>5, ZenonT(60) DEF IInv, Journal, Increasing
<1> QED BY <1>4, <1>5, <1>6, <1>7, ZenonT(60) DEF IInv

(* The start of _sync_replicate.                                           *)
LEMMA SendKeeps ==
  ASSUME IInv, NEW o \in Ops, Send(o),
         UNCHANGED <<received, acked, journal, lost>>
  PROVE  /\ Requests' /\ Kept'
         /\ req' \in [Ops -> [Peers -> {"none", "sent", "taken", "refused"}]]
         /\ active' \subseteq Ops /\ success' \subseteq active' /\ alone' \subseteq Ops
<1> USE DEF Send
<1>1. \A q \in Ops, p \in Peers :
        req'[q][p] = IF q = o THEN (IF p \in Linked THEN "sent" ELSE "none") ELSE req[q][p]
  BY ZenonT(60) DEF IInv, TypeOK
<1>2. /\ req' \in [Ops -> [Peers -> {"none", "sent", "taken", "refused"}]]
      /\ active' \subseteq Ops /\ success' \subseteq active' /\ alone' \subseteq Ops
  BY ZenonT(60) DEF IInv, TypeOK
<1>3. Requests'
  BY <1>1, ZenonT(60) DEF IInv, Requests
<1>4. Kept'
  <2>1. AckedKept'
    BY AckedStays, ZenonT(60) DEF IInv, Kept, Safe, Range
  <2>2. \A q \in success' : q \in alone' \/ Taken(q)'
    BY ZenonT(60) DEF IInv, Kept, Taken
  <2> QED BY <1>1, <2>1, <2>2 DEF IInv, Kept
<1> QED BY <1>2, <1>3, <1>4, ZenonT(60)

(* replicate_write and replicate_delete in SYNC mode start requests.       *)
LEMMA ReplicateInv ==
  ASSUME IInv, Replicate
  PROVE  IInv'
<1> USE DEF Replicate, net
<1>1. seq \in Nat /\ seq' = seq + 1 /\ seq' \in Ops /\ seq' \in 0 .. MaxOps
  BY ReplicationAssumption DEF IInv, TypeOK, Ops
<1>2. Requests' /\ Kept'
  BY <1>1, SendKeeps, ZenonT(60)
<1>3. TypeOK'
  BY <1>1, SendKeeps, ZenonT(60) DEF IInv, TypeOK
<1>4. Journal'
  <2>1. \A i \in DOMAIN journal : journal[i] <= seq'
    <3>1. journal \in Seq(Ops) /\ \A i \in DOMAIN journal : journal[i] <= seq
      BY ZenonT(60) DEF IInv, Journal, TypeOK
    <3>2. \A i \in DOMAIN journal : journal[i] \in Nat
      BY <3>1, SeqElements, ZenonT(60)
    <3> QED BY <1>1, <3>1, <3>2
  <2> QED BY <2>1, ZenonT(60) DEF IInv, Journal, Increasing, Range
<1> QED BY <1>2, <1>3, <1>4, ZenonT(60) DEF IInv

-----------------------------------------------------------------------------
(* A peer takes an operation from a request, also from a late one.         *)
LEMMA ArriveInv ==
  ASSUME IInv, NEW o \in Ops, NEW p \in Peers, Arrive(o, p) \/ ArriveLate(o, p)
  PROVE  IInv'
<1> USE DEF Arrive, ArriveLate, net
<1>1. /\ req' \in [Ops -> [Peers -> {"none", "sent", "taken", "refused"}]]
      /\ \A q \in Ops, r \in Peers :
           req'[q][r] = req[q][r] \/ (q = o /\ r = p /\ req'[q][r] = "taken" /\ req[q][r] = "sent")
  BY DEF IInv, TypeOK
<1>2. /\ received' \in [Peers -> SUBSET Ops] /\ o \in received'[p]
      /\ \A r \in Peers : received[r] \subseteq received'[r]
  BY SMT, SMTT(60) DEF IInv, TypeOK
<1>3. TypeOK'
  BY <1>1, <1>2, ZenonT(60) DEF IInv, TypeOK
<1>4. Requests'
  BY <1>1, ZenonT(60) DEF IInv, Requests
<1>5. Kept'
  <2>1. AckedKept'
    BY <1>2, AckedStays, ZenonT(60) DEF IInv, Kept, Safe, Range
  <2>2. \A q \in success' : q \in alone' \/ Taken(q)'
    BY <1>2, ZenonT(60) DEF IInv, Kept, Taken
  <2>3. \A q \in Ops, r \in Peers : req'[q][r] = "taken" => q \in received'[r]
    BY <1>1, <1>2, ZenonT(60) DEF IInv, Kept
  <2> QED BY <2>1, <2>2, <2>3, ZenonT(60) DEF Kept
<1>6. Journal'
  BY JournalStays, ZenonT(60) DEF IInv, JournalVars
<1> QED BY <1>3, <1>4, <1>5, <1>6, ZenonT(60) DEF IInv

(* A peer that refuses takes nothing.                                      *)
LEMMA RefuseInv ==
  ASSUME IInv, NEW o \in Ops, NEW p \in Peers, Refuse(o, p)
  PROVE  IInv'
<1> USE DEF Refuse, net
<1>1. /\ req' \in [Ops -> [Peers -> {"none", "sent", "taken", "refused"}]]
      /\ \A q \in Ops, r \in Peers :
           req'[q][r] = req[q][r] \/ (q = o /\ r = p /\ req'[q][r] = "refused" /\ req[q][r] = "sent")
  BY ZenonT(60) DEF IInv, TypeOK
<1>2. TypeOK'
  BY <1>1, ZenonT(60) DEF IInv, TypeOK
<1>3. Requests'
  BY <1>1, ZenonT(60) DEF IInv, Requests
<1>4. Kept'
  BY <1>1 DEF IInv, Kept, Taken, AckedKept, Range
<1>5. Journal'
  BY JournalStays, ZenonT(60) DEF IInv, JournalVars
<1> QED BY <1>2, <1>3, <1>4, <1>5, ZenonT(60) DEF IInv

(* The end of _send_to_peer: a success only after the peer has taken the   *)
(* operation.                                                              *)
LEMMA EndsInv ==
  ASSUME IInv, NEW o \in Ops, NEW p \in Peers,
         AnsweredOk(o, p) \/ AnsweredError(o, p) \/ Raised(o, p)
  PROVE  IInv'
<1> USE DEF AnsweredOk, AnsweredError, Raised, RequestEnds, net
<1>1. /\ req' \in [Ops -> [Peers -> {"none", "sent", "taken", "refused"}]]
      /\ \A q \in Ops, r \in Peers : req'[q][r] = req[q][r] \/ req'[q][r] = "none"
  <2>1. req' = [req EXCEPT ![o][p] = "none"]
    BY ZenonT(60)
  <2>2. req \in [Ops -> [Peers -> {"none", "sent", "taken", "refused"}]]
    BY ZenonT(60) DEF IInv, TypeOK
  <2> HIDE DEF AnsweredOk, AnsweredError, Raised
  <2> QED BY <2>1, <2>2, ZenonT(60)
<1>2. o \in active
  BY ZenonT(60) DEF IInv, Requests
<1>3. success' = success \/ (success' = success \cup {o} /\ o \in received[p])
  BY ZenonT(60) DEF IInv, Kept
<1>4. TypeOK'
  <2>1. orphan' \subseteq Ops \X Peers /\ success' \subseteq active'
    BY <1>2, <1>3, ZenonT(60) DEF IInv, TypeOK
  <2>2. peer' \in [Peers -> {"absent", "SYNCING", "HEALTHY", "DEGRADED"}]
    BY ZenonT(60) DEF IInv, TypeOK, LinkState
  <2>3. late' \subseteq Ops \X Peers
    <3>1. <<o, p>> \in Ops \X Peers
      BY ZenonT(60)
    <3>2. late' = late \/ late' = late \cup {<<o, p>>}
      BY ZenonT(60)
    <3> QED BY <3>1, <3>2, ZenonT(60) DEF IInv, TypeOK
  <2> QED BY <1>1, <2>1, <2>2, <2>3, ZenonT(60) DEF IInv, TypeOK
<1>5. Requests'
  BY <1>1, ZenonT(60) DEF IInv, Requests
<1>6. Kept'
  <2>1. AckedKept'
    BY ZenonT(60) DEF IInv, Kept, AckedKept, Range
  <2>2. \A q \in success' : q \in alone' \/ Taken(q)'
    BY <1>3 DEF IInv, Kept, Taken
  <2> QED BY <1>1, <2>1, <2>2, ZenonT(60) DEF IInv, Kept
<1>7. Journal'
  BY JournalStays, ZenonT(60) DEF IInv, JournalVars
<1> QED BY <1>4, <1>5, <1>6, <1>7, ZenonT(60) DEF IInv

(* The end of _sync_replicate, whoever called it: what has succeeded is    *)
(* with a peer, or there was no peer.                                      *)
LEMMA ReturnsKeeps ==
  ASSUME IInv, NEW o \in Ops, Returns(o), UNCHANGED <<req, received>>
  PROVE  /\ Requests'
         /\ active' \subseteq Ops /\ success' \subseteq active' /\ alone' \subseteq Ops
         /\ alone \subseteq alone'
         /\ Succeeds(o) => o \in alone' \/ Taken(o)'
         /\ \A q \in Ops, p \in Peers : req'[q][p] = "taken" => q \in received'[p]
         /\ \A q \in success' : q \in alone' \/ Taken(q)'
<1> USE DEF Returns
<1>1. Requests'
  BY ZenonT(60) DEF IInv, Requests, Quiet
<1>2. /\ active' \subseteq Ops /\ success' \subseteq active' /\ alone' \subseteq Ops
      /\ alone \subseteq alone'
  BY ZenonT(60) DEF IInv, TypeOK
<1>3. Succeeds(o) => o \in alone' \/ Taken(o)'
  BY ZenonT(60) DEF IInv, Kept, Succeeds, Taken
<1>4. \A q \in success' : q \in alone' \/ Taken(q)'
  BY <1>2, ZenonT(60) DEF IInv, Kept, Taken
<1> QED BY <1>1, <1>2, <1>3, <1>4, ZenonT(60) DEF IInv, Kept

(* The caller in SYNC mode gets True only after a success.                 *)
LEMMA ReplyInv ==
  ASSUME IInv, NEW o \in Ops, Reply(o)
  PROVE  IInv'
<1> USE DEF Reply, net
<1>1. TypeOK'
  BY ReturnsKeeps, ZenonT(60) DEF IInv, TypeOK
<1>2. Kept'
  <2>1. \A q \in acked' \ acked : Safe(q)'
    BY ReturnsKeeps, ZenonT(60) DEF Safe
  <2>2. AckedKept'
    BY <2>1, ReturnsKeeps, AckedStays, ZenonT(60) DEF IInv, Kept, Safe, Range
  <2> QED BY <2>2, ReturnsKeeps, ZenonT(60) DEF Kept
<1>3. Journal'
  BY ZenonT(60) DEF IInv, Journal, Increasing, Range
<1> QED BY <1>1, <1>2, <1>3, ReturnsKeeps, ZenonT(60) DEF IInv

-----------------------------------------------------------------------------
(* The loop's copy is the journal.                                         *)
LEMMA CopyInv ==
  ASSUME IInv, CopyJournal
  PROVE  IInv'
<1> USE DEF CopyJournal, net
<1>1. TypeOK'
  BY ZenonT(60) DEF IInv, TypeOK
<1>2. Requests' /\ Kept'
  BY KeptStays, ZenonT(60) DEF IInv, Requests, KeptVars
<1>3. Journal'
  <2>1. mode = "ASYNC" => active = {}
    BY ZenonT(60) DEF IInv, Journal
  <2> QED BY <2>1, ZenonT(60) DEF IInv, Journal, Increasing, Range
<1> QED BY <1>1, <1>2, <1>3, ZenonT(60) DEF IInv

(* The loop waits for the first operation of its copy.                     *)
LEMMA SendNextInv ==
  ASSUME IInv, SendNext
  PROVE  IInv'
<1> USE DEF SendNext, net
<1>1. Head(batch) \in Ops
  BY DEF IInv, TypeOK
<1>2. Requests' /\ Kept'
  BY <1>1, SendKeeps, ZenonT(60)
<1>3. TypeOK'
  BY <1>1, SendKeeps, ZenonT(60) DEF IInv, TypeOK
<1>4. Journal'
  <2>1. active' = {Head(batch)}
    BY ZenonT(60) DEF Send
  <2> QED BY <2>1, ZenonT(60) DEF IInv, Journal, Increasing, Range
<1> QED BY <1>2, <1>3, <1>4, ZenonT(60) DEF IInv

(* list.remove finds an operation that is in the journal.                  *)
LEMMA FirstIndexIn ==
  ASSUME NEW s \in Seq(Ops), NEW o \in Range(s), Increasing(s)
  PROVE  FirstIndex(s, o) \in 1 .. Len(s) /\ s[FirstIndex(s, o)] = o
<1>1. /\ DOMAIN s = 1 .. Len(s) /\ Len(s) \in Nat
      /\ \A i \in 1 .. Len(s) : s[i] \in Nat
  BY SeqElements, ZenonT(60)
<1>2. PICK k \in 1 .. Len(s) : s[k] = o
  BY <1>1, ZenonT(60) DEF Range
<1>3. \A j \in 1 .. k - 1 : s[j] # o
  <2> SUFFICES ASSUME NEW j \in 1 .. k - 1 PROVE s[j] # s[k]
    BY <1>2, ZenonT(60)
  <2>1. j \in 1 .. Len(s) /\ j < k
    BY <1>1
  <2>2. s[j] < s[k] /\ s[j] \in Nat /\ s[k] \in Nat
    BY <1>1, <2>1, ZenonT(60) DEF Increasing
  <2> QED BY <2>2
<1> QED BY <1>2, <1>3, ZenonT(60) DEF FirstIndex

(* An operation leaves the journal only when it has succeeded.             *)
LEMMA SentInv ==
  ASSUME IInv, NEW o \in Ops, Sent(o)
  PROVE  IInv'
<1> USE DEF Sent, net
<1>1. /\ journal \in Seq(Ops) /\ batch \in Seq(Ops) /\ Increasing(journal) /\ Increasing(batch)
      /\ pending = Len(journal) /\ Len(journal) \in Nat
      /\ batch # <<>> /\ o = Head(batch) /\ active = {o}
  BY ZenonT(60) DEF IInv, TypeOK, Journal, Returns
<1>2. /\ batch' \in Seq(Ops) /\ Increasing(batch') /\ o \in Range(journal)
      /\ Range(batch') \subseteq Range(journal) \ {o}
  BY <1>1, TailKeeps, ZenonT(60) DEF IInv, Journal
<1>3. /\ journal' \in Seq(Ops) /\ Increasing(journal') /\ pending' = Len(journal')
      /\ Range(journal') \subseteq Range(journal)
      /\ Range(journal) \ {o} \subseteq Range(journal')
      /\ ~Succeeds(o) => journal' = journal
  <2>1. CASE Succeeds(o)
    <3> DEFINE k == FirstIndex(journal, o)
    <3>1. k \in 1 .. Len(journal) /\ journal[k] = o
      BY <1>1, <1>2, FirstIndexIn, ZenonT(60)
    <3>2. journal' = RemoveAt(journal, k) /\ pending' = pending - 1
      BY <1>2, <2>1, ZenonT(60)
    <3> HIDE DEF k
    <3> QED BY <1>1, <2>1, <3>1, <3>2, Removal, RemovalKeeps, ZenonT(60)
  <2>2. CASE ~Succeeds(o)
    BY <1>1, <2>2, ZenonT(60)
  <2> QED BY <2>1, <2>2, ZenonT(60)
<1>4. TypeOK'
  <2>1. pending' \in Nat
    BY <1>3
  <2> QED BY <1>2, <1>3, <2>1, ReturnsKeeps, ZenonT(60) DEF IInv, TypeOK
<1>5. Kept'
  <2>1. \A q \in Range(journal) : Safe(q)'
    BY <1>3, ReturnsKeeps, ZenonT(60) DEF Safe
  <2>2. AckedKept'
    BY <2>1, ReturnsKeeps, AckedStays, ZenonT(60) DEF IInv, Kept
  <2> QED BY <2>2, ReturnsKeeps, ZenonT(60) DEF Kept
<1>6. Journal'
  <2>1. \A i \in DOMAIN journal' : journal'[i] <= seq'
    <3>1. \A x \in Range(journal) : x <= seq
      BY ZenonT(60) DEF IInv, Journal, Range
    <3> QED BY <1>3, <3>1, ZenonT(60) DEF Range
  <2>2. active' = {}
    BY <1>1, ZenonT(60) DEF Returns
  <2>3. Range(batch)' \subseteq Range(journal)'
    BY <1>2, <1>3, ZenonT(60)
  <2> QED BY <1>2, <1>3, <2>1, <2>2, <2>3, ZenonT(60) DEF Journal
<1> QED BY <1>4, <1>5, <1>6, ReturnsKeeps, ZenonT(60) DEF IInv

(* Cancelled or ended at an await: what is under way is given up.          *)
LEMMA AbandonKeeps ==
  ASSUME IInv, Abandon
  PROVE  /\ Requests'
         /\ req' \in [Ops -> [Peers -> {"none", "sent", "taken", "refused"}]]
         /\ \A o \in Ops, p \in Peers : req'[o][p] = "none"
         /\ late' \subseteq Ops \X Peers
         /\ orphan' = {} /\ active' = {} /\ success' = {} /\ batch' = <<>>
BY ZenonT(60) DEF IInv, TypeOK, Abandon, Requests, Quiet

(* start and stop keep the invariant, also in the middle of a copy.        *)
LEMMA LoopInv ==
  ASSUME IInv, StopAsync \/ StartAsync
  PROVE  IInv'
<1>1. CASE StopAsync
  <2> USE DEF StopAsync
  <2>1. TypeOK'
    <3>1. batch' \in Seq(Ops) /\ active' \subseteq Ops /\ orphan' \subseteq Ops \X Peers
      BY <1>1, AbandonKeeps
    <3>2. loop' \in BOOLEAN /\ success' \subseteq active'
      BY <1>1, AbandonKeeps, ZenonT(60)
    <3> QED BY <1>1, <3>1, <3>2, AbandonKeeps, ZenonT(60) DEF IInv, TypeOK
  <2>2. Kept'
    BY <1>1, AbandonKeeps, ZenonT(60) DEF IInv, Kept, AckedKept, Range
  <2>3. Journal'
    BY <1>1, AbandonKeeps DEF IInv, Journal, Increasing, Range
  <2> QED BY <1>1, <2>1, <2>2, <2>3, AbandonKeeps, ZenonT(60) DEF IInv
<1>2. CASE StartAsync
  <2> USE DEF StartAsync, net
  <2>1. TypeOK'
    BY <1>2, ZenonT(60) DEF IInv, TypeOK
  <2>2. Requests' /\ Kept' /\ Journal'
    BY <1>2, KeptStays, JournalStays, ZenonT(60) DEF IInv, Requests, KeptVars, JournalVars
  <2> QED BY <2>1, <2>2, ZenonT(60) DEF IInv
<1> QED BY <1>1, <1>2, ZenonT(60)

(* A crash loses the journal, and says so.                                 *)
LEMMA CrashInv ==
  ASSUME IInv, Crash
  PROVE  IInv'
<1> USE DEF Crash
<1>1. Range(journal) \subseteq Ops
  BY DEF IInv, TypeOK, Range
<1>2. TypeOK'
  <2>1. batch' \in Seq(Ops) /\ active' \subseteq Ops /\ orphan' \subseteq Ops \X Peers
    BY AbandonKeeps
  <2>2. journal' \in Seq(Ops) /\ pending' \in Nat /\ success' \subseteq active'
    BY AbandonKeeps
  <2>3. loop' \in BOOLEAN
    BY ZenonT(60)
  <2>4. peer' \in [Peers -> {"absent", "SYNCING", "HEALTHY", "DEGRADED"}] /\ lost' \subseteq Ops
    BY <1>1, ZenonT(60) DEF IInv, TypeOK
  <2> QED BY <2>1, <2>2, <2>3, <2>4, AbandonKeeps, ZenonT(60) DEF IInv, TypeOK
<1>3. Kept'
  <2>1. AckedKept'
    BY AckedStays, ZenonT(60) DEF IInv, Kept, Safe
  <2> QED BY <2>1, AbandonKeeps, ZenonT(60) DEF Kept
<1>4. Journal'
  BY AbandonKeeps DEF Journal, Increasing, Range
<1> QED BY <1>2, <1>3, <1>4, AbandonKeeps, ZenonT(60) DEF IInv

-----------------------------------------------------------------------------
(* Every step keeps the invariant.                                         *)
LEMMA NextInv == IInv /\ [Next]_vars => IInv'
<1> SUFFICES ASSUME IInv, [Next]_vars PROVE IInv'
  BY ZenonT(60)
<1>1. CASE Queue \/ Replicate
  BY <1>1, QueueInv, ReplicateInv, ZenonT(60)
<1>2. CASE Engine
  BY <1>2, CopyInv, SendNextInv, ReplyInv, SentInv, EndsInv, ZenonT(60) DEF Engine
<1>3. CASE StartAsync \/ StopAsync \/ Crash
  BY <1>3, LoopInv, CrashInv, ZenonT(60)
<1>4. CASE \E p \in Peers : AddPeer(p) \/ RemovePeer(p)
  BY <1>4, PeersInv, ZenonT(60)
<1>5. CASE \E o \in Ops, p \in Peers : Arrive(o, p) \/ Refuse(o, p) \/ ArriveLate(o, p)
  BY <1>5, ArriveInv, RefuseInv, ZenonT(60)
<1>6. CASE UNCHANGED vars
  <2>1. TypeOK' /\ Requests'
    BY <1>6, ZenonT(60) DEF vars, IInv, TypeOK, Requests
  <2> QED BY <1>6, <2>1, KeptStays, JournalStays, ZenonT(60) DEF vars, IInv, KeptVars, JournalVars
<1> QED BY <1>1, <1>2, <1>3, <1>4, <1>5, <1>6, ZenonT(60) DEF Next

(* The inductive invariant holds throughout.                               *)
LEMMA EngineSound == Spec => []IInv
BY InitInv, NextInv, PTL DEF Spec

(* What replicate_write and replicate_delete said True to was taken by a   *)
(* peer, is in the journal, was in the journal that a crash lost, or there *)
(* was no peer, for any number of peers and operations.                    *)
THEOREM AckedAlwaysKept == Spec => []AckedKept
<1>1. IInv => AckedKept
  BY SMT, SMTT(60) DEF IInv, Kept
<1> QED BY <1>1, EngineSound, PTL

(* The journal stays in the order of the operations, the loop's copy in    *)
(* step with it, and operations_pending its length.                        *)
THEOREM JournalAlwaysSound == Spec => []JournalSound
<1>1. IInv => JournalSound
  BY DEF IInv, Journal, JournalSound, Increasing
<1> QED BY <1>1, EngineSound, PTL
=============================================================================
