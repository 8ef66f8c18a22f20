--------------------------- MODULE DeliveryProofs ---------------------------
(***************************************************************************)
(* What ObservationDelivery guarantees for every set of clock readings,    *)
(* every record limit and every bound on the sequences and on the network: the   *)
(* types, the Relay's account, the queue, the bytes of a sequence, and the *)
(* refinement of ObservationLedger.                                        *)
(***************************************************************************)
EXTENDS ObservationDelivery, TLAPS

(* The parts of a well-formed queue and of the envelopes in it. *)
LEMMA QueueParts ==
    ASSUME NEW q \in BufferState
    PROVE  /\ q.next \in Nat \ {0}
           /\ q.pending \in Seq(Envelope)
           /\ Len(q.pending) \in Nat
           /\ q.gaps \subseteq Nat
           /\ q.span \in Span
           /\ \A i \in 1..Len(q.pending) : /\ q.pending[i] \in Envelope
                                           /\ q.pending[i].seq \in Nat \ {0}
                                           /\ q.pending[i].gaps \subseteq Nat
                                           /\ q.pending[i].at \in Int
                                           /\ q.pending[i].span \in Span
<1>1. /\ q.pending \in Seq(Envelope) /\ q.next \in Nat \ {0} /\ q.gaps \subseteq Nat
      /\ q.span \in Span
  BY DEF BufferState
<1>2. \A i \in 1..Len(q.pending) : q.pending[i] \in Envelope
  BY <1>1
<1>3. \A e \in Envelope : /\ e.seq \in Nat \ {0} /\ e.gaps \subseteq Nat
                          /\ e.at \in Int /\ e.span \in Span
  BY BufferAssumption DEF Envelope
<1> QED
  BY <1>1, <1>2, <1>3

LEMMA DroppedByType ==
    ASSUME NEW q \in BufferState, NEW k \in 0..Len(q.pending)
    PROVE  DroppedBy(q, k) \subseteq Nat
<1>1. \A i \in 1..k : q.pending[i].gaps \cup {q.pending[i].seq} \subseteq Nat
  BY QueueParts
<1> QED
  BY <1>1 DEF DroppedBy

LEMMA DroppedSpanType ==
    ASSUME NEW q \in BufferState, NEW k \in 0..Len(q.pending)
    PROVE  DroppedSpan(q, k) \in Span
<1>1. CASE k = 0
  BY <1>1, QueueParts DEF DroppedSpan
<1>2. CASE k # 0
  <2>1. 1 \in 1..Len(q.pending) /\ k \in 1..Len(q.pending)
    BY <1>2, QueueParts
  <2>2. LostSince(q) \in Int /\ q.pending[k].at \in Int
    BY <2>1, QueueParts DEF LostSince, Span
  <2> QED
    BY <1>2, <2>2 DEF DroppedSpan, Span
<1> QED
  BY <1>1, <1>2

(* enforce keeps the record of the queue well formed. *)
LEMMA EnforceType ==
    ASSUME NEW q \in BufferState, NEW k \in 0..Len(q.pending)
    PROVE  Enforce(q, k) \in BufferState
<1>1. SubSeq(q.pending, k + 1, Len(q.pending)) \in Seq(Envelope)
  <2>1. \A i \in 1..(Len(q.pending) - k) : q.pending[i + k] \in Envelope
    BY QueueParts
  <2> QED BY <2>1, QueueParts
<1>2. DroppedBy(q, k) \subseteq Nat /\ DroppedSpan(q, k) \in Span
  BY DroppedByType, DroppedSpanType
<1> QED
  BY <1>1, <1>2 DEF Enforce, BufferState

(* So do Enqueue, Peek and Acknowledge. *)
LEMMA EnqueuedType ==
    ASSUME NEW q \in BufferState, NEW t \in Instant
    PROVE  Enqueued(t, q) \in BufferState
<1> DEFINE e == Collected(q.next, t)
<1>1. e \in Envelope
  BY QueueParts DEF Envelope, Collected, Span, NoSpan
<1>2. Append(q.pending, e) \in Seq(Envelope)
  BY <1>1, QueueParts
<1>3. q.next + 1 \in Nat \ {0}
  BY QueueParts
<1> HIDE DEF e
<1>4. [q EXCEPT !.next = q.next + 1, !.pending = Append(q.pending, e)] \in BufferState
  BY <1>2, <1>3 DEF BufferState
<1> QED
  BY <1>4 DEF Enqueued, e

LEMMA AttachedType ==
    ASSUME NEW q \in BufferState, q.pending # <<>>
    PROVE  Attached(q) \in BufferState /\ Attached(q).pending # <<>>
<1> DEFINE e == [q.pending[1] EXCEPT !.gaps = q.gaps, !.span = q.span]
<1>1. Len(q.pending) \in Nat /\ 1 \in 1..Len(q.pending)
  BY QueueParts
<1>2. e \in Envelope
  BY <1>1, QueueParts DEF Envelope
<1> HIDE DEF e
<1>3. [q.pending EXCEPT ![1] = e] \in Seq(Envelope)
  BY <1>1, <1>2, QueueParts
<1>4. [q.pending EXCEPT ![1] = e] # <<>>
  BY <1>1, QueueParts
<1>5. [q EXCEPT !.pending = [q.pending EXCEPT ![1] = e], !.gaps = {}, !.span = NoSpan]
          \in BufferState
  <2>1. NoSpan \in Span
    BY DEF Span, NoSpan
  <2> QED
    BY <1>3, <2>1 DEF BufferState
<1>6. Attached(q)
        = [q EXCEPT !.pending = [q.pending EXCEPT ![1] = e], !.gaps = {}, !.span = NoSpan]
  BY DEF Attached, e, BufferState
<1> QED
  BY <1>4, <1>5, <1>6 DEF BufferState

LEMMA AcknowledgedType ==
    ASSUME NEW q \in BufferState, q.pending # <<>>
    PROVE  Acknowledged(q) \in BufferState
<1>1. Tail(q.pending) \in Seq(Envelope)
  BY QueueParts
<1> QED
  BY <1>1 DEF Acknowledged, BufferState

(* A commit, successful or not, publishes nothing but well-formed states. *)
LEMMA CommitType ==
    ASSUME memory \in BufferState, disk \in BufferState, NEW q \in BufferState,
           CommitOk(q) \/ CommitFails(q)
    PROVE  memory' \in BufferState /\ disk' \in BufferState
BY DEF CommitOk, CommitFails

LEMMA FreshType == FreshState \in BufferState
<1>1. <<>> \in Seq(Envelope)
  OBVIOUS
<1> QED
  BY <1>1 DEF FreshState, BufferState, DeliveryStates, Span, NoSpan

(* Every operation of the buffer, in the form the composition uses it. *)
LEMMA BufferStepType ==
    ASSUME memory \in BufferState, disk \in BufferState, running \in BOOLEAN,
           \/ \E t \in Instant : Enqueue(t)
           \/ PeekOk \/ PeekFails
           \/ \E n \in Nat : AcknowledgeOk(n) \/ AcknowledgeFails(n)
           \/ \E v \in DeliveryStates : SetDeliveryStateOk(v) \/ SetDeliveryStateFails(v)
           \/ Stop \/ Open
           \/ UNCHANGED bufferVars
    PROVE  memory' \in BufferState /\ disk' \in BufferState /\ running' \in BOOLEAN
<1>1. ASSUME NEW t \in Instant, Enqueue(t)
      PROVE  memory' \in BufferState /\ disk' \in BufferState /\ running' \in BOOLEAN
  <2> DEFINE q == Enqueued(t, memory)
  <2>1. PICK k \in DropCounts(q) : CommitOk(Enforce(q, k)) \/ CommitFails(Enforce(q, k))
    BY <1>1 DEF Enqueue
  <2>2. Enforce(q, k) \in BufferState
    BY EnqueuedType, EnforceType DEF DropCounts
  <2> QED
    BY <1>1, <2>1, <2>2, CommitType DEF Enqueue
<1>2. CASE PeekOk \/ PeekFails
  <2>1. Attached(memory) \in BufferState
    BY <1>2, AttachedType DEF PeekOk, PeekFails
  <2> QED
    BY <1>2, <2>1, CommitType DEF PeekOk, PeekFails, PeekAttaches
<1>3. ASSUME NEW n \in Nat, AcknowledgeOk(n) \/ AcknowledgeFails(n)
      PROVE  memory' \in BufferState /\ disk' \in BufferState /\ running' \in BOOLEAN
  <2>1. Acknowledges(n) => Acknowledged(memory) \in BufferState
    BY AcknowledgedType DEF Acknowledges
  <2> QED
    BY <1>3, <2>1, CommitType DEF AcknowledgeOk, AcknowledgeFails
<1>4. ASSUME NEW v \in DeliveryStates, SetDeliveryStateOk(v) \/ SetDeliveryStateFails(v)
      PROVE  memory' \in BufferState /\ disk' \in BufferState /\ running' \in BOOLEAN
  <2>1. [memory EXCEPT !.delivery = v] \in BufferState
    BY DEF BufferState
  <2> QED
    BY <1>4, <2>1, CommitType DEF SetDeliveryStateOk, SetDeliveryStateFails
<1>5. CASE Stop
  BY <1>5, FreshType DEF Stop
<1>6. CASE Open
  <2>1. PICK k \in DropCounts(disk) :
            \/ CommitOk(Enforce(disk, k)) /\ running' = TRUE
            \/ CommitFails(Enforce(disk, k)) /\ UNCHANGED running
    BY <1>6 DEF Open
  <2>2. Enforce(disk, k) \in BufferState
    BY EnforceType DEF DropCounts
  <2> QED
    BY <2>1, <2>2, CommitType
<1>7. CASE UNCHANGED bufferVars
  BY <1>7 DEF bufferVars
<1> QED
  BY <1>1, <1>2, <1>3, <1>4, <1>5, <1>6, <1>7

LEMMA SaveType ==
    ASSUME stored \in StoreRecord, storedDisk \in StoreRecord, NEW e \in Envelope,
           SaveOk(e) \/ SaveFails(e)
    PROVE  stored' \in StoreRecord /\ storedDisk' \in StoreRecord
<1>1. Saved(e) \in StoreRecord
  BY DEF Saved, StoreRecord, Envelope
<1> QED
  BY <1>1 DEF SaveOk, SaveFails, storeVars

-----------------------------------------------------------------------------
(* Type correctness of the chain, for every instance: memory and disk hold
   well-formed queues whatever write fails and whenever the Daemon dies, and
   the Publisher only ever waits on an encoded envelope. *)
THEOREM TypeCorrect == Spec => []TypeOK
<1>1. Init => TypeOK
  <2>1. Nothing \in StoreRecord
    BY DEF Nothing, StoreRecord, NoBytes
  <2> QED
    BY <2>1, FreshType DEF Init, TypeOK, BufferInit, StoreInit, Phases, Awaiting
<1>2. TypeOK /\ [Next]_vars => TypeOK'
  <2> SUFFICES ASSUME TypeOK, [Next]_vars PROVE TypeOK'
    OBVIOUS
  <2>1. CASE Collect
    BY <2>1, BufferStepType DEF TypeOK, Collect, storeVars, publisherVars, Awaiting
  <2>2. CASE SendPeek
    <3>1. memory' \in BufferState /\ disk' \in BufferState /\ running' \in BOOLEAN
      BY <2>2, BufferStepType DEF TypeOK, SendPeek
    <3>2. memory'.pending # <<>>
      BY <2>2, AttachedType DEF TypeOK, SendPeek, PeekOk, PeekAttaches, CommitOk
    <3>3. sent' \in Envelope
      BY <2>2, <3>1, <3>2, QueueParts DEF SendPeek
    <3> QED
      BY <2>2, <3>1, <3>3 DEF TypeOK, SendPeek, storeVars, Phases, Awaiting
  <2>3. CASE SendPeekFails
    BY <2>3, BufferStepType DEF TypeOK, SendPeekFails, storeVars, Phases, Awaiting
  <2>4. CASE Receive \/ ReceiveRefused
    BY <2>4, SaveType DEF TypeOK, Receive, ReceiveRefused, bufferVars, Phases, Awaiting
  <2>5. CASE ReceiveLate
    BY <2>5, SaveType DEF TypeOK, ReceiveLate, bufferVars, Awaiting
  <2>6. CASE SendTimeout
    BY <2>6 DEF TypeOK, SendTimeout, Abandon, bufferVars, storeVars, Phases, Awaiting
  <2>7. CASE LoseLate
    BY <2>7 DEF TypeOK, LoseLate, bufferVars, storeVars, Awaiting
  <2>8. CASE SendAcknowledge \/ SendAcknowledgeFails
    <3>1. sent.seq \in Nat
      BY <2>8 DEF TypeOK, SendAcknowledge, SendAcknowledgeFails, Awaiting, Envelope
    <3> QED
      BY <2>8, <3>1, BufferStepType
      DEF TypeOK, SendAcknowledge, SendAcknowledgeFails, storeVars, Phases, Awaiting
  <2>9. CASE SendRecovered \/ SendFailed
    BY <2>9, BufferStepType
    DEF TypeOK, SendRecovered, SendFailed, storeVars, Phases, Awaiting, DeliveryStates
  <2>10. CASE DaemonStops
    BY <2>10, BufferStepType DEF TypeOK, DaemonStops, Abandon, storeVars, Phases, Awaiting
  <2>11. CASE DaemonOpens
    BY <2>11, BufferStepType DEF TypeOK, DaemonOpens, storeVars, publisherVars, Awaiting
  <2>12. CASE RelayRestarts
    BY <2>12 DEF TypeOK, RelayRestarts, RelayRestart, bufferVars, publisherVars, Awaiting
  <2>13. CASE UNCHANGED vars
    BY <2>13 DEF TypeOK, vars, Awaiting
  <2> QED
    BY <2>1, <2>2, <2>3, <2>4, <2>5, <2>6, <2>7, <2>8, <2>9, <2>10, <2>11, <2>12, <2>13
    DEF Next
<1> QED
  BY <1>1, <1>2, PTL DEF Spec

-----------------------------------------------------------------------------
(* One Relay record answers for 1..seq. *)
Accounts(r) == r.accepted \cup r.gaps = 1..r.seq /\ r.accepted \cap r.gaps = {}

(* The file is never behind the memory it was written from. *)
Extends(r, t) == /\ r.seq >= t.seq
                 /\ t.gaps \subseteq r.gaps
                 /\ t.accepted \subseteq r.accepted

RelayInv == Accounts(stored) /\ Accounts(storedDisk) /\ Extends(storedDisk, stored)

(* Save turns an accounting record into a longer accounting record: the exact
   match of the declared gaps with the skipped range is what keeps accepted
   and lost apart. *)
LEMMA SavedAccounts ==
    ASSUME stored \in StoreRecord, NEW e \in Envelope, Saves(e), Accounts(stored)
    PROVE  Accounts(Saved(e)) /\ Extends(Saved(e), stored)
<1>1. /\ stored.seq \in Nat /\ e.seq \in Nat \ {0} /\ e.seq > stored.seq
      /\ e.gaps = (stored.seq + 1)..(e.seq - 1)
  BY DEF StoreRecord, Envelope, Saves, GapsMatchSkippedRange
<1>2. /\ Saved(e).seq = e.seq
      /\ Saved(e).gaps = stored.gaps \cup e.gaps
      /\ Saved(e).accepted = stored.accepted \cup {e.seq}
  BY DEF Saved
<1>3. Saved(e).accepted \cup Saved(e).gaps = 1..e.seq
  BY <1>1, <1>2 DEF Accounts
<1>4. Saved(e).accepted \cap Saved(e).gaps = {}
  <2>1. \A n \in stored.accepted \cup stored.gaps : n \in 1..stored.seq
    BY DEF Accounts
  <2>2. \A n \in 1..stored.seq : n \notin e.gaps /\ n # e.seq
    BY <1>1
  <2>3. e.seq \notin e.gaps
    BY <1>1
  <2> QED
    BY <1>2, <2>1, <2>2, <2>3 DEF Accounts
<1> QED
  BY <1>1, <1>2, <1>3, <1>4 DEF Accounts, Extends

LEMMA SaveKeepsRelayInv ==
    ASSUME stored \in StoreRecord, storedDisk \in StoreRecord, NEW e \in Envelope,
           SaveOk(e) \/ SaveFails(e), RelayInv
    PROVE  RelayInv' /\ Extends(stored', stored)
<1>0. Extends(stored, stored)
  BY DEF Extends, StoreRecord
<1>1. CASE UNCHANGED storeVars
  BY <1>0, <1>1 DEF RelayInv, Accounts, Extends, storeVars
<1>2. CASE Saves(e) /\ stored' = Saved(e) /\ storedDisk' = Saved(e)
  <2>1. Extends(Saved(e), Saved(e))
    BY DEF Extends, Saved, Envelope
  <2> QED
    BY <1>2, <2>1, SavedAccounts DEF RelayInv, Accounts, Extends
<1>3. CASE Saves(e) /\ stored' = stored /\ storedDisk' = Saved(e)
  BY <1>0, <1>3, SavedAccounts DEF RelayInv, Accounts, Extends
<1> QED
  BY <1>1, <1>2, <1>3 DEF SaveOk, SaveFails, storeVars

(* Every step keeps the Relay's accounts and only extends its record. *)
LEMMA RelayStep ==
    ASSUME TypeOK, RelayInv, [Next]_vars
    PROVE  RelayInv' /\ Extends(stored', stored)
<1>0. Extends(stored, stored)
  BY DEF Extends, StoreRecord, TypeOK
<1>1. CASE UNCHANGED storeVars
  BY <1>0, <1>1 DEF RelayInv, Accounts, Extends, storeVars
<1>2. CASE Receive \/ ReceiveRefused
  BY <1>2, SaveKeepsRelayInv DEF TypeOK, Receive, ReceiveRefused, Awaiting
<1>3. CASE ReceiveLate
  BY <1>3, SaveKeepsRelayInv DEF TypeOK, ReceiveLate
<1>4. CASE RelayRestarts
  <2>1. Extends(storedDisk, storedDisk)
    BY DEF Extends, StoreRecord, TypeOK
  <2> QED
    BY <1>4, <2>1 DEF RelayRestarts, RelayRestart, RelayInv, Accounts, Extends
<1> QED
  BY <1>1, <1>2, <1>3, <1>4
  DEF Next, vars, storeVars, Collect, SendPeek, SendPeekFails, SendTimeout, LoseLate,
      SendAcknowledge, SendAcknowledgeFails, SendRecovered, SendFailed, DaemonStops,
      DaemonOpens

(* RelayInv is inductive on top of the types; the record in the file has to be
   part of it, because a restart makes it the record in memory. *)
THEOREM RelayInvariant == Spec => []RelayInv
<1>1. Init => RelayInv
  BY DEF Init, StoreInit, Nothing, RelayInv, Accounts, Extends
<1>2. TypeOK /\ RelayInv /\ [Next]_vars => RelayInv'
  BY RelayStep
<1> QED
  BY <1>1, <1>2, TypeCorrect, PTL DEF Spec

(* Below the Relay's sequence each observation was accepted or declared lost,
   never both: for every instance, through failed writes and restarts. *)
THEOREM RelayIsHonest == Spec => []RelayAccounting
<1>1. RelayInv => RelayAccounting
  BY DEF RelayInv, Accounts, RelayAccounting
<1> QED
  BY <1>1, RelayInvariant, PTL

(* The Relay's record never goes back and forgets no loss it was told of. *)
THEOREM RelayOnlyAdvances == Spec => RelayAdvances
<1>1. TypeOK /\ RelayInv /\ [Next]_vars
      => [/\ stored'.seq >= stored.seq
          /\ stored.gaps \subseteq stored'.gaps
          /\ stored.accepted \subseteq stored'.accepted]_vars
  BY RelayStep DEF Extends
<1> QED
  BY <1>1, TypeCorrect, RelayInvariant, PTL DEF Spec, RelayAdvances

-----------------------------------------------------------------------------
(* A queue is a run of consecutive sequences whose losses have one carrier,
   and a carrier only speaks of what precedes it. *)
Shape(q) ==
    /\ Len(q.pending) < q.next
    /\ \A i \in 1..Len(q.pending) :
           /\ q.pending[i].seq = q.next - 1 - Len(q.pending) + i
           /\ q.pending[i].gaps # {} => i = 1 /\ q.gaps = {}
           /\ \A g \in q.pending[i].gaps : g < q.pending[i].seq
    /\ \A g \in q.gaps : g < q.next - Len(q.pending)

(* Above s, the queue accounts for every sequence it has numbered. *)
Covers(q, s) ==
    \A n \in 1..(q.next - 1) : n > s =>
        \/ \E i \in 1..Len(q.pending) : n = q.pending[i].seq \/ n \in q.pending[i].gaps
        \/ n \in q.gaps

Sound(q, s) == Shape(q) /\ Covers(q, s)

LEMMA FreshSound == ASSUME NEW s \in Nat PROVE Sound(FreshState, s)
BY DEF FreshState, Sound, Shape, Covers

LEMMA SoundLater ==
    ASSUME NEW q \in BufferState, NEW s \in Nat, NEW t \in Nat, t >= s, Sound(q, s)
    PROVE  Sound(q, t)
BY QueueParts DEF Sound, Covers

LEMMA EnqueuedSound ==
    ASSUME NEW q \in BufferState, NEW t \in Instant, NEW s \in Nat, Sound(q, s)
    PROVE  Sound(Enqueued(t, q), s)
<1> DEFINE e == Collected(q.next, t)
           p == Append(q.pending, e)
           r == Enqueued(t, q)
<1>1. r.next = q.next + 1 /\ r.pending = p /\ r.gaps = q.gaps
  BY DEF Enqueued, BufferState
<1>2. /\ Len(p) = Len(q.pending) + 1
      /\ p[Len(q.pending) + 1] = e
      /\ \A i \in 1..Len(q.pending) : p[i] = q.pending[i]
  BY QueueParts
<1>3. Shape(r)
  <2>0. /\ Len(q.pending) \in Nat /\ q.next \in Nat \ {0} /\ q.gaps \subseteq Nat
        /\ Len(q.pending) < q.next
    BY QueueParts DEF Sound, Shape
  <2>1. ASSUME NEW i \in 1..Len(p)
        PROVE  /\ p[i].seq = (q.next + 1) - 1 - Len(p) + i
               /\ p[i].gaps # {} => i = 1 /\ q.gaps = {}
               /\ \A g \in p[i].gaps : g < p[i].seq
    <3>1. CASE i \in 1..Len(q.pending)
      <4>1. p[i] = q.pending[i]
        BY <1>2, <3>1
      <4>2. q.pending[i].seq = q.next - 1 - Len(q.pending) + i
        BY <3>1 DEF Sound, Shape
      <4>3. (q.next + 1) - 1 - Len(p) + i = q.next - 1 - Len(q.pending) + i
        BY <1>2, <2>0
      <4> QED
        BY <3>1, <4>1, <4>2, <4>3 DEF Sound, Shape
    <3>2. CASE i = Len(q.pending) + 1
      <4>1. p[i].seq = q.next /\ p[i].gaps = {}
        BY <1>2, <3>2 DEF Collected
      <4> QED
        BY <1>2, <2>0, <3>2, <4>1
    <3>3. i \in 1..Len(q.pending) \/ i = Len(q.pending) + 1
      BY <1>2, <2>0
    <3> HIDE DEF p
    <3> QED
      BY <3>1, <3>2, <3>3
  <2>2. \A g \in q.gaps : g < (q.next + 1) - Len(p)
    BY <1>2, <2>0 DEF Sound, Shape
  <2>3. Len(p) < q.next + 1
    BY <1>2, <2>0
  <2> HIDE DEF p, r
  <2> QED
    BY <1>1, <2>1, <2>2, <2>3 DEF Shape
<1>4. Covers(r, s)
  <2> SUFFICES ASSUME NEW n \in 1..q.next, n > s
               PROVE  \/ \E i \in 1..Len(p) : n = p[i].seq \/ n \in p[i].gaps
                      \/ n \in q.gaps
    BY <1>1, QueueParts DEF Covers
  <2>1. CASE n = q.next
    BY <1>2, <2>1, QueueParts DEF Collected
  <2>2. CASE n \in 1..(q.next - 1)
    BY <1>2, <2>2, QueueParts DEF Sound, Covers
  <2> QED
    BY <2>1, <2>2, QueueParts
<1> QED
  BY <1>3, <1>4 DEF Sound

(* Dropping the oldest loses nothing: what leaves is declared. *)
LEMMA EnforceSound ==
    ASSUME NEW q \in BufferState, NEW k \in 0..Len(q.pending), NEW s \in Nat, Sound(q, s)
    PROVE  Sound(Enforce(q, k), s)
<1> DEFINE L == Len(q.pending)
           p == SubSeq(q.pending, k + 1, L)
           r == Enforce(q, k)
<1>0. L \in Nat /\ q.next \in Nat \ {0} /\ q.gaps \subseteq Nat
  BY QueueParts
<1>1. r.next = q.next /\ r.pending = p /\ r.gaps = q.gaps \cup DroppedBy(q, k)
  BY DEF Enforce, BufferState
<1>2. Len(p) = L - k /\ \A i \in 1..(L - k) : p[i] = q.pending[i + k] /\ i + k \in 1..L
  <2>1. q.pending \in Seq(Envelope)
    BY QueueParts
  <2> QED
    BY <1>0, <2>1, SMTT(30)
<1>3. \A g \in DroppedBy(q, k) : g \in Nat /\ g < q.next - (L - k)
  <2>1. ASSUME NEW i \in 1..k, NEW g \in q.pending[i].gaps \cup {q.pending[i].seq}
        PROVE  g \in Nat /\ g < q.next - (L - k)
    <3>1. i \in 1..L /\ i \in Nat /\ i <= k
      BY <1>0
    <3>2. q.pending[i].seq = q.next - 1 - L + i /\ \A h \in q.pending[i].gaps : h < q.pending[i].seq
      BY <3>1 DEF Sound, Shape
    <3>3. q.pending[i].seq \in Nat /\ q.pending[i].gaps \subseteq Nat
      BY <3>1, QueueParts
    <3>4. q.next - 1 - L + i < q.next - (L - k)
      BY <1>0, <3>1
    <3>5. q.pending[i].seq < q.next - (L - k)
      BY <3>2, <3>4
    <3>6. g \in Nat /\ g <= q.pending[i].seq
      BY <3>2, <3>3
    <3> HIDE DEF L
    <3> QED
      BY <1>0, <3>3, <3>5, <3>6
  <2> QED
    BY <2>1 DEF DroppedBy
<1>4. Shape(r)
  <2>1. Len(p) < q.next
    BY <1>0, <1>2 DEF Sound, Shape
  <2>2. ASSUME NEW i \in 1..Len(p)
        PROVE  /\ p[i].seq = q.next - 1 - Len(p) + i
               /\ p[i].gaps # {} => i = 1 /\ r.gaps = {}
               /\ \A g \in p[i].gaps : g < p[i].seq
    <3>1. p[i] = q.pending[i + k] /\ i + k \in 1..L /\ i \in 1..(L - k)
      BY <1>2
    <3>2. p[i].seq = q.next - 1 - Len(p) + i /\ \A g \in p[i].gaps : g < p[i].seq
      BY SMTT(30), <1>0, <1>2, <3>1 DEF Sound, Shape
    <3>3. p[i].gaps # {} => i + k = 1 /\ q.gaps = {}
      BY <3>1 DEF Sound, Shape
    <3>4. k = 0 => DroppedBy(q, k) = {}
      BY DEF DroppedBy
    <3>5. i + k = 1 => i = 1 /\ k = 0
      BY <1>0
    <3> QED
      BY <1>1, <3>2, <3>3, <3>4, <3>5
  <2>3. \A g \in r.gaps : g < q.next - Len(p)
    BY SMTT(30), <1>0, <1>1, <1>2, <1>3 DEF Sound, Shape
  <2> HIDE DEF p, r
  <2> QED
    BY <1>1, <2>1, <2>2, <2>3 DEF Shape
<1>5. Covers(r, s)
  <2> SUFFICES ASSUME NEW n \in 1..(q.next - 1), n > s
               PROVE  \/ \E i \in 1..Len(p) : n = p[i].seq \/ n \in p[i].gaps
                      \/ n \in q.gaps \cup DroppedBy(q, k)
    BY <1>1 DEF Covers
  <2>1. CASE n \in q.gaps
    BY <2>1
  <2>2. CASE \E i \in 1..L : n = q.pending[i].seq \/ n \in q.pending[i].gaps
    <3>1. PICK i \in 1..L : n = q.pending[i].seq \/ n \in q.pending[i].gaps
      BY <2>2
    <3>2. CASE i <= k
      <4>1. i \in 1..k
        BY <1>0, <3>2
      <4> QED
        BY <3>1, <4>1 DEF DroppedBy
    <3>3. CASE i > k
      <4>1. (i - k) \in 1..Len(p) /\ (i - k) \in 1..(L - k) /\ (i - k) + k = i
        BY <1>0, <1>2, <3>3
      <4>2. p[i - k] = q.pending[i]
        BY <1>2, <4>1
      <4> QED
        BY <3>1, <4>1, <4>2
    <3>4. i <= k \/ i > k
      BY <1>0
    <3> QED
      BY <3>2, <3>3, <3>4
  <2> QED
    BY <2>1, <2>2 DEF Sound, Covers
<1> QED
  BY <1>4, <1>5 DEF Sound

(* Peek moves the losses to their carrier: the carrier had none, so none is
   overwritten. *)
LEMMA AttachedSound ==
    ASSUME NEW q \in BufferState, q.pending # <<>>, q.gaps # {}, NEW s \in Nat, Sound(q, s)
    PROVE  Sound(Attached(q), s)
<1> DEFINE L == Len(q.pending)
           e == [q.pending[1] EXCEPT !.gaps = q.gaps, !.span = q.span]
           p == [q.pending EXCEPT ![1] = e]
           r == Attached(q)
<1>0. /\ L \in Nat /\ 1 \in 1..L /\ q.next \in Nat \ {0} /\ q.gaps \subseteq Nat
      /\ q.pending \in Seq(Envelope) /\ q.pending[1] \in Envelope
  BY QueueParts
<1>1. r.next = q.next /\ r.pending = p /\ r.gaps = {}
  BY DEF Attached, BufferState
<1>2. Len(p) = L /\ p[1] = e /\ \A i \in 2..L : p[i] = q.pending[i]
  BY <1>0
<1>3. e.seq = q.pending[1].seq /\ e.gaps = q.gaps
  BY <1>0 DEF Envelope
<1>4. q.pending[1].seq = q.next - L
  BY <1>0 DEF Sound, Shape
<1>5. \A i \in 1..L : q.pending[i].gaps = {}
  BY DEF Sound, Shape
<1>6. \A i \in 1..L : i = 1 \/ i \in 2..L
  BY <1>0
<1> HIDE DEF e, p, r
<1>7. Shape(r)
  <2>1. \A i \in 1..L : p[i].seq = q.next - 1 - L + i
    BY <1>0, <1>2, <1>3, <1>6 DEF Sound, Shape
  <2>2. \A g \in q.gaps : g < q.next - L
    BY DEF Sound, Shape
  <2>3. \A i \in 1..L : p[i].gaps # {} => i = 1
    BY <1>2, <1>5, <1>6
  <2>4. \A i \in 1..L : \A g \in p[i].gaps : g < p[i].seq
    BY <1>2, <1>3, <1>4, <1>5, <1>6, <2>2
  <2>5. L < q.next
    BY DEF Sound, Shape
  <2> QED
    BY <1>1, <1>2, <2>1, <2>3, <2>4, <2>5 DEF Shape
<1>8. Covers(r, s)
  <2> SUFFICES ASSUME NEW n \in 1..(q.next - 1), n > s
               PROVE  \E i \in 1..L : n = p[i].seq \/ n \in p[i].gaps
    BY <1>1, <1>2 DEF Covers
  <2>1. CASE n \in q.gaps
    BY <1>0, <1>2, <1>3, <2>1
  <2>2. CASE \E i \in 1..L : n = q.pending[i].seq
    BY <1>0, <1>2, <1>3, <1>6, <2>2
  <2> QED
    BY <1>5, <2>1, <2>2 DEF Sound, Covers
<1> QED
  BY <1>7, <1>8 DEF Sound, r

(* Acknowledge removes the oldest envelope and the losses it carried, all of
   them at or below what the Relay holds. *)
LEMMA AcknowledgedSound ==
    ASSUME NEW q \in BufferState, q.pending # <<>>, NEW s \in Nat, Sound(q, s),
           Head(q.pending).seq <= s
    PROVE  Sound(Acknowledged(q), s)
<1> DEFINE L == Len(q.pending)
           p == Tail(q.pending)
           r == Acknowledged(q)
<1>0. /\ L \in Nat /\ 1 \in 1..L /\ q.next \in Nat \ {0} /\ q.gaps \subseteq Nat
      /\ q.pending[1].seq \in Nat /\ q.pending[1].seq <= s /\ q.pending[1].gaps \subseteq Nat
  BY QueueParts
<1>1. r.next = q.next /\ r.pending = p /\ r.gaps = q.gaps
  BY DEF Acknowledged, BufferState
<1>2. Len(p) = L - 1 /\ \A i \in 1..(L - 1) : p[i] = q.pending[i + 1] /\ i + 1 \in 1..L
  BY <1>0, QueueParts
<1> HIDE DEF p, r
<1>3. Shape(r)
  <2>1. ASSUME NEW i \in 1..(L - 1)
        PROVE  /\ p[i].seq = q.next - 1 - (L - 1) + i
               /\ p[i].gaps = {}
    <3>1. q.pending[i + 1].seq = q.next - 1 - L + (i + 1)
      BY <1>0, <1>2 DEF Sound, Shape
    <3>2. i + 1 # 1
      BY <1>0
    <3>3. q.pending[i + 1].gaps = {}
      BY <1>2, <3>2 DEF Sound, Shape
    <3>4. q.next - 1 - L + (i + 1) = q.next - 1 - (L - 1) + i
      <4>1. q.next \in Int /\ L \in Int /\ i \in Int
        BY <1>0
      <4> HIDE DEF L
      <4> QED
        BY <4>1
    <3>5. p[i] = q.pending[i + 1]
      BY <1>2
    <3> QED
      BY <3>1, <3>3, <3>4, <3>5
  <2>2. \A g \in q.gaps : g < q.next - (L - 1)
    BY <1>0 DEF Sound, Shape
  <2>3. L - 1 < q.next
    BY <1>0 DEF Sound, Shape
  <2> QED
    BY <1>1, <1>2, <2>1, <2>2, <2>3 DEF Shape
<1>4. Covers(r, s)
  <2> SUFFICES ASSUME NEW n \in 1..(q.next - 1), n > s
               PROVE  \/ \E i \in 1..(L - 1) : n = p[i].seq \/ n \in p[i].gaps
                      \/ n \in q.gaps
    BY ZenonT(60), <1>1, <1>2 DEF Covers
  <2>1. CASE n \in q.gaps
    BY <2>1
  <2>2. CASE \E i \in 1..L : n = q.pending[i].seq \/ n \in q.pending[i].gaps
    <3>1. PICK i \in 1..L : n = q.pending[i].seq \/ n \in q.pending[i].gaps
      BY <2>2
    <3>2. i # 1
      <4>1. \A g \in q.pending[1].gaps : g < q.pending[1].seq
        BY <1>0 DEF Sound, Shape
      <4> QED
        BY <1>0, <3>1, <4>1
    <3>3. (i - 1) \in 1..(L - 1) /\ (i - 1) + 1 = i
      BY <1>0, <3>2
    <3>4. p[i - 1] = q.pending[i]
      BY <1>2, <3>3
    <3> QED
      BY <3>1, <3>3, <3>4
  <2> QED
    BY <2>1, <2>2 DEF Sound, Covers
<1> QED
  BY <1>3, <1>4 DEF Sound, r

LEMMA DeliverySound ==
    ASSUME NEW q \in BufferState, NEW v \in DeliveryStates, NEW s \in Nat, Sound(q, s)
    PROVE  Sound([q EXCEPT !.delivery = v], s)
BY DEF BufferState, Sound, Shape, Covers

LEMMA CommitSound ==
    ASSUME NEW s, Sound(memory, s), Sound(disk, s), NEW q, Sound(q, s),
           CommitOk(q) \/ CommitFails(q)
    PROVE  Sound(memory', s) /\ Sound(disk', s)
BY DEF CommitOk, CommitFails

-----------------------------------------------------------------------------
(* Both copies of the queue are sound for what the Relay holds, and an answer
   on its way to the Publisher speaks of something the Relay holds. *)
QueueInv == /\ Sound(memory, stored.seq)
            /\ Sound(disk, stored.seq)
            /\ phase = "reply" => sent.seq <= stored.seq

LEMMA QueueStep ==
    ASSUME TypeOK, RelayInv, QueueInv, [Next]_vars
    PROVE  QueueInv'
<1> DEFINE s == stored.seq
<1>0. /\ s \in Nat /\ stored'.seq \in Nat /\ stored'.seq >= s
      /\ memory \in BufferState /\ disk \in BufferState
  <2>1. stored' \in StoreRecord
    BY SaveType
    DEF TypeOK, Next, vars, storeVars, Collect, SendPeek, SendPeekFails, SendTimeout,
        LoseLate, SendAcknowledge, SendAcknowledgeFails, SendRecovered, SendFailed,
        DaemonStops, DaemonOpens, Receive, ReceiveRefused, ReceiveLate, RelayRestarts,
        RelayRestart, Awaiting
  <2> QED
    BY <2>1, RelayStep DEF Extends, TypeOK, StoreRecord
<1>1. ASSUME UNCHANGED <<memory, disk>>
      PROVE  Sound(memory, s)' /\ Sound(disk, s)'
  BY <1>0, <1>1, SoundLater DEF QueueInv
<1>2. ASSUME UNCHANGED stored, NEW q \in BufferState, Sound(q, s),
             CommitOk(q) \/ CommitFails(q)
      PROVE  Sound(memory, s)' /\ Sound(disk, s)'
  BY <1>2, CommitSound DEF QueueInv
<1>3. CASE Collect
  <2>1. PICK t \in Instant : Enqueue(t)
    BY <1>3 DEF Collect
  <2>2. PICK k \in 0..Len(Enqueued(t, memory).pending) :
            \/ CommitOk(Enforce(Enqueued(t, memory), k))
            \/ CommitFails(Enforce(Enqueued(t, memory), k))
    BY <2>1 DEF Enqueue, DropCounts
  <2>3. Sound(Enforce(Enqueued(t, memory), k), s) /\ Enforce(Enqueued(t, memory), k) \in BufferState
    BY <1>0, EnqueuedType, EnqueuedSound, EnforceSound, EnforceType DEF QueueInv
  <2> QED
    BY <1>2, <1>3, <2>2, <2>3 DEF Collect, QueueInv, storeVars, publisherVars
<1>4. CASE SendPeek \/ SendPeekFails
  <2>1. ASSUME memory.gaps # {}, memory.pending # <<>>
        PROVE  Sound(Attached(memory), s) /\ Attached(memory) \in BufferState
    BY <1>0, <2>1, AttachedType, AttachedSound DEF QueueInv
  <2> QED
    BY <1>1, <1>2, <1>4, <2>1
    DEF SendPeek, SendPeekFails, PeekOk, PeekFails, PeekAttaches, QueueInv, storeVars
<1>5. CASE Receive
  <2>1. stored'.seq = sent.seq
    BY <1>5 DEF Receive, SaveOk, AlreadyPresent, Saved, storeVars
  <2> QED
    BY <1>0, <1>1, <1>5, <2>1 DEF Receive, QueueInv, bufferVars
<1>6. CASE ReceiveRefused \/ SendTimeout
  BY <1>1, <1>6 DEF ReceiveRefused, SendTimeout, QueueInv, bufferVars
<1>7. CASE ReceiveLate \/ RelayRestarts \/ LoseLate \/ UNCHANGED vars
  <2>1. UNCHANGED <<memory, disk, phase, sent>>
    BY <1>7 DEF ReceiveLate, RelayRestarts, LoseLate, vars, bufferVars, publisherVars
  <2>2. phase = "reply" => sent.seq \in Nat
    BY DEF TypeOK, Awaiting, Envelope
  <2> QED
    BY <1>0, <1>1, <2>1, <2>2 DEF QueueInv
<1>8. CASE SendAcknowledge \/ SendAcknowledgeFails
  <2>1. ASSUME Acknowledges(sent.seq)
        PROVE  Sound(Acknowledged(memory), s) /\ Acknowledged(memory) \in BufferState
    BY <1>0, <1>8, <2>1, AcknowledgedType, AcknowledgedSound
    DEF QueueInv, Acknowledges, SendAcknowledge, SendAcknowledgeFails
  <2> QED
    BY <1>1, <1>2, <1>8, <2>1
    DEF SendAcknowledge, SendAcknowledgeFails, AcknowledgeOk, AcknowledgeFails, QueueInv,
        storeVars
<1>9. CASE SendRecovered \/ SendFailed
  <2>1. ASSUME NEW v \in DeliveryStates
        PROVE  /\ Sound([memory EXCEPT !.delivery = v], s)
               /\ [memory EXCEPT !.delivery = v] \in BufferState
    BY <1>0, DeliverySound DEF QueueInv, BufferState
  <2> QED
    BY <1>1, <1>2, <1>9, <2>1
    DEF SendRecovered, SendFailed, SetDeliveryStateOk, SetDeliveryStateFails, QueueInv,
        storeVars, DeliveryStates
<1>10. CASE DaemonStops
  BY <1>0, <1>10, FreshSound DEF DaemonStops, Stop, QueueInv, storeVars
<1>11. CASE DaemonOpens
  <2>1. PICK k \in 0..Len(disk.pending) :
            CommitOk(Enforce(disk, k)) \/ CommitFails(Enforce(disk, k))
    BY <1>11 DEF DaemonOpens, Open, DropCounts
  <2>2. Sound(Enforce(disk, k), s) /\ Enforce(disk, k) \in BufferState
    BY <1>0, EnforceSound, EnforceType DEF QueueInv
  <2> QED
    BY <1>2, <1>11, <2>1, <2>2 DEF DaemonOpens, QueueInv, storeVars, publisherVars
<1> QED
  BY <1>3, <1>4, <1>5, <1>6, <1>7, <1>8, <1>9, <1>10, <1>11 DEF Next

(* QueueInv is inductive on top of the types: memory and file are each a run
   of sequences that accounts for everything past the record of the Relay,
   and an answered envelope is one the Relay recorded (buffer.go). *)
THEOREM QueueInvariant == Spec => []QueueInv
<1>1. Init => QueueInv
  BY FreshSound DEF Init, BufferInit, StoreInit, Nothing, QueueInv
<1>2. TypeOK /\ RelayInv /\ QueueInv /\ [Next]_vars => QueueInv'
  BY QueueStep
<1> QED
  BY <1>1, <1>2, TypeCorrect, RelayInvariant, PTL DEF Spec

(* No observation is lost silently: whatever is dropped, fails, crashes or
   restarts, a numbered sequence is waiting, declared, or behind the Relay. *)
THEOREM NothingLostSilently == Spec => []NoSilentLoss
<1>1. TypeOK /\ QueueInv => NoSilentLoss
  <2> SUFFICES ASSUME TypeOK, QueueInv, NEW q \in {memory, disk},
                      NEW n \in 1..(q.next - 1), ~(n <= stored.seq)
               PROVE  n \in Waiting(q) \/ n \in Declared(q)
    BY DEF NoSilentLoss, Queues
  <2>1. q.next \in Nat /\ stored.seq \in Nat /\ Covers(q, stored.seq)
    BY QueueParts DEF TypeOK, StoreRecord, QueueInv, Sound
  <2>2. n > stored.seq
    BY <2>1
  <2> QED
    BY <2>1, <2>2 DEF Covers, Waiting, Declared
<1> QED
  BY <1>1, TypeCorrect, QueueInvariant, PTL

(* The queue stays a run of consecutive sequences with one carrier of losses. *)
THEOREM GapCarrierUnique == Spec => []OneGapCarrier
<1>1. QueueInv => OneGapCarrier
  BY DEF QueueInv, Sound, Shape, OneGapCarrier, Queues
<1> QED
  BY <1>1, QueueInvariant, PTL

-----------------------------------------------------------------------------
(***************************************************************************)
(* The bytes that left the Daemon.  They are fixed because a queue that    *)
(* still holds one of them holds it first, unchanged and with nothing left *)
(* to attach; because the file follows the memory, so that a crash forgets *)
(* none of this; and because a queue never numbers a sequence twice.       *)
(***************************************************************************)
Remembers(q, e) ==
    /\ e.seq < q.next
    /\ \A i \in 1..Len(q.pending) :
           q.pending[i].seq = e.seq => i = 1 /\ q.pending[i] = e /\ q.gaps = {}

(* r is what q becomes in one operation, or q itself. *)
Follows(q, r) ==
    /\ r.next \in {q.next, q.next + 1}
    /\ \A e \in Envelope : Remembers(q, e) => Remembers(r, e)

(* Every envelope that left: on the wire, or in a record of the Relay. *)
Known == Wire \cup {r.bytes : r \in {x \in {stored, storedDisk} : x.seq # 0}}

RecordsAreKnown ==
    \A r \in {stored, storedDisk} :
        r.seq # 0 => r.bytes \in Envelope /\ r.bytes.seq = r.seq

(* The Relay's file is its memory, or one envelope ahead of it. *)
FileIsOneAhead ==
    storedDisk # stored => Saves(storedDisk.bytes) /\ storedDisk = Saved(storedDisk.bytes)

WireInv == /\ running => Follows(memory, disk)
           /\ \A e \in Known : \A q \in Queues : Remembers(q, e)
           /\ \A e, f \in Known : e.seq = f.seq => e = f
           /\ RecordsAreKnown
           /\ FileIsOneAhead

LEMMA EnqueuedRemembers ==
    ASSUME NEW q \in BufferState, NEW t \in Instant, NEW e \in Envelope, Remembers(q, e)
    PROVE  Remembers(Enqueued(t, q), e)
<1> DEFINE new == Collected(q.next, t)
           p == Append(q.pending, new)
           r == Enqueued(t, q)
<1>1. r.next = q.next + 1 /\ r.pending = p /\ r.gaps = q.gaps
  BY DEF Enqueued, BufferState
<1>2. /\ Len(p) = Len(q.pending) + 1
      /\ p[Len(q.pending) + 1] = new
      /\ \A i \in 1..Len(q.pending) : p[i] = q.pending[i]
  BY QueueParts
<1>3. e.seq \in Nat /\ q.next \in Nat /\ e.seq < q.next /\ Len(q.pending) \in Nat
  BY QueueParts DEF Remembers, Envelope
<1>4. ASSUME NEW i \in 1..Len(p), p[i].seq = e.seq
      PROVE  i = 1 /\ p[i] = e /\ q.gaps = {}
  <2>1. i # Len(q.pending) + 1
    BY <1>2, <1>3, <1>4 DEF Collected
  <2>2. i \in 1..Len(q.pending)
    BY <1>2, <1>3, <2>1
  <2> QED
    BY <1>2, <1>4, <2>2 DEF Remembers
<1> HIDE DEF p, r
<1> QED
  BY <1>1, <1>3, <1>4 DEF Remembers, r

LEMMA EnforceRemembers ==
    ASSUME NEW q \in BufferState, NEW k \in 0..Len(q.pending), NEW e \in Envelope,
           Remembers(q, e)
    PROVE  Remembers(Enforce(q, k), e)
<1> DEFINE L == Len(q.pending)
           p == SubSeq(q.pending, k + 1, L)
           r == Enforce(q, k)
<1>0. L \in Nat
  BY QueueParts
<1>1. r.next = q.next /\ r.pending = p /\ r.gaps = q.gaps \cup DroppedBy(q, k)
  BY DEF Enforce, BufferState
<1>2. Len(p) = L - k /\ \A i \in 1..(L - k) : p[i] = q.pending[i + k] /\ i + k \in 1..L
  <2>1. q.pending \in Seq(Envelope)
    BY QueueParts
  <2> QED
    BY <1>0, <2>1, SMTT(30)
<1>3. ASSUME NEW i \in 1..Len(p), p[i].seq = e.seq
      PROVE  i = 1 /\ p[i] = e /\ r.gaps = {}
  <2>1. p[i] = q.pending[i + k] /\ i + k \in 1..L
    BY <1>2
  <2>2. i + k = 1 /\ q.pending[i + k] = e /\ q.gaps = {}
    BY <1>3, <2>1 DEF Remembers
  <2>3. i = 1 /\ k = 0
    BY <1>0, <2>2
  <2>4. DroppedBy(q, k) = {}
    BY <2>3 DEF DroppedBy
  <2> QED
    BY <1>1, <2>1, <2>2, <2>3, <2>4
<1> HIDE DEF p, r
<1> QED
  BY <1>1, <1>3 DEF Remembers, r

LEMMA AttachedRemembers ==
    ASSUME NEW q \in BufferState, q.pending # <<>>, q.gaps # {}, NEW e \in Envelope,
           Remembers(q, e)
    PROVE  Remembers(Attached(q), e)
<1> DEFINE L == Len(q.pending)
           h == [q.pending[1] EXCEPT !.gaps = q.gaps, !.span = q.span]
           p == [q.pending EXCEPT ![1] = h]
           r == Attached(q)
<1>0. /\ L \in Nat /\ 1 \in 1..L
      /\ q.pending \in Seq(Envelope) /\ q.pending[1] \in Envelope
  BY QueueParts
<1>1. r.next = q.next /\ r.pending = p
  BY DEF Attached, BufferState
<1>2. Len(p) = L /\ p[1] = h /\ \A i \in 2..L : p[i] = q.pending[i]
  BY <1>0
<1>3. h.seq = q.pending[1].seq
  BY <1>0 DEF Envelope
<1>4. \A i \in 1..L : p[i].seq = q.pending[i].seq
  <2>1. \A i \in 1..L : i = 1 \/ i \in 2..L
    BY <1>0
  <2> HIDE DEF p, h
  <2> QED
    BY <1>2, <1>3, <2>1
<1> HIDE DEF p, r, h
<1> QED
  BY <1>1, <1>2, <1>4 DEF Remembers, r

LEMMA AcknowledgedRemembers ==
    ASSUME NEW q \in BufferState, q.pending # <<>>, NEW e \in Envelope, Remembers(q, e)
    PROVE  Remembers(Acknowledged(q), e)
<1> DEFINE L == Len(q.pending)
           p == Tail(q.pending)
           r == Acknowledged(q)
<1>0. L \in Nat /\ 1 \in 1..L
  BY QueueParts
<1>1. r.next = q.next /\ r.pending = p /\ r.gaps = q.gaps
  BY DEF Acknowledged, BufferState
<1>2. Len(p) = L - 1 /\ \A i \in 1..(L - 1) : p[i] = q.pending[i + 1] /\ i + 1 \in 1..L
  BY <1>0, QueueParts
<1>3. \A i \in 1..(L - 1) : p[i].seq # e.seq
  BY <1>0, <1>2 DEF Remembers
<1> HIDE DEF p, r
<1> QED
  BY <1>1, <1>2, <1>3 DEF Remembers, r

(* The head of a queue with nothing to attach may leave: it is remembered. *)
LEMMA HeadRemembered ==
    ASSUME NEW q \in BufferState, Shape(q), q.pending # <<>>, q.gaps = {}
    PROVE  q.pending[1] \in Envelope /\ Remembers(q, q.pending[1])
<1> DEFINE L == Len(q.pending)
<1>0. /\ L \in Nat /\ 1 \in 1..L /\ q.next \in Nat
      /\ q.pending[1] \in Envelope
  BY QueueParts
<1>1. \A i \in 1..L : q.pending[i].seq = q.next - 1 - L + i
  BY DEF Shape
<1>2. q.pending[1].seq = q.next - L
  BY <1>0, <1>1
<1>3. \A i \in 1..L : q.pending[i].seq = q.pending[1].seq => i = 1
  BY <1>0, <1>1, <1>2
<1> QED
  BY <1>0, <1>2, <1>3 DEF Remembers

LEMMA FollowsItself ==
    ASSUME NEW q
    PROVE  Follows(q, q)
BY DEF Follows

(* What each operation makes of a queue follows it. *)
LEMMA OperationsFollow ==
    ASSUME NEW q \in BufferState
    PROVE  /\ \A t \in Instant : \A k \in 0..Len(Enqueued(t, q).pending) :
                 Follows(q, Enforce(Enqueued(t, q), k))
           /\ \A k \in 0..Len(q.pending) :
                 Follows(q, Enforce(q, k)) /\ Enforce(q, k).next = q.next
           /\ q.pending # <<>> /\ q.gaps # {} => Follows(q, Attached(q))
           /\ q.pending # <<>> => Follows(q, Acknowledged(q))
           /\ \A v \in DeliveryStates : Follows(q, [q EXCEPT !.delivery = v])
<1>1. ASSUME NEW t \in Instant, NEW k \in 0..Len(Enqueued(t, q).pending)
      PROVE  Follows(q, Enforce(Enqueued(t, q), k))
  <2>1. Enqueued(t, q) \in BufferState
    BY EnqueuedType
  <2>2. \A e \in Envelope : Remembers(q, e) => Remembers(Enforce(Enqueued(t, q), k), e)
    BY <2>1, EnqueuedRemembers, EnforceRemembers
  <2>3. Enforce(Enqueued(t, q), k).next = Enqueued(t, q).next
    BY <2>1 DEF Enforce, BufferState
  <2>4. Enqueued(t, q).next = q.next + 1
    BY DEF Enqueued, BufferState
  <2> QED
    BY <2>2, <2>3, <2>4 DEF Follows
<1>2. ASSUME NEW k \in 0..Len(q.pending)
      PROVE  Follows(q, Enforce(q, k)) /\ Enforce(q, k).next = q.next
  <2>1. Enforce(q, k).next = q.next
    BY DEF Enforce, BufferState
  <2> QED
    BY <2>1, EnforceRemembers DEF Follows
<1>3. ASSUME q.pending # <<>>, q.gaps # {}
      PROVE  Follows(q, Attached(q))
  <2>1. Attached(q).next = q.next
    BY DEF Attached, BufferState
  <2> QED
    BY <1>3, <2>1, AttachedRemembers DEF Follows
<1>4. ASSUME q.pending # <<>>
      PROVE  Follows(q, Acknowledged(q))
  <2>1. Acknowledged(q).next = q.next
    BY DEF Acknowledged, BufferState
  <2> QED
    BY <1>4, <2>1, AcknowledgedRemembers DEF Follows
<1>5. ASSUME NEW v \in DeliveryStates
      PROVE  Follows(q, [q EXCEPT !.delivery = v])
  BY DEF Follows, Remembers, BufferState
<1> QED
  BY <1>1, <1>2, <1>3, <1>4, <1>5

(* A step of the Daemon's queue: the file follows the memory, every state the
   machine may go on from remembers what the former ones did, and at most one
   collection is numbered. *)
QueuesMove ==
    /\ running' => Follows(memory', disk')
    /\ \A e \in Envelope : (\A q \in Queues : Remembers(q, e))
                              => (\A q \in Queues' : Remembers(q, e))
    /\ Working'.next \in {Working.next, Working.next + 1}

LEMMA CommitMoves ==
    ASSUME running = TRUE, running' = TRUE, Follows(memory, disk), NEW q, Follows(memory, q),
           CommitOk(q) \/ CommitFails(q)
    PROVE  QueuesMove
<1>1. \/ memory' = q /\ disk' = q
      \/ memory' = memory /\ (disk' = disk \/ disk' = q)
  BY DEF CommitOk, CommitFails
<1>2. Follows(memory', disk')
  BY <1>1, FollowsItself
<1>3. Queues = {memory, disk} /\ Queues' = {memory', disk'}
  BY DEF Queues
<1>4. Working = memory /\ Working' = memory'
  BY DEF Working
<1>5. ASSUME NEW e \in Envelope, \A r \in Queues : Remembers(r, e)
      PROVE  \A r \in Queues' : Remembers(r, e)
  <2>1. Remembers(memory, e) /\ Remembers(disk, e) /\ Remembers(q, e)
    BY <1>3, <1>5 DEF Follows
  <2> QED
    BY <1>1, <1>3, <2>1
<1>6. Working'.next \in {Working.next, Working.next + 1}
  BY <1>1, <1>4 DEF Follows
<1> QED
  BY <1>2, <1>5, <1>6 DEF QueuesMove

LEMMA StillMoves ==
    ASSUME running => Follows(memory, disk), UNCHANGED <<memory, disk, running>>
    PROVE  QueuesMove
BY DEF QueuesMove, Queues, Working

LEMMA QueueMoves ==
    ASSUME TypeOK, running => Follows(memory, disk), [Next]_vars
    PROVE  QueuesMove
<1>0. memory \in BufferState /\ disk \in BufferState /\ running \in BOOLEAN
  BY DEF TypeOK
<1>1. ASSUME running, UNCHANGED running, NEW q, Follows(memory, q),
             CommitOk(q) \/ CommitFails(q)
      PROVE  QueuesMove
  BY <1>0, <1>1, CommitMoves
<1>2. CASE Collect
  <2>1. PICK t \in Instant : Enqueue(t)
    BY <1>2 DEF Collect
  <2>2. PICK k \in 0..Len(Enqueued(t, memory).pending) :
            \/ CommitOk(Enforce(Enqueued(t, memory), k))
            \/ CommitFails(Enforce(Enqueued(t, memory), k))
    BY <2>1 DEF Enqueue, DropCounts
  <2>3. Follows(memory, Enforce(Enqueued(t, memory), k)) /\ running /\ UNCHANGED running
    BY <1>0, <2>1, OperationsFollow DEF Enqueue
  <2> QED
    BY <1>1, <2>2, <2>3
<1>3. CASE SendPeek \/ SendPeekFails
  <2>1. running /\ UNCHANGED running /\ memory.pending # <<>>
    BY <1>3 DEF SendPeek, SendPeekFails, PeekOk, PeekFails
  <2>2. CASE memory.gaps = {}
    BY <1>3, <2>1, <2>2, StillMoves
    DEF SendPeek, SendPeekFails, PeekOk, PeekFails, PeekAttaches, CommitOk
  <2>3. CASE memory.gaps # {}
    <3>1. Follows(memory, Attached(memory))
      BY <1>0, <2>1, <2>3, OperationsFollow
    <3>2. CommitOk(Attached(memory)) \/ CommitFails(Attached(memory))
      BY <1>3, <2>3 DEF SendPeek, SendPeekFails, PeekOk, PeekFails, PeekAttaches
    <3> QED
      BY <1>1, <2>1, <3>1, <3>2
  <2> QED
    BY <2>2, <2>3
<1>4. CASE SendAcknowledge \/ SendAcknowledgeFails
  <2>1. running /\ UNCHANGED running
    BY <1>4 DEF SendAcknowledge, SendAcknowledgeFails, AcknowledgeOk, AcknowledgeFails
  <2>2. CASE Acknowledges(sent.seq)
    <3>1. Follows(memory, Acknowledged(memory))
      BY <1>0, <2>2, OperationsFollow DEF Acknowledges
    <3>2. CommitOk(Acknowledged(memory)) \/ CommitFails(Acknowledged(memory))
      BY <1>4, <2>2
      DEF SendAcknowledge, SendAcknowledgeFails, AcknowledgeOk, AcknowledgeFails
    <3> QED
      BY <1>1, <2>1, <3>1, <3>2
  <2>3. CASE ~Acknowledges(sent.seq)
    BY <1>4, <2>1, <2>3, StillMoves
    DEF SendAcknowledge, SendAcknowledgeFails, AcknowledgeOk, AcknowledgeFails
  <2> QED
    BY <2>2, <2>3
<1>5. CASE SendRecovered \/ SendFailed
  <2>1. PICK v \in DeliveryStates : SetDeliveryStateOk(v) \/ SetDeliveryStateFails(v)
    BY <1>5 DEF SendRecovered, SendFailed, DeliveryStates
  <2>2. running /\ UNCHANGED running
    BY <2>1 DEF SetDeliveryStateOk, SetDeliveryStateFails
  <2>3. CASE memory.delivery = v
    BY <2>1, <2>2, <2>3, StillMoves DEF SetDeliveryStateOk, SetDeliveryStateFails
  <2>4. CASE memory.delivery # v
    <3>1. Follows(memory, [memory EXCEPT !.delivery = v])
      BY <1>0, OperationsFollow
    <3>2. \/ CommitOk([memory EXCEPT !.delivery = v])
          \/ CommitFails([memory EXCEPT !.delivery = v])
      BY <2>1, <2>4 DEF SetDeliveryStateOk, SetDeliveryStateFails
    <3> QED
      BY <1>1, <2>2, <3>1, <3>2
  <2> QED
    BY <2>3, <2>4
<1>6. CASE DaemonStops
  BY <1>6 DEF DaemonStops, Stop, QueuesMove, Queues, Working, Follows
<1>7. CASE DaemonOpens
  <2>1. PICK k \in 0..Len(disk.pending) :
            \/ CommitOk(Enforce(disk, k)) /\ running' = TRUE
            \/ CommitFails(Enforce(disk, k)) /\ UNCHANGED running
    BY <1>7 DEF DaemonOpens, Open, DropCounts
  <2>2. Follows(disk, Enforce(disk, k)) /\ Enforce(disk, k).next = disk.next
    BY <1>0, OperationsFollow
  <2>3. ~running
    BY <1>7 DEF DaemonOpens, Open
  <2>4. disk' \in {disk, Enforce(disk, k)} /\ (running' => memory' = disk')
    BY <2>1, <2>3 DEF CommitOk, CommitFails
  <2>5. Queues = {disk} /\ Queues' = {disk'} /\ Working = disk /\ Working' = disk'
    BY <2>3, <2>4 DEF Queues, Working
  <2>6. \A e \in Envelope : Remembers(disk, e) => Remembers(disk', e)
    BY <2>2, <2>4 DEF Follows
  <2>7. running' => Follows(memory', disk')
    BY <2>4, FollowsItself
  <2>8. disk'.next = disk.next
    BY <2>2, <2>4
  <2> QED
    BY <2>5, <2>6, <2>7, <2>8 DEF QueuesMove
<1>8. CASE \/ Receive \/ ReceiveRefused \/ ReceiveLate \/ SendTimeout \/ LoseLate
           \/ RelayRestarts \/ UNCHANGED vars
  BY <1>8, StillMoves
  DEF Receive, ReceiveRefused, ReceiveLate, SendTimeout, LoseLate, RelayRestarts, vars,
      bufferVars
<1> QED
  BY <1>2, <1>3, <1>4, <1>5, <1>6, <1>7, <1>8 DEF Next

(* The Relay's two records after a Save: what they hold was on the wire. *)
LEMMA SaveKnows ==
    ASSUME stored \in StoreRecord, storedDisk \in StoreRecord, NEW e \in Envelope,
           RecordsAreKnown, FileIsOneAhead, SaveOk(e) \/ SaveFails(e)
    PROVE  /\ RecordsAreKnown' /\ FileIsOneAhead'
           /\ \A r \in {stored', storedDisk'} :
                 r = stored \/ r = storedDisk \/ r.bytes = e
<1>1. Saved(e).seq = e.seq /\ Saved(e).bytes = e
  BY DEF Saved
<1>2. CASE UNCHANGED storeVars
  BY <1>2 DEF RecordsAreKnown, FileIsOneAhead, storeVars, Saves, Saved
<1>3. CASE Saves(e) /\ stored' = Saved(e) /\ storedDisk' = Saved(e)
  BY <1>1, <1>3 DEF RecordsAreKnown, FileIsOneAhead
<1>4. CASE Saves(e) /\ stored' = stored /\ storedDisk' = Saved(e)
  BY <1>1, <1>4 DEF RecordsAreKnown, FileIsOneAhead, Saves, Saved
<1> QED
  BY <1>2, <1>3, <1>4 DEF SaveOk, SaveFails, storeVars

LEMMA KnownIsTyped ==
    ASSUME TypeOK, RecordsAreKnown
    PROVE  Known \subseteq Envelope
BY DEF TypeOK, RecordsAreKnown, Known, Wire

(* Nothing but Peek puts new bytes on the wire. *)
LEMMA KnownMoves ==
    ASSUME TypeOK, RecordsAreKnown, FileIsOneAhead, [Next]_vars
    PROVE  /\ RecordsAreKnown' /\ FileIsOneAhead'
           /\ ~SendPeek => Known' \subseteq Known
           /\ SendPeek => Known' \subseteq Known \cup {sent'}
<1>1. CASE UNCHANGED storeVars
  <2>1. RecordsAreKnown' /\ FileIsOneAhead'
    BY <1>1 DEF RecordsAreKnown, FileIsOneAhead, storeVars, Saves, Saved
  <2>2. /\ ~SendPeek => Wire' \subseteq Wire
        /\ SendPeek => Wire' \subseteq Wire \cup {sent'}
    <3>1. CASE SendPeek
      BY <3>1 DEF SendPeek, Wire
    <3>2. CASE Collect \/ DaemonOpens \/ RelayRestarts \/ UNCHANGED vars
      BY <3>2 DEF Collect, DaemonOpens, RelayRestarts, vars, publisherVars, Wire, Awaiting
    <3>3. CASE SendPeekFails
      BY <3>3 DEF SendPeekFails, Wire, Awaiting
    <3>4. CASE Receive \/ ReceiveRefused
      BY <3>4 DEF Receive, ReceiveRefused, Wire, Awaiting
    <3>5. CASE ReceiveLate \/ LoseLate
      BY <3>5 DEF ReceiveLate, LoseLate, Wire, Awaiting
    <3>6. CASE SendTimeout
      BY <3>6 DEF SendTimeout, Abandon, Wire, Awaiting
    <3>7. CASE SendAcknowledge \/ SendAcknowledgeFails
      BY <3>7 DEF SendAcknowledge, SendAcknowledgeFails, Wire, Awaiting
    <3>8. CASE SendRecovered \/ SendFailed
      BY <3>8 DEF SendRecovered, SendFailed, Wire, Awaiting
    <3>9. CASE DaemonStops
      BY <3>9 DEF DaemonStops, Abandon, Wire, Awaiting
    <3> QED
      BY <3>1, <3>2, <3>3, <3>4, <3>5, <3>6, <3>7, <3>8, <3>9 DEF Next
  <2> QED
    BY <1>1, <2>1, <2>2 DEF Known, storeVars
<1>2. ASSUME NEW e \in Wire, SaveOk(e) \/ SaveFails(e), Wire' \subseteq Wire, ~SendPeek
      PROVE  RecordsAreKnown' /\ FileIsOneAhead' /\ Known' \subseteq Known
  <2>1. e \in Envelope
    BY DEF TypeOK, Wire
  <2>2. /\ RecordsAreKnown' /\ FileIsOneAhead'
        /\ \A r \in {stored', storedDisk'} : r = stored \/ r = storedDisk \/ r.bytes = e
    BY <1>2, <2>1, SaveKnows DEF TypeOK
  <2> QED
    BY <1>2, <2>2 DEF Known
<1>3. CASE Receive \/ ReceiveRefused
  <2>1. sent \in Wire /\ Wire' \subseteq Wire /\ ~SendPeek
    BY <1>3 DEF Receive, ReceiveRefused, SendPeek, Wire, Awaiting
  <2> QED
    BY <1>2, <1>3, <2>1 DEF Receive, ReceiveRefused
<1>4. CASE ReceiveLate
  <2>1. PICK e \in late : /\ SaveOk(e) \/ SaveFails(e)
                          /\ late' = late \ {e} /\ UNCHANGED <<bufferVars, phase, sent>>
    BY <1>4 DEF ReceiveLate
  <2>2. e \in Wire /\ Wire' \subseteq Wire
    BY <2>1 DEF Wire, Awaiting
  <2>3. CASE SendPeek
    BY <2>1, <2>3 DEF SendPeek
  <2> QED
    BY <1>2, <2>1, <2>2, <2>3
<1>5. CASE RelayRestarts
  <2>1. stored' = storedDisk /\ storedDisk' = storedDisk /\ UNCHANGED <<phase, sent, late>>
    BY <1>5 DEF RelayRestarts, RelayRestart, publisherVars
  <2>2. Wire' = Wire
    BY <2>1 DEF Wire, Awaiting
  <2>3. RecordsAreKnown' /\ FileIsOneAhead'
    BY <2>1 DEF RecordsAreKnown, FileIsOneAhead
  <2>4. Known' \subseteq Known
    BY <2>1, <2>2 DEF Known
  <2> QED
    BY <2>3, <2>4
<1> QED
  BY <1>1, <1>3, <1>4, <1>5
  DEF Next, vars, storeVars, Collect, SendPeek, SendPeekFails, SendTimeout, LoseLate,
      SendAcknowledge, SendAcknowledgeFails, SendRecovered, SendFailed, DaemonStops,
      DaemonOpens

LEMMA WireStep ==
    ASSUME TypeOK, TypeOK', QueueInv, QueueInv', WireInv, [Next]_vars
    PROVE  WireInv'
<1>1. QueuesMove
  BY QueueMoves DEF WireInv
<1>2. /\ RecordsAreKnown' /\ FileIsOneAhead'
      /\ ~SendPeek => Known' \subseteq Known
      /\ SendPeek => Known' \subseteq Known \cup {sent'}
  BY KnownMoves DEF WireInv
<1>3. Known \subseteq Envelope
  BY KnownIsTyped DEF WireInv
<1>4. \A e \in Known : \A q \in Queues' : Remembers(q, e)
  BY <1>1, <1>3 DEF QueuesMove, WireInv
<1>5. CASE ~SendPeek
  BY <1>1, <1>2, <1>4, <1>5 DEF QueuesMove, WireInv
<1>6. CASE SendPeek
  <2>1. /\ running' /\ memory'.gaps = {} /\ memory'.pending # <<>>
        /\ memory' \in BufferState /\ Shape(memory')
        /\ sent' = Head(memory'.pending)
    <3>1. running' /\ sent' = Head(memory'.pending) /\ memory' \in BufferState
      BY <1>6 DEF SendPeek, PeekOk, TypeOK
    <3>2. memory'.gaps = {} /\ memory'.pending # <<>>
      <4>1. CASE memory.gaps = {}
        BY <1>6, <4>1 DEF SendPeek, PeekOk, PeekAttaches
      <4>2. CASE memory.gaps # {}
        <5>1. memory' = Attached(memory) /\ memory.pending # <<>> /\ memory \in BufferState
          BY <1>6, <4>2 DEF SendPeek, PeekOk, PeekAttaches, CommitOk, TypeOK
        <5>2. Attached(memory).gaps = {}
          BY <5>1 DEF Attached, BufferState
        <5> QED
          BY <5>1, <5>2, AttachedType
      <4> QED
        BY <4>1, <4>2
    <3>3. Shape(memory')
      BY DEF QueueInv, Sound, Shape
    <3> QED
      BY <3>1, <3>2, <3>3
  <2>2. sent' = memory'.pending[1] /\ sent' \in Envelope /\ Remembers(memory', sent')
    <3>1. Head(memory'.pending) = memory'.pending[1]
      BY <2>1, QueueParts
    <3> QED
      BY <2>1, <3>1, HeadRemembered
  <2>3. \A q \in Queues' : Remembers(q, sent')
    <3>1. Queues' = {memory', disk'}
      BY <2>1 DEF Queues
    <3>2. Remembers(disk', sent')
      BY <1>1, <2>1, <2>2 DEF QueuesMove, Follows
    <3> QED
      BY <2>2, <3>1, <3>2
  <2>4. \A e \in Known : e.seq = sent'.seq => e = sent'
    <3>1. memory' \in Queues' /\ 1 \in 1..Len(memory'.pending)
      BY <2>1, QueueParts DEF Queues
    <3> QED
      BY <1>4, <2>2, <3>1 DEF Remembers
  <2>5. \A e \in Known' : \A q \in Queues' : Remembers(q, e)
    BY <1>2, <1>4, <1>6, <2>3
  <2>6. \A e, f \in Known' : e.seq = f.seq => e = f
    BY <1>2, <1>6, <2>4 DEF WireInv
  <2> QED
    BY <1>1, <1>2, <2>5, <2>6 DEF QueuesMove, WireInv
<1> QED
  BY <1>5, <1>6

(* WireInv is inductive: every queue a crash can bring back still remembers
   each unsettled envelope it sent, as it sent it (Buffer.Commit and Peek). *)
THEOREM WireInvariant == Spec => []WireInv
<1>1. Init => WireInv
  <2> SUFFICES ASSUME Init PROVE WireInv
    OBVIOUS
  <2>1. /\ memory = disk /\ stored = storedDisk /\ stored.seq = 0 /\ phase = "idle"
        /\ late = {}
    BY DEF Init, BufferInit, StoreInit, Nothing
  <2>2. Known = {}
    BY <2>1 DEF Known, Wire, Awaiting
  <2> QED
    BY <2>1, <2>2, FollowsItself DEF WireInv, RecordsAreKnown, FileIsOneAhead
<1>2. TypeOK /\ TypeOK' /\ QueueInv /\ QueueInv' /\ WireInv /\ [Next]_vars => WireInv'
  BY WireStep
<1> QED
  BY <1>1, <1>2, TypeCorrect, QueueInvariant, PTL DEF Spec

(* Two requests that carry one sequence are equal, and equal to what the Relay
   holds of it, across retries, failed writes, crashes and restarts: Save never
   meets a collision (Buffer.Peek, ObservationStore.Save). *)
THEOREM BytesAreImmutable == Spec => []ImmutableBytes
<1>1. TypeOK /\ WireInv => ImmutableBytes
  <2> SUFFICES ASSUME TypeOK, WireInv, NEW e \in Wire
               PROVE  /\ \A f \in Wire : e.seq = f.seq => e = f
                      /\ e.seq = stored.seq => e = stored.bytes
    BY DEF ImmutableBytes
  <2>1. Wire \subseteq Known /\ e \in Envelope
    BY DEF Known, TypeOK, Wire
  <2>2. e.seq = stored.seq => e = stored.bytes
    <3> SUFFICES ASSUME e.seq = stored.seq PROVE e = stored.bytes
      OBVIOUS
    <3>1. stored.seq # 0
      BY <2>1 DEF Envelope
    <3>2. stored.bytes \in Known /\ stored.bytes.seq = e.seq
      BY <3>1 DEF Known, WireInv, RecordsAreKnown
    <3> QED
      BY <2>1, <3>2 DEF WireInv
  <2> QED
    BY <2>1, <2>2 DEF WireInv
<1> QED
  BY <1>1, TypeCorrect, WireInvariant, PTL

-----------------------------------------------------------------------------
(* A Save settles the sequence it accepts, and as lost all that it skips. *)
LEMMA SaveSettles ==
    ASSUME TypeOK, Accounts(stored), NEW e \in Envelope, Saves(e), e.seq < Working.next,
           Working.next \in Nat, stored' = Saved(e), Working' = Working
    PROVE  Ledger!Settle
<1>1. /\ stored.seq \in Nat /\ e.seq \in Nat \ {0} /\ e.seq > stored.seq
      /\ e.gaps = (stored.seq + 1)..(e.seq - 1)
  BY DEF TypeOK, StoreRecord, Envelope, Saves, GapsMatchSkippedRange
<1>2. /\ stored'.gaps = stored.gaps \cup e.gaps
      /\ stored'.accepted = stored.accepted \cup {e.seq}
  BY DEF Saved
<1>3. stored.accepted \cup stored.gaps = 1..stored.seq
  BY DEF Accounts
<1>4. e.seq \in 1..(Working.next - 1)
  BY <1>1
<1>5. \A m \in stored.accepted \cup stored.gaps : m < e.seq
  BY <1>1, <1>3
<1>6. e.gaps = {m \in 1..(e.seq - 1) : m \notin stored.accepted \cup stored.gaps}
  BY <1>1, <1>3
<1> QED
  BY <1>2, <1>4, <1>5, <1>6 DEF Ledger!Settle, Ledger!Settled

LEMMA LedgerStep ==
    ASSUME TypeOK, RelayInv, WireInv, [Next]_vars
    PROVE  [Ledger!Next]_(Ledger!ledgerVars)
<1>1. Working'.next \in {Working.next, Working.next + 1} /\ Working.next \in Nat
  <2>1. Working \in BufferState
    BY DEF Working, TypeOK
  <2> QED
    BY <2>1, QueueMoves, QueueParts DEF WireInv, QueuesMove
<1>2. CASE UNCHANGED stored
  <2>1. CASE Working'.next = Working.next
    BY <1>2, <2>1 DEF Ledger!ledgerVars
  <2>2. CASE Working'.next = Working.next + 1
    <3>1. Working'.next - 1 = (Working.next - 1) + 1
      BY <1>1, <2>2
    <3> QED
      BY <1>2, <3>1 DEF Ledger!Next, Ledger!Number
  <2> QED
    BY <1>1, <2>1, <2>2
<1>3. ASSUME NEW e \in Known, Saves(e), stored' = Saved(e), UNCHANGED bufferVars
      PROVE  Ledger!Next
  <2>1. e \in Envelope
    BY KnownIsTyped DEF WireInv
  <2>2. Working \in Queues /\ Working' = Working
    BY <1>3 DEF Working, Queues, bufferVars
  <2>3. e.seq < Working.next
    BY <2>2 DEF WireInv, Remembers
  <2> QED
    BY <1>1, <1>3, <2>1, <2>2, <2>3, SaveSettles DEF RelayInv, Ledger!Next
<1>4. CASE Receive \/ ReceiveRefused
  <2>1. sent \in Known /\ UNCHANGED bufferVars
    BY <1>4 DEF Receive, ReceiveRefused, Known, Wire, Awaiting
  <2>2. UNCHANGED stored \/ (Saves(sent) /\ stored' = Saved(sent))
    BY <1>4 DEF Receive, ReceiveRefused, SaveOk, SaveFails, storeVars
  <2> QED
    BY <1>2, <1>3, <2>1, <2>2
<1>5. CASE ReceiveLate
  <2>1. PICK e \in late : (SaveOk(e) \/ SaveFails(e)) /\ UNCHANGED bufferVars
    BY <1>5 DEF ReceiveLate
  <2>2. e \in Known
    BY DEF Known, Wire
  <2>3. UNCHANGED stored \/ (Saves(e) /\ stored' = Saved(e))
    BY <2>1 DEF SaveOk, SaveFails, storeVars
  <2> QED
    BY <1>2, <1>3, <2>1, <2>2, <2>3
<1>6. CASE RelayRestarts
  <2>1. stored' = storedDisk /\ UNCHANGED bufferVars
    BY <1>6 DEF RelayRestarts, RelayRestart
  <2>2. CASE storedDisk = stored
    BY <1>2, <2>1, <2>2
  <2>3. CASE storedDisk # stored
    <3>1. Saves(storedDisk.bytes) /\ storedDisk = Saved(storedDisk.bytes)
      BY <2>3 DEF WireInv, FileIsOneAhead
    <3>2. storedDisk.seq # 0
      <4>1. storedDisk.seq > stored.seq /\ stored.seq \in Nat
        BY <3>1 DEF Saves, Saved, TypeOK, StoreRecord
      <4> QED
        BY <4>1
    <3>3. storedDisk.bytes \in Known
      BY <3>2 DEF Known
    <3> QED
      BY <1>3, <2>1, <3>1, <3>3
  <2> QED
    BY <2>2, <2>3
<1> QED
  BY <1>2, <1>4, <1>5, <1>6
  DEF Next, vars, storeVars, Collect, SendPeek, SendPeekFails, SendTimeout, LoseLate,
      SendAcknowledge, SendAcknowledgeFails, SendRecovered, SendFailed, DaemonStops,
      DaemonOpens

(* The chain implements the abstract ledger: whatever is dropped, repeated,
   late, half-written or restarted, collections are settled in order and once
   each, as accepted or as lost (buffer.go and observation_store.go together). *)
THEOREM DeliveryImplementsLedger == Spec => ImplementsLedger
<1>1. Init => Ledger!Init
  BY DEF Init, BufferInit, StoreInit, FreshState, Nothing, Working, Ledger!Init
<1>2. TypeOK /\ RelayInv /\ WireInv /\ [Next]_vars => [Ledger!Next]_(Ledger!ledgerVars)
  BY LedgerStep
<1> QED
  BY <1>1, <1>2, TypeCorrect, RelayInvariant, WireInvariant, PTL
  DEF Spec, ImplementsLedger, Ledger!Spec
=============================================================================
