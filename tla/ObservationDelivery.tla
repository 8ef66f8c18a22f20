------------------------ MODULE ObservationDelivery ------------------------
(***************************************************************************)
(* One machine's observation chain: the Collector and Publisher goroutines *)
(* of the Daemon (internal/daemon/observer.go) around DaemonBuffer, the    *)
(* network, and the Relay's POST /v0/observations handler                  *)
(* (internal/relay/observation_http.go) around RelayStore.                 *)
(*                                                                         *)
(* A POST the Publisher gave up on may still reach the Relay later: it     *)
(* moves to `late`, from which it is delivered in any order, or lost.      *)
(***************************************************************************)
EXTENDS DaemonBuffer, RelayStore

CONSTANT MaxLate   \* bound: abandoned requests still in the network

ASSUME MaxLateAssumption == MaxLate \in Nat

VARIABLES phase,   \* where Publisher.SendOnce is
          sent,    \* the bytes Peek returned to this SendOnce
          late     \* abandoned requests the network may still deliver

publisherVars == <<phase, sent, late>>
vars == <<memory, disk, running, stored, storedDisk, phase, sent, late>>

Phases == {"idle", "request", "reply", "failed", "acknowledged"}

NoBytes == <<>>

Init == /\ BufferInit
        /\ StoreInit
        /\ phase = "idle"
        /\ sent = NoBytes
        /\ late = {}

-----------------------------------------------------------------------------
(* The Collector, every thirty seconds, whatever the Publisher is doing. *)
Collect == /\ \E t \in Instant : Enqueue(t)
           /\ UNCHANGED <<storeVars, publisherVars>>

(* SendOnce: Peek, then the request is on the wire.  With nothing waiting
   Peek returns io.EOF and SendOnce changes nothing. *)
SendPeek == /\ phase = "idle"
            /\ PeekOk
            /\ phase' = "request"
            /\ sent' = Head(memory'.pending)
            /\ UNCHANGED <<storeVars, late>>

SendPeekFails == /\ phase = "idle"
                 /\ PeekFails
                 /\ phase' = "failed"
                 /\ UNCHANGED <<storeVars, sent, late>>

(* ObservationHandler.receive, for the request the Publisher waits on.  A
   refusal of any kind (authorization, Save) reaches it as a status other
   than 200. *)
Receive == /\ phase = "request"
           /\ SaveOk(sent)
           /\ phase' = "reply"
           /\ UNCHANGED <<bufferVars, sent, late>>

ReceiveRefused == /\ phase = "request"
                  /\ SaveFails(sent)
                  /\ phase' = "failed"
                  /\ UNCHANGED <<bufferVars, sent, late>>

(* ... and for an abandoned request, whose reply nobody reads. *)
ReceiveLate == \E e \in late :
                   /\ SaveOk(e) \/ SaveFails(e)
                   /\ late' = late \ {e}
                   /\ UNCHANGED <<bufferVars, phase, sent>>

(* The request or its answer is lost, or takes longer than the client waits. *)
Abandon(e) == IF phase = "request" THEN late' \in {late, late \cup {e}} ELSE late' = late

SendTimeout == /\ phase \in {"request", "reply"}
               /\ Abandon(sent)
               /\ Cardinality(late') <= MaxLate
               /\ phase' = "failed"
               /\ UNCHANGED <<bufferVars, storeVars, sent>>

LoseLate == \E e \in late : /\ late' = late \ {e}
                            /\ UNCHANGED <<bufferVars, storeVars, phase, sent>>

(* decodeDurableAck accepted the answer: Acknowledge the exact sequence. *)
SendAcknowledge == /\ phase = "reply"
                   /\ AcknowledgeOk(sent.seq)
                   /\ phase' = "acknowledged"
                   /\ UNCHANGED <<storeVars, sent, late>>

SendAcknowledgeFails == /\ phase = "reply"
                        /\ AcknowledgeFails(sent.seq)
                        /\ phase' = "failed"
                        /\ UNCHANGED <<storeVars, sent, late>>

(* SetDeliveryState after the exchange; SendOnce reports a failure to persist
   the recovery as its own error, Publisher.Run only logs the other one. *)
SendRecovered ==
    /\ phase = "acknowledged"
    /\ \/ SetDeliveryStateOk("available") /\ phase' = "idle"
       \/ SetDeliveryStateFails("available") /\ phase' = "failed"
    /\ sent' = NoBytes
    /\ UNCHANGED <<storeVars, late>>

SendFailed ==
    /\ phase = "failed"
    /\ SetDeliveryStateOk("unavailable") \/ SetDeliveryStateFails("unavailable")
    /\ phase' = "idle"
    /\ sent' = NoBytes
    /\ UNCHANGED <<storeVars, late>>

-----------------------------------------------------------------------------
DaemonStops == /\ Stop
               /\ Abandon(sent)
               /\ Cardinality(late') <= MaxLate
               /\ phase' = "idle"
               /\ sent' = NoBytes
               /\ UNCHANGED storeVars

DaemonOpens == Open /\ UNCHANGED <<storeVars, publisherVars>>

RelayRestarts == RelayRestart /\ UNCHANGED <<bufferVars, publisherVars>>

Next == \/ Collect
        \/ SendPeek \/ SendPeekFails
        \/ Receive \/ ReceiveRefused \/ ReceiveLate
        \/ SendTimeout \/ LoseLate
        \/ SendAcknowledge \/ SendAcknowledgeFails
        \/ SendRecovered \/ SendFailed
        \/ DaemonStops \/ DaemonOpens \/ RelayRestarts

Spec == Init /\ [][Next]_vars

-----------------------------------------------------------------------------
Awaiting == phase \in {"request", "reply"}

(* Every request the network may still show the Relay. *)
Wire == late \cup (IF Awaiting THEN {sent} ELSE {})

(* The queue as the machine would go on with it now. *)
Working == IF running THEN memory ELSE disk

(* The states of the queue the machine can go on from. *)
Queues == {disk} \cup (IF running THEN {memory} ELSE {})

Waiting(q) == {q.pending[i].seq : i \in 1..Len(q.pending)}

Declared(q) == q.gaps \cup UNION {q.pending[i].gaps : i \in 1..Len(q.pending)}

StoreRecord == [seq : Nat, bytes : Envelope \cup {NoBytes}, gaps : SUBSET Nat,
                accepted : SUBSET Nat]

(* Type correctness of both components, the Publisher and the network. *)
TypeOK == /\ memory \in BufferState
          /\ disk \in BufferState
          /\ running \in BOOLEAN
          /\ stored \in StoreRecord
          /\ storedDisk \in StoreRecord
          /\ phase \in Phases
          /\ sent \in IF Awaiting THEN Envelope ELSE Envelope \cup {NoBytes}
          /\ late \subseteq Envelope

(* Buffer.enforce and Save together lose nothing silently: every sequence the
   queue has numbered is still waiting, is in a gap the queue will declare, or
   lies in the range the Relay already answers for. *)
NoSilentLoss ==
    \A q \in Queues : \A n \in 1..(q.next - 1) :
        n \in Waiting(q) \/ n \in Declared(q) \/ n <= stored.seq

(* "Ni le Daemon ni le Relay ne reconstruisent une fausse continuite": below
   the Relay's sequence, each observation was either accepted or declared
   lost, and none is both. *)
RelayAccounting ==
    \A r \in {stored, storedDisk} :
        /\ r.accepted \cup r.gaps = 1..r.seq
        /\ r.accepted \cap r.gaps = {}

(* Buffer.Peek returns immutable bytes: two requests that carry one sequence
   are equal, across retries, failed writes, crashes and restarts, so Save
   never meets a collision. *)
ImmutableBytes ==
    \A e \in Wire : /\ \A f \in Wire : e.seq = f.seq => e = f
                    /\ e.seq = stored.seq => e = stored.bytes

(* The queue is one run of consecutive sequences, and what it declares lost
   has one carrier: the gap list waiting for Peek and the one already attached
   to the oldest envelope are never both present, so Peek overwrites nothing. *)
OneGapCarrier ==
    \A q \in Queues : \A i \in 1..Len(q.pending) :
        /\ q.pending[i].seq = q.next - 1 - Len(q.pending) + i
        /\ q.pending[i].gaps # {} => i = 1 /\ q.gaps = {}

(* The Relay's record only advances, and keeps every loss it was told of. *)
RelayAdvances == [][/\ stored'.seq >= stored.seq
                    /\ stored.gaps \subseteq stored'.gaps
                    /\ stored.accepted \subseteq stored'.accepted]_vars

(* What the chain promises, as an abstract ledger: collections are settled in
   order, each exactly once, as accepted or as lost. *)
Ledger == INSTANCE ObservationLedger
              WITH numbered <- Working.next - 1,
                   accepted <- stored.accepted,
                   lost <- stored.gaps

ImplementsLedger == Ledger!Spec

-----------------------------------------------------------------------------
(* Publisher.Run retries for ever with a bounded delay, its HTTP client has a
   timeout, and systemd restarts the Daemon.  Strong fairness says that
   neither the network, nor a disk, nor crashes make every attempt fail;
   nothing is asked of the Collector. *)
Fairness == /\ SF_vars(SendPeek)
            /\ SF_vars(Receive)
            /\ SF_vars(SendAcknowledge)
            /\ WF_vars(ReceiveRefused \/ SendTimeout \/ SendAcknowledgeFails)
            /\ WF_vars(SendRecovered)
            /\ WF_vars(SendFailed)
            /\ SF_vars(DaemonOpens /\ running')

FairSpec == Spec /\ Fairness

(* The queue declares lost something the Relay has accepted. *)
Contradicted == \E q \in Queues : Declared(q) \cap stored.accepted # {}

(* A gap of the queue ends before it begins: the clock was set back between
   two of the records it stands for. *)
Backwards ==
    \E q \in Queues :
        \/ ~InOrder(q.gaps, q.span)
        \/ \E i \in 1..Len(q.pending) : ~InOrder(q.pending[i].gaps, q.pending[i].span)

(* A queue drains whatever is lost, repeated or interrupted on the way, unless
   it came to declare lost an observation the Relay holds, or holds a gap that
   Gap.Validate refuses. *)
DrainsUnlessStuck ==
    Working.pending # <<>> ~> (Working.pending = <<>> \/ Contradicted \/ Backwards)

(* docs/lab/v0.0.2-observation.md, "Panne, saturation et reprise": "lacune
   persistee puis reprise ordonnee", the queue back to zero. *)
QueueDrains == Working.pending # <<>> ~> Working.pending = <<>>

=============================================================================
