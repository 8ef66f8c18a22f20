---------------------------- MODULE DaemonBuffer ----------------------------
(***************************************************************************)
(* The Daemon's durable observation queue (internal/buffer/buffer.go).     *)
(*                                                                         *)
(* The queue is one state record, published as a whole: `memory` is the    *)
(* copy the running process works on, `disk` is what the next Open would   *)
(* read.  A gap list is kept sorted and merged by addGap, and what a queue *)
(* has lost is one run of sequences: it is represented by the set of those *)
(* sequences and the span of time the merged gap declares for them.        *)
(***************************************************************************)
EXTENDS Integers, Sequences

CONSTANTS Instant,      \* what the clock may show when a collection is stamped
          MaxRecords,   \* Limits.MaxRecords
          MaxSequence   \* bound: collections one behaviour may number

ASSUME BufferAssumption ==
    /\ MaxRecords \in Nat \ {0}
    /\ MaxSequence \in Nat
    /\ Instant \subseteq Int
    /\ Instant # {}

VARIABLES memory,   \* Buffer.state of the running Daemon
          disk,     \* observation-buffer.json
          running   \* the Daemon process is alive and has opened the queue

bufferVars == <<memory, disk, running>>

DeliveryStates == {"unknown", "available", "unavailable"}

(* Gap.FirstObservedAt and Gap.LastObservedAt. *)
Span == [from : Int, to : Int]

NoSpan == [from |-> 0, to |-> 0]

Envelope == [seq : Nat \ {0}, at : Instant, gaps : SUBSET Nat, span : Span]

BufferState == [next : Nat \ {0}, pending : Seq(Envelope), gaps : SUBSET Nat,
                span : Span, delivery : DeliveryStates]

FreshState == [next |-> 1, pending |-> <<>>, gaps |-> {}, span |-> NoSpan,
               delivery |-> "unknown"]

(* Gap.Validate: a gap that ends before it begins is refused.  The clock may
   have been set back between the two records. *)
InOrder(gaps, span) == gaps # {} => span.from <= span.to

(* Envelope.Validate, which Encode and validateState call. *)
ValidEnvelope(e) == /\ \A g \in e.gaps : 0 < g /\ g < e.seq
                    /\ InOrder(e.gaps, e.span)

(* Mutant: dropOldest forgets the gaps its victim was carrying. *)
DroppedByForgetting(q, k) == {q.pending[i].seq : i \in 1..k}

(***************************************************************************)
(* enforce, with the dropOldest and addGap it calls: the k oldest waiting  *)
(* envelopes leave, and what they declared lost is declared lost with      *)
(* them.  The record limit forces a least k; the age and the byte limit    *)
(* may ask for more, which is the caller's choice of k.  The merged gap    *)
(* begins where the oldest loss did and ends at the last envelope dropped. *)
(***************************************************************************)
DroppedBy(q, k) ==
    UNION {q.pending[i].gaps \cup {q.pending[i].seq} : i \in 1..k}

LostSince(q) ==
    IF q.gaps # {} THEN q.span.from
    ELSE IF q.pending[1].gaps # {} THEN q.pending[1].span.from
    ELSE q.pending[1].at

DroppedSpan(q, k) ==
    IF k = 0 THEN q.span ELSE [from |-> LostSince(q), to |-> q.pending[k].at]

Enforce(q, k) ==
    [q EXCEPT !.pending = SubSeq(q.pending, k + 1, Len(q.pending)),
              !.gaps = q.gaps \cup DroppedBy(q, k),
              !.span = DroppedSpan(q, k)]

DropCounts(q) == {k \in 0..Len(q.pending) : Len(q.pending) - k <= MaxRecords}

(***************************************************************************)
(* commit and persistState.  Success publishes the candidate on disk, then *)
(* in memory.  An error returned before the rename leaves both alone; one  *)
(* returned after it (the fsync of the directory) leaves the candidate on  *)
(* disk while memory keeps the old state.  A rename whose fsync failed may *)
(* still be undone by a power loss: that is the first case again.          *)
(***************************************************************************)
CommitOk(q) == /\ memory' = q
               /\ disk' = q

(* Mutant: memory moves on although the write failed. *)
CommitFailsPublished(q) == memory' = q /\ disk' = disk

CommitFails(q) == /\ memory' = memory
                  /\ disk' \in {disk, q}

-----------------------------------------------------------------------------
BufferInit == /\ memory = FreshState
              /\ disk = FreshState
              /\ running = TRUE

(* Collector.CollectOnce: Buffer.Enqueue numbers one collection, stamps it with
   the wall clock, appends it and enforces the limits in the same durable
   write.  The new envelope is never dropped by its own write: it has age zero,
   and twice its largest encoding (4096 bytes, as Current and as Pending) is
   below the smallest MaxBytes that validateLimits admits. *)
Collected(n, t) == [seq |-> n, at |-> t, gaps |-> {}, span |-> NoSpan]

Enqueued(t, q) == [q EXCEPT !.next = q.next + 1,
                            !.pending = Append(q.pending, Collected(q.next, t))]

Enqueue(t) ==
    /\ running
    /\ memory.next <= MaxSequence
    /\ LET q == Enqueued(t, memory)
       IN  \E k \in DropCounts(q) \ {Len(q.pending)} :
               CommitOk(Enforce(q, k)) \/ CommitFails(Enforce(q, k))
    /\ UNCHANGED running

(* Buffer.Peek: the gap waiting for a carrier is attached to the oldest
   envelope, durably, before its bytes may leave; then the envelope is
   encoded, which fails for ever when its gap ends before it begins. *)
Attached(q) == [q EXCEPT !.pending[1] = [@ EXCEPT !.gaps = q.gaps, !.span = q.span],
                         !.gaps = {},
                         !.span = NoSpan]

PeekAttaches == IF memory.gaps = {} THEN UNCHANGED <<memory, disk>>
                                    ELSE CommitOk(Attached(memory))

PeekOk == /\ running
          /\ memory.pending # <<>>
          /\ PeekAttaches
          /\ ValidEnvelope(memory'.pending[1])
          /\ UNCHANGED running

PeekFails == /\ running
             /\ memory.pending # <<>>
             /\ \/ memory.gaps # {} /\ CommitFails(Attached(memory))
                \/ PeekAttaches /\ ~ValidEnvelope(memory'.pending[1])
             /\ UNCHANGED running

(* Buffer.Acknowledge: only the exact oldest sequence is removed. *)
Acknowledges(n) == memory.pending # <<>> /\ Head(memory.pending).seq = n

Acknowledged(q) == [q EXCEPT !.pending = Tail(q.pending)]

AcknowledgeOk(n) == /\ running
                    /\ Acknowledges(n)
                    /\ CommitOk(Acknowledged(memory))
                    /\ UNCHANGED running

AcknowledgeFails(n) == /\ running
                       /\ IF Acknowledges(n) THEN CommitFails(Acknowledged(memory))
                                             ELSE UNCHANGED <<memory, disk>>
                       /\ UNCHANGED running

(* Buffer.SetDeliveryState: persists a real transition only. *)
SetDeliveryStateOk(value) ==
    /\ running
    /\ IF memory.delivery = value THEN UNCHANGED <<memory, disk>>
                                  ELSE CommitOk([memory EXCEPT !.delivery = value])
    /\ UNCHANGED running

SetDeliveryStateFails(value) ==
    /\ running
    /\ memory.delivery # value
    /\ CommitFails([memory EXCEPT !.delivery = value])
    /\ UNCHANGED running

(* The process dies (or is stopped): its memory is gone. *)
Stop == /\ running
        /\ running' = FALSE
        /\ memory' = FreshState
        /\ UNCHANGED disk

(* Buffer.openAt: validateState, enforce, commit.  A failed commit keeps the
   Daemon down. *)
ValidState(q) ==
    /\ \A i \in 1..Len(q.pending) :
           /\ q.pending[i].seq < q.next
           /\ \A j \in 1..(i - 1) : q.pending[j].seq < q.pending[i].seq
           /\ ValidEnvelope(q.pending[i])
    /\ \A g \in q.gaps : g > 0
    /\ InOrder(q.gaps, q.span)

Open ==
    /\ ~running
    /\ ValidState(disk)
    /\ \E k \in DropCounts(disk) :
           LET q == Enforce(disk, k)
           IN  \/ CommitOk(q) /\ running' = TRUE
               \/ CommitFails(q) /\ UNCHANGED running

=============================================================================
