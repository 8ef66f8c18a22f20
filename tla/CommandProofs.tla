--------------------------- MODULE CommandProofs ---------------------------
(***************************************************************************)
(* Two things are proved of the command path, for any number of requests   *)
(* and Auxiliaries, any bound of the registry and any clock.               *)
(*                                                                         *)
(* It drives a machine only through what the machine itself does: hidden   *)
(* behind the Controller, its registry, its requests, restarts and         *)
(* duplicates, every step is a step of MachineApproval or leaves the       *)
(* machine alone.  What is proved here first of a machine that trusts no   *)
(* caller therefore holds of this one.  The only fact about the Controller *)
(* this needs is that what a request carries was signed.                   *)
(*                                                                         *)
(* And what the registry says of a launch is true.  RegistryInv: memory    *)
(* and file hold an open record of every launch under way, and no terminal *)
(* record is lost before the bound is passed.  AttestedInv: what is told   *)
(* as reported was accepted by the machine.  OwnedInv: as long as bytes    *)
(* were accepted once and their client was never cut, a conclusion that    *)
(* denies an effect finds none and none can come after it.                 *)
(***************************************************************************)
EXTENDS CommandPath, TLAPS, FiniteSetTheorems, FunctionTheorems

-----------------------------------------------------------------------------
(* The machine by itself: nothing is accepted out of order, and what was   *)
(* accepted stays spent. The order of `accepted` alone is not inductive.   *)
(* It holds because every accepted envelope is at or behind `synced`,      *)
(* which is at or behind `position`; because a decision was made on the    *)
(* position that is still there when it is written; and that, because only *)
(* the holder of the lock decides or writes.                               *)

(* The lock excludes: a process between acquire and its release holds it. *)
HolderHolds == \A r \in Run : run[r].phase \in {"locked", "decided"} => lock = r

(* What successor saw under the lock is what the write replaces. *)
DecisionIsFresh ==
    \A r \in Run : run[r].phase = "decided" =>
        /\ run[r].current = position
        /\ Successor(position, run[r].envelope)

SyncedIsBehind == ~Before(position, synced)

MachineInv == /\ MachineTypeOK
              /\ HolderHolds
              /\ DecisionIsFresh
              /\ SyncedIsBehind
              /\ AcceptedInOrder
              /\ SpentSurvives

-----------------------------------------------------------------------------

LEMMA EnvelopeNumbers ==
    \A e \in Envelope : /\ e.epoch \in Nat \ {0} /\ e.seq \in Nat \ {0}
                        /\ PositionOf(e) \in Position
BY MachineAssumption DEF PositionOf, Position

(* A successor is strictly after everything the position is not behind. *)
LEMMA SuccessorIsAfter ==
    ASSUME NEW p \in Position, NEW q, q.epoch \in Nat, q.seq \in Nat,
           NEW e, e.epoch \in Nat, e.seq \in Nat,
           Successor(p, e), ~Before(p, q)
    PROVE  /\ Before(q, e)
           /\ ~Before(PositionOf(e), q)
           /\ ~Before(PositionOf(e), e)
           /\ ~Before(PositionOf(e), PositionOf(e))
<1>1. p.epoch \in Nat /\ p.seq \in Nat
  BY DEF Position
<1>2. QED
  BY <1>1 DEF Successor, Before, PositionOf

LEMMA NotBeforeIsTransitive ==
    ASSUME NEW p \in Position, NEW q \in Position,
           NEW e, e.epoch \in Nat, e.seq \in Nat,
           ~Before(p, q), ~Before(q, e)
    PROVE  ~Before(p, e)
<1>1. p.epoch \in Nat /\ p.seq \in Nat /\ q.epoch \in Nat /\ q.seq \in Nat
  BY DEF Position
<1>2. QED
  BY <1>1 DEF Before

(* How a process record may change, by kind of step. *)
LEMMA RunMoves ==
    ASSUME NEW r \in Run, run \in [Run -> RunState], run[r].phase \in Phases,
           NEW phase \in Phases
    PROVE  /\ Moved(r, phase) \in [Run -> RunState]
           /\ Moved(r, phase)[r].phase = phase
           /\ Moved(r, phase)[r].envelope = run[r].envelope
           /\ run[r].envelope \in Envelope
           /\ \A q \in Run \ {r} : Moved(r, phase)[q] = run[q]
<1>1. run[r] \in [phase : Phases, envelope : Envelope, epoch : Epochs, current : Position]
  BY DEF RunState, Idle, Phases
<1>2. [run[r] EXCEPT !.phase = phase]
        \in [phase : Phases, envelope : Envelope, epoch : Epochs, current : Position]
  BY <1>1
<1>3. QED
  BY <1>1, <1>2 DEF Moved, RunState

LEMMA RunEnds ==
    ASSUME NEW r \in Run, run \in [Run -> RunState], run[r].phase \in Phases,
           NEW answer \in Answers
    PROVE  /\ Done(r, answer) \in [Run -> RunState]
           /\ Done(r, answer)[r].phase = "done"
           /\ \A q \in Run \ {r} : Done(r, answer)[q] = run[q]
<1>1. run[r] \in [phase : Phases, envelope : Envelope, epoch : Epochs, current : Position]
  BY DEF RunState, Idle, Phases
<1>2. [phase |-> "done", envelope |-> run[r].envelope, answer |-> answer]
        \in [phase : {"done"}, envelope : Envelope, answer : Answers]
  BY <1>1
<1>3. QED
  BY <1>2 DEF Done, RunState

-----------------------------------------------------------------------------

(* The initial states satisfy the invariant. *)
LEMMA MachineInvInit == MachineInit => MachineInv
<1> SUFFICES ASSUME MachineInit PROVE MachineInv
  OBVIOUS
<1>1. MachineTypeOK
  BY DEF MachineInit, MachineTypeOK, RunState, Position, Unspent, Idle
<1>2. HolderHolds /\ DecisionIsFresh
  BY DEF MachineInit, HolderHolds, DecisionIsFresh, Idle
<1>3. SyncedIsBehind
  BY DEF MachineInit, SyncedIsBehind, Before, Unspent
<1>4. AcceptedInOrder /\ SpentSurvives
  BY DEF MachineInit, AcceptedInOrder, SpentSurvives
<1>5. QED
  BY <1>1, <1>2, <1>3, <1>4 DEF MachineInv

(* What the files say survives a step that writes none of them. *)
LEMMA FilesUntouched ==
    ASSUME MachineInv, UNCHANGED <<position, synced, accepted>>
    PROVE  SyncedIsBehind' /\ AcceptedInOrder' /\ SpentSurvives'
BY DEF MachineInv, SyncedIsBehind, AcceptedInOrder, SpentSurvives, Before

(* What the lock says survives a step after which the processes that are
   under the lock were under it before, in the same state. *)
LEMMA LockUntouched ==
    ASSUME MachineInv, UNCHANGED position,
           \A q \in Run : run'[q].phase \in {"locked", "decided"} =>
                             run'[q] = run[q] /\ lock' = lock
    PROVE  HolderHolds' /\ DecisionIsFresh'
BY DEF MachineInv, HolderHolds, DecisionIsFresh, Successor

(* No two processes are between acquire and release. *)
LEMMA OthersAreOutside ==
    ASSUME MachineInv, NEW r \in Run, run[r].phase \in {"locked", "decided"},
           NEW q \in Run, q # r
    PROVE  run[q].phase \notin {"locked", "decided"}
BY DEF MachineInv, HolderHolds

(* A process that ends releases the lock at most; the files stay. *)
LEMMA EndingKeepsInv ==
    ASSUME MachineInv, NEW r \in Run, run[r].phase \in Phases,
           NEW answer \in Answers, run' = Done(r, answer),
           \/ lock' = lock /\ run[r].phase \notin {"locked", "decided"}
           \/ lock' = NoRun /\ run[r].phase \in {"locked", "decided"}
           \/ lock' = IF lock = r THEN NoRun ELSE lock,
           UNCHANGED <<anchor, position, synced, accepted>>
    PROVE  MachineInv'
<1>1. /\ run' \in [Run -> RunState]
      /\ run'[r].phase = "done"
      /\ \A q \in Run \ {r} : run'[q] = run[q]
  BY RunEnds DEF MachineInv, MachineTypeOK
<1>2. MachineTypeOK'
  BY <1>1 DEF MachineInv, MachineTypeOK
<1>3. ASSUME NEW q \in Run, run'[q].phase \in {"locked", "decided"}
      PROVE  run'[q] = run[q] /\ lock' = lock
  <2>1. q # r /\ run'[q] = run[q]
    BY <1>1, <1>3
  <2>2. lock = q
    BY <1>3, <2>1 DEF MachineInv, HolderHolds
  <2>3. run[r].phase \notin {"locked", "decided"}
    BY <2>1, <2>2 DEF MachineInv, HolderHolds
  <2>4. QED
    BY <2>1, <2>2, <2>3
<1>4. HolderHolds' /\ DecisionIsFresh'
  BY <1>3, LockUntouched
<1>5. QED
  BY <1>2, <1>4, FilesUntouched DEF MachineInv

(* A process that moves outside the lock keeps everything. *)
LEMMA MovingKeepsInv ==
    ASSUME MachineInv, NEW r \in Run, run[r].phase \in Phases,
           NEW phase \in Phases \ {"locked", "decided"},
           run[r].phase \notin {"locked", "decided"}, run' = Moved(r, phase),
           UNCHANGED <<anchor, position, synced, lock, accepted>>
    PROVE  MachineInv'
<1>1. /\ run' \in [Run -> RunState]
      /\ run'[r].phase = phase
      /\ \A q \in Run \ {r} : run'[q] = run[q]
  BY RunMoves DEF MachineInv, MachineTypeOK
<1>2. MachineTypeOK'
  BY <1>1 DEF MachineInv, MachineTypeOK
<1>3. HolderHolds' /\ DecisionIsFresh'
  BY <1>1, LockUntouched
<1>4. QED
  BY <1>2, <1>3, FilesUntouched DEF MachineInv

-----------------------------------------------------------------------------

LEMMA StartKeepsInv ==
    ASSUME MachineInv, NEW r \in Run, NEW e \in Envelope, Start(r, e)
    PROVE  MachineInv'
<1> DEFINE new == [phase |-> "anchored", envelope |-> e, epoch |-> anchor,
                   current |-> Unspent]
<1>1. new \in RunState
  BY DEF MachineInv, MachineTypeOK, RunState, Phases, Unspent, Position
<1>2. run' \in [Run -> RunState] /\ run'[r].phase = "anchored"
      /\ \A q \in Run \ {r} : run'[q] = run[q]
  BY <1>1 DEF Start, MachineInv, MachineTypeOK
<1>3. MachineTypeOK'
  BY <1>2 DEF Start, MachineInv, MachineTypeOK
<1>4. HolderHolds' /\ DecisionIsFresh'
  BY <1>2, LockUntouched DEF Start
<1>5. QED
  BY <1>3, <1>4, FilesUntouched DEF Start, MachineInv

LEMMA AcquireKeepsInv ==
    ASSUME MachineInv, NEW r \in Run, Acquire(r)
    PROVE  MachineInv'
<1>1. run[r].phase \in Phases /\ "locked" \in Phases
  BY DEF Acquire, Phases
<1>2. /\ run' \in [Run -> RunState] /\ run'[r].phase = "locked"
      /\ \A q \in Run \ {r} : run'[q] = run[q]
  BY <1>1, RunMoves DEF Acquire, MachineInv, MachineTypeOK
<1>3. MachineTypeOK'
  BY <1>2 DEF Acquire, MachineInv, MachineTypeOK
<1>4. \A q \in Run \ {r} : run'[q].phase \notin {"locked", "decided"}
  BY <1>2, MachineAssumption DEF Acquire, MachineInv, HolderHolds
<1>5. HolderHolds' /\ DecisionIsFresh'
  BY <1>2, <1>4 DEF Acquire, HolderHolds, DecisionIsFresh
<1>6. QED
  BY <1>3, <1>5, FilesUntouched DEF Acquire, MachineInv

LEMMA DecideKeepsInv ==
    ASSUME MachineInv, NEW r \in Run, Decide(r)
    PROVE  MachineInv'
<1> DEFINE old == run[r]
           new == [run[r] EXCEPT !.phase = "decided", !.current = position]
<1>1. old \in [phase : Phases, envelope : Envelope, epoch : Epochs,
               current : Position]
  BY DEF Decide, MachineInv, MachineTypeOK, RunState, Idle, Phases
<1>2. /\ new \in [phase : Phases, envelope : Envelope, epoch : Epochs,
                  current : Position]
      /\ new.phase = "decided" /\ new.current = position
      /\ new.envelope = old.envelope
  BY <1>1 DEF MachineInv, MachineTypeOK, Phases
<1> HIDE DEF old
<1>3. run' = [run EXCEPT ![r] = new]
  BY DEF Decide
<1> HIDE DEF new
<1>4. /\ run' \in [Run -> RunState] /\ run'[r] = new
      /\ \A q \in Run \ {r} : run'[q] = run[q]
  BY <1>2, <1>3 DEF MachineInv, MachineTypeOK, RunState
<1>5. MachineTypeOK'
  BY <1>4 DEF Decide, MachineInv, MachineTypeOK
<1>6. \A q \in Run \ {r} : run'[q].phase \notin {"locked", "decided"}
  BY <1>4, OthersAreOutside DEF Decide
<1>7. lock' = r /\ UNCHANGED position /\ Successor(position, old.envelope)
  BY DEF Decide, MachineInv, HolderHolds, old
<1>8. HolderHolds'
  BY <1>2, <1>4, <1>6, <1>7 DEF HolderHolds
<1>9. DecisionIsFresh'
  BY <1>2, <1>4, <1>6, <1>7 DEF DecisionIsFresh, Successor
<1>10. QED
  BY <1>5, <1>8, <1>9, FilesUntouched DEF Decide, MachineInv

(* The heart of the matter: the write that spends a position. *)
LEMMA ConsumeKeepsInv ==
    ASSUME MachineInv, NEW r \in Run, Consume(r)
    PROVE  MachineInv'
<1> DEFINE e == run[r].envelope
<1>1. run[r].phase \in Phases /\ "accepted" \in Phases
  BY DEF Consume, Phases
<1>2. /\ run' \in [Run -> RunState] /\ run'[r].phase = "accepted"
      /\ e \in Envelope
      /\ \A q \in Run \ {r} : run'[q] = run[q]
  BY <1>1, RunMoves DEF Consume, MachineInv, MachineTypeOK
<1>3. /\ e.epoch \in Nat /\ e.seq \in Nat /\ PositionOf(e) \in Position
      /\ Successor(position, e) /\ position \in Position /\ synced \in Position
      /\ accepted \in Seq(Envelope) /\ ~Before(position, synced)
  BY <1>2, EnvelopeNumbers
     DEF Consume, MachineInv, DecisionIsFresh, MachineTypeOK, SyncedIsBehind
<1>4. /\ position' = PositionOf(e) /\ synced' = PositionOf(e)
      /\ accepted' = Append(accepted, e)
  BY DEF Consume
<1> HIDE DEF e
<1>5. MachineTypeOK'
  BY <1>2, <1>3, <1>4 DEF Consume, MachineInv, MachineTypeOK
<1>6. \A q \in Run : run'[q].phase \notin {"locked", "decided"}
  BY <1>2, OthersAreOutside DEF Consume
<1>7. HolderHolds' /\ DecisionIsFresh'
  BY <1>6 DEF HolderHolds, DecisionIsFresh
<1>8. ASSUME NEW i \in 1..Len(accepted)
      PROVE  Before(accepted[i], e) /\ ~Before(PositionOf(e), accepted[i])
  <2>1. accepted[i] \in Envelope
    BY <1>3
  <2>2. accepted[i].epoch \in Nat /\ accepted[i].seq \in Nat
    BY <2>1, EnvelopeNumbers
  <2>3. ~Before(synced, accepted[i])
    BY DEF MachineInv, SpentSurvives
  <2>4. ~Before(position, accepted[i])
    BY <1>3, <2>2, <2>3, NotBeforeIsTransitive
  <2>5. QED
    BY <1>3, <2>2, <2>4, SuccessorIsAfter
<1>9. ~Before(PositionOf(e), e) /\ ~Before(PositionOf(e), PositionOf(e))
  BY <1>3 DEF Before, PositionOf
<1>10. SyncedIsBehind'
  BY <1>4, <1>9 DEF SyncedIsBehind, Before
<1>11. /\ Len(accepted') = Len(accepted) + 1 /\ Len(accepted) \in Nat
       /\ accepted'[Len(accepted) + 1] = e
       /\ \A i \in 1..Len(accepted) : accepted'[i] = accepted[i]
  BY <1>2, <1>3, <1>4
<1>12. ASSUME NEW i \in 1..Len(accepted'), NEW j \in 1..Len(accepted'), i < j
       PROVE  Before(accepted'[i], accepted'[j])
  <2>1. i \in 1..Len(accepted)
    BY <1>11, <1>12
  <2>2. CASE j \in 1..Len(accepted)
    BY <1>11, <1>12, <2>1, <2>2 DEF MachineInv, AcceptedInOrder
  <2>3. CASE j = Len(accepted) + 1
    BY <1>8, <1>11, <2>1, <2>3
  <2>4. QED
    BY <1>11, <2>2, <2>3
<1>13. AcceptedInOrder'
  BY <1>12 DEF AcceptedInOrder, Before
<1>14. ASSUME NEW i \in 1..Len(accepted') PROVE ~Before(synced', accepted'[i])
  <2>1. CASE i \in 1..Len(accepted)
    BY <1>4, <1>8, <1>11, <2>1
  <2>2. CASE i = Len(accepted) + 1
    BY <1>4, <1>9, <1>11, <2>2
  <2>3. QED
    BY <1>11, <2>1, <2>2
<1>15. SpentSurvives'
  BY <1>14 DEF SpentSurvives, Before
<1>16. QED
  BY <1>5, <1>7, <1>10, <1>13, <1>15 DEF MachineInv

LEMMA ConsumeUnsyncedKeepsInv ==
    ASSUME MachineInv, NEW r \in Run, ConsumeUnsynced(r)
    PROVE  MachineInv'
<1> DEFINE e == run[r].envelope
<1>1. run[r].phase \in Phases /\ "refused" \in Answers
  BY DEF ConsumeUnsynced, Phases, Answers
<1>2. /\ run' \in [Run -> RunState] /\ run'[r].phase = "done"
      /\ \A q \in Run \ {r} : run'[q] = run[q]
  BY <1>1, RunEnds DEF ConsumeUnsynced, MachineInv, MachineTypeOK
<1>3. e \in Envelope
  BY <1>1 DEF MachineInv, MachineTypeOK, RunState, Idle, Phases
<1>4. /\ e.epoch \in Nat /\ e.seq \in Nat /\ PositionOf(e) \in Position
      /\ Successor(position, e) /\ position \in Position /\ synced \in Position
      /\ ~Before(position, synced)
  BY <1>3, EnvelopeNumbers
     DEF ConsumeUnsynced, MachineInv, DecisionIsFresh, MachineTypeOK, SyncedIsBehind
<1>5. position' = PositionOf(e) /\ UNCHANGED <<synced, accepted>>
  BY DEF ConsumeUnsynced
<1> HIDE DEF e
<1>6. MachineTypeOK'
  BY <1>2, <1>4, <1>5 DEF ConsumeUnsynced, MachineInv, MachineTypeOK
<1>7. \A q \in Run : run'[q].phase \notin {"locked", "decided"}
  BY <1>2, OthersAreOutside DEF ConsumeUnsynced
<1>8. HolderHolds' /\ DecisionIsFresh'
  BY <1>7 DEF HolderHolds, DecisionIsFresh
<1>9. synced.epoch \in Nat /\ synced.seq \in Nat
  BY <1>4 DEF Position
<1>10. ~Before(PositionOf(e), synced)
  BY <1>4, <1>9, SuccessorIsAfter
<1>11. SyncedIsBehind'
  BY <1>5, <1>10 DEF SyncedIsBehind, Before
<1>12. AcceptedInOrder' /\ SpentSurvives'
  BY <1>5 DEF MachineInv, AcceptedInOrder, SpentSurvives, Before
<1>13. QED
  BY <1>6, <1>8, <1>11, <1>12 DEF MachineInv

LEMMA PowerLossKeepsInv ==
    ASSUME MachineInv, PowerLoss
    PROVE  MachineInv'
<1>1. ASSUME NEW r \in Run
      PROVE  run'[r] \in RunState /\ run'[r].phase \notin {"locked", "decided"}
  <2>1. CASE run[r].phase \in Phases
    <3>1. run[r].envelope \in Envelope
      BY <2>1 DEF MachineInv, MachineTypeOK, RunState, Idle, Phases
    <3>2. run'[r] = [phase |-> "done", answer |-> "silent",
                     envelope |-> run[r].envelope]
      BY <2>1 DEF PowerLoss
    <3>3. QED
      BY <3>1, <3>2 DEF RunState, Answers
  <2>2. CASE run[r].phase \notin Phases
    BY <2>2 DEF PowerLoss, MachineInv, MachineTypeOK, Phases
  <2>3. QED
    BY <2>1, <2>2
<1>2. run' \in [Run -> RunState]
  <2>1. run' = [r \in Run |-> run'[r]]
    BY DEF PowerLoss
  <2>2. QED
    BY <1>1, <2>1
<1>3. /\ position \in Position /\ synced \in Position
      /\ position' \in {position, synced} /\ synced' = position'
  BY DEF PowerLoss, MachineInv, MachineTypeOK
<1>4. MachineTypeOK'
  BY <1>2, <1>3 DEF PowerLoss, MachineInv, MachineTypeOK
<1>5. HolderHolds' /\ DecisionIsFresh'
  BY <1>1 DEF HolderHolds, DecisionIsFresh
<1>6. ~Before(position', synced')
  <2>1. position'.epoch \in Nat /\ position'.seq \in Nat
    BY <1>3 DEF Position
  <2>2. QED
    BY <1>3, <2>1 DEF Before
<1>7. SyncedIsBehind'
  BY <1>6 DEF SyncedIsBehind, Before
<1>8. AcceptedInOrder'
  BY DEF PowerLoss, MachineInv, AcceptedInOrder, Before
<1>9. ASSUME NEW i \in 1..Len(accepted) PROVE ~Before(synced', accepted[i])
  <2>1. accepted[i] \in Envelope
    BY DEF MachineInv, MachineTypeOK
  <2>2. accepted[i].epoch \in Nat /\ accepted[i].seq \in Nat
    BY <2>1, EnvelopeNumbers
  <2>3. ~Before(synced, accepted[i]) /\ ~Before(position, synced)
    BY DEF MachineInv, SpentSurvives, SyncedIsBehind
  <2>4. ~Before(position, accepted[i])
    BY <1>3, <2>2, <2>3, NotBeforeIsTransitive
  <2>5. QED
    BY <1>3, <2>3, <2>4
<1>10. SpentSurvives'
  BY <1>9 DEF PowerLoss, SpentSurvives, Before
<1>11. QED
  BY <1>4, <1>5, <1>7, <1>8, <1>10 DEF MachineInv

(* Every step keeps the invariant. *)
LEMMA MachineInvStep == MachineInv /\ [MachineNext]_machineVars => MachineInv'
<1> SUFFICES ASSUME MachineInv, [MachineNext]_machineVars PROVE MachineInv'
  OBVIOUS
<1>1. ASSUME NEW r \in Run, NEW e \in Envelope, Start(r, e) PROVE MachineInv'
  BY <1>1, StartKeepsInv
<1>2. ASSUME NEW r \in Run, Refuse(r) \/ ApplyRefuses(r) PROVE MachineInv'
  <2>1. /\ run[r].phase \in Phases /\ run[r].phase \notin {"locked", "decided"}
        /\ "refused" \in Answers /\ run' = Done(r, "refused") /\ lock' = lock
        /\ UNCHANGED <<anchor, position, synced, accepted>>
    BY <1>2 DEF Refuse, ApplyRefuses, Phases, Answers
  <2>2. QED
    BY <2>1, EndingKeepsInv
<1>3. ASSUME NEW r \in Run, Acquire(r) PROVE MachineInv'
  BY <1>3, AcquireKeepsInv
<1>4. ASSUME NEW r \in Run, Decide(r) PROVE MachineInv'
  BY <1>4, DecideKeepsInv
<1>5. ASSUME NEW r \in Run, ConsumeRefused(r) PROVE MachineInv'
  <2>1. /\ run[r].phase \in Phases /\ run[r].phase \in {"locked", "decided"}
        /\ "refused" \in Answers /\ run' = Done(r, "refused") /\ lock' = NoRun
        /\ UNCHANGED <<anchor, position, synced, accepted>>
    BY <1>5 DEF ConsumeRefused, Phases, Answers
  <2>2. QED
    BY <2>1, EndingKeepsInv
<1>6. ASSUME NEW r \in Run, Consume(r) PROVE MachineInv'
  BY <1>6, ConsumeKeepsInv
<1>7. ASSUME NEW r \in Run, ConsumeUnsynced(r) PROVE MachineInv'
  BY <1>7, ConsumeUnsyncedKeepsInv
<1>8. ASSUME NEW r \in Run, Touch(r) PROVE MachineInv'
  <2>1. /\ run[r].phase \in Phases /\ run[r].phase \notin {"locked", "decided"}
        /\ "touched" \in Phases \ {"locked", "decided"}
        /\ run' = Moved(r, "touched")
        /\ UNCHANGED <<anchor, position, synced, lock, accepted>>
    BY <1>8 DEF Touch, Phases
  <2>2. QED
    BY <2>1, MovingKeepsInv
<1>9. ASSUME NEW r \in Run, Report(r) PROVE MachineInv'
  <2>1. /\ run[r].phase \in Phases /\ run[r].phase \notin {"locked", "decided"}
        /\ "report" \in Answers /\ run' = Done(r, "report") /\ lock' = lock
        /\ UNCHANGED <<anchor, position, synced, accepted>>
    BY <1>9 DEF Report, Phases, Answers
  <2>2. QED
    BY <2>1, EndingKeepsInv
<1>10. ASSUME NEW r \in Run, Killed(r) PROVE MachineInv'
  <2>1. PICK answer \in {"silent", "garbled"} : run' = Done(r, answer)
    BY <1>10 DEF Killed
  <2>2. /\ run[r].phase \in Phases /\ answer \in Answers
        /\ lock' = IF lock = r THEN NoRun ELSE lock
        /\ UNCHANGED <<anchor, position, synced, accepted>>
    BY <1>10, <2>1 DEF Killed, Answers
  <2>3. QED
    BY <2>1, <2>2, EndingKeepsInv
<1>11. ASSUME NEW r \in Run, Exit(r) PROVE MachineInv'
  <2>1. /\ run' \in [Run -> RunState] /\ run'[r].phase = "idle"
        /\ \A q \in Run \ {r} : run'[q] = run[q]
    BY <1>11 DEF Exit, MachineInv, MachineTypeOK, RunState, Idle
  <2>2. MachineTypeOK'
    BY <1>11, <2>1 DEF Exit, MachineInv, MachineTypeOK
  <2>3. HolderHolds' /\ DecisionIsFresh'
    BY <1>11, <2>1, LockUntouched DEF Exit
  <2>4. QED
    BY <1>11, <2>2, <2>3, FilesUntouched DEF Exit, MachineInv
<1>12. ASSUME RotateAnchor PROVE MachineInv'
  <2>1. MachineTypeOK'
    BY <1>12 DEF RotateAnchor, MachineInv, MachineTypeOK
  <2>2. HolderHolds' /\ DecisionIsFresh'
    BY <1>12, LockUntouched DEF RotateAnchor
  <2>3. QED
    BY <1>12, <2>1, <2>2, FilesUntouched DEF RotateAnchor, MachineInv
<1>13. ASSUME PowerLoss PROVE MachineInv'
  BY <1>13, PowerLossKeepsInv
<1>14. ASSUME UNCHANGED machineVars PROVE MachineInv'
  <2>1. MachineTypeOK'
    BY <1>14 DEF machineVars, MachineInv, MachineTypeOK
  <2>2. HolderHolds' /\ DecisionIsFresh'
    BY <1>14, LockUntouched DEF machineVars
  <2>3. QED
    BY <1>14, <2>1, <2>2, FilesUntouched DEF machineVars, MachineInv
<1>15. QED
  BY <1>1, <1>2, <1>3, <1>4, <1>5, <1>6, <1>7, <1>8, <1>9, <1>10, <1>11,
     <1>12, <1>13, <1>14 DEF MachineNext, RunStep

-----------------------------------------------------------------------------

(* The inductive invariant holds in every reachable state. *)
THEOREM MachineInvariant == MachineSpec => []MachineInv
BY MachineInvInit, MachineInvStep, PTL DEF MachineSpec

(* The files and the process table hold what the code may put there. *)
THEOREM MachineTypeCorrect == MachineSpec => []MachineTypeOK
<1>1. MachineInv => MachineTypeOK
  BY DEF MachineInv
<1>2. QED
  BY <1>1, MachineInvariant, PTL

(* Consume lets no position through twice, nor any before an accepted one:
   for any number of concurrent Auxiliaries, whatever envelopes arrive, across
   kills, power losses, unsynchronised writes and anchors rolled back. *)
THEOREM NothingIsReplayed == MachineSpec => []AcceptedInOrder
<1>1. MachineInv => AcceptedInOrder
  BY DEF MachineInv
<1>2. QED
  BY <1>1, MachineInvariant, PTL

(* What accept returned with success is spent in the copy of the state file
   that survives a power loss. *)
THEOREM AcceptedStaysSpent == MachineSpec => []SpentSurvives
<1>1. MachineInv => SpentSurvives
  BY DEF MachineInv
<1>2. QED
  BY <1>1, MachineInvariant, PTL

-----------------------------------------------------------------------------
(* The command path.                                                       *)

CarriesSigned == /\ signed \subseteq Envelope
                 /\ handler \in [Request -> HandlerState]

-----------------------------------------------------------------------------

LEMMA CarriesSignedInit == Init => CarriesSigned
BY CommandAssumption DEF Init, CarriesSigned, HandlerState

(* A request that is open keeps the approval it carries. *)
LEMMA OpenIsTyped ==
    ASSUME CarriesSigned, NEW h \in Request,
           handler[h].phase \in {"checked", "spent", "connecting", "running"}
    PROVE  /\ handler[h].approval \in Envelope
           /\ handler[h].phase = "running" => handler[h].run \in Run
           /\ \A phase \in {"spent", "connecting"} :
                 Moves(h, phase) \in [Request -> HandlerState]
           /\ \A state \in TerminalStates :
                 Concluded(h, state) \in [Request -> HandlerState]
<1>1. /\ handler[h].approval \in Envelope
      /\ handler[h].phase = "running" => handler[h].run \in Run
  BY DEF CarriesSigned, HandlerState, Closed
<1>2. ASSUME NEW phase \in {"spent", "connecting"}
      PROVE  Moves(h, phase) \in [Request -> HandlerState]
  <2>1. [phase |-> phase, approval |-> handler[h].approval]
           \in [phase : {"spent", "connecting"}, approval : Envelope]
    BY <1>1
  <2>2. QED
    BY <2>1 DEF Moves, CarriesSigned, HandlerState
<1>3. ASSUME NEW state \in TerminalStates
      PROVE  Concluded(h, state) \in [Request -> HandlerState]
  <2>1. [phase |-> "concluding", approval |-> handler[h].approval, state |-> state]
           \in [phase : {"concluding"}, approval : Envelope, state : TerminalStates]
    BY <1>1
  <2>2. QED
    BY <2>1 DEF Concluded, CarriesSigned, HandlerState
<1>4. QED
  BY <1>1, <1>2, <1>3

LEMMA ClosingIsTyped ==
    ASSUME CarriesSigned, NEW h \in Request
    PROVE  [handler EXCEPT ![h] = Closed] \in [Request -> HandlerState]
BY DEF CarriesSigned, HandlerState

(* What concludeLaunch makes of an answer is a terminal state. *)
LEMMA ConclusionIsTerminal ==
    \A answer \in Answers : ConclusionOf(answer) \in TerminalStates
BY DEF Answers, ConclusionOf, TerminalStates

LEMMA CarriesSignedStep ==
    CarriesSigned /\ MachineTypeOK /\ [Next]_pathVars => CarriesSigned'
<1> SUFFICES ASSUME CarriesSigned, MachineTypeOK, [Next]_pathVars
             PROVE  CarriesSigned'
  OBVIOUS
<1>1. CASE SubmitDecision
  BY <1>1 DEF SubmitDecision, CarriesSigned
<1>2. ASSUME NEW h \in Request, NEW a \in signed, Check(h, a)
      PROVE  CarriesSigned'
  <2>1. \A now \in 1..MaxClock :
           [phase |-> "checked", approval |-> a, at |-> now] \in HandlerState
    BY DEF CarriesSigned, HandlerState
  <2>2. QED
    BY <1>2, <2>1 DEF Check, CarriesSigned
<1>3. ASSUME NEW h \in Request, AcceptDispatch(h) \/ Launch(h)
      PROVE  CarriesSigned'
  <2>1. /\ handler[h].phase \in {"checked", "spent"} /\ UNCHANGED signed
        /\ handler' = Moves(h, "spent") \/ handler' = Moves(h, "connecting")
    BY <1>3 DEF AcceptDispatch, Launch
  <2>2. QED
    BY <2>1, OpenIsTyped DEF CarriesSigned
<1>4. ASSUME NEW h \in Request,
             AcceptFails(h) \/ Conclude(h) \/ ConcludeFails(h)
      PROVE  CarriesSigned'
  <2>1. handler' = [handler EXCEPT ![h] = Closed] /\ UNCHANGED signed
    BY <1>4 DEF AcceptFails, Conclude, ConcludeFails
  <2>2. QED
    BY <2>1, ClosingIsTyped DEF CarriesSigned
<1>5. ASSUME NEW h \in Request,
             \/ NotLaunched(h) \/ ClientFails(h) \/ Deadline(h)
             \/ ChannelLost(h) \/ ClientErrs(h)
      PROVE  CarriesSigned'
  <2>1. /\ handler[h].phase \in {"spent", "connecting", "running"}
        /\ UNCHANGED signed
        /\ \E state \in TerminalStates : handler' = Concluded(h, state)
    BY <1>5 DEF NotLaunched, ClientFails, Deadline, ChannelLost, ClientErrs,
                TerminalStates
  <2>2. QED
    BY <2>1, OpenIsTyped DEF CarriesSigned
<1>6. ASSUME NEW h \in Request, Answer(h) PROVE CarriesSigned'
  <2>1. /\ handler[h].phase = "running" /\ UNCHANGED signed
        /\ run[handler[h].run].phase = "done"
        /\ handler' = Concluded(h, ConclusionOf(run[handler[h].run].answer))
    BY <1>6 DEF Answer
  <2>2. handler[h].run \in Run
    BY <2>1, OpenIsTyped
  <2>3. run[handler[h].run].answer \in Answers
    BY <2>1, <2>2 DEF MachineTypeOK, RunState, Idle, Phases
  <2>4. QED
    BY <2>1, <2>3, ConclusionIsTerminal, OpenIsTyped DEF CarriesSigned
<1>7. ASSUME NEW h \in Request, NEW r \in Run, Connect(h, r)
      PROVE  CarriesSigned'
  <2>1. handler[h].approval \in Envelope
    BY <1>7, OpenIsTyped DEF Connect
  <2>2. [phase |-> "running", run |-> r, approval |-> handler[h].approval]
           \in HandlerState
    BY <2>1 DEF HandlerState
  <2>3. QED
    BY <1>7, <2>2 DEF Connect, CarriesSigned
<1>8. ASSUME NEW r \in Run, AuxiliaryStep(r) PROVE CarriesSigned'
  BY <1>8 DEF AuxiliaryStep, AuxiliaryTouches, AuxiliarySteps,
              Unheard, controllerVars, CarriesSigned
<1>9. CASE ControllerRestarts
  BY <1>9 DEF ControllerRestarts, CarriesSigned, HandlerState
<1>10. CASE MachineFails
  BY <1>10 DEF MachineFails, controllerVars, CarriesSigned
<1>11. CASE UNCHANGED pathVars
  BY <1>11 DEF pathVars, CarriesSigned
<1>12. QED
  BY <1>1, <1>2, <1>3, <1>4, <1>5, <1>6, <1>7, <1>8, <1>9, <1>10, <1>11
     DEF Next, HandlerStep

-----------------------------------------------------------------------------

(* Every step of the path is a step of the machine or leaves it alone. *)
LEMMA PathStepIsMachineStep ==
    CarriesSigned /\ [Next]_pathVars => [MachineNext]_machineVars
<1> SUFFICES ASSUME CarriesSigned, [Next]_pathVars
             PROVE  [MachineNext]_machineVars
  OBVIOUS
<1>1. ASSUME NEW h \in Request, NEW r \in Run, Connect(h, r) PROVE MachineNext
  <2>1. handler[h].approval \in Envelope /\ Start(r, handler[h].approval)
    BY <1>1, OpenIsTyped DEF Connect
  <2>2. QED
    BY <2>1 DEF MachineNext
<1>2. ASSUME NEW h \in Request, Answer(h) PROVE MachineNext
  <2>1. handler[h].run \in Run /\ Exit(handler[h].run)
    BY <1>2, OpenIsTyped DEF Answer
  <2>2. QED
    BY <2>1 DEF MachineNext
<1>3. ASSUME NEW r \in Run, AuxiliaryStep(r) PROVE MachineNext
  BY <1>3 DEF AuxiliaryStep, AuxiliaryTouches, AuxiliarySteps,
              Unheard, MachineNext, RunStep
<1>4. CASE MachineFails
  BY <1>4 DEF MachineFails, MachineNext
<1>5. ASSUME NEW h \in Request,
             \/ \E a \in signed : Check(h, a)
             \/ AcceptDispatch(h) \/ AcceptFails(h) \/ NotLaunched(h)
             \/ Launch(h) \/ ClientFails(h) \/ Deadline(h) \/ Conclude(h)
             \/ ConcludeFails(h) \/ ChannelLost(h) \/ ClientErrs(h)
      PROVE  UNCHANGED machineVars
  BY <1>5 DEF Check, AcceptDispatch, AcceptFails, NotLaunched, Launch, ClientFails,
              Deadline, Conclude, ConcludeFails, ChannelLost, ClientErrs
<1>6. CASE SubmitDecision \/ ControllerRestarts \/ UNCHANGED pathVars
  BY <1>6 DEF SubmitDecision, ControllerRestarts, pathVars
<1>7. QED
  BY <1>1, <1>2, <1>3, <1>4, <1>5, <1>6 DEF Next, HandlerStep

(* The composition implements the machine's own specification, for any
   number of requests and Auxiliaries, any registry bound and any clock. *)
THEOREM PathImplementsMachine == Spec => MachineSpec
<1>1. Init => MachineInit
  BY DEF Init
<1>2. CarriesSigned /\ MachineInv /\ [Next]_pathVars
        => CarriesSigned' /\ MachineInv' /\ [MachineNext]_machineVars
  BY CarriesSignedStep, PathStepIsMachineStep, MachineInvStep DEF MachineInv
<1>3. QED
  BY <1>1, <1>2, CarriesSignedInit, MachineInvInit, PTL DEF Spec, MachineSpec

(* Whatever the Controller launches, twice or late, across its restarts and
   those of the machine, no position of the machine is performed twice. *)
THEOREM PathNeverReplays == Spec => []AcceptedInOrder
BY PathImplementsMachine, NothingIsReplayed, PTL

(* What a launch made the machine accept stays spent across a power loss. *)
THEOREM PathKeepsSpent == Spec => []SpentSurvives
BY PathImplementsMachine, AcceptedStaysSpent, PTL

-----------------------------------------------------------------------------
(* The registry as boundDispatchRecords leaves it.                         *)

(* What is kept are positions of the records. *)
LEMMA KeptIsFinite ==
    ASSUME NEW records \in Seq(Record)
    PROVE  /\ KeptRecords(records) \subseteq DOMAIN records
           /\ DOMAIN records \subseteq Nat
           /\ IsFiniteSet(DOMAIN records)
           /\ IsFiniteSet(KeptRecords(records))
           /\ Cardinality(KeptRecords(records)) \in Nat
<1>1. /\ DOMAIN records = 1..Len(records) /\ Len(records) \in Nat
      /\ KeptRecords(records) \subseteq DOMAIN records
  BY DEF KeptRecords
<1>2. IsFiniteSet(1..Len(records))
  BY <1>1, FS_Interval
<1>. QED  BY <1>1, <1>2, FS_Subset, FS_CardinalityType

(* Two kept records are always told apart by the order. *)
LEMMA PrecedesIsTotal ==
    ASSUME NEW records \in Seq(Record), NEW i \in DOMAIN records,
           NEW j \in DOMAIN records
    PROVE  /\ ~Precedes(records, i, i)
           /\ i # j => Precedes(records, i, j) \/ Precedes(records, j, i)
           /\ \A k \in DOMAIN records :
                Precedes(records, k, i) /\ Precedes(records, i, j)
                    => Precedes(records, k, j)
<1>1. \A k \in DOMAIN records : records[k].at \in Nat /\ k \in Nat
  <2>1. \A k \in DOMAIN records : records[k] \in Record /\ k \in Nat
    OBVIOUS
  <2>2. \A record \in Record : record.at \in Nat
    BY CommandAssumption DEF Record
  <2>. QED  BY <2>1, <2>2
<1>. QED  BY <1>1 DEF Precedes

(* The order is the order of the ranks. *)
LEMMA RankIsStrict ==
    ASSUME NEW records \in Seq(Record), NEW i \in KeptRecords(records),
           NEW j \in KeptRecords(records), Precedes(records, i, j)
    PROVE  Rank(records, i) < Rank(records, j)
<1>. DEFINE Before_(k) == {l \in KeptRecords(records) : Precedes(records, l, k)}
<1>1. IsFiniteSet(Before_(i)) /\ IsFiniteSet(Before_(j))
  BY KeptIsFinite, FS_Subset
<1>2. i \notin Before_(i) /\ Before_(i) \cup {i} \subseteq Before_(j)
  BY PrecedesIsTotal, KeptIsFinite
<1>3. Cardinality(Before_(i) \cup {i}) = Cardinality(Before_(i)) + 1
  BY <1>1, <1>2, FS_AddElement
<1>4. Cardinality(Before_(i) \cup {i}) <= Cardinality(Before_(j))
  BY <1>1, <1>2, FS_Subset
<1>5. Cardinality(Before_(i)) \in Nat /\ Cardinality(Before_(j)) \in Nat
  BY <1>1, FS_CardinalityType
<1>6. /\ Rank(records, i) = Cardinality(Before_(i)) + 1
      /\ Rank(records, j) = Cardinality(Before_(j)) + 1
  BY DEF Rank
<1>. QED  BY <1>3, <1>4, <1>5, <1>6

(* A rank is a position of the result. *)
LEMMA RankIsBounded ==
    ASSUME NEW records \in Seq(Record), NEW i \in KeptRecords(records)
    PROVE  Rank(records, i) \in 1..Cardinality(KeptRecords(records))
<1>. DEFINE K == KeptRecords(records)
            P == {l \in K : Precedes(records, l, i)}
<1>1. IsFiniteSet(P) /\ Cardinality(P) \in Nat /\ Cardinality(K) \in Nat
  BY KeptIsFinite, FS_Subset, FS_CardinalityType
<1>2. i \notin P /\ P \cup {i} \subseteq K
  BY PrecedesIsTotal, KeptIsFinite
<1>3. Cardinality(P \cup {i}) = Cardinality(P) + 1
  BY <1>1, <1>2, FS_AddElement
<1>4. Cardinality(P \cup {i}) <= Cardinality(K)
  BY <1>2, KeptIsFinite, FS_Subset
<1>5. Rank(records, i) = Cardinality(P) + 1
  BY DEF Rank
<1>. HIDE DEF K, P
<1>6. Rank(records, i) \in 1..Cardinality(K)
  BY <1>1, <1>3, <1>4, <1>5
<1>. QED  BY <1>6 DEF K

(* Ranks name every position once: an injection of a finite set into as
   many positions reaches them all. *)
LEMMA RankIsOnto ==
    ASSUME NEW records \in Seq(Record)
    PROVE  /\ \A i, j \in KeptRecords(records) :
                 Rank(records, i) = Rank(records, j) => i = j
           /\ \A k \in 1..Cardinality(KeptRecords(records)) :
                 \E i \in KeptRecords(records) : Rank(records, i) = k
<1>. DEFINE K == KeptRecords(records)
            n == Cardinality(K)
            f == [i \in K |-> Rank(records, i)]
<1>0. n \in Nat
  BY KeptIsFinite
<1>1. ASSUME NEW i \in K, NEW j \in K, i # j
      PROVE  Rank(records, i) # Rank(records, j)
  <2>1. Precedes(records, i, j) \/ Precedes(records, j, i)
    BY <1>1, PrecedesIsTotal, KeptIsFinite
  <2>2. Rank(records, i) \in Nat /\ Rank(records, j) \in Nat
    BY RankIsBounded, <1>0
  <2>3. Rank(records, i) < Rank(records, j) \/ Rank(records, j) < Rank(records, i)
    BY <2>1, RankIsStrict
  <2>. QED  BY <2>2, <2>3
<1>2. f \in [K -> 1..n]
  BY RankIsBounded
<1>3. f \in Injection(K, 1..n)
  BY <1>1, <1>2 DEF Injection, IsInjective
<1>4. IsFiniteSet(1..n) /\ Cardinality(1..n) = n
  BY <1>0, FS_Interval
<1>5. f \in Surjection(K, 1..n)
  BY <1>3, <1>4, FS_Injection
<1>6. \A k \in 1..n : \E i \in K : f[i] = k
  BY <1>5 DEF Surjection
<1>. QED  BY <1>1, <1>6

(* boundDispatchRecords yields exactly the kept records. *)
LEMMA BoundKeeps ==
    ASSUME NEW records \in Seq(Record)
    PROVE  /\ BoundDispatchRecords(records) \in Seq(Record)
           /\ \A k \in DOMAIN BoundDispatchRecords(records) :
                 \E i \in KeptRecords(records) :
                    BoundDispatchRecords(records)[k] = records[i]
           /\ \A i \in KeptRecords(records) :
                 /\ Rank(records, i) \in DOMAIN BoundDispatchRecords(records)
                 /\ BoundDispatchRecords(records)[Rank(records, i)] = records[i]
<1>. DEFINE K == KeptRecords(records)
            n == Cardinality(K)
            at(k) == CHOOSE i \in K : Rank(records, i) = k
            b == [k \in 1..n |-> records[at(k)]]
<1>1. b = BoundDispatchRecords(records) /\ n \in Nat
  BY KeptIsFinite DEF BoundDispatchRecords
<1>2. \A k \in 1..n : at(k) \in K /\ Rank(records, at(k)) = k
  BY RankIsOnto
<1>3. \A i \in K : Rank(records, i) \in 1..n
  BY RankIsBounded
<1>4. \A i \in K : at(Rank(records, i)) = i
  BY <1>2, <1>3, RankIsOnto
<1>5. \A i \in K : records[i] \in Record
  BY KeptIsFinite
<1>. HIDE DEF at, K, n
<1>6. b \in [1..n -> Record]
  BY <1>2, <1>5
<1>7. b \in Seq(Record)
  BY <1>1, <1>6
<1>8. \A k \in DOMAIN b : \E i \in K : b[k] = records[i]
  BY <1>2
<1>9. \A i \in K : Rank(records, i) \in DOMAIN b /\ b[Rank(records, i)] = records[i]
  BY <1>3, <1>4
<1>. HIDE DEF b
<1>. QED  BY <1>1, <1>7, <1>8, <1>9 DEF K

-----------------------------------------------------------------------------
(* What a commit writes.                                                   *)

(* A set of numbers that is not empty has a least element. *)
LEMMA LeastExists ==
    ASSUME NEW S, S \subseteq Nat, S # {}
    PROVE  \E i \in S : \A j \in S : i <= j
<1>1. PICK i \in S : \A j \in S : ~(<<j, i>> \in OpToRel(<, Nat))
  BY NatLessThanWellFounded, WFMin, Zenon
<1>2. \A j \in S : ~(j < i)
  BY <1>1 DEF OpToRel
<1>. QED  BY <1>2

(* "Non-terminal records are never trimmed". *)
LEMMA OpenIsKept ==
    ASSUME NEW records \in Seq(Record), NEW i \in DOMAIN records
    PROVE  /\ ~Terminal(records[i]) => i \in KeptRecords(records)
           /\ i \in KeptRecords(records) =>
                 records[i] \in Range(BoundDispatchRecords(records))
<1>1. ~Terminal(records[i]) => i \in KeptRecords(records)
  BY DEF KeptRecords
<1>2. i \in KeptRecords(records) =>
         /\ Rank(records, i) \in DOMAIN BoundDispatchRecords(records)
         /\ BoundDispatchRecords(records)[Rank(records, i)] = records[i]
  BY BoundKeeps
<1>. QED  BY <1>1, <1>2 DEF Range

(* Two open records of the same bytes are both kept, so the validation of
   the candidate sees them both. *)
LEMMA ValidationSeesBoth ==
    ASSUME NEW records \in Seq(Record), ValidRegistry(BoundDispatchRecords(records)),
           NEW i \in DOMAIN records, NEW j \in DOMAIN records, i # j,
           ~Terminal(records[i]), ~Terminal(records[j])
    PROVE  records[i].approval # records[j].approval
<1>. DEFINE b == BoundDispatchRecords(records)
            k == Rank(records, i)
            l == Rank(records, j)
<1>1. i \in KeptRecords(records) /\ j \in KeptRecords(records)
  BY OpenIsKept
<1>2. k \in DOMAIN b /\ l \in DOMAIN b /\ b[k] = records[i] /\ b[l] = records[j]
  BY <1>1, BoundKeeps
<1>3. k # l
  BY <1>1, RankIsOnto
<1>. HIDE DEF b, k, l
<1>4. \A x, y \in DOMAIN b : (x # y /\ ~Terminal(b[x]) /\ ~Terminal(b[y]))
         => b[x].approval # b[y].approval
  BY DEF ValidRegistry, b
<1>. QED  BY <1>2, <1>3, <1>4

Dispatched(approval, now) ==
    [approval |-> approval, at |-> now, state |-> "in_flight"]

LostOpen(records, next) ==
    {j \in DOMAIN records \ Terminals(records) : records[j] \notin Range(next)}

(* No terminal record is lost, unless the bound is passed. *)
Follows(records, next) ==
    \A i \in Terminals(records) :
        \/ records[i] \in Range(next)
        \/ Cardinality(Terminals(records)) + Cardinality(LostOpen(records, next))
            > MaxTerminal

LEMMA CountsAreFinite ==
    ASSUME NEW records \in Seq(Record), NEW next
    PROVE  /\ IsFiniteSet(Terminals(records)) /\ IsFiniteSet(LostOpen(records, next))
           /\ Cardinality(Terminals(records)) \in Nat
           /\ Cardinality(LostOpen(records, next)) \in Nat
<1>1. /\ Terminals(records) \subseteq DOMAIN records
      /\ LostOpen(records, next) \subseteq DOMAIN records
  BY DEF Terminals, LostOpen
<1>. QED  BY <1>1, KeptIsFinite, FS_Subset, FS_CardinalityType

(* What Accept writes holds, of what there was and of what it adds. *)
LEMMA AcceptingKeeps ==
    ASSUME registry \in Seq(Record), NEW approval \in Envelope,
           NEW now \in 1..MaxClock
    PROVE  /\ Accepting(approval, now) \in Seq(Record)
           /\ \A record \in Range(Accepting(approval, now)) :
                 \/ record \in Range(registry)
                 \/ record = Dispatched(approval, now)
           /\ \A i \in DOMAIN registry : ~Terminal(registry[i])
                 => registry[i] \in Range(Accepting(approval, now))
           /\ Dispatched(approval, now) \in Range(Accepting(approval, now))
           /\ ValidRegistry(Accepting(approval, now)) =>
                 \A i \in DOMAIN registry :
                    ~Terminal(registry[i]) => registry[i].approval # approval
           /\ Follows(registry, Accepting(approval, now))
<1>. DEFINE new == Dispatched(approval, now)
            longer == Append(registry, new)
            next == BoundDispatchRecords(longer)
            n == Len(registry) + 1
<1>1. new \in Record /\ ~Terminal(new) /\ new.approval = approval
  BY DEF Dispatched, Record, DispatchStates, Terminal
<1>2. /\ longer \in Seq(Record) /\ Len(longer) = n /\ DOMAIN longer = 1..n
      /\ Len(registry) \in Nat /\ DOMAIN registry = 1..Len(registry)
      /\ longer[n] = new /\ n \in DOMAIN longer
      /\ \A i \in DOMAIN registry : i \in DOMAIN longer /\ longer[i] = registry[i] /\ i # n
  BY <1>1
<1>3. Accepting(approval, now) = next
  BY DEF Accepting, Dispatched
<1>4. next \in Seq(Record)
  BY <1>2, BoundKeeps
<1>. HIDE DEF longer, new, n
<1>5. ASSUME NEW record \in Range(next)
      PROVE  record \in Range(registry) \/ record = new
  <2>1. PICK i \in KeptRecords(longer) : record = longer[i]
    BY <1>2, BoundKeeps DEF Range
  <2>2. i \in DOMAIN longer
    BY <1>2, KeptIsFinite
  <2>3. i = n \/ i \in DOMAIN registry
    BY <1>2, <2>2 DEF n
  <2>. QED  BY <1>2, <2>1, <2>3 DEF Range
<1>6. \A i \in DOMAIN registry : ~Terminal(registry[i]) => registry[i] \in Range(next)
  BY <1>2, OpenIsKept
<1>7. new \in Range(next)
  BY <1>1, <1>2, OpenIsKept
<1>8. ASSUME ValidRegistry(next), NEW i \in DOMAIN registry, ~Terminal(registry[i])
      PROVE  registry[i].approval # approval
  BY <1>1, <1>2, <1>8, ValidationSeesBoth
<1>9. Follows(registry, next)
  <2>. DEFINE T == Terminals(registry)
              L == LostOpen(registry, next)
  <2>. SUFFICES ASSUME NEW i \in T, registry[i] \notin Range(next)
                PROVE  Cardinality(T) + Cardinality(L) > MaxTerminal
    BY DEF Follows
  <2>. DEFINE A == {j \in (i + 1)..Len(longer) : Terminal(longer[j])}
  <2>1. i \in DOMAIN registry /\ i \in Nat
    BY <1>2 DEF Terminals
  <2>2. i \notin KeptRecords(longer)
    BY <1>2, <2>1, OpenIsKept
  <2>3. ~(TerminalAfter(longer, i) < MaxTerminal)
    BY <1>2, <2>1, <2>2 DEF KeptRecords
  <2>4. \A j \in A : j \in DOMAIN registry /\ j # i /\ Terminal(registry[j])
    BY <1>1, <1>2, <2>1 DEF n
  <2>5. i \notin A /\ A \cup {i} \subseteq T
    BY <2>4 DEF Terminals
  <2>6. /\ IsFiniteSet(T) /\ Cardinality(T) \in Nat /\ Cardinality(L) \in Nat
    BY CountsAreFinite
  <2>7. IsFiniteSet(A) /\ Cardinality(A) \in Nat
    BY <2>5, <2>6, FS_Subset, FS_CardinalityType
  <2>8. Cardinality(A \cup {i}) = Cardinality(A) + 1
    BY <2>5, <2>7, FS_AddElement
  <2>9. Cardinality(A \cup {i}) <= Cardinality(T)
    BY <2>5, <2>6, FS_Subset
  <2>10. Cardinality(A) = TerminalAfter(longer, i)
    BY DEF TerminalAfter
  <2>. HIDE DEF A, T, L
  <2>. QED  BY <2>3, <2>6, <2>7, <2>8, <2>9, <2>10, RegistryAssumption
<1>. HIDE DEF next
<1>. QED  BY <1>3, <1>4, <1>5, <1>6, <1>7, <1>8, <1>9 DEF new

(* Conclude writes over one open record that holds the bytes. *)
LEMMA HoldingHolds ==
    ASSUME registry \in Seq(Record), NEW approval, Concludes(approval)
    PROVE  /\ Holding(approval) \in DOMAIN registry
           /\ registry[Holding(approval)].approval = approval
           /\ ~Terminal(registry[Holding(approval)])
<1>. DEFINE I == {i \in 1..Len(registry) : registry[i].approval = approval}
<1>1. Holding(approval) = IF I # {} THEN Min(I) ELSE 0
  BY DEF Holding, SelectInSeq
<1>2. Holding(approval) # 0 /\ ~Terminal(registry[Holding(approval)])
  BY DEF Concludes
<1>3. I # {} /\ Holding(approval) = Min(I)
  BY <1>1, <1>2
<1>4. \E i \in I : \A j \in I : i <= j
  <2>1. I \subseteq Nat
    OBVIOUS
  <2>. QED  BY <1>3, <2>1, LeastExists
<1>5. Min(I) \in I
  BY <1>4 DEF Min
<1>. QED  BY <1>2, <1>3, <1>5

(* What Conclude writes: one record changes, no other open one is lost, and
   a terminal one only where the bound is passed. *)
LEMMA ConcludingKeeps ==
    ASSUME registry \in Seq(Record), NEW approval, Concludes(approval),
           NEW state \in TerminalStates
    PROVE  /\ Concluding(approval, state) \in Seq(Record)
           /\ \A record \in Range(Concluding(approval, state)) :
                 \/ record \in Range(registry)
                 \/ record.approval = approval /\ record.state = state
           /\ \A i \in DOMAIN registry :
                 (~Terminal(registry[i]) /\ registry[i].approval # approval)
                 => registry[i] \in Range(Concluding(approval, state))
           /\ ValidRegistry(registry) => Follows(registry, Concluding(approval, state))
<1>. DEFINE p == Holding(approval)
            changing == [registry EXCEPT ![p].state = state]
            next == BoundDispatchRecords(changing)
<1>1. p \in DOMAIN registry /\ registry[p].approval = approval /\ ~Terminal(registry[p])
  BY HoldingHolds
<1>2. [registry[p] EXCEPT !.state = state] \in Record
  <2>1. \A record \in Record : [record EXCEPT !.state = state] \in Record
    BY DEF Record, DispatchStates
  <2>2. registry[p] \in Record
    BY <1>1
  <2>. QED  BY <2>1, <2>2
<1>. HIDE DEF p
<1>3. /\ changing \in Seq(Record) /\ Len(changing) = Len(registry)
      /\ DOMAIN changing = DOMAIN registry
      /\ DOMAIN registry = 1..Len(registry) /\ Len(registry) \in Nat
      /\ changing[p] = [registry[p] EXCEPT !.state = state]
      /\ \A i \in DOMAIN registry : i # p => changing[i] = registry[i]
  BY <1>1, <1>2
<1>4. changing[p].approval = approval /\ changing[p].state = state /\ Terminal(changing[p])
  <2>1. registry[p] \in Record
    BY <1>1
  <2>2. /\ [registry[p] EXCEPT !.state = state].approval = registry[p].approval
        /\ [registry[p] EXCEPT !.state = state].state = state
    BY <2>1 DEF Record
  <2>3. state # "in_flight"
    BY DEF TerminalStates
  <2>. QED  BY <1>1, <1>3, <2>2, <2>3 DEF Terminal
<1>5. Concluding(approval, state) = next
  BY DEF Concluding, p
<1>. HIDE DEF changing
<1>6. next \in Seq(Record)
  BY <1>3, BoundKeeps
<1>7. ASSUME NEW record \in Range(next)
      PROVE  \E i \in DOMAIN registry : record = changing[i]
  <2>1. PICK i \in KeptRecords(changing) : record = changing[i]
    BY <1>3, BoundKeeps DEF Range
  <2>. QED  BY <1>3, <2>1, KeptIsFinite
<1>8. ASSUME NEW record \in Range(next)
      PROVE  record \in Range(registry) \/ (record.approval = approval /\ record.state = state)
  <2>1. PICK i \in DOMAIN registry : record = changing[i]
    BY <1>7
  <2>2. CASE i = p
    BY <1>4, <2>1, <2>2
  <2>3. CASE i # p
    BY <1>3, <2>1, <2>3 DEF Range
  <2>. QED  BY <2>2, <2>3
<1>9. ASSUME NEW i \in DOMAIN registry, ~Terminal(registry[i]), registry[i].approval # approval
      PROVE  registry[i] \in Range(next)
  <2>1. i # p /\ i \in DOMAIN changing /\ changing[i] = registry[i]
    BY <1>1, <1>3, <1>9
  <2>. QED  BY <1>3, <1>9, <2>1, OpenIsKept
<1>10. ASSUME ValidRegistry(registry)
       PROVE  Follows(registry, next)
  <2>. DEFINE T == Terminals(registry)
              L == LostOpen(registry, next)
  <2>1. p \in L
    <3>. SUFFICES ASSUME registry[p] \in Range(next) PROVE FALSE
      BY <1>1 DEF LostOpen, Terminals
    <3>1. PICK i \in DOMAIN registry : registry[p] = changing[i]
      BY <1>7
    <3>2. i # p /\ registry[i] = registry[p]
      BY <1>1, <1>3, <1>4, <3>1
    <3>. QED  BY <1>1, <1>10, <3>2 DEF ValidRegistry
  <2>. SUFFICES ASSUME NEW i \in T, registry[i] \notin Range(next)
                PROVE  Cardinality(T) + Cardinality(L) > MaxTerminal
    BY DEF Follows
  <2>. DEFINE A == {j \in (i + 1)..Len(changing) : Terminal(changing[j])}
  <2>2. i \in DOMAIN registry /\ i \in Nat /\ i # p
    BY <1>1, <1>3 DEF Terminals
  <2>3. i \notin KeptRecords(changing)
    BY <1>3, <2>2, OpenIsKept
  <2>4. ~(TerminalAfter(changing, i) < MaxTerminal)
    BY <1>3, <2>2, <2>3 DEF KeptRecords
  <2>5. \A j \in A : j \in DOMAIN registry /\ j # i /\ (j = p \/ Terminal(registry[j]))
    BY <1>3, <2>2
  <2>6. A \subseteq (T \ {i}) \cup {p}
    BY <2>5 DEF Terminals
  <2>7. /\ IsFiniteSet(T) /\ Cardinality(T) \in Nat
        /\ IsFiniteSet(L) /\ Cardinality(L) \in Nat
    BY CountsAreFinite
  <2>8. IsFiniteSet(T \ {i}) /\ Cardinality(T \ {i}) = Cardinality(T) - 1
    BY <2>7, FS_RemoveElement
  <2>9. /\ IsFiniteSet((T \ {i}) \cup {p})
        /\ Cardinality((T \ {i}) \cup {p}) <= Cardinality(T)
    <3>. DEFINE U == T \ {i}
    <3>1. IsFiniteSet(U) /\ Cardinality(U) = Cardinality(T) - 1 /\ Cardinality(T) \in Nat
      BY <2>7, <2>8
    <3>. HIDE DEF U, T
    <3>2. /\ IsFiniteSet(U \cup {p})
          /\ Cardinality(U \cup {p}) = IF p \in U THEN Cardinality(U) ELSE Cardinality(U) + 1
      BY <3>1, FS_AddElement
    <3>3. Cardinality(U \cup {p}) <= Cardinality(T)
      BY <3>1, <3>2
    <3>. QED  BY <3>2, <3>3 DEF U
  <2>10. Cardinality(A) <= Cardinality((T \ {i}) \cup {p})
    BY <2>6, <2>9, FS_Subset
  <2>11. Cardinality(L) # 0
    BY <2>1, <2>7, FS_EmptySet
  <2>12. /\ Cardinality(A) \in Nat
         /\ Cardinality((T \ {i}) \cup {p}) \in Nat
    BY <2>6, <2>9, FS_Subset, FS_CardinalityType
  <2>13. Cardinality(A) = TerminalAfter(changing, i)
    BY DEF TerminalAfter
  <2>. HIDE DEF A, T, L
  <2>. QED  BY <2>4, <2>7, <2>9, <2>10, <2>11, <2>12, <2>13, RegistryAssumption
<1>. HIDE DEF next
<1>. QED  BY <1>5, <1>6, <1>8, <1>9, <1>10

(* A restart closes what was open and changes nothing else. *)
LEMMA RequalifiedKeeps ==
    ASSUME NEW records \in Seq(Record)
    PROVE  /\ Requalified(records) \in Seq(Record)
           /\ DOMAIN Requalified(records) = DOMAIN records
           /\ \A i \in DOMAIN records :
                 /\ Terminal(records[i]) => Requalified(records)[i] = records[i]
                 /\ ~Terminal(records[i]) =>
                       /\ Requalified(records)[i].approval = records[i].approval
                       /\ Requalified(records)[i].state = "launched_unreported"
                 /\ Terminal(Requalified(records)[i])
<1>. DEFINE open(i) == [records[i] EXCEPT !.state = "launched_unreported"]
<1>1. \A i \in DOMAIN records :
         /\ open(i) \in Record
         /\ open(i).approval = records[i].approval
         /\ open(i).state = "launched_unreported"
  <2>1. \A record \in Record :
           LET o == [record EXCEPT !.state = "launched_unreported"]
           IN  o \in Record /\ o.approval = record.approval
                 /\ o.state = "launched_unreported"
    BY DEF Record, DispatchStates, TerminalStates
  <2>. QED  BY <2>1
<1>2. Requalified(records) =
         [i \in DOMAIN records |-> IF Terminal(records[i]) THEN records[i] ELSE open(i)]
  BY DEF Requalified
<1>3. DOMAIN records = 1..Len(records) /\ Len(records) \in Nat
      /\ \A i \in DOMAIN records : records[i] \in Record
  OBVIOUS
<1>. HIDE DEF open
<1>4. Requalified(records) \in [1..Len(records) -> Record]
  BY <1>1, <1>2, <1>3
<1>5. Requalified(records) \in Seq(Record)
  BY <1>3, <1>4
<1>. QED  BY <1>1, <1>2, <1>5 DEF Terminal

LEMMA RequalifiedFollows ==
    ASSUME NEW records \in Seq(Record), NEW disk \in Seq(Record),
           Follows(records, disk)
    PROVE  Follows(records, Requalified(disk))
<1>. DEFINE next == Requalified(disk)
<1>1. ASSUME NEW i \in Terminals(records), records[i] \in Range(disk)
      PROVE  records[i] \in Range(next)
  <2>1. PICK k \in DOMAIN disk : disk[k] = records[i]
    BY <1>1 DEF Range
  <2>2. k \in DOMAIN next /\ next[k] = records[i]
    BY <2>1, RequalifiedKeeps DEF Terminals
  <2>. QED  BY <2>2 DEF Range
<1>2. LostOpen(records, disk) \subseteq LostOpen(records, next)
  <2>1. \A record \in Range(next) : Terminal(record)
    BY RequalifiedKeeps DEF Range
  <2>. QED  BY <2>1 DEF LostOpen, Terminals
<1>3. Cardinality(LostOpen(records, disk)) <= Cardinality(LostOpen(records, next))
  BY <1>2, CountsAreFinite, FS_Subset
<1>4. /\ Cardinality(LostOpen(records, disk)) \in Nat
      /\ Cardinality(LostOpen(records, next)) \in Nat
      /\ Cardinality(Terminals(records)) \in Nat
  BY CountsAreFinite
<1>. HIDE DEF next
<1>5. ASSUME NEW i \in Terminals(records), ~(records[i] \in Range(next))
      PROVE  Cardinality(Terminals(records)) + Cardinality(LostOpen(records, next))
               > MaxTerminal
  <2>1. Cardinality(Terminals(records)) + Cardinality(LostOpen(records, disk))
          > MaxTerminal
    BY <1>1, <1>5 DEF Follows
  <2>. QED  BY <1>3, <1>4, <2>1, RegistryAssumption
<1>. QED  BY <1>5 DEF Follows, next

-----------------------------------------------------------------------------
(* What an open request holds, and how one step moves it.                  *)

LEMMA RequestHolds ==
    ASSUME CarriesSigned, NEW h \in Request
    PROVE  /\ (Underway(h) \/ handler[h].phase = "checked") => handler[h].approval \in Envelope
           /\ handler[h].phase = "checked" => handler[h].at \in 1..MaxClock
           /\ handler[h].phase = "running" => handler[h].run \in Run
           /\ handler[h].phase = "concluding" => handler[h].state \in TerminalStates
BY DEF CarriesSigned, HandlerState, Closed, Underway

OthersWait(h) == \A g \in Request : g # h => handler'[g] = handler[g]

LEMMA ClosingShape ==
    ASSUME CarriesSigned, NEW h \in Request,
           AcceptFails(h) \/ Conclude(h) \/ ConcludeFails(h)
    PROVE  handler'[h].phase = "closed" /\ OthersWait(h)
<1>1. handler' = [handler EXCEPT ![h] = Closed] /\ handler \in [Request -> HandlerState]
  BY DEF AcceptFails, Conclude, ConcludeFails, CarriesSigned
<1>. QED  BY <1>1 DEF OthersWait, Closed

LEMMA CheckShape ==
    ASSUME CarriesSigned, NEW h \in Request, NEW a \in signed, Check(h, a)
    PROVE  handler[h].phase = "closed" /\ handler'[h].phase = "checked" /\ OthersWait(h)
<1>1. /\ handler[h] = Closed /\ handler \in [Request -> HandlerState]
      /\ \E now \in 1..MaxClock :
          handler' = [handler EXCEPT ![h] = [phase |-> "checked", approval |-> a,
                                             at |-> now]]
  BY DEF Check, CarriesSigned
<1>. QED  BY <1>1 DEF OthersWait, Closed

LEMMA MovesShape ==
    ASSUME CarriesSigned, NEW h \in Request, NEW phase, handler' = Moves(h, phase)
    PROVE  /\ handler'[h].phase = phase /\ handler'[h].approval = handler[h].approval
           /\ OthersWait(h)
BY DEF CarriesSigned, Moves, OthersWait

LEMMA ConcludedShape ==
    ASSUME CarriesSigned, NEW h \in Request, NEW state, handler' = Concluded(h, state)
    PROVE  /\ handler'[h].phase = "concluding" /\ handler'[h].approval = handler[h].approval
           /\ handler'[h].state = state /\ OthersWait(h)
BY DEF CarriesSigned, Concluded, OthersWait

LEMMA ConnectShape ==
    ASSUME CarriesSigned, NEW h \in Request, NEW r \in Run, Connect(h, r)
    PROVE  /\ handler'[h].phase = "running" /\ handler'[h].approval = handler[h].approval
           /\ handler'[h].run = r /\ OthersWait(h)
<1>1. /\ handler \in [Request -> HandlerState]
      /\ handler' = [handler EXCEPT ![h] = [phase |-> "running", run |-> r,
                                            approval |-> handler[h].approval]]
  BY DEF Connect, CarriesSigned
<1>. QED  BY <1>1 DEF OthersWait

-----------------------------------------------------------------------------
(* The registry and the launches under way.                                *)

OpenFor(records, approval) ==
    \E record \in Range(records) : record.approval = approval /\ ~Terminal(record)

(* Memory and file both hold an open record of a launch under way. *)
LaunchesAreOpen ==
    \A h \in Request : Underway(h) =>
        /\ OpenFor(registry, handler[h].approval)
        /\ OpenFor(registryDisk, handler[h].approval)

RegistryInv ==
    /\ registry \in Seq(Record) /\ registryDisk \in Seq(Record)
    /\ ValidRegistry(registry)
    /\ Follows(registry, registryDisk)
    /\ LaunchesAreOpen
    /\ OneLaunchAtATime

(* A step that leaves the registry alone and starts no launch. *)
LaunchGoesOn(h) ==
    /\ UNCHANGED registryVars
    /\ OthersWait(h)
    /\ Underway(h)' => Underway(h) /\ handler'[h].approval = handler[h].approval

LEMMA LaunchGoesOnKeeps ==
    ASSUME RegistryInv, NEW h \in Request, LaunchGoesOn(h)
    PROVE  RegistryInv'
<1>1. UNCHANGED <<registry, registryDisk>>
  BY DEF LaunchGoesOn, registryVars
<1>2. \A g \in Request : Underway(g)' =>
         Underway(g) /\ handler'[g].approval = handler[g].approval
  BY DEF LaunchGoesOn, OthersWait, Underway
<1>3. LaunchesAreOpen'
  BY <1>1, <1>2 DEF RegistryInv, LaunchesAreOpen
<1>4. OneLaunchAtATime'
  BY <1>2 DEF RegistryInv, OneLaunchAtATime
<1>5. (Follows(registry, registryDisk))' /\ ValidRegistry(registry)'
  BY <1>1 DEF RegistryInv, Follows, LostOpen, ValidRegistry
<1>. QED  BY <1>1, <1>3, <1>4, <1>5 DEF RegistryInv

(* A request leaves; what the others wait for stays open. *)
LEMMA ClosingKeepsLaunches ==
    ASSUME RegistryInv, NEW h \in Request, ~Underway(h)', OthersWait(h),
           \A g \in Request : (g # h /\ Underway(g)) =>
                /\ OpenFor(registry', handler[g].approval)
                /\ OpenFor(registryDisk', handler[g].approval)
    PROVE  LaunchesAreOpen' /\ OneLaunchAtATime'
<1>1. \A g \in Request : Underway(g)' =>
         g # h /\ Underway(g) /\ handler'[g].approval = handler[g].approval
  BY DEF OthersWait, Underway
<1>. QED  BY <1>1 DEF RegistryInv, LaunchesAreOpen, OneLaunchAtATime

LEMMA FollowsItself ==
    ASSUME NEW records \in Seq(Record)
    PROVE  Follows(records, records)
BY DEF Follows, Terminals, Range

LEMMA AcceptDispatchKeepsRegistry ==
    ASSUME RegistryInv, CarriesSigned, NEW h \in Request, AcceptDispatch(h)
    PROVE  RegistryInv'
<1>. DEFINE a == handler[h].approval
            next == Accepting(a, handler[h].at)
<1>1. /\ handler[h].phase = "checked" /\ handler' = Moves(h, "spent")
      /\ ValidRegistry(next) /\ registry' = next /\ registryDisk' = next
  BY DEF AcceptDispatch, CommitOk
<1>2. a \in Envelope /\ handler[h].at \in 1..MaxClock
  BY <1>1, RequestHolds
<1>3. registry \in Seq(Record)
  BY DEF RegistryInv
<1>4. /\ next \in Seq(Record)
      /\ \A i \in DOMAIN registry : ~Terminal(registry[i]) => registry[i] \in Range(next)
      /\ Dispatched(a, handler[h].at) \in Range(next)
      /\ \A i \in DOMAIN registry :
            ~Terminal(registry[i]) => registry[i].approval # a
  BY <1>1, <1>2, <1>3, AcceptingKeeps
<1>5. handler'[h].phase = "spent" /\ handler'[h].approval = a /\ OthersWait(h)
  BY <1>1, MovesShape
<1>. HIDE DEF next, a
<1>6. OpenFor(next, a)
  BY <1>4 DEF OpenFor, Dispatched, Terminal
<1>7. ASSUME NEW g \in Request, g # h, Underway(g)
      PROVE  OpenFor(next, handler[g].approval) /\ handler[g].approval # a
  BY SMTT(30), <1>4, <1>7 DEF RegistryInv, LaunchesAreOpen, OpenFor, Range
<1>8. \A g \in Request : Underway(g)' =>
         \/ g = h /\ handler'[g].approval = a
         \/ g # h /\ Underway(g) /\ handler'[g].approval = handler[g].approval
  BY <1>5 DEF OthersWait, Underway
<1>9. LaunchesAreOpen'
  BY <1>1, <1>6, <1>7, <1>8 DEF LaunchesAreOpen
<1>10. OneLaunchAtATime'
  BY <1>7, <1>8 DEF RegistryInv, OneLaunchAtATime
<1>11. ValidRegistry(registry)' /\ (Follows(registry, registryDisk))'
  BY <1>1, <1>4, FollowsItself
<1>. QED  BY <1>1, <1>4, <1>9, <1>10, <1>11 DEF RegistryInv

LEMMA AcceptFailsKeepsRegistry ==
    ASSUME RegistryInv, CarriesSigned, NEW h \in Request, AcceptFails(h)
    PROVE  RegistryInv'
<1>. DEFINE a == handler[h].approval
            next == Accepting(a, handler[h].at)
<1>1. /\ handler[h].phase = "checked" /\ UNCHANGED registry
      /\ UNCHANGED registryDisk \/ registryDisk' = next
  BY DEF AcceptFails, CommitFails
<1>2. a \in Envelope /\ handler[h].at \in 1..MaxClock
  BY <1>1, RequestHolds
<1>3. registry \in Seq(Record)
  BY DEF RegistryInv
<1>4. /\ next \in Seq(Record)
      /\ \A i \in DOMAIN registry : ~Terminal(registry[i]) => registry[i] \in Range(next)
      /\ Follows(registry, next)
  BY <1>2, <1>3, AcceptingKeeps
<1>5. ~Underway(h)' /\ OthersWait(h)
  BY ClosingShape DEF Underway
<1>. HIDE DEF next, a
<1>6. ASSUME NEW g \in Request, g # h, Underway(g)
      PROVE  OpenFor(registry', handler[g].approval)
               /\ OpenFor(registryDisk', handler[g].approval)
  <2>1. /\ OpenFor(registry, handler[g].approval)
        /\ OpenFor(registryDisk, handler[g].approval)
    BY <1>6 DEF RegistryInv, LaunchesAreOpen
  <2>2. OpenFor(next, handler[g].approval)
    BY <1>4, <2>1 DEF OpenFor, Range
  <2>. QED  BY <1>1, <2>1, <2>2
<1>7. LaunchesAreOpen' /\ OneLaunchAtATime'
  BY <1>5, <1>6, ClosingKeepsLaunches
<1>8. ValidRegistry(registry)' /\ (Follows(registry, registryDisk))'
  BY <1>1, <1>4 DEF RegistryInv
<1>. QED  BY <1>1, <1>4, <1>7, <1>8 DEF RegistryInv

(* Both ends of Conclude. *)
LEMMA ConcludeKeepsRegistry ==
    ASSUME RegistryInv, CarriesSigned, NEW h \in Request,
           Conclude(h) \/ ConcludeFails(h)
    PROVE  RegistryInv'
<1>. DEFINE a == handler[h].approval
            next == Concluding(a, handler[h].state)
<1>1. /\ handler[h].phase = "concluding"
      /\ \/ UNCHANGED <<registry, registryDisk>>
         \/ Concludes(a) /\ UNCHANGED registry /\ registryDisk' = next
         \/ Concludes(a) /\ ValidRegistry(next) /\ registry' = next /\ registryDisk' = next
  BY DEF Conclude, ConcludeFails, CommitFails, CommitOk, registryVars
<1>2. handler[h].state \in TerminalStates /\ Underway(h)
  BY <1>1, RequestHolds DEF Underway
<1>3. registry \in Seq(Record) /\ registryDisk \in Seq(Record) /\ ValidRegistry(registry)
  BY DEF RegistryInv
<1>4. Concludes(a) =>
      /\ next \in Seq(Record)
      /\ \A i \in DOMAIN registry :
            (~Terminal(registry[i]) /\ registry[i].approval # a) => registry[i] \in Range(next)
      /\ Follows(registry, next)
  BY <1>2, <1>3, ConcludingKeeps
<1>5. ~Underway(h)' /\ OthersWait(h)
  BY ClosingShape DEF Underway
<1>. HIDE DEF next
<1>6. ASSUME NEW g \in Request, g # h, Underway(g)
      PROVE  OpenFor(registry', handler[g].approval)
               /\ OpenFor(registryDisk', handler[g].approval)
  <2>1. /\ OpenFor(registry, handler[g].approval)
        /\ OpenFor(registryDisk, handler[g].approval)
        /\ handler[g].approval # a
    BY <1>2, <1>6 DEF RegistryInv, LaunchesAreOpen, OneLaunchAtATime
  <2>2. Concludes(a) => OpenFor(next, handler[g].approval)
    BY <1>4, <2>1 DEF OpenFor, Range
  <2>. QED  BY <1>1, <2>1, <2>2
<1>. HIDE DEF a
<1>7. LaunchesAreOpen' /\ OneLaunchAtATime'
  BY <1>5, <1>6, ClosingKeepsLaunches
<1>8. ValidRegistry(registry)' /\ (Follows(registry, registryDisk))'
  BY <1>1, <1>3, <1>4, FollowsItself DEF RegistryInv
<1>. QED  BY <1>1, <1>3, <1>4, <1>7, <1>8 DEF RegistryInv

LEMMA RestartKeepsRegistry ==
    ASSUME RegistryInv, ControllerRestarts
    PROVE  RegistryInv'
<1>. DEFINE next == Requalified(registryDisk)
<1>1. /\ registry' = next /\ registryDisk' = next
      /\ \A h \in Request : ~Underway(h)'
  BY DEF ControllerRestarts, ReopenRegistry, Underway, Closed
<1>2. /\ next \in Seq(Record)
      /\ \A i \in DOMAIN next : Terminal(next[i])
  BY RequalifiedKeeps DEF RegistryInv
<1>. HIDE DEF next
<1>3. ValidRegistry(next)
  BY <1>2 DEF ValidRegistry
<1>4. LaunchesAreOpen' /\ OneLaunchAtATime'
  BY <1>1 DEF LaunchesAreOpen, OneLaunchAtATime
<1>. QED  BY <1>1, <1>2, <1>3, <1>4, FollowsItself DEF RegistryInv

(* Every step that touches neither the registry nor the start of a launch. *)
LEMMA RequestGoesOn ==
    ASSUME CarriesSigned, NEW h \in Request,
           \/ \E a \in signed : Check(h, a)
           \/ NotLaunched(h) \/ Launch(h) \/ ClientFails(h)
           \/ \E r \in Run : Connect(h, r)
           \/ Deadline(h) \/ Answer(h) \/ ChannelLost(h) \/ ClientErrs(h)
    PROVE  LaunchGoesOn(h)
<1>1. CASE \E a \in signed : Check(h, a)
  BY <1>1, CheckShape DEF Check, LaunchGoesOn, Underway
<1>2. CASE NotLaunched(h) \/ ClientFails(h) \/ Deadline(h) \/ ChannelLost(h) \/ ClientErrs(h)
  <2>1. /\ Underway(h) /\ UNCHANGED registryVars
        /\ \E state \in TerminalStates : handler' = Concluded(h, state)
    BY <1>2 DEF NotLaunched, ClientFails, Deadline, ChannelLost, ClientErrs,
                TerminalStates, Underway
  <2>. QED  BY <2>1, ConcludedShape DEF LaunchGoesOn
<1>3. CASE Answer(h)
  <2>1. /\ Underway(h) /\ UNCHANGED registryVars
        /\ \E state : handler' = Concluded(h, state)
    BY <1>3 DEF Answer, Underway
  <2>. QED  BY <2>1, ConcludedShape DEF LaunchGoesOn
<1>4. CASE Launch(h)
  BY <1>4, MovesShape DEF Launch, LaunchGoesOn, Underway
<1>5. CASE \E r \in Run : Connect(h, r)
  BY <1>5, ConnectShape DEF Connect, LaunchGoesOn, Underway
<1>. QED  BY <1>1, <1>2, <1>3, <1>4, <1>5

LEMMA RegistryAloneKeeps ==
    ASSUME RegistryInv, UNCHANGED <<registry, registryDisk, handler>>
    PROVE  RegistryInv'
<1>1. LaunchesAreOpen' /\ OneLaunchAtATime'
  BY DEF RegistryInv, LaunchesAreOpen, OneLaunchAtATime, Underway
<1>2. ValidRegistry(registry)' /\ (Follows(registry, registryDisk))'
  BY DEF RegistryInv
<1>. QED  BY <1>1, <1>2 DEF RegistryInv

LEMMA RegistryInvInit == Init => RegistryInv
<1>. SUFFICES ASSUME Init PROVE RegistryInv
  OBVIOUS
<1>1. registry = <<>> /\ registryDisk = <<>> /\ \A h \in Request : ~Underway(h)
  BY DEF Init, RegistryInit, Underway, Closed
<1>2. LaunchesAreOpen /\ OneLaunchAtATime
  BY <1>1 DEF LaunchesAreOpen, OneLaunchAtATime
<1>3. ValidRegistry(registry) /\ registry \in Seq(Record)
  BY <1>1 DEF ValidRegistry
<1>. QED  BY <1>1, <1>2, <1>3, FollowsItself DEF RegistryInv

LEMMA RegistryInvStep ==
    CarriesSigned /\ RegistryInv /\ [Next]_pathVars => RegistryInv'
<1>. SUFFICES ASSUME CarriesSigned, RegistryInv, [Next]_pathVars PROVE RegistryInv'
  OBVIOUS
<1>1. CASE SubmitDecision \/ MachineFails \/ UNCHANGED pathVars
  <2>1. UNCHANGED <<registry, registryDisk, handler>>
    BY <1>1 DEF SubmitDecision, MachineFails, pathVars, controllerVars, registryVars
  <2>. QED  BY <2>1, RegistryAloneKeeps
<1>2. ASSUME NEW r \in Run, AuxiliaryStep(r) PROVE RegistryInv'
  <2>1. UNCHANGED <<registry, registryDisk, handler>>
    BY <1>2 DEF AuxiliaryStep, AuxiliaryTouches, AuxiliarySteps, Unheard,
                controllerVars, registryVars
  <2>. QED  BY <2>1, RegistryAloneKeeps
<1>3. ASSUME NEW h \in Request,
           \/ \E a \in signed : Check(h, a)
           \/ NotLaunched(h) \/ Launch(h) \/ ClientFails(h)
           \/ \E r \in Run : Connect(h, r)
           \/ Deadline(h) \/ Answer(h) \/ ChannelLost(h) \/ ClientErrs(h)
      PROVE  RegistryInv'
  BY <1>3, RequestGoesOn, LaunchGoesOnKeeps
<1>4. CASE \E h \in Request : AcceptDispatch(h)
  BY <1>4, AcceptDispatchKeepsRegistry
<1>5. CASE \E h \in Request : AcceptFails(h)
  BY <1>5, AcceptFailsKeepsRegistry
<1>6. CASE \E h \in Request : Conclude(h) \/ ConcludeFails(h)
  BY <1>6, ConcludeKeepsRegistry
<1>7. CASE ControllerRestarts
  BY <1>7, RestartKeepsRegistry
<1>. QED  BY <1>1, <1>2, <1>3, <1>4, <1>5, <1>6, <1>7 DEF Next, HandlerStep

LEMMA RegistryFollows ==
    CarriesSigned /\ RegistryInv /\ [Next]_pathVars => Follows(registry, registry')
<1>. SUFFICES ASSUME CarriesSigned, RegistryInv, [Next]_pathVars
              PROVE  Follows(registry, registry')
  OBVIOUS
<1>0. registry \in Seq(Record) /\ registryDisk \in Seq(Record) /\ ValidRegistry(registry)
  BY DEF RegistryInv
<1>1. CASE UNCHANGED registry
  BY <1>0, <1>1, FollowsItself
<1>2. ASSUME NEW h \in Request, AcceptDispatch(h) PROVE Follows(registry, registry')
  <2>1. /\ handler[h].phase = "checked"
        /\ registry' = Accepting(handler[h].approval, handler[h].at)
    BY <1>2 DEF AcceptDispatch, CommitOk
  <2>2. handler[h].approval \in Envelope /\ handler[h].at \in 1..MaxClock
    BY <2>1, RequestHolds
  <2>. QED  BY <1>0, <2>1, <2>2, AcceptingKeeps
<1>3. ASSUME NEW h \in Request, Conclude(h) PROVE Follows(registry, registry')
  <2>1. /\ handler[h].phase = "concluding" /\ Concludes(handler[h].approval)
        /\ registry' = Concluding(handler[h].approval, handler[h].state)
    BY <1>3 DEF Conclude, CommitOk
  <2>2. handler[h].state \in TerminalStates
    BY <2>1, RequestHolds
  <2>. QED  BY <1>0, <2>1, <2>2, ConcludingKeeps
<1>4. CASE ControllerRestarts
  <2>1. registry' = Requalified(registryDisk)
    BY <1>4 DEF ControllerRestarts, ReopenRegistry
  <2>. QED  BY <1>0, <2>1, RequalifiedFollows DEF RegistryInv
<1>5. CASE SubmitDecision \/ MachineFails \/ UNCHANGED pathVars
  <2>1. UNCHANGED registry
    BY <1>5 DEF SubmitDecision, MachineFails, pathVars, controllerVars, registryVars
  <2>. QED  BY <2>1, <1>1
<1>6. ASSUME NEW r \in Run, AuxiliaryStep(r) PROVE Follows(registry, registry')
  <2>1. UNCHANGED registry
    BY <1>6 DEF AuxiliaryStep, AuxiliaryTouches, AuxiliarySteps, Unheard,
                controllerVars, registryVars
  <2>. QED  BY <2>1, <1>1
<1>7. ASSUME NEW h \in Request,
           \/ \E a \in signed : Check(h, a)
           \/ NotLaunched(h) \/ Launch(h) \/ ClientFails(h)
           \/ \E r \in Run : Connect(h, r)
           \/ Deadline(h) \/ Answer(h) \/ ChannelLost(h) \/ ClientErrs(h)
      PROVE  Follows(registry, registry')
  <2>1. UNCHANGED registry
    BY <1>7, RequestGoesOn DEF LaunchGoesOn, registryVars
  <2>. QED  BY <2>1, <1>1
<1>8. ASSUME NEW h \in Request, AcceptFails(h) \/ ConcludeFails(h)
      PROVE  Follows(registry, registry')
  <2>1. UNCHANGED registry
    BY <1>8 DEF AcceptFails, ConcludeFails, CommitFails, registryVars
  <2>. QED  BY <2>1, <1>1
<1>. QED  BY <1>2, <1>3, <1>4, <1>5, <1>6, <1>7, <1>8 DEF Next, HandlerStep

(* The registry and the launches under way stay consistent through commits,
   commits that fail before or after the rename, and restarts. *)
THEOREM RegistryIsInvariant == Spec => [](CarriesSigned /\ MachineInv /\ RegistryInv)
<1>1. Init => CarriesSigned /\ MachineInv /\ RegistryInv
  BY CarriesSignedInit, MachineInvInit, RegistryInvInit DEF Init
<1>2. CarriesSigned /\ MachineInv /\ RegistryInv /\ [Next]_pathVars
        => CarriesSigned' /\ MachineInv' /\ RegistryInv'
  BY CarriesSignedStep, PathStepIsMachineStep, MachineInvStep, RegistryInvStep
     DEF MachineInv
<1>. QED  BY <1>1, <1>2, PTL DEF Spec

(* "the durable write precedes any connection": no launch is ever under way
   without an open record of it on the disk. *)
THEOREM LaunchIsAlwaysRecorded == Spec => []LaunchIsRecorded
<1>1. RegistryInv => LaunchIsRecorded
  BY DEF RegistryInv, LaunchesAreOpen, LaunchIsRecorded, OpenFor, Range
<1>. QED  BY <1>1, RegistryIsInvariant, PTL

(* The same bytes are never launched by two requests together: the
   validation of the second commit always sees the first open record. *)
THEOREM OneLaunchEver == Spec => []OneLaunchAtATime
<1>1. RegistryInv => OneLaunchAtATime
  BY DEF RegistryInv
<1>. QED  BY <1>1, RegistryIsInvariant, PTL

(* No step rewrites or loses the conclusion of a dispatch, save by the
   bound of the registry, and a restart does not either: the file a failed
   commit left behind follows the memory like a commit does. *)
THEOREM HistoryIsAlwaysFinal == Spec => HistoryIsFinal
<1>1. CarriesSigned /\ RegistryInv /\ [Next]_pathVars
        => [\A i \in Terminals(registry) :
              \/ registry[i] \in Range(registry')
              \/ Cardinality(Terminals(registry))
                  + Cardinality({j \in DOMAIN registry \ Terminals(registry) :
                                    registry[j] \notin Range(registry')})
                    > MaxTerminal]_pathVars
  BY RegistryFollows DEF Follows, LostOpen
<1>. QED  BY <1>1, RegistryIsInvariant, PTL DEF Spec, HistoryIsFinal

-----------------------------------------------------------------------------
(* What the runs of the Auxiliary do, seen from the request that listens.  *)

(* A run that accepted its envelope, or reported on it. *)
HasAccepted(state) ==
    \/ state.phase \in {"accepted", "touched"}
    \/ state.phase = "done" /\ state.answer = "report"

HasRefused(state) == state.phase = "done" /\ state.answer = "refused"

(* How one Auxiliary may go on in a step that does not start or end it. *)
GoesOn(before, after) ==
    /\ before.phase # "idle" =>
          after.phase # "idle" /\ after.envelope = before.envelope
    /\ after.phase \in Phases => before.phase \in Phases /\ after.envelope = before.envelope
    /\ (after.phase \in Phases \ {"touched"}) => before.phase # "touched"
    /\ HasRefused(after) =>
          HasRefused(before) \/ before.phase \in Phases \ {"touched"}

LEMMA RunTyped ==
    ASSUME MachineTypeOK, NEW r \in Run
    PROVE  /\ run[r] \in RunState
           /\ run[r].phase \in Phases \cup {"idle", "done"}
           /\ run[r].phase # "idle" => run[r].envelope \in Envelope
           /\ run[r].phase = "done" => run[r].answer \in Answers
BY DEF MachineTypeOK, RunState, Idle, Phases

LEMMA StaysGoesOn == \A state : GoesOn(state, state)
BY DEF GoesOn

LEMMA MovedShape ==
    ASSUME MachineTypeOK, NEW r \in Run, NEW phase \in Phases, run' = Moved(r, phase),
           run[r].phase \in Phases, NEW s \in Run
    PROVE  /\ s # r => run'[s] = run[s]
           /\ run'[r].phase = phase /\ run'[r].envelope = run[r].envelope
<1>1. run \in [Run -> RunState]
  BY DEF MachineTypeOK
<1>2. run[r] \in [phase : Phases, envelope : Envelope, epoch : Epochs, current : Position]
  BY <1>1 DEF RunState, Idle, Phases
<1>3. run'[r] = [run[r] EXCEPT !.phase = phase] /\ (s # r => run'[s] = run[s])
  BY <1>1 DEF Moved
<1>. QED  BY <1>2, <1>3

LEMMA DoneShape ==
    ASSUME MachineTypeOK, NEW r \in Run, NEW answer, run' = Done(r, answer), NEW s \in Run
    PROVE  /\ s # r => run'[s] = run[s]
           /\ run'[r].phase = "done" /\ run'[r].envelope = run[r].envelope
           /\ run'[r].answer = answer
<1>1. run \in [Run -> RunState]
  BY DEF MachineTypeOK
<1>. QED  BY <1>1 DEF Done

LEMMA MovesGoOn ==
    ASSUME MachineTypeOK, NEW r \in Run, run[r].phase \in Phases \ {"touched"},
           NEW s \in Run,
           \/ \E phase \in Phases : run' = Moved(r, phase)
           \/ run' = Done(r, "refused")
    PROVE  GoesOn(run[s], run'[s])
<1>1. CASE \E phase \in Phases : run' = Moved(r, phase)
  <2>1. /\ s # r => run'[s] = run[s]
        /\ run'[r].phase \in Phases /\ run'[r].envelope = run[r].envelope
    BY <1>1, MovedShape
  <2>. QED  BY <2>1, StaysGoesOn DEF GoesOn, Phases, HasRefused
<1>2. CASE run' = Done(r, "refused")
  <2>1. /\ s # r => run'[s] = run[s]
        /\ run'[r].phase = "done" /\ run'[r].envelope = run[r].envelope
    BY <1>2, DoneShape
  <2>. QED  BY <2>1, StaysGoesOn DEF GoesOn, Phases, HasRefused
<1>. QED  BY <1>1, <1>2

LEMMA EndsGoOn ==
    ASSUME MachineTypeOK, NEW r \in Run, run[r].phase \in Phases,
           NEW s \in Run, NEW answer \in Answers \ {"refused"}, run' = Done(r, answer)
    PROVE  GoesOn(run[s], run'[s])
<1>1. /\ s # r => run'[s] = run[s]
      /\ run'[r].phase = "done" /\ run'[r].envelope = run[r].envelope
      /\ run'[r].answer # "refused"
  BY DoneShape
<1>. QED  BY <1>1, StaysGoesOn DEF GoesOn, Phases, HasRefused

LEMMA AuxiliaryGoesOn ==
    ASSUME MachineTypeOK, NEW r \in Run, AuxiliarySteps(r) \/ AuxiliaryTouches(r),
           NEW s \in Run
    PROVE  GoesOn(run[s], run'[s])
<1>1. CASE Refuse(r) \/ ConsumeRefused(r) \/ ConsumeUnsynced(r) \/ ApplyRefuses(r)
  <2>1. run[r].phase \in Phases \ {"touched"} /\ run' = Done(r, "refused")
    BY <1>1 DEF Refuse, ConsumeRefused, ConsumeUnsynced, ApplyRefuses, Phases
  <2>. QED  BY <2>1, MovesGoOn
<1>2. CASE Acquire(r) \/ Consume(r) \/ Touch(r)
  <2>1. /\ run[r].phase \in Phases \ {"touched"}
        /\ \E phase \in Phases : run' = Moved(r, phase)
    BY <1>2 DEF Acquire, Consume, Touch, Phases
  <2>. QED  BY <2>1, MovesGoOn
<1>3. CASE Decide(r)
  <2>0. run[r].phase = "locked" /\ run \in [Run -> RunState]
    BY <1>3 DEF Decide, MachineTypeOK
  <2>1. run[r] \in [phase : Phases, envelope : Envelope, epoch : Epochs, current : Position]
    BY <2>0 DEF RunState, Idle, Phases
  <2>2. /\ run'[r] = [run[r] EXCEPT !.phase = "decided", !.current = position]
        /\ s # r => run'[s] = run[s]
    BY <1>3, <2>0 DEF Decide
  <2>3. run'[r].phase = "decided" /\ run'[r].envelope = run[r].envelope
    BY <2>1, <2>2
  <2>. QED  BY <2>0, <2>2, <2>3, StaysGoesOn DEF GoesOn, Phases, HasRefused
<1>4. CASE Report(r)
  <2>1. run[r].phase \in Phases /\ run' = Done(r, "report")
    BY <1>4 DEF Report, Phases
  <2>. QED  BY <2>1, EndsGoOn DEF Answers
<1>5. CASE Killed(r)
  <2>1. /\ run[r].phase \in Phases
        /\ \E answer \in {"silent", "garbled"} : run' = Done(r, answer)
    BY <1>5 DEF Killed
  <2>. QED  BY <2>1, EndsGoOn DEF Answers
<1>. QED  BY <1>1, <1>2, <1>3, <1>4, <1>5 DEF AuxiliarySteps, AuxiliaryTouches

LEMMA PowerLossGoesOn ==
    ASSUME MachineTypeOK, PowerLoss, NEW s \in Run
    PROVE  /\ GoesOn(run[s], run'[s])
           /\ HasAccepted(run'[s]) => run'[s] = run[s]
           /\ HasRefused(run'[s]) => run'[s] = run[s]
<1>1. run'[s] = IF run[s].phase \in Phases
                THEN [phase |-> "done", answer |-> "silent", envelope |-> run[s].envelope]
                ELSE run[s]
  BY DEF PowerLoss
<1>2. CASE run[s].phase \in Phases
  BY <1>1, <1>2 DEF GoesOn, HasAccepted, HasRefused, Phases
<1>3. CASE run[s].phase \notin Phases
  BY <1>1, <1>3, StaysGoesOn
<1>. QED  BY <1>2, <1>3

-----------------------------------------------------------------------------
(* What the registry attests.                                              *)

AcceptedRuns ==
    \A r \in Run : HasAccepted(run[r]) => run[r].envelope \in Range(accepted)

LEMMA AcceptedGrows ==
    ASSUME MachineTypeOK, MachineNext
    PROVE  Range(accepted) \subseteq Range(accepted')
<1>1. \/ UNCHANGED accepted
      \/ \E r \in Run : Consume(r) /\ accepted' = Append(accepted, run[r].envelope)
  BY DEF MachineNext, RunStep, Start, Refuse, Acquire, Decide, ConsumeRefused, Consume,
         ConsumeUnsynced, ApplyRefuses, Touch, Report, Killed, Exit, RotateAnchor, PowerLoss
<1>2. ASSUME NEW r \in Run, Consume(r), accepted' = Append(accepted, run[r].envelope)
      PROVE  Range(accepted) \subseteq Range(accepted')
  <2>1. accepted \in Seq(Envelope) /\ run[r].envelope \in Envelope
    BY <1>2, RunTyped DEF Consume, MachineTypeOK
  <2>2. \A i \in DOMAIN accepted : i \in DOMAIN accepted' /\ accepted'[i] = accepted[i]
    BY <1>2, <2>1
  <2>. QED  BY <2>2 DEF Range
<1>. QED  BY <1>1, <1>2

LEMMA ConsumeAccepts ==
    ASSUME MachineTypeOK, NEW r \in Run, Consume(r)
    PROVE  run[r].envelope \in Range(accepted')
<1>1. accepted \in Seq(Envelope) /\ run[r].envelope \in Envelope
  BY RunTyped DEF Consume, MachineTypeOK
<1>2. accepted' = Append(accepted, run[r].envelope)
  BY DEF Consume
<1>3. /\ Len(accepted) + 1 \in DOMAIN accepted'
      /\ accepted'[Len(accepted) + 1] = run[r].envelope
  BY <1>1, <1>2
<1>. QED  BY <1>3 DEF Range

LEMMA AcceptedRunsStep ==
    ASSUME MachineTypeOK, AcceptedRuns, [MachineNext]_machineVars
    PROVE  AcceptedRuns' /\ Range(accepted) \subseteq Range(accepted')
<1>0. CASE UNCHANGED machineVars
  BY <1>0 DEF machineVars, AcceptedRuns
<1>. SUFFICES ASSUME MachineNext PROVE AcceptedRuns' /\ Range(accepted) \subseteq Range(accepted')
  BY <1>0
<1>1. Range(accepted) \subseteq Range(accepted')
  BY AcceptedGrows
<1>. SUFFICES ASSUME NEW s \in Run, HasAccepted(run'[s])
              PROVE  run'[s].envelope \in Range(accepted')
  BY <1>1 DEF AcceptedRuns
<1>2. HasAccepted(run[s]) => run[s].envelope \in Range(accepted')
  BY <1>1 DEF AcceptedRuns
<1>3. run \in [Run -> RunState]
  BY DEF MachineTypeOK
<1>4. ASSUME NEW r \in Run, NEW e \in Envelope, Start(r, e)
      PROVE  run'[s] = run[s]
  BY <1>3, <1>4 DEF Start, HasAccepted
<1>5. ASSUME NEW r \in Run, Exit(r) PROVE run'[s] = run[s]
  BY <1>3, <1>5 DEF Exit, Idle, HasAccepted
<1>6. ASSUME NEW r \in Run, NEW answer \in Answers \ {"report"}, run' = Done(r, answer)
      PROVE  run'[s] = run[s]
  BY <1>6, DoneShape DEF HasAccepted
<1>7. ASSUME NEW r \in Run,
             \/ Refuse(r) \/ ConsumeRefused(r) \/ ConsumeUnsynced(r)
             \/ ApplyRefuses(r) \/ Killed(r)
      PROVE  run'[s] = run[s]
  <2>1. \E answer \in Answers \ {"report"} : run' = Done(r, answer)
    BY <1>7 DEF Refuse, ConsumeRefused, ConsumeUnsynced, ApplyRefuses, Killed, Answers
  <2>. QED  BY <2>1, <1>6
<1>8. CASE PowerLoss
  BY <1>2, <1>8, PowerLossGoesOn
<1>9. CASE RotateAnchor
  BY <1>2, <1>9 DEF RotateAnchor
<1>10. ASSUME NEW r \in Run, Acquire(r) PROVE run'[s] = run[s]
  <2>1. run' = Moved(r, "locked") /\ run[r].phase = "anchored"
    BY <1>10 DEF Acquire
  <2>. QED  BY <2>1, MovedShape DEF HasAccepted, Phases
<1>11. ASSUME NEW r \in Run, Decide(r) PROVE run'[s] = run[s]
  <2>0. run[r].phase = "locked"
    BY <1>11 DEF Decide
  <2>1. run[r] \in [phase : Phases, envelope : Envelope, epoch : Epochs, current : Position]
    BY <1>3, <2>0 DEF RunState, Idle, Phases
  <2>2. /\ run'[r] = [run[r] EXCEPT !.phase = "decided", !.current = position]
        /\ s # r => run'[s] = run[s]
    BY <1>3, <1>11 DEF Decide
  <2>3. run'[r].phase = "decided"
    BY <2>1, <2>2
  <2>. QED  BY <2>2, <2>3 DEF HasAccepted
<1>12. ASSUME NEW r \in Run, Consume(r) PROVE run'[s].envelope \in Range(accepted')
  <2>1. run' = Moved(r, "accepted") /\ run[r].phase \in Phases
    BY <1>12 DEF Consume, Phases
  <2>2. /\ s # r => run'[s] = run[s]
        /\ run'[r].envelope = run[r].envelope
    BY <2>1, MovedShape DEF Phases
  <2>. QED  BY <1>2, <1>12, <2>2, ConsumeAccepts
<1>13. ASSUME NEW r \in Run, Touch(r) \/ Report(r)
       PROVE  run'[s].envelope \in Range(accepted')
  <2>1. /\ run[r].phase \in {"accepted", "touched"}
        /\ run' = Moved(r, "touched") \/ run' = Done(r, "report")
    BY <1>13 DEF Touch, Report
  <2>2. /\ s # r => run'[s] = run[s]
        /\ run'[r].envelope = run[r].envelope
    BY <2>1, MovedShape, DoneShape DEF Phases
  <2>3. HasAccepted(run[r])
    BY <2>1 DEF HasAccepted
  <2>. QED  BY <1>2, <2>2, <2>3
<1>. QED
  BY <1>2, <1>4, <1>5, <1>7, <1>8, <1>9, <1>10, <1>11, <1>12, <1>13
     DEF MachineNext, RunStep

Held == Range(registry) \cup Range(registryDisk)

ConcludesAs(record) ==
    \E h \in Request : /\ handler[h].phase = "concluding"
                       /\ record.approval = handler[h].approval
                       /\ record.state = handler[h].state

(* Where a record that memory or file holds after a step comes from. *)
LEMMA RegistrySources ==
    ASSUME CarriesSigned, RegistryInv, [Next]_pathVars, NEW record \in Held'
    PROVE  \/ record \in Held
           \/ record.state \in {"in_flight", "launched_unreported"}
           \/ ConcludesAs(record)
<1>0. registry \in Seq(Record) /\ registryDisk \in Seq(Record)
  BY DEF RegistryInv
<1>1. CASE UNCHANGED <<registry, registryDisk>>
  BY <1>1 DEF Held
<1>2. ASSUME NEW h \in Request, AcceptDispatch(h) \/ AcceptFails(h)
      PROVE  record \in Held \/ record.state = "in_flight"
  <2>. DEFINE next == Accepting(handler[h].approval, handler[h].at)
  <2>1. /\ handler[h].phase = "checked"
        /\ registry' \in {registry, next} /\ registryDisk' \in {registryDisk, next}
    BY <1>2 DEF AcceptDispatch, AcceptFails, CommitOk, CommitFails
  <2>2. handler[h].approval \in Envelope /\ handler[h].at \in 1..MaxClock
    BY <2>1, RequestHolds
  <2>3. \A x \in Range(next) : x \in Range(registry) \/ x.state = "in_flight"
    <3>1. \A x \in Range(next) :
             x \in Range(registry) \/ x = Dispatched(handler[h].approval, handler[h].at)
      BY <1>0, <2>2, AcceptingKeeps
    <3>2. Dispatched(handler[h].approval, handler[h].at).state = "in_flight"
      BY DEF Dispatched
    <3>. QED  BY <3>1, <3>2
  <2>. HIDE DEF next
  <2>. QED  BY <2>1, <2>3 DEF Held
<1>3. ASSUME NEW h \in Request, Conclude(h) \/ ConcludeFails(h)
      PROVE  record \in Held \/ ConcludesAs(record)
  <2>. DEFINE next == Concluding(handler[h].approval, handler[h].state)
  <2>1. /\ handler[h].phase = "concluding"
        /\ \/ UNCHANGED <<registry, registryDisk>>
           \/ /\ Concludes(handler[h].approval)
              /\ registry' \in {registry, next} /\ registryDisk' \in {registryDisk, next}
    BY <1>3 DEF Conclude, ConcludeFails, CommitOk, CommitFails, registryVars
  <2>2. handler[h].state \in TerminalStates
    BY <2>1, RequestHolds
  <2>3. Concludes(handler[h].approval) =>
           \A x \in Range(next) :
              \/ x \in Range(registry)
              \/ x.approval = handler[h].approval /\ x.state = handler[h].state
    BY <1>0, <2>2, ConcludingKeeps
  <2>. HIDE DEF next
  <2>. QED  BY <2>1, <2>3 DEF Held, ConcludesAs
<1>4. CASE ControllerRestarts
  <2>1. registry' = Requalified(registryDisk) /\ registryDisk' = Requalified(registryDisk)
    BY <1>4 DEF ControllerRestarts, ReopenRegistry
  <2>2. \A x \in Range(Requalified(registryDisk)) :
           x \in Range(registryDisk) \/ x.state = "launched_unreported"
    BY <1>0, RequalifiedKeeps DEF Range
  <2>. QED  BY <2>1, <2>2 DEF Held
<1>5. CASE SubmitDecision \/ MachineFails \/ UNCHANGED pathVars
  <2>1. UNCHANGED <<registry, registryDisk>>
    BY <1>5 DEF SubmitDecision, MachineFails, pathVars, controllerVars, registryVars
  <2>. QED  BY <2>1, <1>1
<1>6. ASSUME NEW r \in Run, AuxiliaryStep(r) PROVE record \in Held
  BY <1>6 DEF AuxiliaryStep, AuxiliaryTouches, AuxiliarySteps, Unheard,
              controllerVars, registryVars, Held
<1>7. ASSUME NEW h \in Request,
           \/ \E a \in signed : Check(h, a)
           \/ NotLaunched(h) \/ Launch(h) \/ ClientFails(h)
           \/ \E r \in Run : Connect(h, r)
           \/ Deadline(h) \/ Answer(h) \/ ChannelLost(h) \/ ClientErrs(h)
      PROVE  record \in Held
  BY <1>7, RequestGoesOn DEF LaunchGoesOn, registryVars, Held
<1>. QED  BY <1>2, <1>3, <1>4, <1>5, <1>6, <1>7 DEF Next, HandlerStep

(* A request that listens does so to a run of its own approval. *)
Listens ==
    \A h \in Request : handler[h].phase = "running" =>
        /\ run[handler[h].run].phase # "idle"
        /\ run[handler[h].run].envelope = handler[h].approval

ReportedIsAccepted ==
    /\ \A h \in Request : (handler[h].phase = "concluding" /\ handler[h].state = "reported")
          => handler[h].approval \in Range(accepted)
    /\ \A record \in Held : record.state = "reported"
          => record.approval \in Range(accepted)

AttestedInv == AcceptedRuns /\ Listens /\ ReportedIsAccepted

LEMMA StartShape ==
    ASSUME MachineTypeOK, NEW r \in Run, NEW e, Start(r, e), NEW s \in Run
    PROVE  /\ run[r].phase = "idle"
           /\ s # r => run'[s] = run[s]
           /\ run'[r].phase = "anchored" /\ run'[r].envelope = e
<1>1. run \in [Run -> RunState]
  BY DEF MachineTypeOK
<1>. QED  BY <1>1 DEF Start, Idle

LEMMA ExitShape ==
    ASSUME MachineTypeOK, NEW r \in Run, Exit(r), NEW s \in Run
    PROVE  run[r].phase = "done" /\ run'[r].phase = "idle" /\ (s # r => run'[s] = run[s])
<1>1. run \in [Run -> RunState]
  BY DEF MachineTypeOK
<1>. QED  BY <1>1 DEF Exit, Idle

LEMMA ListensStep ==
    ASSUME CarriesSigned, MachineTypeOK, RegistryInv, Listens, [Next]_pathVars
    PROVE  Listens'
<1>0. \A h \in Request : handler[h].phase = "running" => handler[h].run \in Run
  BY RequestHolds
<1>1. CASE SubmitDecision \/ UNCHANGED pathVars
  BY <1>1 DEF SubmitDecision, pathVars, machineVars, Listens
<1>2. ASSUME UNCHANGED handler, \A s \in Run : GoesOn(run[s], run'[s])
      PROVE  Listens'
  BY <1>0, <1>2 DEF Listens, GoesOn
<1>3. CASE MachineFails
  <2>1. UNCHANGED handler /\ PowerLoss
    BY <1>3 DEF MachineFails, controllerVars
  <2>. QED  BY <1>2, <2>1, PowerLossGoesOn
<1>4. ASSUME NEW r \in Run, AuxiliarySteps(r) \/ AuxiliaryTouches(r) PROVE Listens'
  <2>1. UNCHANGED handler
    BY <1>4 DEF AuxiliarySteps, AuxiliaryTouches, controllerVars
  <2>. QED  BY <1>2, <1>4, <2>1, AuxiliaryGoesOn
<1>5. ASSUME NEW r \in Run, Unheard(r) PROVE Listens'
  <2>1. /\ UNCHANGED handler
        /\ \A h \in Request : handler[h].phase = "running" => handler[h].run # r
        /\ \A s \in Run : s # r => run'[s] = run[s]
    BY <1>5, ExitShape DEF Unheard, controllerVars
  <2>. QED  BY <1>0, <2>1 DEF Listens
<1>6. ASSUME NEW h \in Request, NEW r \in Run, Connect(h, r) PROVE Listens'
  <2>1. Start(r, handler[h].approval)
    BY <1>6 DEF Connect
  <2>2. /\ run[r].phase = "idle" /\ \A s \in Run : s # r => run'[s] = run[s]
        /\ run'[r].phase = "anchored" /\ run'[r].envelope = handler[h].approval
    BY <2>1, StartShape
  <2>3. /\ handler'[h].phase = "running" /\ handler'[h].approval = handler[h].approval
        /\ handler'[h].run = r /\ OthersWait(h)
    BY <1>6, ConnectShape
  <2>. QED  BY <1>0, <2>2, <2>3 DEF Listens, OthersWait
<1>7. ASSUME NEW h \in Request, Answer(h) PROVE Listens'
  <2>. DEFINE r == handler[h].run
  <2>1. /\ handler[h].phase = "running" /\ Exit(r) /\ r \in Run
        /\ \E state : handler' = Concluded(h, state)
    BY <1>0, <1>7 DEF Answer
  <2>2. \A s \in Run : s # r => run'[s] = run[s]
    BY <2>1, ExitShape
  <2>3. handler'[h].phase = "concluding" /\ OthersWait(h)
    BY <2>1, ConcludedShape
  <2>4. \A g \in Request : (g # h /\ handler[g].phase = "running") => handler[g].run # r
    BY <2>1 DEF RegistryInv, OneLaunchAtATime, Underway, Listens
  <2>. HIDE DEF r
  <2>. QED  BY <1>0, <2>2, <2>3, <2>4 DEF Listens, OthersWait
<1>8. ASSUME NEW h \in Request, UNCHANGED machineVars, OthersWait(h),
             handler'[h].phase # "running"
      PROVE  Listens'
  BY <1>8 DEF Listens, OthersWait, machineVars
<1>9. ASSUME NEW h \in Request,
           \/ \E a \in signed : Check(h, a)
           \/ AcceptDispatch(h) \/ AcceptFails(h) \/ NotLaunched(h) \/ Launch(h)
           \/ ClientFails(h) \/ Deadline(h) \/ Conclude(h) \/ ConcludeFails(h)
           \/ ChannelLost(h) \/ ClientErrs(h)
      PROVE  Listens'
  <2>1. UNCHANGED machineVars
    BY <1>9 DEF Check, AcceptDispatch, AcceptFails, NotLaunched, Launch, ClientFails,
                Deadline, Conclude, ConcludeFails, ChannelLost, ClientErrs
  <2>2. CASE \E a \in signed : Check(h, a)
    BY <2>1, <2>2, <1>8, CheckShape
  <2>3. CASE AcceptDispatch(h) \/ Launch(h)
    <3>1. handler' = Moves(h, "spent") \/ handler' = Moves(h, "connecting")
      BY <2>3 DEF AcceptDispatch, Launch
    <3>. QED  BY <2>1, <3>1, <1>8, MovesShape
  <2>4. CASE AcceptFails(h) \/ Conclude(h) \/ ConcludeFails(h)
    BY <2>1, <2>4, <1>8, ClosingShape
  <2>5. CASE NotLaunched(h) \/ ClientFails(h) \/ Deadline(h) \/ ChannelLost(h) \/ ClientErrs(h)
    <3>1. \E state : handler' = Concluded(h, state)
      BY <2>5 DEF NotLaunched, ClientFails, Deadline, ChannelLost, ClientErrs
    <3>. QED  BY <2>1, <3>1, <1>8, ConcludedShape
  <2>. QED  BY <1>9, <2>2, <2>3, <2>4, <2>5
<1>10. CASE ControllerRestarts
  BY <1>10 DEF ControllerRestarts, Listens, Closed
<1>. QED  BY <1>1, <1>3, <1>4, <1>5, <1>6, <1>7, <1>9, <1>10 DEF Next, HandlerStep, AuxiliaryStep

(* A request starts to conclude "reported" only on a report. *)
LEMMA ConcludingSources ==
    ASSUME CarriesSigned, MachineTypeOK, [Next]_pathVars, NEW h \in Request,
           handler'[h].phase = "concluding"
    PROVE  \/ handler'[h] = handler[h]
           \/ /\ Answer(h) /\ handler'[h].approval = handler[h].approval
              /\ handler'[h].state = ConclusionOf(run[handler[h].run].answer)
           \/ /\ NotLaunched(h) \/ ClientFails(h)
              /\ handler'[h].approval = handler[h].approval
              /\ handler'[h].state = "not_launched"
           \/ /\ Deadline(h) \/ ChannelLost(h) \/ ClientErrs(h)
              /\ handler'[h].approval = handler[h].approval
              /\ handler'[h].state # "reported"
<1>1. CASE UNCHANGED handler
  BY <1>1
<1>2. ASSUME NEW g \in Request, OthersWait(g), handler'[g].phase # "concluding"
      PROVE  handler'[h] = handler[h]
  BY <1>2 DEF OthersWait
<1>3. CASE SubmitDecision \/ MachineFails \/ UNCHANGED pathVars
  <2>1. UNCHANGED handler
    BY <1>3 DEF SubmitDecision, MachineFails, pathVars, controllerVars
  <2>. QED  BY <2>1, <1>1
<1>4. CASE \E r \in Run : AuxiliaryStep(r)
  <2>1. UNCHANGED handler
    BY <1>4 DEF AuxiliaryStep, AuxiliaryTouches, AuxiliarySteps, Unheard, controllerVars
  <2>. QED  BY <2>1, <1>1
<1>5. CASE ControllerRestarts
  BY <1>5 DEF ControllerRestarts, Closed
<1>6. ASSUME NEW g \in Request,
           \/ \E a \in signed : Check(g, a)
           \/ AcceptDispatch(g) \/ Launch(g) \/ AcceptFails(g) \/ Conclude(g)
           \/ ConcludeFails(g) \/ \E r \in Run : Connect(g, r)
      PROVE  handler'[h] = handler[h]
  <2>1. CASE \E a \in signed : Check(g, a)
    BY <2>1, <1>2, CheckShape
  <2>2. CASE AcceptDispatch(g) \/ Launch(g)
    <3>1. handler' = Moves(g, "spent") \/ handler' = Moves(g, "connecting")
      BY <2>2 DEF AcceptDispatch, Launch
    <3>. QED  BY <3>1, <1>2, MovesShape
  <2>3. CASE AcceptFails(g) \/ Conclude(g) \/ ConcludeFails(g)
    BY <2>3, <1>2, ClosingShape
  <2>4. CASE \E r \in Run : Connect(g, r)
    BY <2>4, <1>2, ConnectShape
  <2>. QED  BY <1>6, <2>1, <2>2, <2>3, <2>4
<1>7. ASSUME NEW g \in Request, NEW state, handler' = Concluded(g, state)
      PROVE  \/ handler'[h] = handler[h]
             \/ /\ g = h /\ handler'[h].approval = handler[h].approval
                /\ handler'[h].state = state
  BY <1>7, ConcludedShape DEF OthersWait
<1>8. CASE \E g \in Request : NotLaunched(g) \/ ClientFails(g)
  BY <1>7, <1>8 DEF NotLaunched, ClientFails
<1>9. CASE \E g \in Request : Deadline(g) \/ ChannelLost(g) \/ ClientErrs(g)
  <2>1. PICK g \in Request : Deadline(g) \/ ChannelLost(g) \/ ClientErrs(g)
    BY <1>9
  <2>2. \E state : handler' = Concluded(g, state) /\ state # "reported"
    BY <2>1 DEF Deadline, ChannelLost, ClientErrs
  <2>. QED  BY <1>7, <2>1, <2>2
<1>10. CASE \E g \in Request : Answer(g)
  <2>1. PICK g \in Request : Answer(g)
    BY <1>10
  <2>2. handler' = Concluded(g, ConclusionOf(run[handler[g].run].answer))
    BY <2>1 DEF Answer
  <2>. QED  BY <1>7, <2>1, <2>2
<1>. QED  BY <1>3, <1>4, <1>5, <1>6, <1>8, <1>9, <1>10 DEF Next, HandlerStep

LEMMA ReportedStep ==
    ASSUME CarriesSigned, MachineTypeOK, RegistryInv, AttestedInv, [Next]_pathVars
    PROVE  ReportedIsAccepted'
<1>1. Range(accepted) \subseteq Range(accepted')
  BY PathStepIsMachineStep, AcceptedRunsStep DEF AttestedInv
<1>2. ASSUME NEW h \in Request, handler'[h].phase = "concluding",
             handler'[h].state = "reported"
      PROVE  handler'[h].approval \in Range(accepted')
  <2>1. CASE handler'[h] = handler[h]
    BY <1>1, <1>2, <2>1 DEF AttestedInv, ReportedIsAccepted
  <2>2. CASE /\ Answer(h) /\ handler'[h].approval = handler[h].approval
             /\ handler'[h].state = ConclusionOf(run[handler[h].run].answer)
    <3>1. /\ handler[h].phase = "running" /\ handler[h].run \in Run
          /\ run[handler[h].run].phase = "done"
      BY <2>2, RequestHolds DEF Answer
    <3>2. run[handler[h].run].answer \in Answers
      BY <3>1, RunTyped
    <3>3. run[handler[h].run].answer = "report"
      BY <1>2, <2>2, <3>2 DEF Answers, ConclusionOf
    <3>4. HasAccepted(run[handler[h].run])
      BY <3>1, <3>3 DEF HasAccepted
    <3>. QED  BY <1>1, <2>2, <3>1, <3>4 DEF AttestedInv, AcceptedRuns, Listens
  <2>. QED  BY <1>2, <2>1, <2>2, ConcludingSources
<1>3. ASSUME NEW record \in Held', record.state = "reported"
      PROVE  record.approval \in Range(accepted')
  <2>1. record \in Held \/ ConcludesAs(record)
    BY <1>3, RegistrySources
  <2>. QED  BY <1>1, <1>3, <2>1 DEF AttestedInv, ReportedIsAccepted, ConcludesAs
<1>. QED  BY <1>2, <1>3 DEF ReportedIsAccepted

LEMMA AttestedInvStep ==
    CarriesSigned /\ MachineTypeOK /\ RegistryInv /\ AttestedInv /\ [Next]_pathVars
        => AttestedInv'
<1>. SUFFICES ASSUME CarriesSigned, MachineTypeOK, RegistryInv, AttestedInv, [Next]_pathVars
              PROVE  AttestedInv'
  OBVIOUS
<1>1. AcceptedRuns'
  BY PathStepIsMachineStep, AcceptedRunsStep DEF AttestedInv
<1>2. Listens'
  BY ListensStep DEF AttestedInv
<1>. QED  BY <1>1, <1>2, ReportedStep DEF AttestedInv

LEMMA AttestedInvInit == Init => AttestedInv
BY DEF Init, MachineInit, RegistryInit, AttestedInv, AcceptedRuns, HasAccepted, Idle,
       Listens, Closed, ReportedIsAccepted, Held, Range

(* What the registry attests, the machine accepted. *)
THEOREM AttestedIsInvariant ==
    Spec => [](CarriesSigned /\ MachineInv /\ RegistryInv /\ AttestedInv)
<1>1. CarriesSigned /\ MachineInv /\ RegistryInv /\ AttestedInv /\ [Next]_pathVars
        => AttestedInv'
  BY AttestedInvStep DEF MachineInv
<1>. QED  BY <1>1, AttestedInvInit, RegistryIsInvariant, PTL DEF Spec

(* The position CommandPosition attests is one the machine never goes back
   behind: a record that says reported names an accepted approval. *)
THEOREM AttestedIsAlwaysSpent == Spec => []AttestedIsSpent
<1>1. AttestedInv /\ SpentSurvives /\ MachineInv => AttestedIsSpent
  <2>. SUFFICES ASSUME AttestedInv, SpentSurvives, MachineTypeOK,
                       NEW records \in {registry, registryDisk},
                       NEW i \in DOMAIN records, records[i].state = "reported"
                PROVE  /\ records[i].approval \in Range(accepted)
                       /\ ~Before(synced, records[i].approval)
    BY DEF AttestedIsSpent, MachineInv
  <2>1. records[i] \in Held
    BY DEF Held, Range
  <2>2. records[i].approval \in Range(accepted)
    BY <2>1 DEF AttestedInv, ReportedIsAccepted
  <2>3. PICK k \in DOMAIN accepted : accepted[k] = records[i].approval
    BY <2>2 DEF Range
  <2>4. k \in 1..Len(accepted)
    BY DEF MachineTypeOK
  <2>. QED  BY <2>2, <2>3, <2>4 DEF SpentSurvives
<1>. QED  BY <1>1, AttestedIsInvariant, PathKeepsSpent, PTL

-----------------------------------------------------------------------------
(* Who owns an effect.  What one step can do to the state this is about.   *)

LEMMA RunSources ==
    ASSUME CarriesSigned, MachineTypeOK, [Next]_pathVars, NEW s \in Run
    PROVE  \/ GoesOn(run[s], run'[s])
           \/ run'[s].phase = "idle"
           \/ \E h \in Request : /\ Connect(h, s) /\ run'[s].phase = "anchored"
                                 /\ run'[s].envelope = handler[h].approval
<1>1. CASE UNCHANGED run
  BY <1>1, StaysGoesOn
<1>2. CASE MachineFails
  BY <1>2, PowerLossGoesOn DEF MachineFails
<1>3. CASE \E r \in Run : AuxiliarySteps(r) \/ AuxiliaryTouches(r)
  BY <1>3, AuxiliaryGoesOn
<1>4. CASE \E r \in Run : Unheard(r)
  <2>1. PICK r \in Run : Exit(r)
    BY <1>4 DEF Unheard
  <2>2. s = r \/ run'[s] = run[s]
    BY <2>1, ExitShape
  <2>. QED  BY <2>1, <2>2, ExitShape, StaysGoesOn
<1>5. ASSUME NEW h \in Request, Answer(h)
      PROVE  GoesOn(run[s], run'[s]) \/ run'[s].phase = "idle"
  <2>1. PICK r \in Run : Exit(r)
    BY <1>5, RequestHolds DEF Answer
  <2>2. s = r \/ run'[s] = run[s]
    BY <2>1, ExitShape
  <2>. QED  BY <2>1, <2>2, ExitShape, StaysGoesOn
<1>6. ASSUME NEW h \in Request, NEW r \in Run, Connect(h, r)
      PROVE  \/ GoesOn(run[s], run'[s])
             \/ /\ r = s /\ run'[s].phase = "anchored"
                /\ run'[s].envelope = handler[h].approval
  <2>1. Start(r, handler[h].approval)
    BY <1>6 DEF Connect
  <2>2. s # r => run'[s] = run[s]
    BY <2>1, StartShape
  <2>3. run'[r].phase = "anchored" /\ run'[r].envelope = handler[h].approval
    BY <2>1, StartShape
  <2>. QED  BY <2>2, <2>3, StaysGoesOn
<1>7. ASSUME NEW h \in Request,
           \/ \E a \in signed : Check(h, a)
           \/ AcceptDispatch(h) \/ AcceptFails(h) \/ NotLaunched(h) \/ Launch(h)
           \/ ClientFails(h) \/ Deadline(h) \/ Conclude(h) \/ ConcludeFails(h)
           \/ ChannelLost(h) \/ ClientErrs(h)
      PROVE  UNCHANGED run
  BY <1>7 DEF Check, AcceptDispatch, AcceptFails, NotLaunched, Launch, ClientFails,
              Deadline, Conclude, ConcludeFails, ChannelLost, ClientErrs, machineVars
<1>8. CASE SubmitDecision \/ ControllerRestarts \/ UNCHANGED pathVars
  <2>1. UNCHANGED run
    BY <1>8 DEF SubmitDecision, ControllerRestarts, pathVars, machineVars
  <2>. QED  BY <1>1, <2>1
<1>. QED
  BY <1>1, <1>2, <1>3, <1>4, <1>5, <1>6, <1>7, <1>8
     DEF Next, HandlerStep, AuxiliaryStep

(* Where a request that launches comes from. *)
LEMMA LaunchSources ==
    ASSUME CarriesSigned, MachineTypeOK, [Next]_pathVars, NEW h \in Request
    PROVE  /\ handler'[h].phase \in {"spent", "connecting"} =>
                 /\ handler'[h].approval = handler[h].approval
                 /\ AcceptDispatch(h) \/ handler[h].phase \in {"spent", "connecting"}
           /\ handler'[h].phase = "running" =>
                 \/ handler'[h] = handler[h]
                 \/ /\ Connect(h, handler'[h].run) /\ handler'[h].run \in Run
                    /\ handler'[h].approval = handler[h].approval
           /\ Underway(h)' =>
                 /\ handler'[h].approval = handler[h].approval
                 /\ AcceptDispatch(h) \/ Underway(h)
<1>1. CASE handler'[h] = handler[h]
  BY <1>1 DEF Underway
<1>2. CASE UNCHANGED handler
  BY <1>1, <1>2
<1>3. CASE SubmitDecision \/ MachineFails \/ UNCHANGED pathVars
  <2>1. UNCHANGED handler
    BY <1>3 DEF SubmitDecision, MachineFails, pathVars, controllerVars
  <2>. QED  BY <2>1, <1>2
<1>4. CASE \E r \in Run : AuxiliaryStep(r)
  <2>1. UNCHANGED handler
    BY <1>4 DEF AuxiliaryStep, AuxiliaryTouches, AuxiliarySteps, Unheard, controllerVars
  <2>. QED  BY <2>1, <1>2
<1>5. CASE ControllerRestarts
  BY <1>5 DEF ControllerRestarts, Closed, Underway
<1>. DEFINE Goal == /\ handler'[h].phase \in {"spent", "connecting"} =>
                         /\ handler'[h].approval = handler[h].approval
                         /\ AcceptDispatch(h) \/ handler[h].phase \in {"spent", "connecting"}
                    /\ handler'[h].phase = "running" =>
                         \/ handler'[h] = handler[h]
                         \/ /\ Connect(h, handler'[h].run) /\ handler'[h].run \in Run
                            /\ handler'[h].approval = handler[h].approval
                    /\ Underway(h)' =>
                         /\ handler'[h].approval = handler[h].approval
                         /\ AcceptDispatch(h) \/ Underway(h)
<1>6. ASSUME NEW g \in Request, OthersWait(g), g # h PROVE Goal
  <2>1. handler'[h] = handler[h]
    BY <1>6 DEF OthersWait
  <2>. QED  BY <1>1, <2>1
<1>7. ASSUME NEW g \in Request,
           \/ \E a \in signed : Check(g, a)
           \/ AcceptFails(g) \/ Conclude(g) \/ ConcludeFails(g)
      PROVE  Goal
  <2>1. OthersWait(g) /\ handler'[g].phase \in {"checked", "closed"}
    BY <1>7, CheckShape, ClosingShape
  <2>2. CASE g = h
    BY <2>1, <2>2 DEF Underway
  <2>. QED  BY <1>6, <2>1, <2>2
<1>8. ASSUME NEW g \in Request, AcceptDispatch(g) PROVE Goal
  <2>1. /\ OthersWait(g) /\ handler'[g].phase = "spent"
        /\ handler'[g].approval = handler[g].approval
    BY <1>8, MovesShape DEF AcceptDispatch
  <2>2. CASE g = h
    BY <1>8, <2>1, <2>2 DEF Underway
  <2>. QED  BY <1>6, <2>1, <2>2
<1>9. ASSUME NEW g \in Request, Launch(g) PROVE Goal
  <2>1. /\ OthersWait(g) /\ handler'[g].phase = "connecting" /\ handler[g].phase = "spent"
        /\ handler'[g].approval = handler[g].approval
    BY <1>9, MovesShape DEF Launch
  <2>2. CASE g = h
    BY <2>1, <2>2 DEF Underway
  <2>. QED  BY <1>6, <2>1, <2>2
<1>10. ASSUME NEW g \in Request, NEW r \in Run, Connect(g, r) PROVE Goal
  <2>1. /\ OthersWait(g) /\ handler'[g].phase = "running" /\ handler[g].phase = "connecting"
        /\ handler'[g].approval = handler[g].approval /\ handler'[g].run = r
    BY <1>10, ConnectShape DEF Connect
  <2>2. CASE g = h
    BY <1>10, <2>1, <2>2 DEF Underway
  <2>. QED  BY <1>6, <2>1, <2>2
<1>11. ASSUME NEW g \in Request,
           \/ NotLaunched(g) \/ ClientFails(g) \/ Deadline(g) \/ Answer(g)
           \/ ChannelLost(g) \/ ClientErrs(g)
      PROVE  Goal
  <2>1. Underway(g) /\ \E state : handler' = Concluded(g, state)
    BY <1>11 DEF NotLaunched, ClientFails, Deadline, Answer, ChannelLost, ClientErrs,
                 Underway
  <2>2. /\ OthersWait(g) /\ handler'[g].phase = "concluding"
        /\ handler'[g].approval = handler[g].approval
    BY <2>1, ConcludedShape
  <2>3. CASE g = h
    BY <2>1, <2>2, <2>3
  <2>. QED  BY <1>6, <2>2, <2>3
<1>. HIDE DEF Goal
<1>12. Goal
  BY <1>3, <1>4, <1>5, <1>7, <1>8, <1>9, <1>10, <1>11 DEF Next, HandlerStep, Goal
<1>. QED  BY <1>12 DEF Goal

(* How the history grows. *)
LEMMA HistorySources ==
    ASSUME [Next]_pathVars
    PROVE  /\ cut \subseteq cut' /\ twice \subseteq twice' /\ spent \subseteq spent'
           /\ \A a \in changed' \ changed :
                 \E r \in Run : AuxiliaryTouches(r) /\ run[r].envelope = a
<1>1. CASE UNCHANGED historyVars
  BY <1>1 DEF historyVars
<1>2. CASE SubmitDecision \/ ControllerRestarts \/ MachineFails \/ UNCHANGED pathVars
  <2>1. UNCHANGED historyVars
    BY <1>2 DEF SubmitDecision, ControllerRestarts, MachineFails, pathVars
  <2>. QED  BY <1>1, <2>1
<1>3. CASE \E r \in Run : AuxiliaryTouches(r)
  BY <1>3 DEF AuxiliaryTouches
<1>4. CASE \E r \in Run : AuxiliarySteps(r) \/ Unheard(r)
  <2>1. UNCHANGED historyVars
    BY <1>4 DEF AuxiliarySteps, Unheard
  <2>. QED  BY <1>1, <2>1
<1>5. CASE \E h \in Request : AcceptDispatch(h)
  BY <1>5 DEF AcceptDispatch
<1>6. CASE \E h \in Request : Deadline(h) \/ ChannelLost(h) \/ ClientErrs(h) \/ Answer(h)
  BY <1>6 DEF Deadline, ChannelLost, ClientErrs, Answer
<1>7. CASE \E h \in Request :
              \/ \E a \in signed : Check(h, a)
              \/ AcceptFails(h) \/ NotLaunched(h) \/ Launch(h) \/ ClientFails(h)
              \/ (\E r \in Run : Connect(h, r)) \/ Conclude(h) \/ ConcludeFails(h)
  <2>1. UNCHANGED historyVars
    BY <1>7 DEF Check, AcceptFails, NotLaunched, Launch, ClientFails, Connect,
                Conclude, ConcludeFails
  <2>. QED  BY <1>1, <2>1
<1>. QED  BY <1>2, <1>3, <1>4, <1>5, <1>6, <1>7 DEF Next, HandlerStep, AuxiliaryStep

ActiveOf(a) == {r \in Run : run[r].phase \in Phases /\ run[r].envelope = a}

Untouched(a) == a \notin changed /\ ActiveOf(a) = {}

Handles(h, a, phases) == handler[h].phase \in phases /\ handler[h].approval = a

(* The conclusions that deny the machine was changed. *)
Disowning == {"not_launched", "machine_refused"}

Disowned(a) ==
    \/ \E record \in Held : record.approval = a /\ record.state \in Disowning
    \/ \E h \in Request : Handles(h, a, {"concluding"}) /\ handler[h].state \in Disowning

(* Nothing happens for bytes the registry never accepted. *)
NothingUnspent(a) ==
    a \notin spent => /\ Untouched(a) /\ ~Disowned(a)
                      /\ \A h \in Request : Underway(h) => handler[h].approval # a

(* Until the client connects nothing acts on the approval. *)
NothingUnlaunched(a) ==
    \A h \in Request : Handles(h, a, {"spent", "connecting"}) => Untouched(a)

(* One Auxiliary at most, and it is the one the request listens to. *)
OneRunActs(a) ==
    /\ \A r, s \in ActiveOf(a) : r = s
    /\ \A h \in Request : Handles(h, a, {"running"}) => ActiveOf(a) \subseteq {handler[h].run}

TouchedIsTold(a) ==
    \A r \in ActiveOf(a) : run[r].phase # "touched" => a \notin changed

RefusedIsUntouched(a) ==
    \A h \in Request :
        (Handles(h, a, {"running"}) /\ HasRefused(run[handler[h].run])) => a \notin changed

DisownedIsUntouched(a) ==
    Disowned(a) => /\ Untouched(a)
                   /\ \A h \in Request : ~Handles(h, a, {"spent", "connecting", "running"})

Owned(a) == /\ NothingUnspent(a) /\ NothingUnlaunched(a) /\ OneRunActs(a)
            /\ TouchedIsTold(a) /\ RefusedIsUntouched(a) /\ DisownedIsUntouched(a)

OwnedInv == \A a \in Envelope : a \notin cut \cup twice => Owned(a)

-----------------------------------------------------------------------------

LEMMA ActiveSources ==
    ASSUME CarriesSigned, MachineTypeOK, [Next]_pathVars, NEW a, NEW s \in ActiveOf(a)'
    PROVE  /\ s \in Run
           /\ \/ /\ s \in ActiveOf(a)
                 /\ run'[s].phase # "touched" => run[s].phase # "touched"
              \/ \E h \in Request : /\ Connect(h, s) /\ handler[h].approval = a
                                    /\ handler[h].phase = "connecting"
<1>1. s \in Run /\ run'[s].phase \in Phases /\ run'[s].envelope = a
  BY DEF ActiveOf
<1>2. CASE GoesOn(run[s], run'[s])
  BY <1>1, <1>2 DEF GoesOn, ActiveOf
<1>3. CASE run'[s].phase = "idle"
  BY <1>1, <1>3 DEF Phases
<1>4. CASE \E h \in Request : Connect(h, s) /\ run'[s].envelope = handler[h].approval
  BY <1>1, <1>4 DEF Connect
<1>. QED  BY <1>1, <1>2, <1>3, <1>4, RunSources

(* Only a connection for the approval disturbs an untouched approval. *)
LEMMA UntouchedStep ==
    ASSUME CarriesSigned, MachineTypeOK, [Next]_pathVars, NEW a, Untouched(a)
    PROVE  \/ Untouched(a)'
           \/ \E h \in Request, r \in Run : /\ Connect(h, r) /\ handler[h].approval = a
                                            /\ handler[h].phase = "connecting"
<1>1. CASE a \in changed'
  <2>1. PICK r \in Run : AuxiliaryTouches(r) /\ run[r].envelope = a
    BY <1>1, HistorySources DEF Untouched
  <2>2. r \in ActiveOf(a)
    BY <2>1 DEF ActiveOf, AuxiliaryTouches, Touch, Phases
  <2>. QED  BY <2>2 DEF Untouched
<1>2. CASE ActiveOf(a)' # {}
  <2>1. PICK s \in ActiveOf(a)' : TRUE
    BY <1>2
  <2>. QED  BY <2>1, ActiveSources DEF Untouched
<1>. QED  BY <1>1, <1>2 DEF Untouched

(* The only steps by which a denial comes about. *)
Denies(h) == \/ NotLaunched(h) \/ ClientFails(h)
             \/ Answer(h) /\ HasRefused(run[handler[h].run])

LEMMA DisownedSources ==
    ASSUME CarriesSigned, MachineTypeOK, RegistryInv, [Next]_pathVars,
           NEW a, a \notin cut', Disowned(a)', ~Disowned(a)
    PROVE  \E h \in Request : Denies(h) /\ handler[h].approval = a
<1>1. CASE \E record \in Held' : record.approval = a /\ record.state \in Disowning
  <2>1. PICK record \in Held' : record.approval = a /\ record.state \in Disowning
    BY <1>1
  <2>2. record \in Held \/ ConcludesAs(record)
    BY <2>1, RegistrySources DEF Disowning
  <2>. QED  BY <2>1, <2>2 DEF Disowned, ConcludesAs, Handles
<1>2. ASSUME NEW h \in Request, handler'[h].phase = "concluding",
             handler'[h].approval = a, handler'[h].state \in Disowning
      PROVE  Denies(h) /\ handler[h].approval = a
  <2>1. CASE handler'[h] = handler[h]
    BY <1>2, <2>1 DEF Disowned, Handles
  <2>2. CASE /\ Answer(h) /\ handler'[h].approval = handler[h].approval
             /\ handler'[h].state = ConclusionOf(run[handler[h].run].answer)
    <3>. DEFINE answer == run[handler[h].run].answer
    <3>1. /\ handler[h].phase = "running" /\ handler[h].run \in Run
          /\ run[handler[h].run].phase = "done"
      BY <2>2, RequestHolds DEF Answer
    <3>2. answer \in Answers
      BY <3>1, RunTyped
    <3>3. answer # "silent"
      BY <1>2, <2>2 DEF Answer
    <3>4. answer = "refused"
      BY <1>2, <2>2, <3>2, <3>3 DEF Answers, ConclusionOf, Disowning
    <3>. QED  BY <1>2, <2>2, <3>1, <3>4 DEF Denies, HasRefused
  <2>3. CASE /\ NotLaunched(h) \/ ClientFails(h)
             /\ handler'[h].approval = handler[h].approval
    BY <1>2, <2>3 DEF Denies
  <2>4. CASE /\ Deadline(h) \/ ChannelLost(h) \/ ClientErrs(h)
             /\ handler'[h].approval = handler[h].approval
    BY <1>2, <2>4 DEF Deadline, ChannelLost, ClientErrs
  <2>. QED  BY <1>2, <2>1, <2>2, <2>3, <2>4, ConcludingSources
<1>3. CASE \E h \in Request : handler'[h].phase = "concluding" /\ handler'[h].approval = a
                               /\ handler'[h].state \in Disowning
  BY <1>2, <1>3
<1>. QED  BY <1>1, <1>3 DEF Disowned, Handles

LEMMA DeniesShape ==
    ASSUME CarriesSigned, NEW h \in Request, Denies(h)
    PROVE  /\ handler'[h].phase = "concluding"
           /\ handler[h].phase \in {"spent", "connecting", "running"}
           /\ handler[h].phase = "running" => HasRefused(run[handler[h].run])
<1>1. \E state : handler' = Concluded(h, state)
  BY DEF Denies, NotLaunched, ClientFails, Answer
<1>2. handler'[h].phase = "concluding"
  BY <1>1, ConcludedShape
<1>. QED  BY <1>2 DEF Denies, NotLaunched, ClientFails, Answer

LEMMA AcceptSpends ==
    ASSUME NEW h \in Request, AcceptDispatch(h)
    PROVE  /\ handler[h].approval \in spent'
           /\ handler[h].approval \notin twice' => handler[h].approval \notin spent
BY DEF AcceptDispatch

LEMMA OneHandler ==
    ASSUME RegistryInv, NEW g \in Request, NEW h \in Request,
           Underway(g), Underway(h), handler[g].approval = handler[h].approval
    PROVE  g = h
BY DEF RegistryInv, OneLaunchAtATime

(* A step in which the client of h connects for a leaves h running. *)
LEMMA ConnectsOnce ==
    ASSUME CarriesSigned, RegistryInv, NEW a, NEW g \in Request, NEW r \in Run, Connect(g, r),
           handler[g].approval = a, NEW h \in Request, Underway(h), handler[h].approval = a
    PROVE  /\ h = g /\ handler[h].phase = "connecting"
           /\ handler'[h].phase = "running" /\ handler'[h].run = r
<1>1. handler[g].phase = "connecting" /\ Underway(g)
  BY DEF Connect, Underway
<1>2. h = g
  BY <1>1, OneHandler
<1>. QED  BY <1>1, <1>2, ConnectShape

(* The context of one step, for one approval no silence and no second
   acceptance excuses. *)
StepFor(a) == /\ CarriesSigned /\ MachineTypeOK /\ RegistryInv /\ Listens
              /\ [Next]_pathVars
              /\ a \notin cut' \cup twice' /\ Owned(a)

LEMMA UnspentStep ==
    ASSUME NEW a, StepFor(a)
    PROVE  NothingUnspent(a)'
<1>. SUFFICES ASSUME a \notin spent'
              PROVE  /\ Untouched(a)' /\ ~Disowned(a)'
                     /\ \A h \in Request : Underway(h)' => handler'[h].approval # a
  BY DEF NothingUnspent
<1>1. a \notin spent
  BY HistorySources DEF StepFor
<1>2. /\ Untouched(a) /\ ~Disowned(a)
      /\ \A h \in Request : Underway(h) => handler[h].approval # a
  BY <1>1 DEF StepFor, Owned, NothingUnspent
<1>3. Untouched(a)'
  <2>1. \A h \in Request : handler[h].phase = "connecting" => Underway(h)
    BY DEF Underway
  <2>. QED  BY <1>2, <2>1, UntouchedStep DEF StepFor
<1>4. ~Disowned(a)'
  <2>1. ASSUME NEW h \in Request, Denies(h) PROVE Underway(h)
    BY <2>1, DeniesShape DEF StepFor, Underway
  <2>. QED  BY <1>2, <2>1, DisownedSources DEF StepFor
<1>5. ASSUME NEW h \in Request, Underway(h)' PROVE handler'[h].approval # a
  <2>1. /\ handler'[h].approval = handler[h].approval
        /\ AcceptDispatch(h) \/ Underway(h)
    BY <1>5, LaunchSources DEF StepFor
  <2>. QED  BY <1>2, <2>1, AcceptSpends
<1>. QED  BY <1>3, <1>4, <1>5

LEMMA UnlaunchedStep ==
    ASSUME NEW a, StepFor(a)
    PROVE  NothingUnlaunched(a)'
<1>. SUFFICES ASSUME NEW h \in Request, handler'[h].phase \in {"spent", "connecting"},
                     handler'[h].approval = a
              PROVE  Untouched(a)'
  BY DEF NothingUnlaunched, Handles
<1>1. /\ handler'[h].approval = handler[h].approval
      /\ AcceptDispatch(h) \/ handler[h].phase \in {"spent", "connecting"}
  BY LaunchSources DEF StepFor
<1>2. CASE AcceptDispatch(h)
  <2>1. a \notin spent
    BY <1>1, <1>2, AcceptSpends DEF StepFor
  <2>2. Untouched(a) /\ \A g \in Request : Underway(g) => handler[g].approval # a
    BY <2>1 DEF StepFor, Owned, NothingUnspent
  <2>3. \A g \in Request : handler[g].phase = "connecting" => Underway(g)
    BY DEF Underway
  <2>. QED  BY <2>2, <2>3, UntouchedStep DEF StepFor
<1>3. CASE handler[h].phase \in {"spent", "connecting"}
  <2>1. Untouched(a)
    BY <1>1, <1>3 DEF StepFor, Owned, NothingUnlaunched, Handles
  <2>2. Underway(h) /\ handler[h].approval = a
    BY <1>1, <1>3 DEF Underway
  <2>3. ASSUME NEW g \in Request, NEW r \in Run, Connect(g, r), handler[g].approval = a
        PROVE  FALSE
    BY <2>2, <2>3, ConnectsOnce DEF StepFor
  <2>. QED  BY <2>1, <2>3, UntouchedStep DEF StepFor
<1>. QED  BY <1>1, <1>2, <1>3

(* A connection for a finds nothing at work on a. *)
LEMMA ConnectFindsNothing ==
    ASSUME NEW a, StepFor(a), NEW g \in Request, NEW r \in Run, Connect(g, r),
           handler[g].approval = a
    PROVE  /\ Untouched(a) /\ Underway(g) /\ handler[g].phase = "connecting"
           /\ UNCHANGED changed
<1>1. handler[g].phase = "connecting" /\ UNCHANGED changed
  BY DEF Connect, historyVars
<1>. QED  BY <1>1 DEF StepFor, Owned, NothingUnlaunched, Handles, Underway

LEMMA OneRunStep ==
    ASSUME NEW a, StepFor(a)
    PROVE  OneRunActs(a)'
<1>0. CarriesSigned /\ MachineTypeOK /\ RegistryInv /\ [Next]_pathVars
  BY DEF StepFor
<1>1. ASSUME NEW r \in ActiveOf(a)', NEW s \in ActiveOf(a)' PROVE r = s
  <2>1. CASE r \in ActiveOf(a) /\ s \in ActiveOf(a)
    BY <2>1 DEF StepFor, Owned, OneRunActs
  <2>2. ASSUME NEW p \in Run, NEW q \in ActiveOf(a), NEW g \in Request,
               Connect(g, p), handler[g].approval = a
        PROVE  FALSE
    BY <2>2, ConnectFindsNothing DEF Untouched
  <2>3. ASSUME NEW g \in Request, NEW h \in Request, Connect(g, r), Connect(h, s),
               handler[g].approval = a, handler[h].approval = a, r \in Run, s \in Run
        PROVE  r = s
    <3>1. Underway(h)
      BY <2>3, ConnectFindsNothing
    <3>2. handler'[h].run = r /\ h = g
      BY <1>0, <2>3, <3>1, ConnectsOnce
    <3>3. handler'[h].run = s
      BY <1>0, <2>3, ConnectShape
    <3>. QED  BY <3>2, <3>3
  <2>. QED  BY <1>0, <2>1, <2>2, <2>3, ActiveSources
<1>2. ASSUME NEW h \in Request, handler'[h].phase = "running", handler'[h].approval = a,
             NEW s \in ActiveOf(a)'
      PROVE  s = handler'[h].run
  <2>1. s \in Run
    BY <1>0, ActiveSources
  <2>2. CASE handler'[h] = handler[h]
    <3>1. Underway(h) /\ handler[h].approval = a /\ handler[h].phase = "running"
      BY <1>2, <2>2 DEF Underway
    <3>2. CASE s \in ActiveOf(a)
      BY <2>2, <3>1, <3>2 DEF StepFor, Owned, OneRunActs, Handles
    <3>3. ASSUME NEW g \in Request, Connect(g, s), handler[g].approval = a PROVE FALSE
      BY <1>0, <2>1, <3>1, <3>3, ConnectsOnce
    <3>. QED  BY <1>0, <3>2, <3>3, ActiveSources
  <2>3. CASE /\ Connect(h, handler'[h].run) /\ handler'[h].run \in Run
             /\ handler'[h].approval = handler[h].approval
    <3>1. Untouched(a) /\ Underway(h) /\ handler[h].approval = a
      BY <1>2, <2>3, ConnectFindsNothing
    <3>2. CASE s \in ActiveOf(a)
      BY <3>1, <3>2 DEF Untouched
    <3>3. ASSUME NEW g \in Request, Connect(g, s), handler[g].approval = a
          PROVE  handler'[h].run = s
      BY <1>0, <2>1, <3>1, <3>3, ConnectsOnce
    <3>. QED  BY <1>0, <3>2, <3>3, ActiveSources
  <2>. QED  BY <1>0, <1>2, <2>2, <2>3, LaunchSources
<1>. QED  BY <1>1, <1>2 DEF OneRunActs, Handles

(* Who makes the first effect, if this step does. *)
LEMMA ToucherActs ==
    ASSUME NEW a, StepFor(a), a \in changed', a \notin changed
    PROVE  \E r \in ActiveOf(a) : run'[r].phase = "touched" /\ UNCHANGED handler
<1>1. PICK r \in Run : AuxiliaryTouches(r) /\ run[r].envelope = a
  BY HistorySources DEF StepFor
<1>2. run[r].phase = "accepted" /\ run' = Moved(r, "touched") /\ UNCHANGED handler
  BY <1>1 DEF AuxiliaryTouches, Touch, controllerVars
<1>3. run'[r].phase = "touched"
  BY <1>2, MovedShape DEF StepFor, Phases
<1>4. r \in ActiveOf(a)
  BY <1>1, <1>2 DEF ActiveOf, Phases
<1>. QED  BY <1>2, <1>3, <1>4

LEMMA TouchedStep ==
    ASSUME NEW a, StepFor(a)
    PROVE  TouchedIsTold(a)'
<1>. SUFFICES ASSUME NEW s \in ActiveOf(a)', run'[s].phase # "touched", a \in changed'
              PROVE  FALSE
  BY DEF TouchedIsTold
<1>1. CASE s \in ActiveOf(a) /\ run[s].phase # "touched"
  <2>1. a \notin changed
    BY <1>1 DEF StepFor, Owned, TouchedIsTold
  <2>2. PICK r \in ActiveOf(a) : run'[r].phase = "touched"
    BY <2>1, ToucherActs
  <2>3. r = s
    BY <1>1 DEF StepFor, Owned, OneRunActs
  <2>. QED  BY <2>2, <2>3
<1>2. ASSUME s \in Run, NEW h \in Request, Connect(h, s), handler[h].approval = a
      PROVE  FALSE
  BY <1>2, ConnectFindsNothing DEF Untouched
<1>. QED  BY <1>1, <1>2, ActiveSources DEF StepFor

LEMMA RefusedStep ==
    ASSUME NEW a, StepFor(a)
    PROVE  RefusedIsUntouched(a)'
<1>. SUFFICES ASSUME NEW h \in Request, handler'[h].phase = "running",
                     handler'[h].approval = a, HasRefused(run'[handler'[h].run]),
                     a \in changed'
              PROVE  FALSE
  BY DEF RefusedIsUntouched, Handles
<1>0. CarriesSigned /\ MachineTypeOK /\ RegistryInv /\ [Next]_pathVars
  BY DEF StepFor
<1>1. CASE handler'[h] = handler[h]
  <2>. DEFINE s == handler[h].run
  <2>1. /\ handler[h].phase = "running" /\ handler[h].approval = a
        /\ s \in Run /\ run[s].envelope = a /\ run'[s].phase = "done"
        /\ HasRefused(run'[s])
    BY <1>1, RequestHolds DEF StepFor, Listens, HasRefused
  <2>2. GoesOn(run[s], run'[s])
    BY <1>0, <2>1, RunSources
  <2>3. HasRefused(run[s]) \/ run[s].phase \in Phases \ {"touched"}
    BY <2>1, <2>2 DEF GoesOn
  <2>4. a \notin changed
    BY <2>1, <2>3 DEF StepFor, Owned, RefusedIsUntouched, TouchedIsTold, ActiveOf, Handles
  <2>5. PICK r \in ActiveOf(a) : run'[r].phase = "touched"
    BY <2>4, ToucherActs
  <2>6. r = s
    BY <2>1 DEF StepFor, Owned, OneRunActs, Handles
  <2>. QED  BY <2>1, <2>5, <2>6
<1>2. CASE Connect(h, handler'[h].run) /\ handler'[h].run \in Run
  <2>1. Start(handler'[h].run, handler[h].approval)
    BY <1>2 DEF Connect
  <2>2. run'[handler'[h].run].phase = "anchored"
    BY <1>0, <1>2, <2>1, StartShape
  <2>. QED  BY <2>2 DEF HasRefused
<1>. QED  BY <1>0, <1>1, <1>2, LaunchSources

LEMMA DisownedStep ==
    ASSUME NEW a, StepFor(a)
    PROVE  DisownedIsUntouched(a)'
<1>. SUFFICES ASSUME Disowned(a)'
              PROVE  /\ Untouched(a)'
                     /\ \A h \in Request :
                          ~(handler'[h].phase \in {"spent", "connecting", "running"}
                              /\ handler'[h].approval = a)
  BY DEF DisownedIsUntouched, Handles
<1>0. CarriesSigned /\ MachineTypeOK /\ RegistryInv /\ [Next]_pathVars /\ a \notin cut'
  BY DEF StepFor
<1>1. ASSUME NEW h \in Request, handler'[h].approval = a,
             handler'[h].phase \in {"spent", "connecting", "running"}
      PROVE  /\ handler[h].approval = a
             /\ \/ AcceptDispatch(h) /\ a \notin spent
                \/ handler[h].phase \in {"spent", "connecting", "running"}
  <2>1. CASE handler'[h].phase = "running"
    BY <1>0, <1>1, <2>1, LaunchSources DEF Connect
  <2>2. CASE handler'[h].phase \in {"spent", "connecting"}
    BY <1>0, <1>1, <2>2, LaunchSources, AcceptSpends DEF StepFor
  <2>. QED  BY <1>1, <2>1, <2>2
<1>2. CASE Disowned(a)
  <2>1. /\ Untouched(a) /\ a \in spent
        /\ \A h \in Request : ~(handler[h].phase \in {"spent", "connecting", "running"}
                                   /\ handler[h].approval = a)
    BY <1>2 DEF StepFor, Owned, DisownedIsUntouched, NothingUnspent, Handles
  <2>2. Untouched(a)'
    BY <1>0, <2>1, UntouchedStep
  <2>. QED  BY <1>1, <2>1, <2>2
<1>3. CASE ~Disowned(a)
  <2>1. PICK h \in Request : Denies(h) /\ handler[h].approval = a
    BY <1>0, <1>3, DisownedSources
  <2>2. /\ handler'[h].phase = "concluding"
        /\ handler[h].phase \in {"spent", "connecting", "running"}
        /\ handler[h].phase = "running" => HasRefused(run[handler[h].run])
    BY <1>0, <2>1, DeniesShape
  <2>3. Underway(h) /\ a \in spent
    BY <2>1, <2>2 DEF Underway, StepFor, Owned, NothingUnspent
  <2>4. Untouched(a)
    <3>1. CASE handler[h].phase \in {"spent", "connecting"}
      BY <2>1, <3>1 DEF StepFor, Owned, NothingUnlaunched, Handles
    <3>2. CASE handler[h].phase = "running"
      <4>1. a \notin changed /\ ActiveOf(a) \subseteq {handler[h].run}
        BY <2>1, <2>2, <3>2 DEF StepFor, Owned, RefusedIsUntouched, OneRunActs, Handles
      <4>2. handler[h].run \notin ActiveOf(a)
        BY <2>2, <3>2 DEF ActiveOf, HasRefused, Phases
      <4>. QED  BY <4>1, <4>2 DEF Untouched
    <3>. QED  BY <2>2, <3>1, <3>2
  <2>5. Untouched(a)'
    <3>1. ASSUME NEW g \in Request, NEW r \in Run, Connect(g, r), handler[g].approval = a
          PROVE  FALSE
      BY <1>0, <2>1, <2>2, <2>3, <3>1, ConnectsOnce
    <3>. QED  BY <1>0, <2>4, <3>1, UntouchedStep
  <2>6. ASSUME NEW g \in Request, handler'[g].approval = a,
               handler'[g].phase \in {"spent", "connecting", "running"}
        PROVE  FALSE
    <3>1. handler[g].approval = a /\ handler[g].phase \in {"spent", "connecting", "running"}
      BY <1>1, <2>3, <2>6
    <3>2. Underway(g)
      BY <3>1 DEF Underway
    <3>3. g = h
      BY <1>0, <2>1, <2>3, <3>1, <3>2, OneHandler
    <3>. QED  BY <2>2, <2>6, <3>3
  <2>. QED  BY <2>5, <2>6
<1>. QED  BY <1>2, <1>3

LEMMA OwnedInvStep ==
    CarriesSigned /\ MachineTypeOK /\ RegistryInv /\ Listens /\ OwnedInv /\ [Next]_pathVars
        => OwnedInv'
<1>. SUFFICES ASSUME CarriesSigned, MachineTypeOK, RegistryInv, Listens, OwnedInv,
                     [Next]_pathVars, NEW a \in Envelope, a \notin cut' \cup twice'
              PROVE  Owned(a)'
  BY DEF OwnedInv
<1>1. a \notin cut \cup twice
  BY HistorySources
<1>2. StepFor(a)
  BY <1>1 DEF StepFor, OwnedInv
<1>. QED
  BY <1>2, UnspentStep, UnlaunchedStep, OneRunStep, TouchedStep, RefusedStep, DisownedStep
     DEF Owned

LEMMA OwnedInvInit == Init => OwnedInv
<1>. SUFFICES ASSUME Init, NEW a \in Envelope PROVE Owned(a)
  BY DEF OwnedInv
<1>1. \A h \in Request : handler[h].phase = "closed"
  BY DEF Init, Closed
<1>2. \A r \in Run : run[r].phase = "idle"
  BY DEF Init, MachineInit, Idle
<1>3. Untouched(a)
  BY <1>2 DEF Untouched, ActiveOf, Phases, Init
<1>4. ~Disowned(a)
  BY <1>1 DEF Disowned, Held, Handles, Range, Init, RegistryInit
<1>. QED
  BY <1>1, <1>3, <1>4
     DEF Owned, NothingUnspent, NothingUnlaunched, OneRunActs, TouchedIsTold,
         RefusedIsUntouched, DisownedIsUntouched, Handles, Underway, Untouched

(* concludeLaunch "never invents a stronger one": no record, in memory or on
   the disk, denies the effect of an approval that changed the machine,
   unless its client was cut or its bytes were accepted twice. *)
THEOREM EffectIsAlwaysOwned == Spec => []EffectIsOwned
<1>1. CarriesSigned /\ MachineInv /\ RegistryInv /\ AttestedInv /\ OwnedInv
        /\ [Next]_pathVars => OwnedInv'
  BY OwnedInvStep DEF MachineInv, AttestedInv
<1>2. RegistryInv /\ OwnedInv => EffectIsOwned
  <2>. SUFFICES ASSUME RegistryInv, OwnedInv,
                       NEW records \in {registry, registryDisk}, NEW i \in DOMAIN records,
                       records[i].approval \in changed \ (cut \cup twice)
                PROVE  records[i].state \in {"in_flight", "reported", "launched_unreported"}
    BY DEF EffectIsOwned
  <2>1. records[i] \in Record
    BY DEF RegistryInv
  <2>2. /\ records[i].approval \in Envelope
        /\ records[i].state \in Disowning \cup {"in_flight", "reported", "launched_unreported"}
    BY <2>1 DEF Record, DispatchStates, TerminalStates, Disowning
  <2>3. records[i].state \notin Disowning
    BY <2>2 DEF OwnedInv, Owned, DisownedIsUntouched, Disowned, Held, Range, Untouched
  <2>. QED  BY <2>2, <2>3
<1>. QED  BY <1>1, <1>2, OwnedInvInit, AttestedIsInvariant, PTL DEF Spec

-----------------------------------------------------------------------------

LEMMA HistoryTyped ==
    ASSUME TypeOK, [Next]_pathVars
    PROVE  /\ (knownHosts \in BOOLEAN)'
           /\ (\A s \in {changed, cut, spent, twice} : s \subseteq Envelope)'
<1>0. /\ knownHosts \in BOOLEAN /\ CarriesSigned /\ MachineTypeOK
      /\ changed \subseteq Envelope /\ cut \subseteq Envelope
      /\ spent \subseteq Envelope /\ twice \subseteq Envelope
  BY DEF TypeOK, CarriesSigned
<1>. SUFFICES /\ knownHosts' \in BOOLEAN
              /\ changed' \subseteq Envelope /\ cut' \subseteq Envelope
              /\ spent' \subseteq Envelope /\ twice' \subseteq Envelope
  OBVIOUS
<1>1. CASE UNCHANGED historyVars /\ knownHosts' \in BOOLEAN
  BY <1>0, <1>1 DEF historyVars
<1>2. CASE \/ SubmitDecision \/ ControllerRestarts \/ MachineFails \/ UNCHANGED pathVars
           \/ \E r \in Run : AuxiliarySteps(r) \/ Unheard(r)
  <2>1. UNCHANGED historyVars /\ knownHosts' \in {knownHosts, FALSE}
    BY <1>2 DEF SubmitDecision, ControllerRestarts, MachineFails, AuxiliarySteps, Unheard,
                pathVars, controllerVars
  <2>. QED  BY <1>0, <1>1, <2>1
<1>3. CASE \E h \in Request :
              \/ \E a \in signed : Check(h, a)
              \/ AcceptFails(h) \/ NotLaunched(h) \/ Launch(h) \/ ClientFails(h)
              \/ (\E r \in Run : Connect(h, r)) \/ Conclude(h) \/ ConcludeFails(h)
  <2>1. UNCHANGED historyVars /\ knownHosts' \in {knownHosts, TRUE, FALSE}
    BY <1>3 DEF Check, AcceptFails, NotLaunched, Launch, ClientFails, Connect,
                Conclude, ConcludeFails
  <2>. QED  BY <1>0, <1>1, <2>1
<1>4. CASE \E r \in Run : AuxiliaryTouches(r)
  <2>1. PICK r \in Run : AuxiliaryTouches(r)
    BY <1>4
  <2>2. run[r].envelope \in Envelope
    BY <1>0, <2>1, RunTyped DEF AuxiliaryTouches, Touch
  <2>. QED  BY <1>0, <2>1, <2>2 DEF AuxiliaryTouches, controllerVars
<1>5. CASE \E h \in Request :
              \/ AcceptDispatch(h) \/ Deadline(h) \/ ChannelLost(h) \/ ClientErrs(h)
              \/ Answer(h)
  <2>1. PICK h \in Request : \/ AcceptDispatch(h) \/ Deadline(h) \/ ChannelLost(h)
                             \/ ClientErrs(h) \/ Answer(h)
    BY <1>5
  <2>2. handler[h].approval \in Envelope
    BY <1>0, <2>1, RequestHolds
       DEF AcceptDispatch, Deadline, ChannelLost, ClientErrs, Answer, Underway
  <2>3. /\ knownHosts' \in {knownHosts, FALSE} /\ UNCHANGED changed
        /\ cut' \in {cut, cut \cup {handler[h].approval}}
        /\ spent' \in {spent, spent \cup {handler[h].approval}}
        /\ twice' \in {twice, twice \cup (spent \cap {handler[h].approval})}
    BY <2>1 DEF AcceptDispatch, Deadline, ChannelLost, ClientErrs, Answer
  <2>. QED  BY <1>0, <2>2, <2>3
<1>. QED  BY <1>2, <1>3, <1>4, <1>5 DEF Next, HandlerStep, AuxiliaryStep

(* Every variable of the path holds what the program can hold. *)
THEOREM PathTypeCorrect == Spec => []TypeOK
<1>1. Init => TypeOK
  <2>. SUFFICES ASSUME Init PROVE TypeOK
    OBVIOUS
  <2>1. MachineTypeOK /\ CarriesSigned
    BY MachineInvInit, CarriesSignedInit DEF Init, MachineInv
  <2>2. registry \in Seq(Record) /\ registryDisk \in Seq(Record)
    BY RegistryInvInit DEF RegistryInv
  <2>3. knownHosts \in BOOLEAN /\ changed = {} /\ cut = {} /\ spent = {} /\ twice = {}
    BY DEF Init
  <2>. QED  BY <2>1, <2>2, <2>3 DEF TypeOK, CarriesSigned
<1>2. /\ TypeOK /\ [Next]_pathVars
      /\ (CarriesSigned /\ MachineInv /\ RegistryInv)'
      => TypeOK'
  BY HistoryTyped DEF TypeOK, CarriesSigned, MachineInv, RegistryInv
<1>. QED  BY <1>1, <1>2, RegistryIsInvariant, PTL DEF Spec
=============================================================================
