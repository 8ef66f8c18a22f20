-------------------------- MODULE MachineApproval --------------------------
(***************************************************************************)
(* What one machine does with signed approvals: the anchor that names the  *)
(* active epoch, the anti-replay position, and the Auxiliary processes     *)
(* that spend it (internal/approval/{anchor,accept,replay}.go and          *)
(* runAuxiliary in cmd/your-cloud/auxiliary.go).                           *)
(*                                                                         *)
(* The machine trusts no caller, so any envelope may arrive at any time,   *)
(* several at once.  Signature, subject and clock window are checks that   *)
(* an envelope passes or not whatever the state is: they are the refusals  *)
(* that Refuse may always take.  `accepted` is a history variable: the     *)
(* envelopes Accept returned with success, in order.                       *)
(***************************************************************************)
EXTENDS Integers, Sequences

CONSTANTS Run,        \* Auxiliary processes that may exist at once
          Envelope,   \* approval envelopes, records with fields epoch and seq
          Epochs,     \* epochs an anchor may name
          NoRun       \* the lock file is held by nobody

ASSUME MachineAssumption ==
    /\ NoRun \notin Run
    /\ Epochs \subseteq Nat \ {0}
    /\ \A e \in Envelope : e.epoch \in Nat \ {0} /\ e.seq \in Nat \ {0}

VARIABLES anchor,     \* approval_epoch of the anchor file
          position,   \* approval-state.json, as the next reader sees it
          synced,     \* the same file, as it comes back from a power loss
          lock,       \* holder of approval-state.lock
          run,        \* each Auxiliary process
          accepted    \* history: what Accept let through

machineVars == <<anchor, position, synced, lock, run, accepted>>

(* Nothing was ever consumed: the state file does not exist. *)
Unspent == [epoch |-> 0, seq |-> 0]

Position == [epoch : Nat, seq : Nat]

PositionOf(e) == [epoch |-> e.epoch, seq |-> e.seq]

Before(p, q) == p.epoch < q.epoch \/ (p.epoch = q.epoch /\ p.seq < q.seq)

(* Idle is a slot without a process.  A process that ended is "done" until
   whoever launched it has read its answer. *)
Idle == [phase |-> "idle"]

Phases == {"anchored", "locked", "decided", "accepted", "touched"}

Answers == {"refused", "report", "garbled", "silent"}

RunState == {Idle}
            \cup [phase : Phases, envelope : Envelope, epoch : Epochs,
                  current : Position]
            \cup [phase : {"done"}, envelope : Envelope, answer : Answers]

Done(r, answer) ==
    [run EXCEPT ![r] = [phase |-> "done", envelope |-> run[r].envelope,
                        answer |-> answer]]

Moved(r, phase) == [run EXCEPT ![r] = [@ EXCEPT !.phase = phase]]

MachineInit == /\ anchor \in Epochs
               /\ position = Unspent
               /\ synced = Unspent
               /\ lock = NoRun
               /\ run = [r \in Run |-> Idle]
               /\ accepted = <<>>

(* runAuxiliary up to Accept: the input is read, then the anchor. *)
Start(r, e) ==
    /\ run[r] = Idle
    /\ run' = [run EXCEPT ![r] = [phase |-> "anchored", envelope |-> e,
                                  epoch |-> anchor, current |-> Unspent]]
    /\ UNCHANGED <<anchor, position, synced, lock, accepted>>

(* accept returns before Consume takes the lock: Binds, the subject, the
   clock window or the signature, or another process holds the lock. *)
Refuse(r) ==
    /\ run[r].phase = "anchored"
    /\ run' = Done(r, "refused")
    /\ UNCHANGED <<anchor, position, synced, lock, accepted>>

(* Mutant: the lock is opened but never taken. *)
AcquireUnlocked(r) ==
    /\ run[r].phase = "anchored"
    /\ run[r].envelope.epoch = run[r].epoch
    /\ lock' = r
    /\ run' = Moved(r, "locked")
    /\ UNCHANGED <<anchor, position, synced, accepted>>

(* acquire, for an envelope the anchor that was read binds. *)
Acquire(r) ==
    /\ run[r].phase = "anchored"
    /\ run[r].envelope.epoch = run[r].epoch
    /\ lock = NoRun
    /\ lock' = r
    /\ run' = Moved(r, "locked")
    /\ UNCHANGED <<anchor, position, synced, accepted>>

(* successor: the one sequence this machine may accept next. *)
Successor(p, e) ==
    IF e.epoch > p.epoch
    THEN e.seq = 1
    ELSE e.epoch = p.epoch /\ e.seq = p.seq + 1

(* readState, then the verdict of successor on what was read. *)
Decide(r) ==
    /\ run[r].phase = "locked"
    /\ Successor(position, run[r].envelope)
    /\ run' = [run EXCEPT ![r] = [@ EXCEPT !.phase = "decided",
                                          !.current = position]]
    /\ UNCHANGED <<anchor, position, synced, lock, accepted>>

(* Consume errs and releases the lock: the state is unreadable, the envelope
   is not the successor, or the write fails before the rename. *)
ConsumeRefused(r) ==
    /\ run[r].phase \in {"locked", "decided"}
    /\ lock' = NoRun
    /\ run' = Done(r, "refused")
    /\ UNCHANGED <<anchor, position, synced, accepted>>

(* Mutant: the directory is not synchronised after the rename. *)
ConsumeWithoutSync(r) ==
    /\ run[r].phase = "decided"
    /\ position' = PositionOf(run[r].envelope)
    /\ lock' = NoRun
    /\ run' = Moved(r, "accepted")
    /\ accepted' = Append(accepted, run[r].envelope)
    /\ UNCHANGED <<anchor, synced>>

(* writeState succeeds: Consume, and with it accept, returns. *)
Consume(r) ==
    /\ run[r].phase = "decided"
    /\ position' = PositionOf(run[r].envelope)
    /\ synced' = PositionOf(run[r].envelope)
    /\ lock' = NoRun
    /\ run' = Moved(r, "accepted")
    /\ accepted' = Append(accepted, run[r].envelope)
    /\ UNCHANGED anchor

(* writeState fails after the rename: the position is spent, accept errs. *)
ConsumeUnsynced(r) ==
    /\ run[r].phase = "decided"
    /\ position' = PositionOf(run[r].envelope)
    /\ lock' = NoRun
    /\ run' = Done(r, "refused")
    /\ UNCHANGED <<anchor, synced, accepted>>

(* Apply refuses after the sequence was consumed: nothing was touched, and
   no report is rendered. *)
ApplyRefuses(r) ==
    /\ run[r].phase = "accepted"
    /\ run' = Done(r, "refused")
    /\ UNCHANGED <<anchor, position, synced, lock, accepted>>

(* The first effect on the machine. *)
Touch(r) ==
    /\ run[r].phase = "accepted"
    /\ run' = Moved(r, "touched")
    /\ UNCHANGED <<anchor, position, synced, lock, accepted>>

(* A report: a diagnostic, a state already held, or the conclusion of an
   operation that touched the machine (applied, rolled back, partial). *)
Report(r) ==
    /\ run[r].phase \in {"accepted", "touched"}
    /\ run' = Done(r, "report")
    /\ UNCHANGED <<anchor, position, synced, lock, accepted>>

(* Mutant: a lock file that outlives its process. *)
KilledHolding(r) ==
    /\ run[r].phase \in Phases
    /\ \E answer \in {"silent", "garbled"} :
          /\ answer = "garbled" => run[r].phase \in {"accepted", "touched"}
          /\ run' = Done(r, answer)
    /\ UNCHANGED <<anchor, position, synced, lock, accepted>>

(* The process dies; the kernel drops its flock.  It may die while it
   renders its report. *)
Killed(r) ==
    /\ run[r].phase \in Phases
    /\ \E answer \in {"silent", "garbled"} :
          /\ answer = "garbled" => run[r].phase \in {"accepted", "touched"}
          /\ run' = Done(r, answer)
    /\ lock' = IF lock = r THEN NoRun ELSE lock
    /\ UNCHANGED <<anchor, position, synced, accepted>>

(* Whoever launched the process is gone or has read its answer. *)
Exit(r) ==
    /\ run[r].phase = "done"
    /\ run' = [run EXCEPT ![r] = Idle]
    /\ UNCHANGED <<anchor, position, synced, lock, accepted>>

(* The Assistant replaces the anchor over the personal access; it may be a
   restored file that names an older epoch. *)
RotateAnchor ==
    /\ anchor' \in Epochs \ {anchor}
    /\ UNCHANGED <<position, synced, lock, run, accepted>>

(* The machine loses power: a rename nobody synchronised may be undone. *)
PowerLoss ==
    /\ position' \in {position, synced}
    /\ synced' = position'
    /\ lock' = NoRun
    /\ run' = [r \in Run |-> IF run[r].phase \in Phases
                             THEN [phase |-> "done", answer |-> "silent",
                                   envelope |-> run[r].envelope]
                             ELSE run[r]]
    /\ UNCHANGED <<anchor, accepted>>

RunStep(r) == \/ Refuse(r) \/ Acquire(r) \/ Decide(r) \/ ConsumeRefused(r)
              \/ Consume(r) \/ ConsumeUnsynced(r) \/ ApplyRefuses(r)
              \/ Touch(r) \/ Report(r)

MachineNext == \/ \E r \in Run : \/ \E e \in Envelope : Start(r, e)
                                 \/ RunStep(r) \/ Killed(r) \/ Exit(r)
               \/ RotateAnchor \/ PowerLoss

MachineSpec == MachineInit /\ [][MachineNext]_machineVars

-----------------------------------------------------------------------------

(* Variables hold what the files and the process table can hold. *)
MachineTypeOK ==
    /\ anchor \in Epochs
    /\ position \in Position
    /\ synced \in Position
    /\ lock \in Run \cup {NoRun}
    /\ run \in [Run -> RunState]
    /\ accepted \in Seq(Envelope)

(* Anti-replay (replay.go Consume): whatever arrives, in whatever order and
   however often, with processes killed, power lost and the anchor rotated
   or rolled back, each accepted envelope is strictly after every envelope
   accepted before it.  No position is ever performed twice. *)
AcceptedInOrder ==
    \A i, j \in 1..Len(accepted) : i < j => Before(accepted[i], accepted[j])

(* "it happens before anything is performed" (replay.go Consume): an
   accepted envelope is already spent in the copy of the state file that a
   power loss cannot take back. *)
SpentSurvives ==
    \A i \in 1..Len(accepted) : ~Before(synced, accepted[i])

(* flock with LOCK_NB: nobody waits for the lock, and a process that holds
   it decides or dies, so it is always free again. *)
LockIsFreed == (lock # NoRun) ~> (lock = NoRun)

MachineFairSpec == MachineSpec /\ \A r \in Run : WF_machineVars(RunStep(r))

=============================================================================
