---------------------------- MODULE AppAssociation ----------------------------
(***************************************************************************)
(* The App and its Controllers: pairing, recovery, the two-phase rotation  *)
(* of the device certificate, the rotation of the recovery code over every *)
(* Controller, and the resumption of each from what the vault holds.       *)
(*                                                                         *)
(* The commands of the App run one at a time. A command is a chain of      *)
(* requests and vault commits; each is one step here, and between two of   *)
(* them the Controller lives on, time passes, or the App ends. A request   *)
(* is refused, served, or served with its answer lost. A commit is done,   *)
(* not done, or done and reported as failed (AppVault.CommitDocument).     *)
(***************************************************************************)
EXTENDS ControllerIdentity

CONSTANTS
    Controllers,  \* the Controllers the human runs
    NoController, \* the place of a command that is none
    MaxCerts,     \* bound: device certificates issued over a behaviour
    MaxCodes,     \* bound: recovery codes over a behaviour
    MaxStarts,    \* bound: starts of a Controller
    MaxRevoked,   \* bound: local revocations
    MaxLapses     \* bound: expiries of a candidate, window, receipt or session

ASSUME AssociationAssumption ==
    /\ NoController \notin Controllers
    /\ MaxCerts \in Nat /\ MaxCodes \in Nat \ {0}
    /\ MaxStarts \in Nat /\ MaxRevoked \in Nat /\ MaxLapses \in Nat

VARIABLES
    ctrl,      \* Controller -> its identity side
    record,    \* the vault: Controller -> the association, or NoRecord
    rotation,  \* the vault: the outstanding recovery rotation, or NoRotation
    token,     \* Controller -> whether the App holds a session token for it
    prepared,  \* the code of a rotation that is shown and not yet confirmed
    command,   \* the command under way, between two of its steps
    held,      \* the recovery codes the human keeps
    used       \* certificates, codes, starts, revocations and lapses so far

vars == <<ctrl, record, rotation, token, prepared, command, held, used>>
remote == <<ctrl, used>>

NoRecord == [status |-> "none", cert |-> 0, revision |-> 0, epoch |-> 0, mode |-> "none",
             pending |-> 0]
NoTarget == [epoch |-> 0, status |-> "none"]
NoRotation == [code |-> 0, target |-> [k \in Controllers |-> NoTarget]]
Idle == [step |-> "idle", at |-> NoController, mode |-> "none", code |-> 0, epoch |-> 0, cert |-> 0,
         revision |-> 0, strict |-> FALSE]

TypeOK ==
    /\ \A k \in Controllers :
         /\ ctrl[k].active \in 0..MaxCerts /\ ctrl[k].code \in 0..MaxCodes
         /\ ctrl[k].candidate.mode \in Modes \union {"none"}
         /\ ctrl[k].window \in {"none", "enrollment", "recovery"}
         /\ ctrl[k].activated \subseteq 1..MaxCerts
         /\ record[k].status \in {"none", "candidate", "active"}
         /\ record[k].mode \in Modes \union {"none"}
         /\ rotation.target[k].status \in {"none", "pending", "failed", "completed"}
    /\ token \in [Controllers -> BOOLEAN]
    /\ prepared \in 0..MaxCodes
    /\ command.step \in {"idle", "challenged", "completed", "activating", "activated",
                         "rotated", "keyed", "unkeyed"}
    /\ held \subseteq 1..MaxCodes

Init ==
    /\ ctrl = [k \in Controllers |-> Fresh]
    /\ record = [k \in Controllers |-> NoRecord]
    /\ rotation = NoRotation /\ prepared = 0 /\ command = Idle /\ held = {1}
    /\ token = [k \in Controllers |-> FALSE]
    /\ used = [certs |-> 0, codes |-> 1, starts |-> 0, revoked |-> 0, lapses |-> 0]

-----------------------------------------------------------------------------
(* Steps.                                                                  *)

Quiet == command = Idle
End == command' = Idle

\* A request: refused, or served and answered, or served with the answer lost.
\* `next` is the command once the answer is in.
Ask(k, served, next) ==
    \/ ctrl' = ctrl /\ End
    \/ \E c \in served : ctrl' = [ctrl EXCEPT ![k] = c] /\ command' \in {next, Idle}

\* A commit: done, not done, or done and reported as failed.
Commit(k, r, t, next) ==
    \/ record' = [record EXCEPT ![k] = r] /\ rotation' = t /\ command' \in {next, Idle}
    \/ UNCHANGED <<record, rotation>> /\ End

\* association_client and pending_association_client.
Presented(k) == IF record[k].mode = "rotation" THEN record[k].pending ELSE record[k].cert

\* The Controller's record once the App has a session for a request under the
\* active certificate: the token at hand is used as it is, good or not.
InSession(k) == IF token[k] THEN {ctrl[k]} ELSE OpenSession(ctrl[k], record[k].cert)
Settled(k) == record[k].status = "active" /\ record[k].mode = "none"

-----------------------------------------------------------------------------
(* pair: challenge, completion, the candidate in the vault, activation.    *)

\* The human gives the code of the rotation under way, or the one there is, to a
\* Controller that is enrolled, and any code kept to one that is recovered.
CodeFor(mode, code) ==
    code \in held /\ (mode = "enrollment" /\ rotation.code # 0 => code = rotation.code)

\* The challenge names the recovery key there is: a recovery derives its own from
\* the code given and compares, and with another code the command ends there, the
\* window served.
PairChallenge(k, mode, code) ==
    /\ Quiet /\ CodeFor(mode, code)
    /\ used.certs < MaxCerts
    /\ Begin(ctrl[k], mode) # {}
    /\ Ask(k, Begin(ctrl[k], mode),
           IF mode = "recovery" /\ code # ctrl[k].code THEN Idle
           ELSE [Idle EXCEPT !.step = "challenged", !.at = k, !.mode = mode, !.code = code,
                             !.epoch = NextEpoch(ctrl[k], mode)])
    /\ UNCHANGED <<record, rotation, token, prepared, held, used>>

PairComplete ==
    /\ command.step = "challenged" /\ used.certs < MaxCerts
    /\ used' = [used EXCEPT !.certs = @ + 1]
    /\ Ask(command.at, Complete(ctrl[command.at], command.mode, command.code, used'.certs),
           [command EXCEPT !.step = "completed", !.cert = used'.certs])
    /\ UNCHANGED <<record, rotation, token, prepared, held>>

\* store_association: a recovery replaces the record there is, an enrollment
\* takes a place nobody has.
Storable(r, mode) == mode = "recovery" \/ r = NoRecord

PersistCandidate ==
    LET k == command.at
    IN /\ command.step = "completed"
       /\ \/ /\ Storable(record[k], command.mode)
             /\ Commit(k, [NoRecord EXCEPT !.status = "candidate", !.cert = command.cert,
                                           !.epoch = command.epoch, !.mode = command.mode],
                       rotation, [command EXCEPT !.step = "activating", !.strict = TRUE])
          \/ /\ ~Storable(record[k], command.mode)
             /\ End
             /\ UNCHANGED <<record, rotation>>
       /\ UNCHANGED <<ctrl, token, prepared, held, used>>

-----------------------------------------------------------------------------
(* rotate_device.                                                          *)

RotateDevice(k) ==
    LET open == InSession(k)
        served == UNION {PrepareDeviceRotation(c, record[k].cert, used.certs + 1) : c \in open}
    IN /\ Quiet /\ Settled(k) /\ used.certs < MaxCerts
       /\ open # {}
       /\ used' = [used EXCEPT !.certs = @ + 1]
       /\ token' = [token EXCEPT ![k] = TRUE]
       /\ \/ \E c \in open : ctrl' = [ctrl EXCEPT ![k] = c] /\ End
          \/ /\ \E c \in served : ctrl' = [ctrl EXCEPT ![k] = c]
             /\ command' \in {Idle, [Idle EXCEPT !.step = "rotated", !.at = k,
                                                 !.mode = "rotation", !.cert = used'.certs]}
       /\ UNCHANGED <<record, rotation, prepared, held>>

(* Mutant: the activation is asked for before the vault holds the new key. *)
PersistRotationLater ==
    /\ command.step = "rotated"
    /\ command' = [command EXCEPT !.step = "activating", !.strict = TRUE]
    /\ \E c \in Activate(ctrl[command.at], "rotation", command.cert) :
          ctrl' = [ctrl EXCEPT ![command.at] = c]
    /\ UNCHANGED <<record, rotation, token, prepared, held, used>>

PersistRotation ==
    LET k == command.at
    IN /\ command.step = "rotated"
       /\ Commit(k, [record[k] EXCEPT !.mode = "rotation", !.pending = command.cert],
                 rotation, [command EXCEPT !.step = "activating", !.strict = TRUE])
       /\ UNCHANGED <<ctrl, token, prepared, held, used>>

-----------------------------------------------------------------------------
(* The activation, in the command that prepared it or resumed by any later *)
(* one (active_association and activate_pending).                          *)

ResumeActivation(k) ==
    /\ Quiet /\ record[k].mode # "none"
    /\ command' = [Idle EXCEPT !.step = "activating", !.at = k, !.mode = record[k].mode]
    /\ UNCHANGED <<remote, record, rotation, token, prepared, held>>

\* rotate_device also checks that the revision is the next one.
RevisionFits(k, c) ==
    command.mode = "rotation" /\ command.strict => c.revision = record[k].revision + 1

RequestActivation ==
    LET k == command.at
        served == Activate(ctrl[k], command.mode, Presented(k))
        answer == IF served = {} THEN 0 ELSE (CHOOSE c \in served : TRUE).revision
    IN /\ command.step = "activating"
       /\ Ask(k, served, IF \A c \in served : RevisionFits(k, c)
                         THEN [command EXCEPT !.step = "activated", !.revision = answer]
                         ELSE Idle)
       /\ UNCHANGED <<record, rotation, token, prepared, held, used>>

StoreActive ==
    LET k == command.at
    IN /\ command.step = "activated"
       /\ token' = IF command.mode = "rotation" THEN [token EXCEPT ![k] = FALSE] ELSE token
       /\ Commit(k, [record[k] EXCEPT !.status = "active", !.cert = Presented(k),
                                      !.revision = command.revision, !.mode = "none",
                                      !.pending = 0], rotation, Idle)
       /\ UNCHANGED <<ctrl, prepared, held, used>>

-----------------------------------------------------------------------------
(* The rotation of the recovery code.                                      *)

Associated == {k \in Controllers : record[k] # NoRecord}

PrepareRecoveryRotation ==
    /\ Quiet /\ rotation = NoRotation /\ Associated # {}
    /\ \A k \in Associated : record[k].status = "active"
    /\ used.codes < MaxCodes
    /\ used' = [used EXCEPT !.codes = @ + 1]
    /\ prepared' = used'.codes
    /\ UNCHANGED <<ctrl, record, rotation, token, command, held>>

\* One target per association there is, at the epoch after the one recorded.
ConfirmRecoveryRotation ==
    /\ Quiet /\ prepared # 0 /\ rotation = NoRotation /\ Associated # {}
    /\ rotation' = [code |-> prepared,
                    target |-> [k \in Controllers |->
                        IF k \in Associated
                        THEN [epoch |-> record[k].epoch + 1, status |-> "pending"]
                        ELSE NoTarget]]
    /\ prepared' \in {0, prepared}
    /\ held' = held \union {prepared}
    /\ UNCHANGED <<remote, record, token, command>>

(* Mutant: a rotation of the device under way does not hold the keys up. *)
RotatableBeside(k) ==
    record[k].status = "active" /\ record[k].epoch + 1 = rotation.target[k].epoch

\* rotate_recovery_key: what the App asks of its own record first.
Rotatable(k) == Settled(k) /\ record[k].epoch + 1 = rotation.target[k].epoch

(***************************************************************************)
(* resume_recovery_key_rotation, one target: the old code as the human     *)
(* gives it, the new one as it was confirmed. Whatever goes wrong is       *)
(* recorded as failed.                                                     *)
(***************************************************************************)
ResumeTarget(k, old) ==
    LET open == IF Rotatable(k) THEN InSession(k) ELSE {}
        served == UNION {RotateRecoveryKey(c, record[k].cert, rotation.code, old,
                                           record[k].epoch) : c \in open}
        answered == [Idle EXCEPT !.step = "keyed", !.at = k]
        failed == [Idle EXCEPT !.step = "unkeyed", !.at = k]
    IN /\ Quiet /\ rotation.target[k].status \in {"pending", "failed"}
       /\ old \in held \ {rotation.code}
       /\ token' = [token EXCEPT ![k] = @ \/ open # {}]
       /\ \/ /\ \E c \in served \union open \union {ctrl[k]} : ctrl' = [ctrl EXCEPT ![k] = c]
             /\ command' = failed
          \/ /\ \E c \in served :
                  c.revision = record[k].revision /\ ctrl' = [ctrl EXCEPT ![k] = c]
             /\ command' = answered
       /\ UNCHANGED <<record, rotation, prepared, held, used>>

RecordResult ==
    LET k == command.at
        done == command.step = "keyed"
        status == IF done THEN "completed" ELSE "failed"
    IN /\ command.step \in {"keyed", "unkeyed"}
       /\ Commit(k, IF done THEN [record[k] EXCEPT !.epoch = rotation.target[k].epoch]
                    ELSE record[k],
                 [rotation EXCEPT !.target[k].status = status], Idle)
       /\ UNCHANGED <<ctrl, token, prepared, held, used>>

\* complete_recovery_rotation; the human then destroys the old code.
CompleteRecoveryRotation ==
    /\ Quiet /\ rotation # NoRotation
    /\ \A k \in Controllers : rotation.target[k].status \in {"completed", "none"}
    /\ rotation' = NoRotation /\ held' = {rotation.code}
    /\ UNCHANGED <<remote, record, token, prepared, command>>

-----------------------------------------------------------------------------
\* A read under the session: an expired one drops the token.
ReadController(k) ==
    /\ Quiet /\ Settled(k)
    /\ \/ /\ token[k] /\ ~ctrl[k].session
          /\ token' = [token EXCEPT ![k] = FALSE] /\ UNCHANGED ctrl
       \/ /\ ~token[k]
          /\ \E c \in OpenSession(ctrl[k], record[k].cert) : ctrl' = [ctrl EXCEPT ![k] = c]
          /\ token' = [token EXCEPT ![k] = TRUE]
    /\ UNCHANGED <<record, rotation, prepared, command, held, used>>

\* logout: the token goes first, whatever the Controller answers.
Logout(k) ==
    /\ Quiet /\ token[k] /\ token' = [token EXCEPT ![k] = FALSE]
    /\ ctrl' \in {ctrl, [ctrl EXCEPT ![k].session = FALSE]}
    /\ UNCHANGED <<record, rotation, prepared, command, held, used>>

\* lock_app, or the end of the process in the middle of a command.
LeaveApp ==
    /\ End /\ prepared' = 0 /\ token' = [k \in Controllers |-> FALSE]
    /\ UNCHANGED <<remote, record, rotation, held>>

\* The Controller's own life.
Elsewhere(k) ==
    /\ \/ /\ used.starts < MaxStarts /\ used' = [used EXCEPT !.starts = @ + 1]
          /\ \E mode \in {"none", "enrollment", "recovery"} :
               \E c \in Serve(ctrl[k], mode) : ctrl' = [ctrl EXCEPT ![k] = c]
       \/ /\ used.revoked < MaxRevoked /\ used' = [used EXCEPT !.revoked = @ + 1]
          /\ \E c \in RevokeDevice(ctrl[k]) : ctrl' = [ctrl EXCEPT ![k] = c]
       \/ /\ used.lapses < MaxLapses /\ used' = [used EXCEPT !.lapses = @ + 1]
          /\ \E what \in {"candidate", "window", "receipts", "session"} :
               ctrl' = [ctrl EXCEPT ![k] = Lapse(ctrl[k], what)] /\ ctrl' # ctrl
    /\ UNCHANGED <<record, rotation, token, prepared, command, held>>

Next ==
    \/ \E k \in Controllers :
         \/ \E mode \in {"enrollment", "recovery"}, code \in 1..MaxCodes :
              PairChallenge(k, mode, code)
         \/ RotateDevice(k) \/ ResumeActivation(k)
         \/ \E old \in 1..MaxCodes : ResumeTarget(k, old)
         \/ ReadController(k) \/ Logout(k) \/ Elsewhere(k)
    \/ PairComplete \/ PersistCandidate \/ PersistRotation
    \/ RequestActivation \/ StoreActive
    \/ PrepareRecoveryRotation \/ ConfirmRecoveryRotation \/ RecordResult
    \/ CompleteRecoveryRotation \/ LeaveApp

Spec == Init /\ [][Next]_vars

-----------------------------------------------------------------------------
(* Properties.                                                             *)

\* The human can always recover: a Controller with an active device has its
\* recovery key under a code the human keeps, through pairings, recoveries and
\* rotations cut anywhere (network.rs, rotate_recovery_key; vault.rs,
\* complete_recovery_rotation).
RecoveryCodeWorks == \A k \in Controllers : ctrl[k].active # 0 => ctrl[k].code \in held

\* The Controller never makes a certificate active whose private key the vault
\* does not hold: a lost answer or a crash at any point of the two phases leaves
\* the App a way to finish (network.rs, pair and rotate_device persist first).
ActivatedIsHeld ==
    [][\A k \in Controllers : ctrl'[k].active \notin {0, ctrl[k].active} =>
           ctrl'[k].active = Presented(k)]_vars

===============================================================================
