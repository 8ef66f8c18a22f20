-------------------------- MODULE ControllerIdentity --------------------------
(***************************************************************************)
(* The identity side of a Controller, as the App's requests meet it: the   *)
(* one active device with its recovery key, the pairing window, the        *)
(* durable candidate, the idempotence receipts.                            *)
(*                                                                         *)
(* A certificate is a number that is never issued twice; it also stands    *)
(* for the transaction it was issued in, so a receipt of an activation is  *)
(* the certificate it made active. A recovery key is the code it derives   *)
(* from and its epoch; its receipt is that code, which is drawn once per   *)
(* rotation. Signatures hold exactly for the key that made them.           *)
(*                                                                         *)
(* Requests are operators from the record of one Controller to the set of  *)
(* its possible next records: empty when the request is refused.           *)
(***************************************************************************)
EXTENDS Naturals

NoCandidate == [cert |-> 0, mode |-> "none", code |-> 0, epoch |-> 0, previous |-> 0]
Modes == {"enrollment", "recovery", "rotation"}

\* A Controller nobody is paired with. `session` says whether the token of the
\* active device is still good; time and restarts end it.
Fresh ==
    [active |-> 0, code |-> 0, epoch |-> 0, revision |-> 1, candidate |-> NoCandidate,
     window |-> "none", asked |-> FALSE, activated |-> {}, rotated |-> {},
     session |-> FALSE, up |-> TRUE]

(***************************************************************************)
(* `controller serve` starts, with a window or without one. The durable    *)
(* candidate is loaded and must still match the active identity, or the    *)
(* process does not start; one the receipts show as committed is dropped.  *)
(* A window opens beside no candidate, for the mode the identity calls for.*)
(***************************************************************************)
CandidateFits(c) ==
    \/ c.candidate = NoCandidate
    \/ c.candidate.cert \in c.activated /\ c.active = c.candidate.cert
    \/ c.candidate.mode = "enrollment" /\ c.active = 0
    \/ c.candidate.mode # "enrollment" /\ c.active # 0 /\ c.active = c.candidate.previous

Serve(c, mode) ==
    LET kept == IF c.candidate.cert \in c.activated THEN NoCandidate ELSE c.candidate
    IN IF /\ CandidateFits(c)
          /\ mode # "none" => kept = NoCandidate /\ (mode = "enrollment") = (c.active = 0)
       THEN {[c EXCEPT !.up = TRUE, !.window = mode, !.asked = FALSE, !.candidate = kept,
                       !.session = FALSE]}
       ELSE {}

\* `controller revoke-device`, with the service stopped for it: the authority
\* file alone is rewritten.
RevokeDevice(c) ==
    IF c.active = 0 THEN {}
    ELSE {[c EXCEPT !.active = 0, !.code = 0, !.epoch = 0, !.revision = @ + 1,
                    !.session = FALSE, !.window = "none", !.asked = FALSE, !.up = FALSE]}

\* Ten minutes for a candidate or a window, a day for a receipt.
Lapse(c, what) ==
    CASE what = "candidate" -> [c EXCEPT !.candidate = NoCandidate]
      [] what = "window" -> [c EXCEPT !.window = "none", !.asked = FALSE]
      [] what = "receipts" -> [c EXCEPT !.activated = {}, !.rotated = {}]
      [] what = "session" -> [c EXCEPT !.session = FALSE]

\* Begin: the window serves the request identifier that first asked.
Begin(c, mode) ==
    IF c.up /\ c.window = mode /\ ~c.asked THEN {[c EXCEPT !.asked = TRUE]} ELSE {}

\* The epoch a pairing leads to.
NextEpoch(c, mode) == IF mode = "enrollment" THEN 1 ELSE c.epoch + 1

\* Complete: the proofs are checked, the candidate made durable, the window
\* closed. A recovery proves the active recovery key.
Complete(c, mode, code, cert) ==
    IF c.up /\ c.window = mode /\ c.asked /\ (mode = "recovery" => code = c.code)
    THEN {[c EXCEPT !.window = "none", !.asked = FALSE,
                    !.candidate = [cert |-> cert, mode |-> mode, code |-> code,
                                   epoch |-> NextEpoch(c, mode), previous |-> c.active]]}
    ELSE {}

\* PrepareDeviceRotation, under the active certificate and a live session: the
\* candidate copies the recovery key of the identity it is to replace.
PrepareDeviceRotation(c, presented, cert) ==
    IF c.up /\ c.active # 0 /\ presented = c.active /\ c.session /\ c.candidate = NoCandidate
    THEN {[c EXCEPT !.candidate = [cert |-> cert, mode |-> "rotation", code |-> c.code,
                                   epoch |-> c.epoch, previous |-> c.active]]}
    ELSE {}

(***************************************************************************)
(* activate: the candidate replaces the identity it was prepared against;  *)
(* with no candidate left, the receipt of the same activation answers as   *)
(* long as that certificate is still the active one.                       *)
(***************************************************************************)
ActivateCandidate(c) ==
    [c EXCEPT !.active = c.candidate.cert, !.code = c.candidate.code,
              !.epoch = c.candidate.epoch, !.revision = @ + 1,
              !.activated = @ \union {c.candidate.cert}, !.candidate = NoCandidate,
              !.session = IF c.candidate.mode = "enrollment" THEN @ ELSE FALSE]

Activate(c, mode, cert) ==
    IF ~c.up THEN {}
    ELSE IF c.candidate = NoCandidate
         THEN IF cert \in c.activated /\ c.active = cert THEN {c} ELSE {}
    ELSE IF c.candidate.cert = cert /\ c.candidate.mode = mode /\ c.active = c.candidate.previous
         THEN {ActivateCandidate(c)}
         ELSE {}

(***************************************************************************)
(* serveRecoveryKey: a receipt of the same operation answers for the same  *)
(* certificate and the epoch it led to; otherwise the epoch must be the    *)
(* next one and the current key must have signed.                          *)
(***************************************************************************)
RotateRecoveryKey(c, presented, operation, oldCode, oldEpoch) ==
    IF ~(c.up /\ c.active # 0 /\ presented = c.active /\ c.session) THEN {}
    ELSE IF \E receipt \in c.rotated : receipt.operation = operation
         THEN IF /\ [operation |-> operation, cert |-> c.active] \in c.rotated
                 /\ c.epoch = oldEpoch + 1
              THEN {c} ELSE {}
    ELSE IF oldCode = c.code /\ oldEpoch = c.epoch
         THEN {[c EXCEPT !.code = operation, !.epoch = @ + 1,
                         !.rotated = @ \union {[operation |-> operation, cert |-> c.active]}]}
         ELSE {}

\* Open: a session of the device, under its active certificate.
OpenSession(c, presented) ==
    IF c.up /\ c.active # 0 /\ presented = c.active THEN {[c EXCEPT !.session = TRUE]} ELSE {}
===============================================================================
