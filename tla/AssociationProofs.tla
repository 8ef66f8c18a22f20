-------------------------- MODULE AssociationProofs --------------------------
(***************************************************************************)
(* The App and its Controllers, for any number of Controllers, device      *)
(* certificates and recovery codes, and whatever lapses, restarts, is      *)
(* revoked or goes unanswered: every active device can be recovered with a *)
(* code the human keeps, and no certificate becomes active whose key the   *)
(* vault does not hold.                                                    *)
(*                                                                         *)
(* The first is not inductive. A candidate carries a recovery key of its   *)
(* own, which becomes the Controller's when it is activated; and the human *)
(* destroys every code but the new one when the App says that a rotation   *)
(* is complete. What keeps the two apart is that a candidate whose         *)
(* certificate the App lost can never be activated, and that the keys of a *)
(* Controller are never rotated under a candidate the App still holds.     *)
(***************************************************************************)
EXTENDS AppAssociation, TLAPS

Candidate == [cert : 0..MaxCerts, mode : Modes \union {"none"}, code : 0..MaxCodes,
              epoch : Nat, previous : 0..MaxCerts]
Receipt == [operation : 1..MaxCodes, cert : 1..MaxCerts]
Identity ==
    [active : 0..MaxCerts, code : 0..MaxCodes, epoch : Nat, revision : Nat,
     candidate : Candidate, window : {"none", "enrollment", "recovery"}, asked : BOOLEAN,
     activated : SUBSET (1..MaxCerts), rotated : SUBSET Receipt, session : BOOLEAN,
     up : BOOLEAN]
Association ==
    [status : {"none", "candidate", "active"}, cert : 0..MaxCerts, revision : Nat,
     epoch : Nat, mode : Modes \union {"none"}, pending : 0..MaxCerts]
Rotation ==
    [code : 0..MaxCodes,
     target : [Controllers -> [epoch : Nat,
                               status : {"none", "pending", "failed", "completed"}]]]
Underway == {"challenged", "completed", "activating", "activated", "rotated", "keyed", "unkeyed"}
Command ==
    [step : Underway \union {"idle"}, at : Controllers \union {NoController},
     mode : Modes \union {"none"}, code : 0..MaxCodes, epoch : Nat, cert : 0..MaxCerts,
     revision : Nat, strict : BOOLEAN]
Counts == [certs : 0..MaxCerts, codes : 1..MaxCodes, starts : Nat, revoked : Nat, lapses : Nat]

AppTyped ==
    /\ record \in [Controllers -> Association] /\ rotation \in Rotation
    /\ token \in [Controllers -> BOOLEAN] /\ prepared \in 0..MaxCodes
    /\ command \in Command /\ held \subseteq 1..MaxCodes /\ used \in Counts

(* One Controller, of which n certificates were ever asked for: its window
   for a recovery recovers something; its candidate was never active and no
   receipt of a rotation of the recovery key was given to it. *)
Sound(c, n) ==
    /\ c \in Identity
    /\ c.window = "recovery" => c.active # 0
    /\ c.active <= n /\ c.candidate.cert <= n
    /\ \A r \in c.rotated : r.cert <= n
    /\ c.candidate # NoCandidate =>
          /\ c.candidate.cert \in 1..MaxCerts /\ c.candidate.cert # c.active
          /\ \A r \in c.rotated : r.cert # c.candidate.cert

SoundControllers ==
    /\ ctrl \in [Controllers -> Identity]
    /\ \A k \in Controllers : Sound(ctrl[k], used.certs)

(* A recovery key that will survive: under a code the human keeps, and under
   the new one where the App will not come back to it. *)
Kept(k, code) ==
    /\ code \in held
    /\ rotation.code # 0 /\ rotation.target[k].status \in {"none", "completed"}
          => code = rotation.code

(* The App can still have the candidate of a Controller activated. *)
Reaches(k, cert) ==
    \/ record[k].mode # "none" /\ Presented(k) = cert
    \/ command.step \in {"completed", "rotated"} /\ command.at = k /\ command.cert = cert

KeysAreKept ==
    \A k \in Controllers :
        /\ ctrl[k].active # 0 => Kept(k, ctrl[k].code) /\ record[k] # NoRecord
        /\ ctrl[k].candidate # NoCandidate /\ Reaches(k, ctrl[k].candidate.cert)
              => Kept(k, ctrl[k].candidate.code)

(* A receipt the App may still ask for tells the key of the Controller. *)
ReceiptsAreTrue ==
    \A k \in Controllers : \A r \in ctrl[k].rotated :
        /\ r.operation <= used.codes
        /\ r.cert = ctrl[k].active /\ r.operation \in {rotation.code, prepared}
              => ctrl[k].code = r.operation

RotationIsOne ==
    /\ rotation.code = 0 => rotation = NoRotation
    /\ rotation.code # 0 => rotation.code \in held /\ prepared \in {0, rotation.code}
    /\ rotation.code <= used.codes /\ prepared <= used.codes

(* Where a command is between two of its steps. *)
CommandStands ==
    LET k == command.at
    IN /\ command.step \in Underway => k \in Controllers
       /\ command.step = "challenged" =>
             /\ command.mode \in {"enrollment", "recovery"}
             /\ command.mode = "enrollment" =>
                   command.code \in held /\ (rotation.code # 0 => command.code = rotation.code)
       /\ command.step = "completed" => command.mode \in {"enrollment", "recovery"}
       /\ command.step \in {"activating", "activated"} => record[k].mode # "none"
       /\ command.step = "keyed" =>
             /\ record[k].mode = "none" /\ rotation.target[k].epoch # 0
             /\ ctrl[k].active # 0 => ctrl[k].code = rotation.code
       /\ command.step \in {"keyed", "unkeyed"} => rotation.code # 0

AssociationInv ==
    /\ AppTyped /\ SoundControllers /\ KeysAreKept /\ ReceiptsAreTrue /\ RotationIsOne
    /\ CommandStands

-----------------------------------------------------------------------------
(* What a request does to one Controller.                                  *)

(* The key of the active device and the candidate stay as they are, or go. *)
Calm(c, d) ==
    /\ d.active # 0 => d.active = c.active /\ d.code = c.code
    /\ d.candidate \in {c.candidate, NoCandidate}
    /\ d.rotated \subseteq c.rotated

LEMMA NoCandidateIsOne == NoCandidate \in Candidate /\ NoCandidate.cert = 0
BY AssociationAssumption DEF NoCandidate, Candidate

LEMMA SoundLonger ==
    ASSUME NEW n \in Nat, NEW m \in Nat, n <= m, NEW c, Sound(c, n)
    PROVE  Sound(c, m)
BY AssociationAssumption DEF Sound, Identity, Candidate, Receipt

(* Its own life, a challenge and a session leave a Controller's key alone. *)
LEMMA CalmRequests ==
    ASSUME NEW n \in Nat, NEW c, Sound(c, n), NEW d,
           \/ d = c \/ d = [c EXCEPT !.session = FALSE]
           \/ \E mode : d \in Begin(c, mode)
           \/ \E mode \in {"none", "enrollment", "recovery"} : d \in Serve(c, mode)
           \/ d \in RevokeDevice(c)
           \/ \E what \in {"candidate", "window", "receipts", "session"} : d = Lapse(c, what)
           \/ \E cert : d \in OpenSession(c, cert)
    PROVE  Sound(d, n) /\ Calm(c, d)
<1>0. c \in Identity
  BY DEF Sound
<1>1. CASE d = c \/ d = [c EXCEPT !.session = FALSE]
  BY <1>0, <1>1 DEF Sound, Calm, Identity
<1>2. ASSUME NEW mode, d \in Begin(c, mode) PROVE Sound(d, n) /\ Calm(c, d)
  <2>1. d = [c EXCEPT !.asked = TRUE]
    BY <1>2 DEF Begin
  <2>. QED  BY <1>0, <2>1 DEF Sound, Calm, Identity
<1>3. ASSUME NEW mode \in {"none", "enrollment", "recovery"}, d \in Serve(c, mode)
      PROVE  Sound(d, n) /\ Calm(c, d)
  <2>. DEFINE kept == IF c.candidate.cert \in c.activated THEN NoCandidate ELSE c.candidate
  <2>1. /\ d = [c EXCEPT !.up = TRUE, !.window = mode, !.asked = FALSE, !.candidate = kept,
                         !.session = FALSE]
        /\ mode = "recovery" => c.active # 0
    BY <1>3 DEF Serve
  <2>2. kept \in {c.candidate, NoCandidate} /\ kept \in Candidate
    BY <1>0, NoCandidateIsOne DEF Identity
  <2>. HIDE DEF kept
  <2>3. /\ d \in Identity /\ d.active = c.active /\ d.code = c.code /\ d.rotated = c.rotated
        /\ d.candidate = kept /\ d.window = mode
    BY <1>0, <2>1, <2>2 DEF Identity
  <2>. QED  BY <2>1, <2>2, <2>3, NoCandidateIsOne DEF Sound, Calm
<1>4. ASSUME d \in RevokeDevice(c) PROVE Sound(d, n) /\ Calm(c, d)
  <2>1. d = [c EXCEPT !.active = 0, !.code = 0, !.epoch = 0, !.revision = c.revision + 1,
                      !.session = FALSE, !.window = "none", !.asked = FALSE, !.up = FALSE]
    BY <1>4 DEF RevokeDevice
  <2>a. c.revision + 1 \in Nat /\ 0 \in 0..MaxCerts /\ 0 \in 0..MaxCodes /\ 0 \in Nat
    BY <1>0, AssociationAssumption DEF Identity
  <2>2. /\ d \in Identity /\ d.active = 0 /\ d.rotated = c.rotated
        /\ d.candidate = c.candidate /\ d.window = "none"
    BY <1>0, <2>1, <2>a DEF Identity
  <2>3. \A r \in c.rotated : r.cert \in Nat
    BY <1>0 DEF Identity, Receipt
  <2>. QED  BY <2>2, <2>3 DEF Sound, Calm
<1>5. ASSUME NEW what \in {"candidate", "window", "receipts", "session"}, d = Lapse(c, what)
      PROVE  Sound(d, n) /\ Calm(c, d)
  <2>1. \/ d = [c EXCEPT !.candidate = NoCandidate]
        \/ d = [c EXCEPT !.window = "none", !.asked = FALSE]
        \/ d = [c EXCEPT !.activated = {}, !.rotated = {}]
        \/ d = [c EXCEPT !.session = FALSE]
    BY <1>5 DEF Lapse
  <2>2. /\ d \in Identity /\ d.active = c.active /\ d.code = c.code
        /\ d.rotated \in {c.rotated, {}} /\ d.candidate \in {c.candidate, NoCandidate}
        /\ d.window \in {c.window, "none"}
    BY ZenonT(60), <1>0, <2>1, NoCandidateIsOne DEF Identity
  <2>. QED  BY <2>2, NoCandidateIsOne DEF Sound, Calm
<1>6. ASSUME NEW cert, d \in OpenSession(c, cert) PROVE Sound(d, n) /\ Calm(c, d)
  <2>1. d = [c EXCEPT !.session = TRUE]
    BY <1>6 DEF OpenSession
  <2>. QED  BY <1>0, <2>1 DEF Sound, Calm, Identity
<1>. QED  BY <1>1, <1>2, <1>3, <1>4, <1>5, <1>6

(* A completion makes a candidate under the code of the challenge. *)
LEMMA CompleteMakes ==
    ASSUME NEW n \in Nat, n < MaxCerts, NEW c, Sound(c, n),
           NEW mode \in {"enrollment", "recovery"}, NEW code \in 0..MaxCodes,
           NEW d \in Complete(c, mode, code, n + 1)
    PROVE  /\ Sound(d, n + 1)
           /\ d.active = c.active /\ d.code = c.code /\ d.rotated = c.rotated
           /\ d.candidate.code = code
           /\ mode = "recovery" => c.active # 0 /\ code = c.code
<1>. DEFINE made == [cert |-> n + 1, mode |-> mode, code |-> code,
                     epoch |-> NextEpoch(c, mode), previous |-> c.active]
<1>0. c \in Identity
  BY DEF Sound
<1>1. /\ d = [c EXCEPT !.window = "none", !.asked = FALSE, !.candidate = made]
      /\ c.window = mode /\ (mode = "recovery" => code = c.code)
  BY DEF Complete
<1>2. made \in Candidate /\ made.cert = n + 1 /\ made.code = code
  BY <1>0, AssociationAssumption DEF Candidate, Identity, Modes, NextEpoch
<1>. HIDE DEF made
<1>3. d \in Identity /\ d.candidate = made /\ d.active = c.active /\ d.code = c.code
      /\ d.rotated = c.rotated /\ d.window = "none"
  BY <1>0, <1>1, <1>2 DEF Identity
<1>4. \A r \in c.rotated : r.cert \in Nat /\ r.cert <= n
  BY <1>0 DEF Sound, Identity, Receipt
<1>5. c.active \in Nat /\ c.active <= n
  BY <1>0, AssociationAssumption DEF Sound, Identity
<1>6. Sound(d, n + 1)
  BY <1>2, <1>3, <1>4, <1>5, AssociationAssumption DEF Sound
<1>. QED  BY <1>1, <1>2, <1>3, <1>6 DEF Sound

(* A rotation of the device makes a candidate under the key there is. *)
LEMMA PrepareMakes ==
    ASSUME NEW n \in Nat, n < MaxCerts, NEW c, Sound(c, n), NEW presented,
           NEW d \in PrepareDeviceRotation(c, presented, n + 1)
    PROVE  /\ Sound(d, n + 1)
           /\ d.active = c.active /\ d.code = c.code /\ d.rotated = c.rotated
           /\ c.active # 0 /\ d.candidate.code = c.code
<1>. DEFINE made == [cert |-> n + 1, mode |-> "rotation", code |-> c.code,
                     epoch |-> c.epoch, previous |-> c.active]
<1>0. c \in Identity
  BY DEF Sound
<1>1. d = [c EXCEPT !.candidate = made] /\ c.active # 0
  BY DEF PrepareDeviceRotation
<1>2. made \in Candidate /\ made.cert = n + 1 /\ made.code = c.code
  BY <1>0, AssociationAssumption DEF Candidate, Identity, Modes
<1>. HIDE DEF made
<1>3. d \in Identity /\ d.candidate = made /\ d.active = c.active /\ d.code = c.code
      /\ d.rotated = c.rotated /\ d.window = c.window
  BY <1>0, <1>1, <1>2 DEF Identity
<1>4. \A r \in c.rotated : r.cert \in Nat /\ r.cert <= n
  BY <1>0 DEF Sound, Identity, Receipt
<1>5. c.active \in Nat /\ c.active <= n
  BY <1>0, AssociationAssumption DEF Sound, Identity
<1>6. Sound(d, n + 1)
  BY <1>1, <1>2, <1>3, <1>4, <1>5, AssociationAssumption DEF Sound
<1>. QED  BY <1>1, <1>2, <1>3, <1>6

(* An activation is a repetition, or it makes the candidate's key the key. *)
LEMMA ActivateMakes ==
    ASSUME NEW n \in Nat, NEW c, Sound(c, n), NEW mode, NEW cert, NEW d \in Activate(c, mode, cert)
    PROVE  /\ Sound(d, n) /\ d.revision \in Nat
           /\ \/ d = c
              \/ /\ c.candidate # NoCandidate /\ c.candidate.cert = cert
                 /\ d.active = cert /\ d.code = c.candidate.code
                 /\ d.candidate = NoCandidate /\ d.rotated = c.rotated
                 /\ \A r \in c.rotated : r.cert # cert
<1>0. c \in Identity
  BY DEF Sound
<1>1. CASE d = c
  BY <1>0, <1>1 DEF Identity
<1>2. CASE /\ c.candidate # NoCandidate /\ c.candidate.cert = cert
           /\ d = ActivateCandidate(c)
  <2>. DEFINE kept == IF c.candidate.mode = "enrollment" THEN c.session ELSE FALSE
  <2>1. d = [c EXCEPT !.active = c.candidate.cert, !.code = c.candidate.code,
                      !.epoch = c.candidate.epoch, !.revision = c.revision + 1,
                      !.activated = c.activated \union {c.candidate.cert},
                      !.candidate = NoCandidate, !.session = kept]
    BY <1>2 DEF ActivateCandidate
  <2>2. kept \in BOOLEAN
    BY <1>0 DEF Identity
  <2>. HIDE DEF kept
  <2>3. c.candidate \in Candidate /\ c.candidate.cert \in 1..MaxCerts
    BY <1>0, <1>2 DEF Sound, Identity
  <2>a. /\ c.candidate.code \in 0..MaxCodes /\ c.candidate.epoch \in Nat
        /\ c.candidate.cert \in 0..MaxCerts
        /\ c.activated \union {c.candidate.cert} \in SUBSET (1..MaxCerts)
        /\ c.revision + 1 \in Nat
    BY <1>0, <2>3 DEF Identity, Candidate
  <2>4. d \in Identity
    BY <1>0, <2>1, <2>2, <2>a, NoCandidateIsOne DEF Identity
  <2>5. /\ d.active = cert /\ d.code = c.candidate.code /\ d.candidate = NoCandidate
        /\ d.rotated = c.rotated /\ d.window = c.window
    BY <1>0, <1>2, <2>1 DEF Identity
  <2>6. \A r \in c.rotated : r.cert # cert
    BY <1>2 DEF Sound
  <2>7. Sound(d, n)
    BY <1>2, <2>3, <2>4, <2>5, NoCandidateIsOne, AssociationAssumption DEF Sound
  <2>. QED  BY <1>2, <2>4, <2>5, <2>6, <2>7 DEF Identity
<1>. QED  BY <1>1, <1>2 DEF Activate

(* A rotation of the recovery key is a repetition, or it makes the new one. *)
LEMMA RotateMakes ==
    ASSUME NEW n \in Nat, NEW c, Sound(c, n), NEW presented, NEW operation \in 1..MaxCodes,
           NEW old, NEW epoch, NEW d \in RotateRecoveryKey(c, presented, operation, old, epoch)
    PROVE  /\ Sound(d, n) /\ c.active # 0
           /\ d.active = c.active /\ d.candidate = c.candidate
           /\ \/ d = c /\ [operation |-> operation, cert |-> c.active] \in c.rotated
              \/ /\ d.code = operation
                 /\ d.rotated = c.rotated \union {[operation |-> operation, cert |-> c.active]}
<1>0. c \in Identity
  BY DEF Sound
<1>. DEFINE receipt == [operation |-> operation, cert |-> c.active]
<1>1. c.active # 0 /\ c.active \in 1..MaxCerts /\ receipt \in Receipt
  BY <1>0, AssociationAssumption DEF RotateRecoveryKey, Identity, Receipt
<1>2. CASE d = c /\ receipt \in c.rotated
  BY <1>1, <1>2
<1>3. CASE d = [c EXCEPT !.code = operation, !.epoch = c.epoch + 1,
                         !.rotated = c.rotated \union {receipt}]
  <2>0. receipt.cert = c.active
    OBVIOUS
  <2>. HIDE DEF receipt
  <2>a. /\ c.rotated \union {receipt} \in SUBSET Receipt /\ operation \in 0..MaxCodes
        /\ c.epoch + 1 \in Nat
    BY <1>0, <1>1 DEF Identity
  <2>1. d \in Identity
    BY <1>0, <1>3, <2>a DEF Identity
  <2>2. /\ d.active = c.active /\ d.candidate = c.candidate /\ d.window = c.window
        /\ d.code = operation /\ d.rotated = c.rotated \union {receipt}
    BY <1>0, <1>3 DEF Identity
  <2>3. Sound(d, n)
    BY <1>1, <2>0, <2>1, <2>2 DEF Sound
  <2>. QED  BY <1>1, <2>2, <2>3 DEF receipt
<1>. QED  BY <1>2, <1>3 DEF RotateRecoveryKey

-----------------------------------------------------------------------------
(* What every step but a few leaves alone.                                 *)

ControllersAreCalm == \A k \in Controllers : Calm(ctrl[k], ctrl'[k])
ReachesNothingNew ==
    \A k \in Controllers : \A cert \in 0..MaxCerts : Reaches(k, cert)' => Reaches(k, cert)
RecordsStay == \A k \in Controllers : record[k] # NoRecord => record'[k] # NoRecord

LEMMA CertsAreNumbers ==
    ASSUME SoundControllers, NEW k \in Controllers
    PROVE  /\ ctrl[k] \in Identity /\ Sound(ctrl[k], used.certs)
           /\ ctrl[k].active \in 0..MaxCerts /\ ctrl[k].candidate.cert \in 0..MaxCerts
           /\ ctrl[k].rotated \subseteq Receipt
BY DEF SoundControllers, Sound, Identity, Candidate

LEMMA CountsAreNumbers ==
    ASSUME AppTyped
    PROVE  used.certs \in Nat /\ used.codes \in Nat /\ used.certs <= MaxCerts
BY AssociationAssumption DEF AppTyped, Counts

LEMMA OneMoves ==
    ASSUME SoundControllers, used.certs \in Nat, used'.certs \in Nat, used.certs <= used'.certs,
           NEW k \in Controllers, NEW d, Sound(d, used'.certs), ctrl' = [ctrl EXCEPT ![k] = d]
    PROVE  /\ SoundControllers'
           /\ ctrl'[k] = d /\ \A j \in Controllers : j # k => ctrl'[j] = ctrl[j]
<1>1. ctrl \in [Controllers -> Identity] /\ d \in Identity
  BY DEF SoundControllers, Sound
<1>2. ctrl' \in [Controllers -> Identity]
  BY <1>1
<1>3. ctrl'[k] = d /\ \A j \in Controllers : j # k => ctrl'[j] = ctrl[j]
  BY <1>1
<1>4. \A j \in Controllers : Sound(ctrl[j], used'.certs)
  BY SoundLonger DEF SoundControllers
<1>. QED  BY <1>2, <1>3, <1>4 DEF SoundControllers

LEMMA NoneMoves ==
    ASSUME SoundControllers, used.certs \in Nat, used'.certs \in Nat, used.certs <= used'.certs,
           ctrl' = ctrl
    PROVE  SoundControllers' /\ ControllersAreCalm
<1>1. \A j \in Controllers : Sound(ctrl[j], used'.certs)
  BY SoundLonger DEF SoundControllers
<1>. QED  BY <1>1 DEF SoundControllers, ControllersAreCalm, Calm

LEMMA OneIsCalm ==
    ASSUME SoundControllers, used.certs \in Nat, used'.certs \in Nat, used.certs <= used'.certs,
           NEW k \in Controllers, NEW d, Sound(d, used.certs), Calm(ctrl[k], d),
           ctrl' = [ctrl EXCEPT ![k] = d]
    PROVE  SoundControllers' /\ ControllersAreCalm
<1>1. Sound(d, used'.certs)
  BY SoundLonger
<1>2. /\ SoundControllers'
      /\ ctrl'[k] = d /\ \A j \in Controllers : j # k => ctrl'[j] = ctrl[j]
  BY <1>1, OneMoves
<1>. QED  BY <1>2 DEF ControllersAreCalm, Calm

LEMMA KeysStayKept ==
    ASSUME KeysAreKept, SoundControllers, ControllersAreCalm, ReachesNothingNew, RecordsStay,
           held' = held, rotation' = rotation
    PROVE  KeysAreKept'
<1>. SUFFICES ASSUME NEW k \in Controllers
              PROVE  /\ ctrl'[k].active # 0 => Kept(k, ctrl[k].code)' /\ record'[k] # NoRecord
                     /\ ctrl'[k].candidate # NoCandidate /\ Reaches(k, ctrl[k].candidate.cert)'
                           => Kept(k, ctrl[k].candidate.code)'
  BY DEF KeysAreKept
<1>2. ctrl[k].candidate.cert \in 0..MaxCerts
  BY CertsAreNumbers
<1>3. ctrl'[k].active # 0 => Kept(k, ctrl[k].code)' /\ record'[k] # NoRecord
  BY DEF KeysAreKept, ControllersAreCalm, Calm, RecordsStay, Kept
<1>4. ASSUME ctrl'[k].candidate # NoCandidate, Reaches(k, ctrl[k].candidate.cert)'
      PROVE  Kept(k, ctrl[k].candidate.code)'
  <2>1. ctrl'[k].candidate = ctrl[k].candidate
    BY <1>4 DEF ControllersAreCalm, Calm
  <2>2. Reaches(k, ctrl[k].candidate.cert)
    BY <1>2, <1>4, <2>1 DEF ReachesNothingNew, Reaches, Presented
  <2>. QED  BY <1>4, <2>1, <2>2 DEF KeysAreKept, Kept
<1>. QED  BY <1>3, <1>4

LEMMA ReceiptsStayTrue ==
    ASSUME ReceiptsAreTrue, SoundControllers, ControllersAreCalm, AppTyped,
           rotation'.code \in {rotation.code, prepared, 0}, prepared' \in {prepared, 0},
           used'.codes = used.codes
    PROVE  ReceiptsAreTrue'
<1>. SUFFICES ASSUME NEW k \in Controllers, NEW r \in ctrl'[k].rotated
              PROVE  /\ r.operation <= used'.codes
                     /\ r.cert = ctrl'[k].active /\ r.operation \in {rotation'.code, prepared'}
                           => ctrl'[k].code = r.operation
  BY DEF ReceiptsAreTrue
<1>1. r \in ctrl[k].rotated
  BY DEF ControllersAreCalm, Calm
<1>2. r \in Receipt
  BY <1>1, CertsAreNumbers
<1>3. r.cert # 0 /\ r.operation # 0
  BY <1>2 DEF Receipt
<1>. QED  BY <1>1, <1>3 DEF ReceiptsAreTrue, ControllersAreCalm, Calm

LEMMA CalmStep ==
    ASSUME AssociationInv, ControllersAreCalm, ReachesNothingNew, RecordsStay,
           held' = held, rotation' = rotation, prepared' \in {prepared, 0},
           used'.codes = used.codes
    PROVE  KeysAreKept' /\ ReceiptsAreTrue' /\ RotationIsOne'
<1>1. KeysAreKept'
  BY KeysStayKept DEF AssociationInv
<1>2. ReceiptsAreTrue'
  BY ReceiptsStayTrue DEF AssociationInv
<1>3. RotationIsOne'
  BY AssociationAssumption DEF AssociationInv, RotationIsOne, NoRotation, AppTyped, Counts
<1>. QED  BY <1>1, <1>2, <1>3

LEMMA IdleIsTyped == Idle \in Command /\ Idle.step = "idle"
BY AssociationAssumption DEF Idle, Command

LEMMA NoRecordIsOne == NoRecord \in Association /\ NoRecord.mode = "none"
BY AssociationAssumption DEF NoRecord, Association

LEMMA IdleStands ==
    ASSUME command' = Idle
    PROVE  CommandStands'
BY IdleIsTyped DEF CommandStands, Underway

LEMMA IdleReaches ==
    ASSUME record' = record, command' = Idle
    PROVE  ReachesNothingNew
BY IdleIsTyped DEF ReachesNothingNew, Reaches, Presented

(* A command stands where it was while the Controllers live on. *)
LEMMA CommandStays ==
    ASSUME CommandStands, ControllersAreCalm,
           UNCHANGED <<record, rotation, held, command>>
    PROVE  CommandStands'
BY DEF CommandStands, ControllersAreCalm, Calm, Underway

-----------------------------------------------------------------------------
(* The pairing.                                                            *)

LEMMA PairChallengeStep ==
    ASSUME AssociationInv, NEW k \in Controllers, NEW mode \in {"enrollment", "recovery"},
           NEW code \in 1..MaxCodes, PairChallenge(k, mode, code)
    PROVE  AssociationInv'
<1>. DEFINE next == [Idle EXCEPT !.step = "challenged", !.at = k, !.mode = mode, !.code = code,
                                 !.epoch = NextEpoch(ctrl[k], mode)]
<1>1. /\ AppTyped /\ SoundControllers /\ used.certs \in Nat /\ used' = used
      /\ UNCHANGED <<record, rotation, token, prepared, held>>
  BY CountsAreNumbers DEF AssociationInv, PairChallenge
<1>2. SoundControllers' /\ ControllersAreCalm
  <2>1. CASE ctrl' = ctrl
    BY <1>1, <2>1, NoneMoves
  <2>2. ASSUME NEW c \in Begin(ctrl[k], mode), ctrl' = [ctrl EXCEPT ![k] = c]
        PROVE  SoundControllers' /\ ControllersAreCalm
    <3>1. Sound(c, used.certs) /\ Calm(ctrl[k], c)
      BY <1>1, CertsAreNumbers, CalmRequests
    <3>2. used'.certs \in Nat /\ used.certs <= used'.certs
      BY <1>1
    <3>. QED  BY <1>1, <2>2, <3>1, <3>2, OneIsCalm
  <2>. QED  BY <2>1, <2>2 DEF PairChallenge, Ask
<1>3. command' \in {next, Idle}
  BY DEF PairChallenge, Ask, End
<1>4. NextEpoch(ctrl[k], mode) \in Nat
  BY <1>1, CertsAreNumbers DEF NextEpoch, Identity
<1>5. /\ next \in Command /\ next.step = "challenged" /\ next.at = k /\ next.mode = mode
      /\ next.code = code
  <2>1. /\ "challenged" \in Underway \union {"idle"} /\ code \in 0..MaxCodes
        /\ mode \in Modes \union {"none"}
    BY DEF Underway, Modes
  <2>. QED  BY <1>4, <2>1, IdleIsTyped DEF Command
<1>. HIDE DEF next
<1>6. AppTyped'
  BY <1>1, <1>3, <1>5, IdleIsTyped DEF AppTyped
<1>7. ReachesNothingNew
  BY <1>1, <1>3, <1>5, IdleIsTyped DEF ReachesNothingNew, Reaches, Presented
<1>8. RecordsStay
  BY <1>1 DEF RecordsStay
<1>9. KeysAreKept' /\ ReceiptsAreTrue' /\ RotationIsOne'
  BY <1>1, <1>2, <1>7, <1>8, CalmStep
<1>10. CommandStands'
  <2>1. CASE command' = next
    <3>1. mode = "enrollment" => code \in held /\ (rotation.code # 0 => code = rotation.code)
      BY DEF PairChallenge, CodeFor
    <3>. QED  BY <1>1, <1>5, <2>1, <3>1 DEF CommandStands, Underway
  <2>. QED  BY <1>3, <2>1, IdleStands
<1>. QED  BY <1>2, <1>6, <1>9, <1>10 DEF AssociationInv

LEMMA PairCompleteStep ==
    ASSUME AssociationInv, PairComplete
    PROVE  AssociationInv'
<1>. DEFINE k == command.at
            cert == used.certs + 1
            next == [command EXCEPT !.step = "completed", !.cert = cert]
<1>1. /\ AppTyped /\ SoundControllers /\ used.certs \in Nat /\ used.certs < MaxCerts
      /\ UNCHANGED <<record, rotation, token, prepared, held>>
      /\ k \in Controllers /\ command.step = "challenged"
      /\ command.mode \in {"enrollment", "recovery"}
  BY CountsAreNumbers DEF AssociationInv, PairComplete, CommandStands, Underway
<1>2. /\ used' \in Counts /\ used'.certs = cert /\ used'.codes = used.codes
      /\ cert \in 1..MaxCerts
  BY <1>1, AssociationAssumption DEF PairComplete, AppTyped, Counts
<1>3. /\ next \in Command /\ next.step = "completed" /\ next.at = k /\ next.cert = cert
      /\ next.mode = command.mode
  <2>1. command \in Command /\ "completed" \in Underway \union {"idle"} /\ cert \in 0..MaxCerts
    BY <1>1, <1>2 DEF AppTyped, Underway
  <2>. HIDE DEF cert, k
  <2>. QED  BY <2>1 DEF Command, k
<1>4. \/ ctrl' = ctrl /\ command' = Idle
      \/ \E c \in Complete(ctrl[k], command.mode, command.code, cert) :
             ctrl' = [ctrl EXCEPT ![k] = c] /\ command' \in {next, Idle}
  BY <1>2 DEF PairComplete, Ask, End
<1>. HIDE DEF next, k, cert
<1>5. AppTyped'
  BY <1>1, <1>2, <1>3, <1>4, IdleIsTyped DEF AppTyped
<1>6. CommandStands'
  <2>1. CASE command' = next
    BY <1>1, <1>3, <2>1 DEF CommandStands, Underway
  <2>. QED  BY <1>4, <2>1, IdleStands
<1>7. RotationIsOne'
  BY <1>1, <1>2 DEF AssociationInv, RotationIsOne, NoRotation
<1>8. CASE ctrl' = ctrl /\ command' = Idle
  <2>1. used'.certs \in Nat /\ used.certs <= used'.certs
    BY <1>1, <1>2 DEF cert
  <2>2. SoundControllers' /\ ControllersAreCalm
    BY <1>1, <1>8, <2>1, NoneMoves
  <2>3. ReachesNothingNew /\ RecordsStay
    BY <1>1, <1>8, IdleReaches DEF RecordsStay
  <2>. QED  BY <1>1, <1>2, <1>5, <1>6, <2>2, <2>3, CalmStep DEF AssociationInv
<1>9. ASSUME NEW c \in Complete(ctrl[k], command.mode, command.code, cert),
             ctrl' = [ctrl EXCEPT ![k] = c], command' \in {next, Idle}
      PROVE  AssociationInv'
  <2>1. Sound(ctrl[k], used.certs) /\ command.code \in 0..MaxCodes
    BY <1>1, CertsAreNumbers DEF AppTyped, Command
  <2>2. /\ Sound(c, cert)
        /\ c.active = ctrl[k].active /\ c.code = ctrl[k].code /\ c.rotated = ctrl[k].rotated
        /\ c.candidate.code = command.code
        /\ command.mode = "recovery" => ctrl[k].active # 0 /\ command.code = ctrl[k].code
    BY <1>1, <1>9, <2>1, CompleteMakes DEF cert
  <2>3. used'.certs \in Nat /\ used.certs <= used'.certs
    BY <1>1, <1>2 DEF cert
  <2>4. /\ SoundControllers'
        /\ ctrl'[k] = c /\ \A j \in Controllers : j # k => ctrl'[j] = ctrl[j]
    BY <1>1, <1>2, <1>9, <2>2, <2>3, OneMoves
  <2>5. Kept(k, command.code)
    <3>1. CASE command.mode = "recovery"
      BY <1>1, <2>2, <3>1 DEF AssociationInv, KeysAreKept
    <3>2. CASE command.mode = "enrollment"
      BY <1>1, <3>2 DEF AssociationInv, CommandStands, Kept
    <3>. QED  BY <1>1, <3>1, <3>2
  <2>6. KeysAreKept'
    <3>. SUFFICES ASSUME NEW j \in Controllers
                  PROVE  /\ ctrl'[j].active # 0 => Kept(j, ctrl[j].code)' /\ record'[j] # NoRecord
                         /\ ctrl'[j].candidate # NoCandidate
                               /\ Reaches(j, ctrl[j].candidate.cert)'
                               => Kept(j, ctrl[j].candidate.code)'
      BY DEF KeysAreKept
    <3>1. CASE j = k
      BY <1>1, <2>2, <2>4, <2>5, <3>1 DEF AssociationInv, KeysAreKept, Kept
    <3>2. CASE j # k
      <4>1. ctrl'[j] = ctrl[j]
        BY <2>4, <3>2
      <4>2. \A x : Reaches(j, x)' => Reaches(j, x)
        BY <1>1, <1>3, <1>9, <3>2, IdleIsTyped DEF Reaches, Presented
      <4>. QED  BY <1>1, <4>1, <4>2 DEF AssociationInv, KeysAreKept, Kept, Reaches, Presented
    <3>. QED  BY <3>1, <3>2
  <2>7. ReceiptsAreTrue'
    <3>1. \A j \in Controllers : /\ ctrl'[j].rotated = ctrl[j].rotated
                                 /\ ctrl'[j].active = ctrl[j].active
                                 /\ ctrl'[j].code = ctrl[j].code
      BY <2>2, <2>4
    <3>. QED  BY <1>1, <1>2, <3>1 DEF AssociationInv, ReceiptsAreTrue
  <2>. QED  BY <1>5, <1>6, <1>7, <2>4, <2>6, <2>7 DEF AssociationInv
<1>. QED  BY <1>4, <1>8, <1>9

(* What is stored of a candidate is what the command held of it. *)
LEMMA PersistCandidateStep ==
    ASSUME AssociationInv, PersistCandidate
    PROVE  AssociationInv'
<1>. DEFINE k == command.at
            next == [command EXCEPT !.step = "activating", !.strict = TRUE]
            r == [NoRecord EXCEPT !.status = "candidate", !.cert = command.cert,
                                  !.epoch = command.epoch, !.mode = command.mode]
<1>1. /\ AppTyped /\ SoundControllers /\ used.certs \in Nat /\ used' = used
      /\ UNCHANGED <<ctrl, rotation, token, prepared, held>>
      /\ k \in Controllers /\ command.step = "completed"
      /\ command.mode \in {"enrollment", "recovery"}
  BY CountsAreNumbers DEF AssociationInv, PersistCandidate, CommandStands, Underway, Commit
<1>2. /\ next \in Command /\ next.step = "activating" /\ next.at = k
      /\ r \in Association /\ r.mode = command.mode /\ r.cert = command.cert
  <2>1. command \in Command /\ "activating" \in Underway \union {"idle"}
    BY <1>1 DEF AppTyped, Underway
  <2>2. next \in Command /\ next.step = "activating" /\ next.at = k
    BY <2>1 DEF Command
  <2>3. command.cert \in 0..MaxCerts /\ command.epoch \in Nat
    BY <2>1 DEF Command
  <2>4. command.mode \in Modes \union {"none"}
    BY <2>1 DEF Command
  <2>5. r \in Association /\ r.mode = command.mode /\ r.cert = command.cert
    BY <2>3, <2>4, NoRecordIsOne DEF Association
  <2>. QED  BY <2>2, <2>5
<1>3. \/ record' = [record EXCEPT ![k] = r] /\ command' \in {next, Idle}
      \/ record' = record /\ command' = Idle
  BY DEF PersistCandidate, Commit, End
<1>. HIDE DEF next, r, k
<1>4. AppTyped'
  BY <1>1, <1>2, <1>3, IdleIsTyped DEF AppTyped
<1>5. SoundControllers' /\ ControllersAreCalm
  BY <1>1, NoneMoves
<1>6. r.mode # "none" /\ r # NoRecord /\ record[k] \in Association
  BY <1>1, <1>2 DEF NoRecord, AppTyped
<1>7. CASE record' = record /\ command' = Idle
  <2>1. ReachesNothingNew /\ RecordsStay /\ CommandStands'
    BY <1>7, IdleReaches, IdleStands DEF RecordsStay
  <2>. QED  BY <1>1, <1>4, <1>5, <2>1, CalmStep DEF AssociationInv
<1>8. CASE record' = [record EXCEPT ![k] = r] /\ command' \in {next, Idle}
  <2>1. record'[k] = r /\ \A j \in Controllers : j # k => record'[j] = record[j]
    BY <1>1, <1>8 DEF AppTyped
  <2>2. RecordsStay
    BY <1>6, <2>1 DEF RecordsStay
  <2>3. ReachesNothingNew
    <3>. SUFFICES ASSUME NEW j \in Controllers, NEW x \in 0..MaxCerts, Reaches(j, x)'
                  PROVE  Reaches(j, x)
      BY DEF ReachesNothingNew
    <3>0. command'.step \notin {"completed", "rotated"}
      BY <1>2, <1>8, IdleIsTyped
    <3>1. CASE j = k
      <4>1. x = command.cert
        BY <1>1, <1>2, <2>1, <3>0, <3>1 DEF Reaches, Presented
      <4>. QED  BY <1>1, <3>1, <4>1 DEF Reaches, k
    <3>2. CASE j # k
      BY <2>1, <3>0, <3>2 DEF Reaches, Presented
    <3>. QED  BY <3>1, <3>2
  <2>4. CommandStands'
    <3>1. CASE command' = next
      BY <1>1, <1>2, <1>6, <2>1, <3>1 DEF CommandStands, Underway
    <3>. QED  BY <1>8, <3>1, IdleStands
  <2>. QED  BY <1>1, <1>4, <1>5, <2>2, <2>3, <2>4, CalmStep DEF AssociationInv
<1>. QED  BY <1>3, <1>7, <1>8

-----------------------------------------------------------------------------
(* The rotation of the device and the activation.                          *)

(* A session opened for a request leaves the key of the Controller alone. *)
LEMMA InSessionIsCalm ==
    ASSUME SoundControllers, used.certs \in Nat, NEW k \in Controllers, NEW c \in InSession(k)
    PROVE  Sound(c, used.certs) /\ Calm(ctrl[k], c)
<1>1. Sound(ctrl[k], used.certs)
  BY CertsAreNumbers
<1>2. c = ctrl[k] \/ c \in OpenSession(ctrl[k], record[k].cert)
  BY DEF InSession
<1>. QED  BY <1>1, <1>2, CalmRequests

LEMMA RotateDeviceStep ==
    ASSUME AssociationInv, NEW k \in Controllers, RotateDevice(k)
    PROVE  AssociationInv'
<1>. DEFINE cert == used.certs + 1
            next == [Idle EXCEPT !.step = "rotated", !.at = k, !.mode = "rotation", !.cert = cert]
<1>1. /\ AppTyped /\ SoundControllers /\ used.certs \in Nat /\ used.certs < MaxCerts
      /\ UNCHANGED <<record, rotation, prepared, held>>
      /\ token' = [token EXCEPT ![k] = TRUE] /\ record[k].mode = "none"
  BY CountsAreNumbers DEF AssociationInv, RotateDevice, Settled
<1>2. /\ used' \in Counts /\ used'.certs = cert /\ used'.codes = used.codes
      /\ cert \in 1..MaxCerts
  BY <1>1, AssociationAssumption DEF RotateDevice, AppTyped, Counts
<1>3. next \in Command /\ next.step = "rotated" /\ next.at = k /\ next.cert = cert
  <2>1. /\ "rotated" \in Underway \union {"idle"} /\ "rotation" \in Modes \union {"none"}
        /\ cert \in 0..MaxCerts
    BY <1>2 DEF Underway, Modes
  <2>. HIDE DEF cert
  <2>. QED  BY <2>1, IdleIsTyped DEF Command
<1>4. \/ \E c \in InSession(k) : ctrl' = [ctrl EXCEPT ![k] = c] /\ command' = Idle
      \/ \E c \in InSession(k) : \E d \in PrepareDeviceRotation(c, record[k].cert, cert) :
            ctrl' = [ctrl EXCEPT ![k] = d] /\ command' \in {next, Idle}
  BY <1>2 DEF RotateDevice, End
<1>5. used'.certs \in Nat /\ used.certs <= used'.certs
  BY <1>1, <1>2
<1>. HIDE DEF next, cert
<1>6. AppTyped'
  BY <1>1, <1>2, <1>3, <1>4, IdleIsTyped DEF AppTyped
<1>7. CommandStands'
  <2>1. CASE command' = next
    BY <1>3, <2>1 DEF CommandStands, Underway
  <2>. QED  BY <1>4, <2>1, IdleStands
<1>8. RotationIsOne'
  BY <1>1, <1>2 DEF AssociationInv, RotationIsOne, NoRotation
<1>9. ASSUME NEW c \in InSession(k), ctrl' = [ctrl EXCEPT ![k] = c], command' = Idle
      PROVE  AssociationInv'
  <2>1. Sound(c, used.certs) /\ Calm(ctrl[k], c)
    BY <1>1, InSessionIsCalm
  <2>2. SoundControllers' /\ ControllersAreCalm
    BY <1>1, <1>5, <1>9, <2>1, OneIsCalm
  <2>3. ReachesNothingNew /\ RecordsStay
    BY <1>1, <1>9, IdleReaches DEF RecordsStay
  <2>. QED  BY <1>1, <1>2, <1>6, <1>7, <2>2, <2>3, CalmStep DEF AssociationInv
<1>10. ASSUME NEW c \in InSession(k), NEW d \in PrepareDeviceRotation(c, record[k].cert, cert),
              ctrl' = [ctrl EXCEPT ![k] = d], command' \in {next, Idle}
       PROVE  AssociationInv'
  <2>1. Sound(c, used.certs) /\ Calm(ctrl[k], c)
    BY <1>1, InSessionIsCalm
  <2>2. /\ Sound(d, cert)
        /\ d.active = c.active /\ d.code = c.code /\ d.rotated = c.rotated
        /\ c.active # 0 /\ d.candidate.code = c.code
    BY <1>1, <1>10, <2>1, PrepareMakes DEF cert
  <2>3. /\ d.active = ctrl[k].active /\ d.code = ctrl[k].code /\ d.rotated \subseteq ctrl[k].rotated
        /\ ctrl[k].active # 0 /\ d.candidate.code = ctrl[k].code
    BY <2>1, <2>2 DEF Calm
  <2>4. /\ SoundControllers'
        /\ ctrl'[k] = d /\ \A j \in Controllers : j # k => ctrl'[j] = ctrl[j]
    BY <1>1, <1>2, <1>5, <1>10, <2>2, OneMoves
  <2>6. KeysAreKept'
    <3>. SUFFICES ASSUME NEW j \in Controllers
                  PROVE  /\ ctrl'[j].active # 0 => Kept(j, ctrl[j].code)' /\ record'[j] # NoRecord
                         /\ ctrl'[j].candidate # NoCandidate
                               /\ Reaches(j, ctrl[j].candidate.cert)'
                               => Kept(j, ctrl[j].candidate.code)'
      BY DEF KeysAreKept
    <3>1. CASE j = k
      BY <1>1, <2>3, <2>4, <3>1 DEF AssociationInv, KeysAreKept, Kept
    <3>2. CASE j # k
      <4>1. ctrl'[j] = ctrl[j]
        BY <2>4, <3>2
      <4>2. \A x : Reaches(j, x)' => Reaches(j, x)
        BY <1>1, <1>3, <1>10, <3>2, IdleIsTyped DEF Reaches, Presented
      <4>. QED  BY <1>1, <4>1, <4>2 DEF AssociationInv, KeysAreKept, Kept, Reaches, Presented
    <3>. QED  BY <3>1, <3>2
  <2>7. ReceiptsAreTrue'
    <3>1. \A j \in Controllers : /\ ctrl'[j].rotated \subseteq ctrl[j].rotated
                                 /\ ctrl'[j].active = ctrl[j].active
                                 /\ ctrl'[j].code = ctrl[j].code
      BY <2>3, <2>4
    <3>. QED  BY <1>1, <1>2, <3>1 DEF AssociationInv, ReceiptsAreTrue
  <2>. QED  BY <1>6, <1>7, <1>8, <2>4, <2>6, <2>7 DEF AssociationInv
<1>. QED  BY <1>4, <1>9, <1>10

LEMMA PersistRotationStep ==
    ASSUME AssociationInv, PersistRotation
    PROVE  AssociationInv'
<1>. DEFINE k == command.at
            next == [command EXCEPT !.step = "activating", !.strict = TRUE]
            r == [record[k] EXCEPT !.mode = "rotation", !.pending = command.cert]
<1>1. /\ AppTyped /\ SoundControllers /\ used.certs \in Nat /\ used' = used
      /\ UNCHANGED <<ctrl, rotation, token, prepared, held>>
      /\ k \in Controllers /\ command.step = "rotated"
  BY CountsAreNumbers DEF AssociationInv, PersistRotation, CommandStands, Underway, Commit
<1>2. /\ next \in Command /\ next.step = "activating" /\ next.at = k
      /\ r \in Association /\ r.mode = "rotation" /\ r.pending = command.cert
  <2>1. command \in Command /\ "activating" \in Underway \union {"idle"}
    BY <1>1 DEF AppTyped, Underway
  <2>2. next \in Command /\ next.step = "activating" /\ next.at = k
    BY <2>1 DEF Command
  <2>3. /\ command.cert \in 0..MaxCerts /\ "rotation" \in Modes \union {"none"}
        /\ record[k] \in Association
    BY <1>1, <2>1 DEF Command, Modes, AppTyped
  <2>. HIDE DEF k
  <2>5. r \in Association /\ r.mode = "rotation" /\ r.pending = command.cert
    BY <2>3 DEF Association
  <2>. QED  BY <2>2, <2>5
<1>3. \/ record' = [record EXCEPT ![k] = r] /\ command' \in {next, Idle}
      \/ record' = record /\ command' = Idle
  BY DEF PersistRotation, Commit, End
<1>. HIDE DEF next, r, k
<1>4. AppTyped'
  BY <1>1, <1>2, <1>3, IdleIsTyped DEF AppTyped
<1>5. SoundControllers' /\ ControllersAreCalm
  BY <1>1, NoneMoves
<1>6. r.mode # "none" /\ r # NoRecord
  BY <1>2, NoRecordIsOne
<1>7. CASE record' = record /\ command' = Idle
  <2>1. ReachesNothingNew /\ RecordsStay /\ CommandStands'
    BY <1>7, IdleReaches, IdleStands DEF RecordsStay
  <2>. QED  BY <1>1, <1>4, <1>5, <2>1, CalmStep DEF AssociationInv
<1>8. CASE record' = [record EXCEPT ![k] = r] /\ command' \in {next, Idle}
  <2>1. record'[k] = r /\ \A j \in Controllers : j # k => record'[j] = record[j]
    BY <1>1, <1>8 DEF AppTyped
  <2>2. RecordsStay
    BY <1>6, <2>1 DEF RecordsStay
  <2>3. ReachesNothingNew
    <3>. SUFFICES ASSUME NEW j \in Controllers, NEW x \in 0..MaxCerts, Reaches(j, x)'
                  PROVE  Reaches(j, x)
      BY DEF ReachesNothingNew
    <3>0. command'.step \notin {"completed", "rotated"}
      BY <1>2, <1>8, IdleIsTyped
    <3>1. CASE j = k
      <4>1. x = command.cert
        BY <1>1, <1>2, <2>1, <3>0, <3>1 DEF Reaches, Presented
      <4>. QED  BY <1>1, <3>1, <4>1 DEF Reaches, k
    <3>2. CASE j # k
      BY <2>1, <3>0, <3>2 DEF Reaches, Presented
    <3>. QED  BY <3>1, <3>2
  <2>4. CommandStands'
    <3>1. CASE command' = next
      BY <1>1, <1>2, <1>6, <2>1, <3>1 DEF CommandStands, Underway
    <3>. QED  BY <1>8, <3>1, IdleStands
  <2>. QED  BY <1>1, <1>4, <1>5, <2>2, <2>3, <2>4, CalmStep DEF AssociationInv
<1>. QED  BY <1>3, <1>7, <1>8

LEMMA ResumeActivationStep ==
    ASSUME AssociationInv, NEW k \in Controllers, ResumeActivation(k)
    PROVE  AssociationInv'
<1>. DEFINE next == [Idle EXCEPT !.step = "activating", !.at = k, !.mode = record[k].mode]
<1>1. /\ AppTyped /\ SoundControllers /\ used.certs \in Nat /\ used' = used
      /\ UNCHANGED <<ctrl, record, rotation, token, prepared, held>>
      /\ record[k].mode # "none" /\ command' = next
  BY CountsAreNumbers DEF AssociationInv, ResumeActivation, remote
<1>2. next \in Command /\ next.step = "activating" /\ next.at = k
  <2>1. record[k].mode \in Modes \union {"none"}
    BY <1>1 DEF AppTyped, Association
  <2>2. "activating" \in Underway \union {"idle"}
    BY DEF Underway
  <2>. QED  BY <2>1, <2>2, IdleIsTyped DEF Command
<1>. HIDE DEF next
<1>3. AppTyped'
  BY <1>1, <1>2 DEF AppTyped
<1>4. SoundControllers' /\ ControllersAreCalm
  BY <1>1, NoneMoves
<1>5. ReachesNothingNew /\ RecordsStay
  BY <1>1, <1>2 DEF ReachesNothingNew, Reaches, Presented, RecordsStay
<1>6. CommandStands'
  BY <1>1, <1>2 DEF CommandStands, Underway
<1>. QED  BY <1>1, <1>3, <1>4, <1>5, <1>6, CalmStep DEF AssociationInv

(* The activation: a repetition changes nothing; a first one makes the key of
   a candidate the App holds the key of the Controller. *)
LEMMA RequestActivationStep ==
    ASSUME AssociationInv, RequestActivation
    PROVE  AssociationInv'
<1>. DEFINE k == command.at
            served == Activate(ctrl[k], command.mode, Presented(k))
            answer == IF served = {} THEN 0 ELSE (CHOOSE c \in served : TRUE).revision
            next == [command EXCEPT !.step = "activated", !.revision = answer]
<1>1. /\ AppTyped /\ SoundControllers /\ used.certs \in Nat /\ used' = used
      /\ UNCHANGED <<record, rotation, token, prepared, held>>
      /\ k \in Controllers /\ command.step = "activating" /\ record[k].mode # "none"
  BY CountsAreNumbers DEF AssociationInv, RequestActivation, CommandStands, Underway
<1>2. Sound(ctrl[k], used.certs)
  BY <1>1, CertsAreNumbers
<1>3. \A d \in served : d.revision \in Nat
  BY <1>1, <1>2, ActivateMakes
<1>4. answer \in Nat
  BY <1>3
<1>5. \/ ctrl' = ctrl /\ command' = Idle
      \/ \E d \in served : ctrl' = [ctrl EXCEPT ![k] = d] /\ command' \in {next, Idle}
  BY DEF RequestActivation, Ask, End
<1>6. next \in Command /\ next.step = "activated" /\ next.at = k
  <2>1. command \in Command /\ "activated" \in Underway \union {"idle"}
    BY <1>1 DEF AppTyped, Underway
  <2>. HIDE DEF answer, served
  <2>. QED  BY <1>4, <2>1 DEF Command
<1>. HIDE DEF next, answer, k
<1>7. AppTyped'
  BY <1>1, <1>5, <1>6, IdleIsTyped DEF AppTyped
<1>8. CommandStands'
  <2>1. CASE command' = next
    BY <1>1, <1>6, <2>1 DEF CommandStands, Underway
  <2>. QED  BY <1>5, <2>1, IdleStands
<1>9. ReachesNothingNew /\ RecordsStay
  <2>1. command'.step \notin {"completed", "rotated"}
    BY <1>5, <1>6, IdleIsTyped
  <2>. QED  BY <1>1, <2>1 DEF ReachesNothingNew, Reaches, Presented, RecordsStay
<1>10. used'.certs \in Nat /\ used.certs <= used'.certs
  BY <1>1
<1>11. CASE ctrl' = ctrl
  <2>1. SoundControllers' /\ ControllersAreCalm
    BY <1>1, <1>10, <1>11, NoneMoves
  <2>. QED  BY <1>1, <1>7, <1>8, <1>9, <2>1, CalmStep DEF AssociationInv
<1>12. ASSUME NEW d \in served, ctrl' = [ctrl EXCEPT ![k] = d]
       PROVE  AssociationInv'
  <2>1. /\ Sound(d, used.certs)
        /\ \/ d = ctrl[k]
           \/ /\ ctrl[k].candidate # NoCandidate /\ ctrl[k].candidate.cert = Presented(k)
              /\ d.active = Presented(k) /\ d.code = ctrl[k].candidate.code
              /\ d.candidate = NoCandidate /\ d.rotated = ctrl[k].rotated
              /\ \A r \in ctrl[k].rotated : r.cert # Presented(k)
    BY <1>1, <1>2, ActivateMakes
  <2>2. CASE d = ctrl[k]
    <3>1. ctrl' = ctrl
      BY <1>1, <1>12, <2>2 DEF SoundControllers
    <3>. QED  BY <1>11, <3>1
  <2>3. CASE d # ctrl[k]
    <3>1. /\ SoundControllers'
          /\ ctrl'[k] = d /\ \A j \in Controllers : j # k => ctrl'[j] = ctrl[j]
      BY <1>1, <1>10, <1>12, <2>1, OneMoves
    <3>2. Kept(k, d.code) /\ record[k] # NoRecord
      <4>1. Reaches(k, ctrl[k].candidate.cert)
        BY <1>1, <2>1, <2>3 DEF Reaches
      <4>. QED  BY <1>1, <2>1, <2>3, <4>1, NoRecordIsOne DEF AssociationInv, KeysAreKept
    <3>3. KeysAreKept'
      <4>. SUFFICES ASSUME NEW j \in Controllers
                    PROVE  /\ ctrl'[j].active # 0 => Kept(j, ctrl[j].code)' /\ record'[j] # NoRecord
                           /\ ctrl'[j].candidate # NoCandidate
                                 /\ Reaches(j, ctrl[j].candidate.cert)'
                                 => Kept(j, ctrl[j].candidate.code)'
        BY DEF KeysAreKept
      <4>1. CASE j = k
        BY <1>1, <2>1, <2>3, <3>1, <3>2, <4>1 DEF Kept
      <4>2. CASE j # k
        <5>1. ctrl'[j] = ctrl[j] /\ ctrl[j].candidate.cert \in 0..MaxCerts
          BY <1>1, <3>1, <4>2, CertsAreNumbers
        <5>2. Reaches(j, ctrl[j].candidate.cert)' => Reaches(j, ctrl[j].candidate.cert)
          BY <1>9, <5>1 DEF ReachesNothingNew, Reaches, Presented
        <5>. QED  BY <1>1, <5>1, <5>2 DEF AssociationInv, KeysAreKept, Kept
      <4>. QED  BY <4>1, <4>2
    <3>4. ReceiptsAreTrue'
      <4>. SUFFICES ASSUME NEW j \in Controllers, NEW r \in ctrl'[j].rotated
                    PROVE  /\ r.operation <= used'.codes
                           /\ r.cert = ctrl'[j].active
                                 /\ r.operation \in {rotation'.code, prepared'}
                                 => ctrl'[j].code = r.operation
        BY DEF ReceiptsAreTrue
      <4>1. CASE j = k
        BY <1>1, <2>1, <2>3, <3>1, <4>1 DEF AssociationInv, ReceiptsAreTrue
      <4>2. CASE j # k
        BY <1>1, <3>1, <4>2 DEF AssociationInv, ReceiptsAreTrue
      <4>. QED  BY <4>1, <4>2
    <3>5. RotationIsOne'
      BY <1>1 DEF AssociationInv, RotationIsOne, NoRotation
    <3>. QED  BY <1>7, <1>8, <3>1, <3>3, <3>4, <3>5 DEF AssociationInv
  <2>. QED  BY <2>2, <2>3
<1>. QED  BY <1>5, <1>11, <1>12

LEMMA StoreActiveStep ==
    ASSUME AssociationInv, StoreActive
    PROVE  AssociationInv'
<1>. DEFINE k == command.at
            r == [record[k] EXCEPT !.status = "active", !.cert = Presented(k),
                                   !.revision = command.revision, !.mode = "none", !.pending = 0]
<1>1. /\ AppTyped /\ SoundControllers /\ used.certs \in Nat /\ used' = used
      /\ UNCHANGED <<ctrl, rotation, prepared, held>>
      /\ k \in Controllers /\ token' \in [Controllers -> BOOLEAN]
  BY CountsAreNumbers DEF AssociationInv, StoreActive, CommandStands, Underway, Commit, AppTyped
<1>2. \/ record' = [record EXCEPT ![k] = r] /\ command' = Idle
      \/ record' = record /\ command' = Idle
  BY DEF StoreActive, Commit, End
<1>3. r \in Association /\ r.status = "active" /\ r.mode = "none"
  <2>1. /\ record[k] \in Association /\ command.revision \in Nat
        /\ "none" \in Modes \union {"none"} /\ 0 \in 0..MaxCerts
    BY <1>1, AssociationAssumption DEF AppTyped, Command
  <2>2. Presented(k) \in 0..MaxCerts
    BY <2>1 DEF Presented, Association
  <2>. HIDE DEF k
  <2>. QED  BY <2>1, <2>2 DEF Association
<1>4. r # NoRecord
  BY <1>3 DEF NoRecord
<1>. HIDE DEF r, k
<1>5. AppTyped'
  BY <1>1, <1>2, <1>3, IdleIsTyped DEF AppTyped
<1>6. SoundControllers' /\ ControllersAreCalm /\ CommandStands'
  BY <1>1, <1>2, NoneMoves, IdleStands
<1>7. CASE record' = record
  <2>1. ReachesNothingNew /\ RecordsStay
    BY <1>2, <1>7, IdleReaches DEF RecordsStay
  <2>. QED  BY <1>1, <1>5, <1>6, <2>1, CalmStep DEF AssociationInv
<1>8. CASE record' = [record EXCEPT ![k] = r]
  <2>1. record'[k] = r /\ \A j \in Controllers : j # k => record'[j] = record[j]
    BY <1>1, <1>8 DEF AppTyped
  <2>2. RecordsStay
    BY <1>4, <2>1 DEF RecordsStay
  <2>3. ReachesNothingNew
    <3>. SUFFICES ASSUME NEW j \in Controllers, NEW x \in 0..MaxCerts, Reaches(j, x)'
                  PROVE  Reaches(j, x)
      BY DEF ReachesNothingNew
    <3>0. command'.step \notin {"completed", "rotated"}
      BY <1>2, IdleIsTyped
    <3>1. j # k
      BY <1>3, <2>1, <3>0 DEF Reaches
    <3>. QED  BY <2>1, <3>0, <3>1 DEF Reaches, Presented
  <2>. QED  BY <1>1, <1>5, <1>6, <2>2, <2>3, CalmStep DEF AssociationInv
<1>. QED  BY <1>2, <1>7, <1>8

-----------------------------------------------------------------------------
(* The rotation of the recovery code.                                      *)

LEMMA PrepareRecoveryRotationStep ==
    ASSUME AssociationInv, PrepareRecoveryRotation
    PROVE  AssociationInv'
<1>1. /\ AppTyped /\ SoundControllers /\ used.certs \in Nat /\ used.codes \in Nat
      /\ UNCHANGED <<ctrl, record, rotation, token, command, held>>
      /\ rotation = NoRotation /\ prepared' = used'.codes /\ command = Idle
  BY CountsAreNumbers DEF AssociationInv, PrepareRecoveryRotation, Quiet
<1>2. /\ used' \in Counts /\ used'.certs = used.certs /\ used'.codes = used.codes + 1
      /\ used.codes + 1 \in 0..MaxCodes
  BY <1>1, AssociationAssumption DEF PrepareRecoveryRotation, AppTyped, Counts
<1>3. AppTyped'
  BY <1>1, <1>2 DEF AppTyped
<1>4. SoundControllers' /\ ControllersAreCalm /\ CommandStands'
  BY <1>1, <1>2, NoneMoves, IdleStands
<1>5. KeysAreKept'
  <2>1. ReachesNothingNew /\ RecordsStay
    BY <1>1, IdleReaches DEF RecordsStay
  <2>. QED  BY <1>1, <1>4, <2>1, KeysStayKept DEF AssociationInv
<1>6. rotation.code = 0
  BY <1>1 DEF NoRotation
<1>7. ReceiptsAreTrue'
  <2>. SUFFICES ASSUME NEW k \in Controllers, NEW r \in ctrl[k].rotated
                PROVE  /\ r.operation <= used'.codes
                       /\ r.operation \notin {rotation'.code, prepared'}
    BY <1>1 DEF ReceiptsAreTrue
  <2>1. r.operation \in Nat \ {0} /\ r.operation <= used.codes
    BY <1>1, CertsAreNumbers DEF Receipt, AssociationInv, ReceiptsAreTrue
  <2>. QED  BY <1>1, <1>2, <1>6, <2>1
<1>8. RotationIsOne'
  BY <1>1, <1>2, <1>6 DEF RotationIsOne, NoRotation
<1>. QED  BY <1>3, <1>4, <1>5, <1>7, <1>8 DEF AssociationInv

LEMMA ConfirmRecoveryRotationStep ==
    ASSUME AssociationInv, ConfirmRecoveryRotation
    PROVE  AssociationInv'
<1>1. /\ AppTyped /\ SoundControllers /\ used.certs \in Nat /\ used' = used
      /\ UNCHANGED <<ctrl, record, token, command>>
      /\ rotation = NoRotation /\ prepared # 0 /\ prepared' \in {0, prepared}
      /\ held' = held \union {prepared} /\ command = Idle
  BY CountsAreNumbers DEF AssociationInv, ConfirmRecoveryRotation, Quiet, remote
<1>2. /\ rotation' \in Rotation /\ rotation'.code = prepared
      /\ \A k \in Associated : rotation'.target[k].status = "pending"
  <2>. DEFINE target == [k \in Controllers |->
                            IF k \in Associated
                            THEN [epoch |-> record[k].epoch + 1, status |-> "pending"]
                            ELSE NoTarget]
  <2>1. rotation' = [code |-> prepared, target |-> target]
    BY DEF ConfirmRecoveryRotation
  <2>2. ASSUME NEW k \in Controllers
        PROVE  /\ target[k] \in [epoch : Nat, status : {"none", "pending", "failed", "completed"}]
               /\ k \in Associated => target[k].status = "pending"
    <3>1. record[k].epoch + 1 \in Nat
      BY <1>1 DEF AppTyped, Association
    <3>. QED  BY <3>1 DEF NoTarget
  <2>3. target \in [Controllers -> [epoch : Nat,
                                    status : {"none", "pending", "failed", "completed"}]]
    BY <2>2
  <2>4. \A k \in Associated : target[k].status = "pending"
    BY <2>2 DEF Associated
  <2>5. prepared \in 0..MaxCodes
    BY <1>1 DEF AppTyped
  <2>. HIDE DEF target
  <2>. QED  BY <2>1, <2>3, <2>4, <2>5 DEF Rotation
<1>3. AppTyped'
  <2>1. held' \subseteq 1..MaxCodes /\ prepared' \in 0..MaxCodes
    BY <1>1, AssociationAssumption DEF AppTyped
  <2>. QED  BY <1>1, <1>2, <2>1 DEF AppTyped
<1>4. SoundControllers' /\ ControllersAreCalm /\ CommandStands'
  BY <1>1, NoneMoves, IdleStands
<1>5. rotation.code = 0
  BY <1>1 DEF NoRotation
<1>6. KeysAreKept'
  <2>. SUFFICES ASSUME NEW k \in Controllers
                PROVE  /\ ctrl'[k].active # 0 => Kept(k, ctrl[k].code)' /\ record'[k] # NoRecord
                       /\ ctrl'[k].candidate # NoCandidate /\ Reaches(k, ctrl[k].candidate.cert)'
                             => Kept(k, ctrl[k].candidate.code)'
    BY DEF KeysAreKept
  <2>1. \A code : code \in held /\ record[k] # NoRecord => Kept(k, code)'
    BY <1>1, <1>2 DEF Kept, Associated
  <2>2. ctrl[k].active # 0 => ctrl[k].code \in held /\ record[k] # NoRecord
    BY DEF AssociationInv, KeysAreKept, Kept
  <2>3. ASSUME ctrl'[k].candidate # NoCandidate, Reaches(k, ctrl[k].candidate.cert)'
        PROVE  ctrl[k].candidate.code \in held /\ record[k] # NoRecord
    <3>1. Reaches(k, ctrl[k].candidate.cert) /\ record[k].mode # "none"
      BY <1>1, <2>3, IdleIsTyped DEF Reaches, Presented
    <3>. QED  BY <1>1, <2>3, <3>1, NoRecordIsOne DEF AssociationInv, KeysAreKept, Kept
  <2>. QED  BY <1>1, <2>1, <2>2, <2>3 DEF Kept
<1>7. ReceiptsAreTrue'
  BY <1>1, <1>2, <1>4, ReceiptsStayTrue DEF AssociationInv
<1>8. RotationIsOne'
  <2>1. prepared <= used.codes /\ 0 <= used.codes
    BY <1>1, CountsAreNumbers DEF AssociationInv, RotationIsOne
  <2>. QED  BY <1>1, <1>2, <2>1 DEF RotationIsOne
<1>. QED  BY <1>3, <1>4, <1>6, <1>7, <1>8 DEF AssociationInv

(* One target of the rotation: whatever is answered, the Controller's key is
   the old one or the new one, and it is the new one where the answer is yes. *)
LEMMA ResumeTargetStep ==
    ASSUME AssociationInv, NEW k \in Controllers, NEW old \in 1..MaxCodes, ResumeTarget(k, old)
    PROVE  AssociationInv'
<1>. DEFINE answered == [Idle EXCEPT !.step = "keyed", !.at = k]
            failed == [Idle EXCEPT !.step = "unkeyed", !.at = k]
            Serves(c, d) == d \in RotateRecoveryKey(c, record[k].cert, rotation.code, old,
                                                    record[k].epoch)
<1>1. /\ AppTyped /\ SoundControllers /\ used.certs \in Nat /\ used' = used
      /\ UNCHANGED <<record, rotation, prepared, held>>
      /\ rotation.target[k].status \in {"pending", "failed"} /\ command = Idle
      /\ token' \in [Controllers -> BOOLEAN]
  BY CountsAreNumbers DEF AssociationInv, ResumeTarget, Quiet, AppTyped
<1>2. /\ answered \in Command /\ answered.step = "keyed" /\ answered.at = k
      /\ failed \in Command /\ failed.step = "unkeyed" /\ failed.at = k
  <2>1. "keyed" \in Underway \union {"idle"} /\ "unkeyed" \in Underway \union {"idle"}
    BY DEF Underway
  <2>. QED  BY <2>1, IdleIsTyped DEF Command
<1>3. /\ rotation.code # 0 /\ rotation.code \in held /\ prepared \in {0, rotation.code}
      /\ rotation.code \in 1..MaxCodes /\ rotation.code <= used.codes
  <2>1. rotation.code # 0
    BY <1>1 DEF AssociationInv, RotationIsOne, NoRotation, NoTarget
  <2>. QED  BY <1>1, <2>1 DEF AssociationInv, RotationIsOne, AppTyped
<1>4. \/ ctrl' = [ctrl EXCEPT ![k] = ctrl[k]] /\ command' = failed
      \/ \E c \in InSession(k) : ctrl' = [ctrl EXCEPT ![k] = c] /\ command' = failed
      \/ /\ Rotatable(k)
         /\ \E c \in InSession(k) : \E d : /\ Serves(c, d) /\ ctrl' = [ctrl EXCEPT ![k] = d]
                                           /\ command' \in {failed, answered}
  <2>. DEFINE open == IF Rotatable(k) THEN InSession(k) ELSE {}
              served == UNION {RotateRecoveryKey(c, record[k].cert, rotation.code, old,
                                                 record[k].epoch) : c \in open}
  <2>1. \A d \in served : Rotatable(k) /\ \E c \in InSession(k) : Serves(c, d)
    OBVIOUS
  <2>2. \/ /\ \E c \in served \union open \union {ctrl[k]} : ctrl' = [ctrl EXCEPT ![k] = c]
           /\ command' = failed
        \/ /\ \E c \in served : ctrl' = [ctrl EXCEPT ![k] = c]
           /\ command' = answered
    BY DEF ResumeTarget
  <2>3. open \subseteq InSession(k)
    OBVIOUS
  <2>. HIDE DEF served, open, answered, failed, Serves
  <2>. QED  BY <2>1, <2>2, <2>3
<1>. HIDE DEF answered, failed, Serves
<1>5. AppTyped'
  BY <1>1, <1>2, <1>4 DEF AppTyped
<1>6. used'.certs \in Nat /\ used.certs <= used'.certs
  BY <1>1
<1>7. \A j \in Controllers : \A x : Reaches(j, x)' => Reaches(j, x)
  BY <1>1, <1>2, <1>4 DEF Reaches, Presented
<1>8. ASSUME NEW c, Sound(c, used.certs), Calm(ctrl[k], c), ctrl' = [ctrl EXCEPT ![k] = c],
             command' = failed
      PROVE  AssociationInv'
  <2>1. SoundControllers' /\ ControllersAreCalm
    BY <1>1, <1>6, <1>8, OneIsCalm
  <2>2. ReachesNothingNew /\ RecordsStay
    BY <1>1, <1>7 DEF ReachesNothingNew, RecordsStay
  <2>3. CommandStands'
    BY <1>1, <1>2, <1>3, <1>8 DEF CommandStands, Underway
  <2>. QED  BY <1>1, <1>5, <2>1, <2>2, <2>3, CalmStep DEF AssociationInv
<1>9. ASSUME Rotatable(k), NEW c \in InSession(k), NEW d, Serves(c, d),
             ctrl' = [ctrl EXCEPT ![k] = d], command' \in {failed, answered}
      PROVE  AssociationInv'
  <2>1. Sound(c, used.certs) /\ Calm(ctrl[k], c)
    BY <1>1, InSessionIsCalm
  <2>. DEFINE receipt == [operation |-> rotation.code, cert |-> c.active]
  <2>2. /\ Sound(d, used.certs) /\ c.active # 0
        /\ d.active = c.active /\ d.candidate = c.candidate
        /\ \/ d = c /\ receipt \in c.rotated
           \/ d.code = rotation.code /\ d.rotated = c.rotated \union {receipt}
    BY <1>1, <1>3, <1>9, <2>1, RotateMakes DEF Serves
  <2>3. receipt.operation = rotation.code /\ receipt.cert = c.active
    OBVIOUS
  <2>. HIDE DEF receipt
  <2>4. /\ ctrl[k].active # 0 /\ d.active = ctrl[k].active
        /\ d.rotated \subseteq ctrl[k].rotated \union {receipt}
    BY <2>1, <2>2 DEF Calm
  <2>5. d.code = rotation.code
    <3>1. CASE d = c /\ receipt \in c.rotated
      <4>1. receipt \in ctrl[k].rotated /\ receipt.cert = ctrl[k].active /\ c.code = ctrl[k].code
        BY <2>1, <2>2, <2>3, <3>1 DEF Calm
      <4>. QED  BY <2>3, <3>1, <4>1 DEF AssociationInv, ReceiptsAreTrue
    <3>. QED  BY <2>2, <3>1
  <2>6. /\ SoundControllers'
        /\ ctrl'[k] = d /\ \A j \in Controllers : j # k => ctrl'[j] = ctrl[j]
    BY <1>1, <1>6, <1>9, <2>2, OneMoves
  <2>7. record[k].mode = "none" /\ rotation.target[k].epoch # 0
    <3>1. record[k].epoch \in Nat /\ record[k].epoch + 1 = rotation.target[k].epoch
      BY <1>1, <1>9 DEF Rotatable, AppTyped, Association
    <3>. QED  BY <1>9, <3>1 DEF Rotatable, Settled
  <2>8. KeysAreKept'
    <3>. SUFFICES ASSUME NEW j \in Controllers
                  PROVE  /\ ctrl'[j].active # 0 => Kept(j, ctrl[j].code)' /\ record'[j] # NoRecord
                         /\ ctrl'[j].candidate # NoCandidate
                               /\ Reaches(j, ctrl[j].candidate.cert)'
                               => Kept(j, ctrl[j].candidate.code)'
      BY DEF KeysAreKept
    <3>1. CASE j = k
      <4>1. \A x : ~Reaches(j, x)'
        BY <1>1, <1>2, <1>9, <2>7, <3>1 DEF Reaches
      <4>2. record'[j] # NoRecord
        BY <1>1, <2>4, <3>1 DEF AssociationInv, KeysAreKept
      <4>3. Kept(j, ctrl[j].code)'
        BY <1>1, <1>3, <2>5, <2>6, <3>1 DEF Kept
      <4>. QED  BY <4>1, <4>2, <4>3 DEF Reaches
    <3>2. CASE j # k
      <4>1. ctrl'[j] = ctrl[j]
        BY <2>6, <3>2
      <4>. QED  BY <1>1, <1>7, <4>1 DEF AssociationInv, KeysAreKept, Kept, Reaches, Presented
    <3>. QED  BY <3>1, <3>2
  <2>9. ReceiptsAreTrue'
    <3>. SUFFICES ASSUME NEW j \in Controllers, NEW r \in ctrl'[j].rotated
                  PROVE  /\ r.operation <= used'.codes
                         /\ r.cert = ctrl'[j].active
                               /\ r.operation \in {rotation'.code, prepared'}
                               => ctrl'[j].code = r.operation
      BY DEF ReceiptsAreTrue
    <3>1. CASE j = k
      <4>1. r.operation <= used.codes
        BY <1>3, <2>3, <2>4, <2>6, <3>1 DEF AssociationInv, ReceiptsAreTrue
      <4>2. r.operation # 0
        <5>1. r \in Receipt
          BY <2>2, <2>6, <3>1 DEF Sound, Identity
        <5>. QED  BY <5>1 DEF Receipt
      <4>. QED  BY <1>1, <1>3, <2>5, <2>6, <3>1, <4>1, <4>2
    <3>2. CASE j # k
      BY <1>1, <2>6, <3>2 DEF AssociationInv, ReceiptsAreTrue
    <3>. QED  BY <3>1, <3>2
  <2>10. CommandStands'
    BY <1>1, <1>2, <1>3, <1>9, <2>5, <2>6, <2>7 DEF CommandStands, Underway
  <2>11. RotationIsOne'
    BY <1>1 DEF AssociationInv, RotationIsOne, NoRotation
  <2>. QED  BY <1>5, <2>6, <2>8, <2>9, <2>10, <2>11 DEF AssociationInv
<1>10. CASE ctrl' = [ctrl EXCEPT ![k] = ctrl[k]] /\ command' = failed
  <2>1. Sound(ctrl[k], used.certs) /\ Calm(ctrl[k], ctrl[k])
    BY <1>1, CertsAreNumbers DEF Calm
  <2>. QED  BY <1>8, <1>10, <2>1
<1>11. ASSUME NEW c \in InSession(k), ctrl' = [ctrl EXCEPT ![k] = c], command' = failed
       PROVE  AssociationInv'
  <2>1. Sound(c, used.certs) /\ Calm(ctrl[k], c)
    BY <1>1, InSessionIsCalm
  <2>. QED  BY <1>8, <1>11, <2>1
<1>. QED  BY <1>4, <1>9, <1>10, <1>11

LEMMA RecordResultStep ==
    ASSUME AssociationInv, RecordResult
    PROVE  AssociationInv'
<1>. DEFINE k == command.at
            done == command.step = "keyed"
            status == IF done THEN "completed" ELSE "failed"
            r == IF done THEN [record[k] EXCEPT !.epoch = rotation.target[k].epoch] ELSE record[k]
            t == [rotation EXCEPT !.target[k].status = status]
<1>1. /\ AppTyped /\ SoundControllers /\ used.certs \in Nat /\ used' = used
      /\ UNCHANGED <<ctrl, token, prepared, held>>
      /\ k \in Controllers /\ command' = Idle /\ rotation.code # 0
      /\ done => /\ record[k].mode = "none" /\ rotation.target[k].epoch # 0
                 /\ ctrl[k].active # 0 => ctrl[k].code = rotation.code
  BY CountsAreNumbers DEF AssociationInv, RecordResult, CommandStands, Underway, Commit, End
<1>2. \/ record' = [record EXCEPT ![k] = r] /\ rotation' = t
      \/ record' = record /\ rotation' = rotation
  BY DEF RecordResult, Commit
<1>3. /\ t \in Rotation /\ t.code = rotation.code /\ t.target[k].status = status
      /\ \A j \in Controllers : j # k => t.target[j] = rotation.target[j]
  <2>1. rotation \in Rotation /\ status \in {"completed", "failed"}
    BY <1>1 DEF AppTyped
  <2>. HIDE DEF k, status
  <2>2. /\ rotation.code \in 0..MaxCodes
        /\ rotation.target \in [Controllers -> [epoch : Nat, status :
                                    {"none", "pending", "failed", "completed"}]]
    BY <2>1 DEF Rotation
  <2>3. t = [rotation EXCEPT !.target = [rotation.target EXCEPT ![k] =
                                            [rotation.target[k] EXCEPT !.status = status]]]
    OBVIOUS
  <2>4. PICK u : u = [rotation.target EXCEPT ![k] = [rotation.target[k] EXCEPT !.status = status]]
    OBVIOUS
  <2>5. /\ u \in [Controllers -> [epoch : Nat,
                                  status : {"none", "pending", "failed", "completed"}]]
        /\ u[k].status = status
        /\ \A j \in Controllers : j # k => u[j] = rotation.target[j]
    BY <1>1, <2>1, <2>2, <2>4
  <2>6. t = [rotation EXCEPT !.target = u]
    BY <2>3, <2>4
  <2>. HIDE DEF t
  <2>. QED  BY <2>1, <2>5, <2>6 DEF Rotation
<1>4. /\ r \in Association /\ r.mode = record[k].mode
      /\ r.cert = record[k].cert /\ r.pending = record[k].pending
      /\ record[k] # NoRecord => r # NoRecord
  <2>1. /\ record[k] \in Association /\ rotation.target[k].epoch \in Nat
    BY <1>1 DEF AppTyped, Rotation
  <2>2. CASE done
    <3>1. r = [record[k] EXCEPT !.epoch = rotation.target[k].epoch] /\ rotation.target[k].epoch # 0
      BY <1>1, <2>2
    <3>. HIDE DEF r, k
    <3>2. /\ r \in Association /\ r.mode = record[k].mode /\ r.cert = record[k].cert
          /\ r.pending = record[k].pending /\ r.epoch # 0
      BY <2>1, <3>1 DEF Association
    <3>. QED  BY <3>2 DEF NoRecord
  <2>3. CASE ~done
    BY <2>1, <2>3
  <2>. QED  BY <2>2, <2>3
<1>. HIDE DEF r, t, k
<1>5. AppTyped'
  BY <1>1, <1>2, <1>3, <1>4, IdleIsTyped DEF AppTyped
<1>6. SoundControllers' /\ ControllersAreCalm /\ CommandStands'
  BY <1>1, NoneMoves, IdleStands
<1>7. CASE record' = record /\ rotation' = rotation
  <2>1. ReachesNothingNew /\ RecordsStay
    BY <1>1, <1>7, IdleReaches DEF RecordsStay
  <2>. QED  BY <1>1, <1>5, <1>6, <1>7, <2>1, CalmStep DEF AssociationInv
<1>8. CASE record' = [record EXCEPT ![k] = r] /\ rotation' = t
  <2>1. record'[k] = r /\ \A j \in Controllers : j # k => record'[j] = record[j]
    BY <1>1, <1>8 DEF AppTyped
  <2>2. \A j \in Controllers : \A x : Reaches(j, x)' =>
            Reaches(j, x) /\ record[j].mode # "none"
    BY <1>1, <1>4, <2>1, IdleIsTyped DEF Reaches, Presented
  <2>3. KeysAreKept'
    <3>. SUFFICES ASSUME NEW j \in Controllers
                  PROVE  /\ ctrl'[j].active # 0 => Kept(j, ctrl[j].code)' /\ record'[j] # NoRecord
                         /\ ctrl'[j].candidate # NoCandidate
                               /\ Reaches(j, ctrl[j].candidate.cert)'
                               => Kept(j, ctrl[j].candidate.code)'
      BY DEF KeysAreKept
    <3>1. ctrl'[j].active # 0 => record'[j] # NoRecord
      BY <1>1, <1>4, <2>1 DEF AssociationInv, KeysAreKept
    <3>2. ASSUME NEW code, Kept(j, code), j = k /\ done => code = rotation.code
          PROVE  code \in held /\ (t.code # 0 /\ t.target[j].status \in {"none", "completed"}
                                      => code = t.code)
      <4>1. CASE j = k
        BY <1>3, <3>2, <4>1 DEF Kept
      <4>2. CASE j # k
        BY <1>3, <3>2, <4>2 DEF Kept
      <4>. QED  BY <4>1, <4>2
    <3>3. ctrl'[j].active # 0 => Kept(j, ctrl[j].code)'
      BY <1>1, <1>8, <3>2 DEF AssociationInv, KeysAreKept, Kept
    <3>4. ASSUME ctrl'[j].candidate # NoCandidate, Reaches(j, ctrl[j].candidate.cert)'
          PROVE  Kept(j, ctrl[j].candidate.code)'
      <4>1. Reaches(j, ctrl[j].candidate.cert) /\ record[j].mode # "none"
        BY <1>1, <2>2, <3>4 DEF Reaches, Presented
      <4>2. Kept(j, ctrl[j].candidate.code) /\ ~(j = k /\ done)
        BY <1>1, <3>4, <4>1 DEF AssociationInv, KeysAreKept
      <4>. QED  BY <1>1, <1>8, <3>2, <4>2 DEF Kept
    <3>. QED  BY <3>1, <3>3, <3>4
  <2>4. ReceiptsAreTrue'
    BY <1>1, <1>3, <1>6, <1>8, ReceiptsStayTrue DEF AssociationInv
  <2>5. RotationIsOne'
    BY <1>1, <1>3, <1>8 DEF AssociationInv, RotationIsOne
  <2>. QED  BY <1>5, <1>6, <2>3, <2>4, <2>5 DEF AssociationInv
<1>. QED  BY <1>2, <1>7, <1>8

(* The human destroys the old codes: by now no Controller needs them. *)
LEMMA CompleteRecoveryRotationStep ==
    ASSUME AssociationInv, CompleteRecoveryRotation
    PROVE  AssociationInv'
<1>1. /\ AppTyped /\ SoundControllers /\ used.certs \in Nat /\ used' = used
      /\ UNCHANGED <<ctrl, record, token, prepared, command>>
      /\ command = Idle /\ rotation' = NoRotation /\ held' = {rotation.code}
      /\ \A k \in Controllers : rotation.target[k].status \in {"completed", "none"}
  BY CountsAreNumbers DEF AssociationInv, CompleteRecoveryRotation, Quiet, remote
<1>2. rotation.code # 0 /\ rotation.code \in 1..MaxCodes
  BY <1>1 DEF AssociationInv, RotationIsOne, AppTyped, Rotation, CompleteRecoveryRotation
<1>3. NoRotation \in Rotation /\ NoRotation.code = 0
  BY AssociationAssumption DEF NoRotation, NoTarget, Rotation
<1>4. AppTyped'
  BY <1>1, <1>2, <1>3 DEF AppTyped
<1>5. SoundControllers' /\ ControllersAreCalm /\ CommandStands'
  BY <1>1, NoneMoves, IdleStands
<1>6. KeysAreKept'
  <2>. SUFFICES ASSUME NEW k \in Controllers
                PROVE  /\ ctrl'[k].active # 0 => Kept(k, ctrl[k].code)' /\ record'[k] # NoRecord
                       /\ ctrl'[k].candidate # NoCandidate /\ Reaches(k, ctrl[k].candidate.cert)'
                             => Kept(k, ctrl[k].candidate.code)'
    BY DEF KeysAreKept
  <2>1. \A code : Kept(k, code) => code = rotation.code
    BY <1>1, <1>2 DEF Kept
  <2>2. Reaches(k, ctrl[k].candidate.cert)' => Reaches(k, ctrl[k].candidate.cert)
    BY <1>1 DEF Reaches, Presented
  <2>. QED  BY <1>1, <1>3, <2>1, <2>2 DEF AssociationInv, KeysAreKept, Kept
<1>7. ReceiptsAreTrue'
  BY <1>1, <1>3, <1>5, ReceiptsStayTrue DEF AssociationInv
<1>8. RotationIsOne'
  <2>1. used.codes \in Nat /\ prepared <= used.codes
    BY <1>1, CountsAreNumbers DEF AssociationInv, RotationIsOne
  <2>2. NoRotation' = NoRotation
    BY DEF NoRotation
  <2>. QED  BY <1>1, <1>3, <2>1, <2>2 DEF RotationIsOne
<1>. QED  BY <1>4, <1>5, <1>6, <1>7, <1>8 DEF AssociationInv

-----------------------------------------------------------------------------
(* Reads, the end of a session or of the App, the Controller's own life.   *)

LEMMA ElsewhereStep ==
    ASSUME AssociationInv,
           \/ \E k \in Controllers : ReadController(k) \/ Logout(k) \/ Elsewhere(k)
           \/ LeaveApp
    PROVE  AssociationInv'
<1>1. /\ AppTyped /\ SoundControllers /\ used.certs \in Nat
      /\ UNCHANGED <<record, rotation, held>> /\ prepared' \in {prepared, 0}
      /\ command' \in {command, Idle} /\ token' \in [Controllers -> BOOLEAN]
  BY CountsAreNumbers
  DEF AssociationInv, ReadController, Logout, Elsewhere, LeaveApp, remote, AppTyped, End
<1>2. used' \in Counts /\ used'.certs = used.certs /\ used'.codes = used.codes
  BY <1>1, AssociationAssumption
  DEF ReadController, Logout, Elsewhere, LeaveApp, remote, AppTyped, Counts
<1>3. AppTyped'
  BY <1>1, <1>2, IdleIsTyped, AssociationAssumption DEF AppTyped
<1>4. used'.certs \in Nat /\ used.certs <= used'.certs
  BY <1>1, <1>2
<1>5. SoundControllers' /\ ControllersAreCalm
  <2>1. CASE ctrl' = ctrl
    BY <1>1, <1>4, <2>1, NoneMoves
  <2>2. ASSUME NEW k \in Controllers, NEW c, ctrl' = [ctrl EXCEPT ![k] = c],
               \/ c = [ctrl[k] EXCEPT !.session = FALSE]
               \/ \E mode \in {"none", "enrollment", "recovery"} : c \in Serve(ctrl[k], mode)
               \/ c \in RevokeDevice(ctrl[k])
               \/ \E what \in {"candidate", "window", "receipts", "session"} :
                     c = Lapse(ctrl[k], what)
               \/ \E cert : c \in OpenSession(ctrl[k], cert)
        PROVE  SoundControllers' /\ ControllersAreCalm
    <3>1. Sound(ctrl[k], used.certs)
      BY <1>1, CertsAreNumbers
    <3>2. Sound(c, used.certs) /\ Calm(ctrl[k], c)
      BY <1>1, <2>2, <3>1, CalmRequests
    <3>. QED  BY <1>1, <1>4, <2>2, <3>2, OneIsCalm
  <2>3. ASSUME NEW k \in Controllers, ReadController(k)
        PROVE  SoundControllers' /\ ControllersAreCalm
    BY <2>1, <2>2, <2>3 DEF ReadController
  <2>4. ASSUME NEW k \in Controllers, Logout(k)
        PROVE  SoundControllers' /\ ControllersAreCalm
    <3>1. ctrl' = ctrl \/ ctrl' = [ctrl EXCEPT ![k] = [ctrl[k] EXCEPT !.session = FALSE]]
      BY <2>4 DEF Logout
    <3>. QED  BY <2>1, <2>2, <3>1
  <2>5. ASSUME NEW k \in Controllers, Elsewhere(k)
        PROVE  SoundControllers' /\ ControllersAreCalm
    BY <2>2, <2>5 DEF Elsewhere
  <2>6. CASE LeaveApp
    BY <2>1, <2>6 DEF LeaveApp, remote
  <2>. QED  BY <2>3, <2>4, <2>5, <2>6
<1>6. ReachesNothingNew /\ RecordsStay
  BY <1>1, IdleIsTyped DEF ReachesNothingNew, Reaches, Presented, RecordsStay
<1>7. CommandStands'
  BY <1>1, <1>5, CommandStays, IdleStands DEF AssociationInv
<1>. QED  BY <1>1, <1>2, <1>3, <1>5, <1>6, <1>7, CalmStep DEF AssociationInv

LEMMA StutterStep ==
    ASSUME AssociationInv, UNCHANGED vars
    PROVE  AssociationInv'
BY DEF AssociationInv, vars, AppTyped, SoundControllers, KeysAreKept, Kept, Reaches, Presented,
       ReceiptsAreTrue, RotationIsOne, CommandStands, Sound

-----------------------------------------------------------------------------
(* The theorems.                                                           *)

(* Every key the Controllers hold or may still be given is under a code the
   human keeps, the new one wherever the App will not come back to, in every
   state of pairings, recoveries and rotations (network.rs, vault.rs). *)
THEOREM AssociationIsInvariant == Spec => []AssociationInv
<1>1. Init => AssociationInv
  <2>. SUFFICES ASSUME Init PROVE AssociationInv
    OBVIOUS
  <2>1. /\ ctrl = [k \in Controllers |-> Fresh] /\ record = [k \in Controllers |-> NoRecord]
        /\ rotation = NoRotation /\ prepared = 0 /\ command = Idle /\ held = {1}
        /\ token = [k \in Controllers |-> FALSE]
        /\ used = [certs |-> 0, codes |-> 1, starts |-> 0, revoked |-> 0, lapses |-> 0]
    BY DEF Init
  <2>2. NoRotation \in Rotation /\ NoRotation.code = 0
    BY AssociationAssumption DEF NoRotation, NoTarget, Rotation
  <2>3. AppTyped
    BY <2>1, <2>2, NoRecordIsOne, IdleIsTyped, AssociationAssumption DEF AppTyped, Counts
  <2>4. /\ Fresh \in Identity /\ Fresh.active = 0 /\ Fresh.candidate = NoCandidate
        /\ Fresh.rotated = {} /\ Fresh.window = "none"
    BY NoCandidateIsOne, AssociationAssumption DEF Fresh, Identity
  <2>5. SoundControllers
    BY <2>1, <2>4, NoCandidateIsOne DEF SoundControllers, Sound
  <2>6. KeysAreKept /\ ReceiptsAreTrue
    BY <2>1, <2>4 DEF KeysAreKept, ReceiptsAreTrue
  <2>7. RotationIsOne
    BY <2>1, <2>2 DEF RotationIsOne
  <2>8. CommandStands
    BY <2>1, IdleIsTyped DEF CommandStands, Underway
  <2>. QED  BY <2>3, <2>5, <2>6, <2>7, <2>8 DEF AssociationInv
<1>2. AssociationInv /\ [Next]_vars => AssociationInv'
  BY PairChallengeStep, PairCompleteStep, PersistCandidateStep, RotateDeviceStep,
     PersistRotationStep, ResumeActivationStep, RequestActivationStep, StoreActiveStep,
     PrepareRecoveryRotationStep, ConfirmRecoveryRotationStep, ResumeTargetStep,
     RecordResultStep, CompleteRecoveryRotationStep, ElsewhereStep, StutterStep
  DEF Next
<1>. QED  BY <1>1, <1>2, PTL DEF Spec

(* The states of the App and of its Controllers keep their types (network.rs,
   vault.rs). *)
THEOREM AssociationIsTyped == Spec => []TypeOK
<1>1. AssociationInv => TypeOK
  <2>. SUFFICES ASSUME AssociationInv PROVE TypeOK
    OBVIOUS
  <2>1. AppTyped /\ SoundControllers
    BY DEF AssociationInv
  <2>2. ASSUME NEW k \in Controllers
        PROVE  /\ ctrl[k].active \in 0..MaxCerts /\ ctrl[k].code \in 0..MaxCodes
               /\ ctrl[k].candidate.mode \in Modes \union {"none"}
               /\ ctrl[k].window \in {"none", "enrollment", "recovery"}
               /\ ctrl[k].activated \subseteq 1..MaxCerts
               /\ record[k].status \in {"none", "candidate", "active"}
               /\ record[k].mode \in Modes \union {"none"}
               /\ rotation.target[k].status \in {"none", "pending", "failed", "completed"}
    <3>1. ctrl[k] \in Identity /\ record[k] \in Association /\ rotation \in Rotation
      BY <2>1, CertsAreNumbers DEF AppTyped
    <3>2. /\ ctrl[k].active \in 0..MaxCerts /\ ctrl[k].code \in 0..MaxCodes
          /\ ctrl[k].candidate \in Candidate
          /\ ctrl[k].window \in {"none", "enrollment", "recovery"}
          /\ ctrl[k].activated \subseteq 1..MaxCerts
      BY <3>1 DEF Identity
    <3>3. ctrl[k].candidate.mode \in Modes \union {"none"}
      BY <3>2 DEF Candidate
    <3>4. record[k].status \in {"none", "candidate", "active"}
      BY <3>1 DEF Association
    <3>5. record[k].mode \in Modes \union {"none"}
      BY <3>1 DEF Association
    <3>6. rotation.target[k].status \in {"none", "pending", "failed", "completed"}
      BY <3>1 DEF Rotation
    <3>. QED  BY <3>2, <3>3, <3>4, <3>5, <3>6
  <2>3. command.step \in Underway \union {"idle"}
    BY <2>1 DEF AppTyped, Command
  <2>. QED  BY <2>1, <2>2, <2>3 DEF TypeOK, AppTyped, Underway
<1>. QED  BY <1>1, AssociationIsInvariant, PTL

(* The human can always recover: whatever is cut, lost, revoked or lapses, a
   Controller with an active device has its recovery key under a code the
   human keeps (network.rs, rotate_recovery_key; vault.rs,
   complete_recovery_rotation). *)
THEOREM RecoveryCodeAlwaysWorks == Spec => []RecoveryCodeWorks
<1>1. AssociationInv => RecoveryCodeWorks
  BY DEF AssociationInv, KeysAreKept, Kept, RecoveryCodeWorks
<1>. QED  BY <1>1, AssociationIsInvariant, PTL

(* No certificate becomes active whose key the vault does not hold: the App
   persists it first, in a pairing and in a rotation (network.rs, pair and
   rotate_device). *)
THEOREM ActivatedIsAlwaysHeld == Spec => ActivatedIsHeld
<1>1. ASSUME AssociationInv, [Next]_vars, NEW k \in Controllers,
             ctrl'[k].active \notin {0, ctrl[k].active}
      PROVE  ctrl'[k].active = Presented(k)
  <2>1. SoundControllers /\ AppTyped /\ used.certs \in Nat /\ ctrl \in [Controllers -> Identity]
    BY <1>1, CountsAreNumbers DEF AssociationInv, SoundControllers
  <2>2. \A j \in Controllers : Sound(ctrl[j], used.certs)
    BY <2>1, CertsAreNumbers
  <2>3. CASE RequestActivation
    <3>1. PICK d \in Activate(ctrl[command.at], command.mode, Presented(command.at)) :
             ctrl' = [ctrl EXCEPT ![command.at] = d]
      BY <1>1, <2>3 DEF RequestActivation, Ask
    <3>2. command.at = k /\ ctrl'[k] = d
      BY <1>1, <2>1, <3>1
    <3>. QED  BY <1>1, <2>1, <2>2, <3>1, <3>2, ActivateMakes
  <2>4. ASSUME NEW j \in Controllers, NEW d, ctrl' = [ctrl EXCEPT ![j] = d],
               d.active \in {0, ctrl[j].active}
        PROVE  FALSE
    BY <1>1, <2>1, <2>4
  <2>5. ASSUME NEW j \in Controllers, NEW c \in InSession(j) PROVE c.active \in {0, ctrl[j].active}
    BY <2>1, InSessionIsCalm DEF Calm
  <2>6. CASE PairComplete
    <3>1. command.at \in Controllers /\ command.mode \in {"enrollment", "recovery"}
          /\ command.code \in 0..MaxCodes /\ used.certs < MaxCerts /\ used'.certs = used.certs + 1
      BY <1>1, <2>1, <2>6 DEF AssociationInv, CommandStands, PairComplete, Underway, AppTyped,
                              Command, Counts
    <3>2. PICK d \in Complete(ctrl[command.at], command.mode, command.code, used.certs + 1) :
             ctrl' = [ctrl EXCEPT ![command.at] = d]
      BY <1>1, <2>6, <3>1 DEF PairComplete, Ask
    <3>3. d.active = ctrl[command.at].active
      BY <2>1, <2>2, <3>1, CompleteMakes
    <3>. QED  BY <2>4, <3>1, <3>2, <3>3
  <2>7. ASSUME NEW j \in Controllers, RotateDevice(j) PROVE FALSE
    <3>1. used.certs < MaxCerts
      BY <2>7 DEF RotateDevice
    <3>2. ASSUME NEW c \in InSession(j),
                 NEW d \in PrepareDeviceRotation(c, record[j].cert, used.certs + 1)
          PROVE  d.active \in {0, ctrl[j].active}
      BY <2>1, <2>5, <3>1, <3>2, InSessionIsCalm, PrepareMakes
    <3>. QED  BY <2>4, <2>5, <2>7, <3>2 DEF RotateDevice
  <2>8. ASSUME NEW j \in Controllers, NEW old \in 1..MaxCodes, ResumeTarget(j, old) PROVE FALSE
    <3>2. ASSUME NEW c \in InSession(j),
                 NEW d \in RotateRecoveryKey(c, record[j].cert, rotation.code, old,
                                             record[j].epoch)
          PROVE  d.active \in {0, ctrl[j].active}
      <4>1. Sound(c, used.certs)
        BY <2>1, InSessionIsCalm
      <4>2. d.active = c.active
        <5>1. \/ d = c
              \/ d = [c EXCEPT !.code = rotation.code, !.epoch = c.epoch + 1,
                               !.rotated = c.rotated \union
                                   {[operation |-> rotation.code, cert |-> c.active]}]
          BY DEF RotateRecoveryKey
        <5>. QED  BY <4>1, <5>1 DEF Sound, Identity
      <4>. QED  BY <2>5, <4>2
    <3>3. ctrl[j].active \in {0, ctrl[j].active}
      OBVIOUS
    <3>. QED  BY <2>4, <2>5, <2>8, <3>2, <3>3 DEF ResumeTarget
  <2>9. ASSUME NEW j \in Controllers, NEW mode, NEW code, PairChallenge(j, mode, code) PROVE FALSE
    <3>1. \A c \in Begin(ctrl[j], mode) : c.active \in {0, ctrl[j].active}
      BY <2>1, <2>2, CalmRequests DEF Calm
    <3>. QED  BY <1>1, <2>4, <2>9, <3>1 DEF PairChallenge, Ask
  <2>10. ASSUME NEW j \in Controllers, Elsewhere(j) PROVE FALSE
    <3>1. ASSUME NEW c,
                 \/ \E mode \in {"none", "enrollment", "recovery"} : c \in Serve(ctrl[j], mode)
                 \/ c \in RevokeDevice(ctrl[j])
                 \/ \E what \in {"candidate", "window", "receipts", "session"} :
                       c = Lapse(ctrl[j], what)
          PROVE  c.active \in {0, ctrl[j].active}
      BY <2>1, <2>2, <3>1, CalmRequests DEF Calm
    <3>. QED  BY <2>4, <2>10, <3>1 DEF Elsewhere
  <2>11. ASSUME NEW j \in Controllers, ReadController(j) \/ Logout(j) PROVE FALSE
    <3>1. \A c \in OpenSession(ctrl[j], record[j].cert) : c.active \in {0, ctrl[j].active}
      BY <2>1, <2>2, CalmRequests DEF Calm
    <3>2. [ctrl[j] EXCEPT !.session = FALSE].active = ctrl[j].active
      BY <2>1 DEF Identity
    <3>. QED  BY <1>1, <2>4, <2>11, <3>1, <3>2 DEF ReadController, Logout
  <2>12. CASE UNCHANGED ctrl
    BY <1>1, <2>12
  <2>. QED
    BY <1>1, <2>3, <2>6, <2>7, <2>8, <2>9, <2>10, <2>11, <2>12
    DEF Next, vars, remote, PersistCandidate, PersistRotation, ResumeActivation, StoreActive,
        PrepareRecoveryRotation, ConfirmRecoveryRotation, RecordResult,
        CompleteRecoveryRotation, LeaveApp
<1>2. AssociationInv /\ [Next]_vars =>
         [\A k \in Controllers : ctrl'[k].active \notin {0, ctrl[k].active} =>
             ctrl'[k].active = Presented(k)]_vars
  BY <1>1
<1>. QED  BY <1>2, AssociationIsInvariant, PTL DEF Spec, ActivatedIsHeld
=============================================================================
