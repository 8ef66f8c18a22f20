------------------------ MODULE ControllerReplacement ------------------------
(***************************************************************************)
(* The judgements of a Controller's replacement: when an incident is one,  *)
(* what continues of the infrastructure, which reader the Relay serves,    *)
(* what state a target is in and what it calls for, which keys may go, and *)
(* when the whole may be called secured. AuthorityTransfer takes the steps.*)
(***************************************************************************)
EXTENDS MachineIdentity

-----------------------------------------------------------------------------
(* incident.rs                                                             *)

RequiredVantages == 2
RequiredSilence == 300

\* read: an independent vantage that was answered settles it, wherever it stands
\* in the list; then the first doubt; then too few vantages.
ReadProbes(probes, suspect) ==
    LET doubt(i) ==
            FirstRefusal(<< <<probes[i].vantage = "malformed", "MalformedVantage">>,
                            <<probes[i].vantage = suspect, "VantageIsTheSuspectHost">>,
                            <<\E j \in 1..(i - 1) : probes[j].vantage = probes[i].vantage,
                              "DuplicateVantage">>,
                            <<probes[i].answer = "none", "NoAnswerFrom">>,
                            <<probes[i].seconds < RequiredSilence, "SilenceTooYoung">> >>)
    IN FirstRefusal(<< <<\E i \in DOMAIN probes : probes[i].answer = "answered"
                                                  /\ probes[i].vantage # suspect, "Answering">> >>
                    \o [i \in DOMAIN probes |-> <<doubt(i) # "ok", doubt(i)>>]
                    \o << <<Len(probes) < RequiredVantages, "TooFewVantages">> >>)

Qualify(r, probes) ==
    FirstRefusal(<< <<~r.confirmed, "NotRequestedByTheUser">>,
                    <<"malformed" \in {r.old, r.suspect, r.host}, "MalformedName">>,
                    <<ReadProbes(probes, r.suspect) # "ok", ReadProbes(probes, r.suspect)>>,
                    <<r.kind = "compromise" /\ r.isolatedBy = "nobody", "IsolationNotVerified">>,
                    <<r.kind = "compromise" /\ r.isolatedBy = r.suspect,
                      "IsolationVerifiedByTheSuspectHost">>,
                    <<r.kind = "compromise" /\ r.state = "as it stands",
                      "SuspectHostIsNotAHealthyHost">>,
                    <<r.kind = "loss" /\ r.state = "as it stands",
                      "LostHostCannotHostTheReplacement">> >>)

-----------------------------------------------------------------------------
(* succession.rs, association.rs, preflight.rs                             *)

RequiredStates == 2

\* concord: states kept away from the old Controller agree on the infrastructure.
Concord(r, states) ==
    FirstRefusal([i \in DOMAIN states |->
                    LET s == states[i]
                        why == FirstRefusal(
                                 << <<s.source \in {r.old, r.suspect}, "SourceIsNotIndependent">>,
                                    <<\E j \in 1..(i - 1) : states[j].source = s.source,
                                      "DuplicateSource">>,
                                    <<s.infrastructure = "unreadable", "Unreadable">>,
                                    <<s.infrastructure = "malformed", "MalformedIdentifier">>,
                                    <<i > 1 /\ s.infrastructure # states[1].infrastructure,
                                      "Divergent">> >>)
                    IN <<why # "ok", why>>]
                 \o << <<Len(states) < RequiredStates, "TooFewIndependentStates">> >>)

Succeed(r, new, used) ==
    FirstRefusal(<< <<new = "malformed", "MalformedIdentifier">>,
                    <<new = r.old, "ControllerIdIsNotFresh">>,
                    <<new \in used, "ControllerIdAlreadyUsed">> >>)

MaxLifetime == 600

Bind(offer, infrastructure, used, now) ==
    FirstRefusal(<< <<offer.lifetime = 0, "LifetimeMissing">>,
                    <<offer.lifetime > MaxLifetime, "LifetimeTooLong">>,
                    <<offer.infrastructure # infrastructure, "ForeignInfrastructure">>,
                    <<now < offer.issued, "NotYetValid">>,
                    <<now >= offer.issued + offer.lifetime, "Expired">>,
                    <<offer.sheet \in used, "AlreadyUsed">> >>)

\* preflight: every endpoint presented the host key that was confirmed for it.
JudgeAttempt(a) ==
    FirstRefusal(<< <<a.confirmed = "none", "NeverConfirmed">>,
                    <<a.confirmed = "malformed", "ConfirmedMalformed">>,
                    <<a.presented = "unreachable", "Unreachable">>,
                    <<a.presented = "no answer", "NoAnswer">>,
                    <<a.presented # a.confirmed, "HostKeyMismatch">> >>)

Clear(attempts) ==
    IF attempts = <<>> THEN "NothingDeclared"
    ELSE FirstRefusal([i \in DOMAIN attempts |->
            LET why == IF \E j \in 1..(i - 1) : attempts[j].name = attempts[i].name
                       THEN "DuplicateEndpoint" ELSE JudgeAttempt(attempts[i])
            IN <<why # "ok", why>>])

-----------------------------------------------------------------------------
(* plan.rs: the order, and who may start.                                  *)

(* Mutant: the new Controller is installed before the reader is closed. *)
CommonStepsReaderLate ==
    <<"AuditRedeclaredMachines", "InstallNewController", "CloseRelayReader", "AssociateApp",
      "ReprovisionRelayReader", "RotateApprovalEpoch", "InstallNewIdentities",
      "VerifyNewAuthority", "WithdrawOldAuthority", "SweepResidualAuthority",
      "ArchiveOldAssociation">>

CommonSteps == <<"AuditRedeclaredMachines", "CloseRelayReader", "InstallNewController",
                 "AssociateApp", "ReprovisionRelayReader", "RotateApprovalEpoch",
                 "InstallNewIdentities", "VerifyNewAuthority", "WithdrawOldAuthority",
                 "SweepResidualAuthority", "ArchiveOldAssociation">>

PlanSteps == [loss |-> CommonSteps, compromise |-> <<"IsolateSuspectHost">> \o CommonSteps]

AuthorizeReplacement(r, new, infrastructure, association, cleared) ==
    FirstRefusal(<< <<association.controller # new, "AssociationForAnotherController">>,
                    <<association.infrastructure # infrastructure,
                      "AssociationForAnotherInfrastructure">>,
                    <<r.host \notin cleared, "NewHostNotCleared">>,
                    <<r.kind = "compromise" /\ r.suspect \in cleared,
                      "SuspectHostWasReached">> >>)

-----------------------------------------------------------------------------
(* transition.rs: the state of a target, rebuilt from the machine.         *)

(* Mutant: the key file alone decides. *)
ReconstructFromFile(e) ==
    CASE ~e.readable -> "unknown"
      [] OTHER -> IF {"old", "new"} \subseteq e.file THEN "overlap"
                  ELSE IF "old" \in e.file THEN "old only"
                  ELSE IF "new" \in e.file THEN "new only" ELSE "unknown"

\* `file` holds the managed fingerprints, or nothing that could be read.
Reconstruct(e) ==
    LET works(attempt) == attempt = "answered"
        agrees(key, attempt) == (key \in e.file) = works(attempt)
    IN CASE \/ ~e.readable \/ "none" \in {e.old, e.new}
            \/ ~agrees("old", e.old) \/ ~agrees("new", e.new) -> "unknown"
         [] OTHER -> IF works(e.old) /\ works(e.new) THEN "overlap"
                     ELSE IF works(e.old) THEN "old only"
                     ELSE IF works(e.new) THEN "new only" ELSE "unknown"

(* Mutant: a machine that holds both identities is only observed. *)
NextForCautious(state) ==
    CASE state = "old only" -> "install new"
      [] state = "new only" -> "nothing"
      [] OTHER -> "observe only"

NextFor(state) ==
    CASE state = "old only" -> "install new"
      [] state = "overlap" -> "withdraw old"
      [] state = "new only" -> "nothing"
      [] OTHER -> "observe only"

\* assemble: one reconstruction per machine, and at least one.
Assemble(targets) ==
    IF targets = <<>> THEN "NothingDeclared"
    ELSE IF \E i, j \in DOMAIN targets : i # j /\ targets[i].machine = targets[j].machine
    THEN "DuplicateMachine" ELSE "ok"

-----------------------------------------------------------------------------
(* reader.rs: whom the Relay serves.                                       *)

ReadReader(m, socket) ==
    LET why == FirstRefusal(
                 << <<m.port # "reader", "WrongPort">>,
                    <<m.status \notin {"active", "revoked"}, "UnknownStatus">>,
                    <<Len(m.controllers) = 0, "NoController">>,
                    <<Len(m.controllers) > 1, "TwoControllers">>,
                    <<~m.derived, "UriDoesNotDeriveFromThePair">>,
                    <<m.address = "range", "SourceAddressNotExact">>,
                    <<socket = "not observed", "SocketNotObserved">> >>)
        open == socket = "listening" /\ m.status = "active"
    IN IF why # "ok" THEN [state |-> why, to |-> "nobody", address |-> "none"]
       ELSE IF open THEN [state |-> "open", to |-> m.controllers[1], address |-> m.address]
       ELSE [state |-> "closed", to |-> "nobody", address |-> "none"]

\* rotate: closed each time it was looked at during the switch, then open to the
\* new Controller from another address.
Rotate(during, after, old, new, oldAddress) ==
    FirstRefusal(<< <<during = {}, "NeverSampledDuringTheSwitch">>,
                    <<\E s \in during : s.state = "open", "OpenDuringTheSwitch">>,
                    <<after.state # "open", "NeverReopened">>,
                    <<after.to = old, "StillOpenToTheOldController">>,
                    <<after.to # new, "OpenToAnotherController">>,
                    <<after.address = oldAddress, "SourceAddressNotReprovisioned">> >>)

-----------------------------------------------------------------------------
(* withdrawal.rs and inheritance.rs                                        *)

\* classify: the file, then the line, then the fingerprint.
Classify(entry, minted) ==
    FirstRefusal(<< <<entry.file # "managed", "personal">>,
                    <<JudgeEntry(<<entry.line>>) # "ok", "unmanaged">>,
                    <<entry.print \notin minted, "unrecognised">> >>)

(* Mutant: every line the product minted may go. *)
RemovableMinted(entry, keeping, retiring) ==
    Classify(entry, retiring \union {keeping}) = "ok"

\* withdraw: what may go, and the refusals before anything does.
Removable(entry, keeping, retiring) ==
    /\ Classify(entry, retiring \union {keeping}) = "ok"
    /\ entry.print # keeping /\ entry.print \in retiring

Withdraw(verified, machine, observed, keeping, retiring) ==
    FirstRefusal(<< <<verified # machine, "VerifiedAnotherMachine">>,
                    <<keeping = "malformed", "MalformedFingerprint">>,
                    <<keeping \in retiring, "WouldRemoveTheNewIdentity">>,
                    <<observed = {}, "NothingObserved">>,
                    <<\E e \in observed : e.print = "malformed", "MalformedFingerprint">>,
                    <<~\E e \in observed : e.print = keeping
                                           /\ Classify(e, retiring \union {keeping}) = "ok",
                      "NewIdentityNotPresent">> >>)

Supersede(installed, proposed) ==
    FirstRefusal(<< <<installed = 0 \/ proposed = 0, "EpochIsZero">>,
                    <<proposed <= installed, "NotStrictlyGreater">> >>)

Kinds == {"device", "certificate", "session", "secret", "network filter", "manifest"}

\* admit: what the new Controller starts with is minted or independent.
Admit(carried) ==
    FirstRefusal(<< <<carried = {}, "NothingDeclared">>,
                    <<\E c \in carried : c.origin = "inherited", "Inherited">> >>)

\* sweep: what still grants, then what nobody saw, then a kind nobody looked at.
Sweep(residues) ==
    FirstRefusal(<< <<\E r \in residues : r.grant = "grants", "StillGrantsAuthority">>,
                    <<\E r \in residues : r.grant = "not observed", "NotObserved">>,
                    <<\E k \in Kinds : \A r \in residues : r.kind # k, "KindNotSwept">> >>)

\* conclude: the journey and its containment, every target, the reader.
Conclude(kind, containment, targets, rotated, new) ==
    FirstRefusal(<< <<kind = "compromise" /\ containment = "lost",
                      "SuspectHostNoLongerIsolated">>,
                    <<containment # (IF kind = "compromise" THEN "held" ELSE "not applicable"),
                      "ContainmentDoesNotMatchTheJourney">>,
                    <<\E i \in DOMAIN targets : targets[i].state = "unknown", "TargetsUnknown">>,
                    <<\E i \in DOMAIN targets : targets[i].state # "new only",
                      "TargetsNotFinished">>,
                    <<rotated # new, "ReaderRotatedForAnotherController">> >>)
=============================================================================
