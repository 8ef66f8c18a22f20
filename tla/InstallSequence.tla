--------------------------- MODULE InstallSequence ---------------------------
(***************************************************************************)
(* The installation itself, run inside an AssistantSession: deposits, acts *)
(* and constats in the order of the plan, the ledger of what was done, the *)
(* credential dropped at the end and the terminal that is written.         *)
(***************************************************************************)
EXTENDS AssistantSession

Planned == AuthorizedStepsFor(scope.actions)
Step == Planned[at.step]
Op == Program(Step)[at.op]
LastAct(step, op) == Acts(step) # <<>> /\ Acts(step)[Len(Acts(step))] = op
IsAct(op) == \E i \in DOMAIN Acts(Step) : Acts(Step)[i] = op

\* The position after this operation; the steps without channels are passed over.
NextAt == IF at.op < Len(Program(Step)) THEN [at EXCEPT !.op = @ + 1]
          ELSE [step |-> at.step + 1, op |-> 1]
Finished(p) == \A i \in p.step..Len(Planned) : Program(Planned[i]) = <<>>

(***************************************************************************)
(* What an operation may leave behind. A command that reports success did  *)
(* what it is for, or something close to it; one that fails, or is not     *)
(* heard, did anything down to nothing. mkdir and the initialisation of an *)
(* authority fail when there is already one, and change nothing; a mkdir   *)
(* that fails made nothing.                                                *)
(***************************************************************************)
Exclusive(op) == op \in {"mkdir", "controller-init"}
Taken(op) == Exclusive(op) /\ \E i \in Writes(op) : target[i] # "absent"
Left(op, exit) ==
    IF Writes(op) = {} \/ Taken(op) \/ (op = "mkdir" /\ exit = "failed") THEN {target}
    ELSE {[i \in Items |-> IF i \in Writes(op) THEN v ELSE target[i]] :
             v \in IF exit = "done" /\ Exclusive(op) THEN {"right"} ELSE {"right", "wrong"}}
         \union (IF exit = "done" THEN {} ELSE {target})

Exits(op) == IF Taken(op) THEN {"failed"} ELSE {"done", "failed"}

\* A measurement tells the truth about the file, or fails.
Measures(item) == {"failed"} \union (IF target[item] = "right" THEN {"right"} ELSE {"wrong"})

(* Mutant: what was done and not yet established is not recorded. *)
StopForgetting(reason, waiting, written) ==
    /\ ended' = reason
    /\ pending' = <<>>
    /\ ledger' = written
    /\ readings' = <<>> /\ at' = at
    /\ secret' = Forgotten
    /\ pc' = "drop"

\* run's epilogue: what is still pending is of unknown provenance, the password
\* is destroyed, and the credential is dropped in a last channel.
Stop(reason, waiting, written) ==
    /\ ended' = reason
    /\ pending' = <<>>
    /\ ledger' = written \o RecordSteps(waiting, {waiting[i] : i \in DOMAIN waiting}, "unknown")
    /\ readings' = <<>> /\ at' = at
    /\ secret' = Forgotten
    /\ pc' = "drop"

Continue(waiting, written) ==
    /\ pending' = waiting /\ ledger' = written
    /\ at' = NextAt
    /\ IF Finished(NextAt) THEN /\ pc' = "drop" /\ ended' = "whole"
                                /\ secret' = Forgotten
                           ELSE UNCHANGED <<pc, ended, secret>>

\* The budget is adopted again before the first operation.
BudgetHolds == MayAdoptBudget(live.spent, live.budget, ChannelBudget(scope.actions))

Driving == pc = "drive" /\ ~Finished(at)
Heard == Driving /\ BudgetHolds /\ Answers /\ Spend
Frame == UNCHANGED <<platform, scope, expired, lease, keyFile, dialled, agent, credential, proved, policy,
                     seen, exports,
                     terminal, found>>

\* No answer: the deadline, the lease, the link or the budget.
Unanswered ==
    /\ Driving
    /\ live' = IF ChannelOpens THEN [live EXCEPT !.spent = @ + 1] ELSE live
    /\ target' \in IF Sends THEN Left(Op, "unheard") ELSE {target}
    /\ Stop(IF BudgetHolds THEN "Unanswered" ELSE "BudgetRefused", pending, ledger)
    /\ Frame

\* deposit: the directory is recorded as soon as it is made.
MakeStaging ==
    /\ Heard /\ Op = "mkdir"
    /\ \E exit \in Exits(Op) :
         /\ target' \in Left(Op, exit)
         /\ \/ /\ exit = "done"
               /\ Continue(pending, Append(ledger, Entry("staging", "created")))
            \/ exit = "failed" /\ Stop("Refused", pending, ledger)
    /\ readings' = <<>>
    /\ Frame

\* deposit_and_measure: three answers, judged when the last one is in.
Deposit ==
    /\ Heard /\ Op \in {"put-bundle", "put-configuration"}
    /\ \E exit \in {"done", "failed"} : target' \in Left(Op, exit) /\ readings' = <<exit>>
    /\ at' = NextAt /\ UNCHANGED <<pc, secret, pending, ledger, ended>>
    /\ Frame

MeasureSize ==
    /\ Heard /\ Op = "size"
    /\ \E m \in Measures(Measured(Step)) : readings' = Append(readings, m)
    /\ at' = NextAt /\ UNCHANGED <<pc, secret, target, pending, ledger, ended>>
    /\ Frame

MeasureDigest ==
    /\ Heard /\ Op = "digest"
    /\ \E m \in Measures(Measured(Step)) :
         LET verdict == Deposited(Append(readings, m))
         IN \/ /\ verdict = "ok"
               /\ Continue(pending, Append(ledger, Entry(Measured(Step), "created")))
               /\ readings' = <<>>
            \/ /\ verdict # "ok"
               /\ Stop("Refused", pending, Append(ledger, Entry(Measured(Step), "unknown")))
    /\ UNCHANGED target
    /\ Frame

\* An elevated act. The last one of a step puts the step among the pending ones,
\* or records it at once when its output is all there is to read.
Act ==
    /\ Heard /\ IsAct(Op)
    /\ \E exit \in Exits(Op), output \in {"canonical", "garbled"} :
         /\ target' \in Left(Op, exit)
         /\ \/ exit = "failed" /\ Stop("ActFailed", Append(pending, Step), ledger)
            \/ /\ exit = "done" /\ ~LastAct(Step, Op)
               /\ Continue(pending, ledger)
            \/ /\ exit = "done" /\ LastAct(Step, Op)
               /\ \/ /\ IdentityOutput(Step, output)
                     /\ Stop("Refused", Append(pending, Step), ledger)
                  \/ /\ ~IdentityOutput(Step, output) /\ Step = "InitialiseController"
                     /\ Continue(pending, ledger \o RecordStep(Step, "created"))
                  \/ /\ ~IdentityOutput(Step, output) /\ Step # "InitialiseController"
                     /\ Continue(Append(pending, Step), ledger)
    /\ readings' = <<>>
    /\ Frame

\* constate: the pending steps this reading covers are established, in order.
Establishes ==
    /\ Heard /\ Op \in {"package", "nodes", "unit"}
    /\ \E exit \in {"done", "garbled"} :
         LET verdict == Constate(Op, exit, target)
         IN \/ /\ verdict = "ok"
               /\ Continue(StillPending(pending, CoveredBy(Op)),
                           ledger \o RecordSteps(pending, CoveredBy(Op), "created"))
            \/ verdict # "ok" /\ Stop("Refused", pending, ledger)
    /\ readings' = <<>>
    /\ UNCHANGED target
    /\ Frame

\* DROP_CREDENTIAL, whose answer nobody reads; then the outcome of the sequence.
DropCredential ==
    /\ pc = "drop"
    /\ pc' = "resolve"
    /\ live' = [live EXCEPT !.spent = IF ChannelOpens THEN @ + 1 ELSE @, !.open = FALSE]
    /\ exports' = [exports EXCEPT !.ledger = TRUE]
    /\ terminal' = CASE ended = "whole" -> "verified"
                     [] ended \in {"Refused", "ActFailed"} -> "refused"
                     [] OTHER -> "unavailable"
    /\ UNCHANGED <<platform, scope, expired, lease, keyFile, dialled, agent, credential, proved, secret,
                   policy, seen,
                   installVars>>

\* AssistantEventV1: which events carry the scope, the ledger and the cause.
Carriers == {"verified", "refused"}
MaxLedgerItems == 16
ValidEvent(kind, told, written) ==
    /\ told.scope # "none" => kind \in Carriers
    /\ told.cause # "none" => kind = "refused"
    /\ told.ledger => kind \in Carriers /\ Len(written) <= MaxLedgerItems

\* serve_scope and write_terminal: the deadline, then the lease, override what
\* the prompt said; only a verdict carries what the session exports. An event the
\* protocol does not accept is not written at all.
Resolve ==
    LET said == IF lease = "invalid" THEN "protocol"
                ELSE IF expired THEN "expired"
                ELSE IF lease = "cancelled" THEN "cancelled" ELSE terminal
        told == [scope |-> IF said \in Carriers THEN exports.scope ELSE "none",
                 ledger |-> said \in Carriers /\ exports.ledger,
                 cause |-> IF said = "refused" THEN exports.cause ELSE "none"]
    IN /\ pc = "resolve"
       /\ pc' = "done"
       /\ terminal' = IF said = "protocol" \/ ValidEvent(said, told, ledger) THEN said ELSE "internal"
       /\ exports' = told
       /\ UNCHANGED <<platform, scope, expired, lease, keyFile, dialled, agent, credential, live, proved,
                      secret, policy,
                      seen, installVars>>

Drive == \/ Unanswered \/ MakeStaging \/ Deposit \/ MeasureSize \/ MeasureDigest \/ Act
         \/ Establishes

SessionStep ==
    \/ PrepareAccess \/ AnswerWindow \/ OpenKey \/ UnlockKey
    \/ Dial \/ AttestHost \/ Authenticate
    \/ Probe \/ ListPolicy \/ AskPassword \/ ListPolicyWithSecret \/ Elevate
    \/ Observe \/ Judge \/ Drive \/ DropCredential \/ Resolve

Next == SessionStep \/ Expire \/ LoseLease \/ ReplaceKeyFile

Spec == Init /\ [][Next]_vars

-----------------------------------------------------------------------------
(* What the session promises.                                              *)

\* The session never reaches back to the App's own machine, however its address
\* is written, nor to an address no machine of the network has (target.rs,
\* local_addresses.rs).
NeverDialsItself ==
    live.open => \A a \in dialled : a.class = "unicast" /\ \A l \in Local : l.host # a.host

\* The budget derived from the declared table covers the channels the session
\* really opens, the one that drops the credential included (acts.rs,
\* channel_budget).
BudgetNeverShort ==
    pc \in {"probe", "list", "list-again", "elevate", "observe", "drive", "drop"} => ChannelOpens

\* When the sequence stops, everything it changed is in the ledger, save what
\* belongs to the step that went unanswered (sequence.rs, run and record_step).
EarlierEffectsAreRecorded ==
    LET unanswered == IF ended # "Unanswered" THEN {}
                      ELSE UNION {Writes(Program(Step)[i]) : i \in DOMAIN Program(Step)}
    IN ended # "no" =>
         \A item \in Items \ unanswered :
            target[item] # found[item] => \E i \in DOMAIN ledger : ledger[i].item = item

\* Nothing of the system is changed without a proved elevation under a policy wide
\* enough for every command (elevation.rs, acts.rs ElevatedAct).
ChangesNeedProof ==
    (\E item \in Items \ {"staging", "bundle", "staged-configuration"} :
        target[item] # found[item]) => proved.elevated /\ policy.suffices

\* A verified installation is a whole one, and its ledger reaches the App; a whole
\* one whose deadline and lease held is always told (sequence.rs outcome, lib.rs
\* write_terminal, the protocol's bounds on an event).
VerifiedIsWhole ==
    pc = "done" =>
        /\ (terminal = "verified" /\ Installs /\ scope.route = "administrator") =>
              /\ \A item \in Items : target[item] = "right"
              /\ exports.ledger /\ Unwind(ledger).complete
        /\ (ended = "whole" /\ ~expired /\ lease = "held") => terminal = "verified"

=============================================================================
