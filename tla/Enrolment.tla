------------------------------ MODULE Enrolment ------------------------------
(***************************************************************************)
(* One machine is enrolled. A run is authorised, takes the steps of        *)
(* plan.rs in their order, has what each of them left on the machine       *)
(* judged, verifies the new path and then starts the approved roles. The   *)
(* effects of the steps are external: what a step leaves is one of several *)
(* things a writer can leave, and the machine may already have held        *)
(* something. A run that is refused or cut is undone from its ledger, and  *)
(* another run may follow it.                                              *)
(*                                                                         *)
(* Every part of the machine is a sequence, empty when the part is absent. *)
(***************************************************************************)
EXTENDS MachineIdentity, InstallPlan

CONSTANTS
    Subject,        \* the machine being enrolled
    Perimeters,     \* what a run may be given: identities, cleared, placements
    Beginnings,     \* the machines a run may find
    Accounts,       \* what creating the account may leave
    OtherRules,     \* rule files other than the rendered one
    Reports,        \* what the Auxiliary may answer on the new path
    PinnedKey,      \* the host key the audit pinned
    MaxRuns         \* bound: runs

Parts == {"artifact", "account", "anchor", "replay", "rule", "lines", "sheets", "agent", "relay"}

IsList(s) == s \in Seq({s[i] : i \in DOMAIN s})

\* A machine has its parts and the chain of directories above its key file; a
\* rule has its list of specifications; and a key that was pinned can be written.
ASSUME EnrolmentAssumption ==
    /\ \A m \in Beginnings : /\ m = [p \in Parts \union {"chain"} |-> m[p]]
                             /\ IsList(m.chain) /\ IsList(m.lines)
    /\ \A r \in OtherRules : IsList(r.specifications)
    /\ PinnedKey # "unusable"

VARIABLES
    before,     \* what the run found
    machine,    \* what is there now
    ledger,     \* what the run recorded
    run,        \* the run under way
    runs

vars == <<before, machine, ledger, run, runs>>

NoRun == [phase |-> "none", at |-> 0, enrolled |-> <<>>, roles |-> {}, verified |-> "nobody"]

\* The part of the machine a step writes.
PartOf(step) ==
    CASE step = "InstallArtifact" -> "artifact"
      [] step = "CreateAccount" -> "account"
      [] step = "InstallApprovalAnchor" -> "anchor"
      [] step = "InstallReplayState" -> "replay"
      [] step = "InstallElevationRule" -> "rule"
      [] step = "ActivateForcedKey" -> "lines"
      [] step = "WriteCommandEndpoint" -> "sheets"

Written == 1..7
Verifying == 8
Activating == 9
Destroying == 10

Step == EnrolmentSteps[run.at]
Part == PartOf(Step)

\* What a step may leave where it found `old`. An account that is there is kept,
\* a key file is replaced or added to.
Leaves(step, old) ==
    CASE step = "CreateAccount" -> IF old = <<>> THEN {<<a>> : a \in Accounts} ELSE {old}
      [] step = "InstallElevationRule" -> {<<r>> : r \in OtherRules \union {RenderRule}}
      [] step = "ActivateForcedKey" ->
             LET line == RenderEntry("ssh-ed25519", "key") IN {line, old \o line}
      [] step = "WriteCommandEndpoint" ->
             {old} \union {RenderEndpoint(Subject, "host", 22, k) : k \in {PinnedKey, "other"}}
      [] OTHER -> {<<"present">>}

\* The judgement of what a step left.
Judged(step, m) ==
    CASE step = "CreateAccount" -> JudgeAccount(m.account[1])
      [] step = "InstallElevationRule" -> JudgeRule(m.rule[1])
      [] step = "ActivateForcedKey" ->
             FirstRefusal(<< <<JudgeEntry(m.lines) # "ok", JudgeEntry(m.lines)>>,
                             <<JudgeCustody(m.chain, m.account[1]) # "ok",
                               JudgeCustody(m.chain, m.account[1])>> >>)
      [] step = "WriteCommandEndpoint" -> JudgeEndpoint(Subject, m.sheets, PinnedKey)
      [] OTHER -> "ok"

Provenance(part) == IF machine[part] = <<>> THEN "created" ELSE "found"

Init ==
    /\ machine \in Beginnings
    /\ before = machine
    /\ ledger = <<>>
    /\ run = NoRun
    /\ runs = 0

\* enrol: mint, clear, approve, authorize.
Enrol(p) ==
    /\ run.phase = "none"
    /\ runs < MaxRuns
    /\ runs' = runs + 1
    /\ IF Mint(p.declared) = "ok"
          /\ AuthorizeEnrolment(p.cleared, p.placements, p.declared, Subject) = "ok"
       THEN run' = [phase |-> "running", at |-> 1, enrolled |-> p.declared, verified |-> "nobody",
                    roles |-> {p.placements[i].role : i \in DOMAIN p.placements}]
       ELSE UNCHANGED run
    /\ before' = machine
    /\ ledger' = <<>>
    /\ UNCHANGED machine

\* A step writes, looks and records; a refused judgement stops the run.
TakeStep ==
    /\ run.phase = "running"
    /\ run.at \in Written
    /\ \E v \in Leaves(Step, machine[Part]) :
          LET after == [machine EXCEPT ![Part] = v]
          IN /\ machine' = after
             /\ run' = IF Judged(Step, after) = "ok" THEN [run EXCEPT !.at = @ + 1]
                       ELSE [run EXCEPT !.phase = "stopped"]
    /\ ledger' = Append(ledger, Entry(Part, Provenance(Part)))
    /\ UNCHANGED <<before, runs>>

\* The run is cut during a step: nobody looked at what it left.
Cut ==
    /\ run.phase = "running"
    /\ run.at \in Written
    /\ \E v \in Leaves(Step, machine[Part]) \union {machine[Part]} :
          machine' = [machine EXCEPT ![Part] = v]
    /\ ledger' = Append(ledger, Entry(Part, "unknown"))
    /\ run' = [run EXCEPT !.phase = "stopped"]
    /\ UNCHANGED <<before, runs>>

\* verify: the Controller walks the new path and reads the report back.
VerifyNewPath(report) ==
    /\ run.phase = "running"
    /\ run.at = Verifying
    /\ run' = IF VerifyPath(run.enrolled, Subject, report) = "ok"
              THEN [run EXCEPT !.at = Activating, !.verified = report.machine]
              ELSE [run EXCEPT !.phase = "stopped"]
    /\ UNCHANGED <<before, machine, ledger, runs>>

\* activate: one role. A refused one is not started, and the run goes on.
ActivateRole(role) ==
    /\ run.phase = "running"
    /\ run.at = Activating
    /\ IF Activate(Subject, run.verified, run.roles, role) = "ok"
       THEN /\ machine[role] = <<>>
            /\ machine' = [machine EXCEPT ![role] = <<"started">>]
            /\ ledger' = Append(ledger, Entry(role, "created"))
       ELSE UNCHANGED <<machine, ledger>>
    /\ UNCHANGED <<before, run, runs>>

\* Starting a role may go unanswered.
CutActivation(role) ==
    /\ run.phase = "running"
    /\ run.at = Activating
    /\ Activate(Subject, run.verified, run.roles, role) = "ok"
    /\ machine' \in {machine, [machine EXCEPT ![role] = <<"started">>]}
    /\ ledger' = Append(ledger, Entry(role, "unknown"))
    /\ run' = [run EXCEPT !.phase = "stopped"]
    /\ UNCHANGED <<before, runs>>

RolesActivated ==
    /\ run.phase = "running"
    /\ run.at = Activating
    /\ \A r \in run.roles : Activate(Subject, run.verified, run.roles, r) = "ok" => machine[r] # <<>>
    /\ run' = [run EXCEPT !.at = Destroying]
    /\ UNCHANGED <<before, machine, ledger, runs>>

DestroyTemporaryState ==
    /\ run.phase = "running"
    /\ run.at = Destroying
    /\ run' = [run EXCEPT !.phase = "enrolled"]
    /\ UNCHANGED <<before, machine, ledger, runs>>

\* unwind, and the removals it lists.
Undo ==
    /\ run.phase = "stopped"
    /\ LET removals == Unwind(ledger).removals
           gone == {removals[i] : i \in DOMAIN removals}
       IN machine' = [p \in DOMAIN machine |-> IF p \in gone THEN <<>> ELSE machine[p]]
    /\ run' = [run EXCEPT !.phase = "undone"]
    /\ UNCHANGED <<before, ledger, runs>>

Leave ==
    /\ run.phase = "undone"
    /\ run' = NoRun
    /\ UNCHANGED <<before, machine, ledger, runs>>

Next ==
    \/ \E p \in Perimeters : Enrol(p)
    \/ TakeStep
    \/ Cut
    \/ \E r \in Reports : VerifyNewPath(r)
    \/ \E role \in Role : ActivateRole(role) \/ CutActivation(role)
    \/ RolesActivated
    \/ DestroyTemporaryState
    \/ Undo
    \/ Leave

Spec == Init /\ [][Next]_vars

-----------------------------------------------------------------------------
(* Properties                                                              *)

\* Who may write a node: its owner, who may also change its mode, the members
\* of its group and everybody else, as the mode says.
MayWrite(account, node) ==
    \/ node.uid = account.uid
    \/ "group" \in node.mode /\ node.gid \in {account.gid} \union account.groups
    \/ "world" \in node.mode

\* The account reaches root through the approved command alone, and no setting
\* that is written in one word opens the environment of that command.
ElevatesOnlyApprove(m) ==
    LET specifications == m.rule[1].specifications
    IN /\ \A i \in DOMAIN specifications :
             /\ specifications[i].command = "approve"
             /\ "SETENV" \notin specifications[i].tags
       /\ \A d \in m.rule[1].defaults :
             Len(d.words) = 1 => d.words[1] \notin Preserving \union {"setenv"}

\* Every session the key file opens is forced into the approved command.
ForcedIntoApprove(m) ==
    \A i \in DOMAIN m.lines :
        m.lines[i].command = "approve" /\ "restrict" \in m.lines[i].options

\* A run that goes on, or ended well, started a role.
Started == /\ \E role \in {"agent", "relay"} : machine[role] # <<>> /\ before[role] = <<>>
           /\ run.phase \in {"running", "enrolled"}

\* A role that a run started runs on a machine the run bounded: the new path was
\* verified for this machine, the technical account can write nothing on the
\* way to its own key file, holds no password and no group, reaches root
\* through the one command only, in an environment that no one-word setting
\* opens, and every key that opens it is forced into that command (plan.rs STEPS
\* and activate, custody.rs, entry.rs, elevation_rule.rs, account.rs).
StartedIsBounded ==
    Started =>
       /\ run.verified = Subject
       /\ \A i \in DOMAIN machine.chain : ~MayWrite(machine.account[1], machine.chain[i])
       /\ machine.account[1].password = "locked" /\ machine.account[1].groups = {}
       /\ ElevatesOnlyApprove(machine)
       /\ ForcedIntoApprove(machine)
       /\ machine.sheets[1].key = PinnedKey

\* An undone run removed nothing that it found, and what it leaves behind is
\* named: with nothing named, the machine holds the parts it held (rollback.rs
\* unwind: "Only Created items are listed").
UndoneIsHonest ==
    run.phase = "undone" =>
        \A part \in Parts :
            /\ before[part] # <<>> => machine[part] # <<>>
            /\ before[part] = <<>> /\ machine[part] # <<>> =>
                   \E i \in DOMAIN ledger : ledger[i] = Entry(part, "unknown")
=============================================================================
