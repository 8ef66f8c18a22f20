--------------------------- MODULE MachineIdentity ---------------------------
(***************************************************************************)
(* The enrolment of one machine, as the native assistant judges it: the    *)
(* dedicated account, who can write the chain of directories above its     *)
(* files, the one forced key, the sudo rule, the sheet that says where the *)
(* machine answers, the identities of the estate and the gates between the *)
(* steps. AuthorityTransfer takes the steps.                               *)
(***************************************************************************)
EXTENDS AccessJudges

-----------------------------------------------------------------------------
(* account.rs and custody.rs                                               *)

JudgeAccount(a) ==
    FirstRefusal(<< <<a.name = "role", "SharesARoleAccount">>,
                    <<a.name # "auxiliary", "NotTheAuxiliaryAccount">>,
                    <<a.uid = 0 \/ a.gid = 0, "IsRoot">>,
                    <<a.uid > 999, "NotASystemAccount">>,
                    <<a.shell # "/bin/sh", "ShellIsNotTheFixedOne">>,
                    <<a.home # "/nonexistent", "HomeIsNotTheAbsentOne">>,
                    <<a.password = "hash", "PasswordSet">>,
                    <<a.password = "empty", "NoPasswordRequired">>,
                    <<a.password # "locked", "NotLocked">>,
                    <<a.groups # {}, "SupplementaryGroup">> >>)

\* A path is the sequence of its names; the root is the empty one.
IsChildOf(parent, child) ==
    Len(child) = Len(parent) + 1 /\ SubSeq(child, 1, Len(parent)) = parent

Canonical(path) ==
    \A i \in DOMAIN path : path[i] # ".." /\ (path[i] = "." => i = Len(path))

(* Mutant: a node is judged by its mode alone, whoever owns it. *)
JudgeOneByMode(p, account) ==
    FirstRefusal(<< <<~Canonical(p.path), "NotCanonical">>,
                    <<"setid" \in p.mode, "SetUserOrGroup">>,
                    <<p.uid = account.uid /\ "owner" \in p.mode, "WritableByTheAccount">>,
                    <<p.gid = account.gid /\ "group" \in p.mode, "WritableByTheAccount">>,
                    <<"world" \in p.mode, "WorldWritable">>,
                    <<"group" \in p.mode, "GroupWritable">> >>)

\* judge_one: the mode is the set of its bits that matter.
JudgeOne(p, account) ==
    FirstRefusal(<< <<~Canonical(p.path), "NotCanonical">>,
                    <<"setid" \in p.mode, "SetUserOrGroup">>,
                    <<p.uid = account.uid /\ "owner" \in p.mode, "WritableByTheAccount">>,
                    <<p.gid = account.gid /\ "group" \in p.mode, "WritableByTheAccount">>,
                    <<"world" \in p.mode, "WorldWritable">>,
                    <<p.uid # 0, "NotRootOwned">>,
                    <<"group" \in p.mode, "GroupWritable">> >>)

\* judge: a chain from the root to a file, each the child of the one before.
JudgeCustody(chain, account) ==
    LET n == Len(chain)
    IN IF n = 0 THEN "NothingObserved"
       ELSE FirstRefusal(
              << <<chain[1].path # <<>>, "NotRootedAtSlash">>,
                 <<\E i \in 1..(n - 1) : ~IsChildOf(chain[i].path, chain[i + 1].path),
                   "NotTheParentChain">>,
                 <<\E i \in 1..(n - 1) : chain[i].kind # "directory", "NotADirectory">>,
                 <<chain[n].kind # "file", "NotAFile">> >>
              \o [i \in 1..n |-> <<JudgeOne(chain[i], account) # "ok",
                                   JudgeOne(chain[i], account)>>])

-----------------------------------------------------------------------------
(* entry.rs: the one line of the key file.                                 *)

RequiredOptions == {"restrict", "no-agent-forwarding", "no-port-forwarding", "no-pty",
                    "no-user-rc", "no-X11-forwarding"}

\* A line: its options, its forced command if it has one, its algorithm and key.
JudgeLine(line) ==
    FirstRefusal(<< <<line.shape = "unfinished", "Malformed">>,
                    <<line.options = {} /\ line.command = "none", "NoOptions">>,
                    <<\E o \in line.options : o \notin RequiredOptions, "UnknownOption">>,
                    <<line.command = "none", "NoForcedCommand">>,
                    <<line.command = "clients", "ForcedCommandCarriesTheClientCommand">>,
                    <<line.command # "approve", "ForcedCommandNotExact">>,
                    <<\E o \in RequiredOptions : o \notin line.options, "MissingRestriction">>,
                    <<line.algorithm # "ssh-ed25519", "UnsupportedAlgorithm">>,
                    <<line.key = "garbled", "Malformed">> >>)

\* judge, over the lines that are neither blank nor comments.
JudgeEntry(lines) ==
    CASE Len(lines) = 0 -> "Empty"
      [] Len(lines) > 1 -> "SeveralEntries"
      [] OTHER -> JudgeLine(lines[1])

EntryOf(algorithm, key) ==
    [shape |-> "options", options |-> RequiredOptions, command |-> "approve",
     algorithm |-> algorithm, key |-> key]

\* render: nothing, or the one line the product writes.
RenderEntry(algorithm, key) ==
    IF algorithm # "ssh-ed25519" \/ key = "garbled" THEN <<>> ELSE <<EntryOf(algorithm, key)>>

-----------------------------------------------------------------------------
(* elevation_rule.rs: the one sudo rule.                                   *)

RequiredDefaults == {"!setenv", "env_reset", "!log_input", "!log_stdin"}

JudgeSpecification(s) ==
    FirstRefusal(<< <<s.account = "group", "GroupRule">>,
                    <<s.account # "auxiliary", "NotTheAuxiliaryAccount">>,
                    <<s.host # "ALL", "HostIsNotAll">>,
                    <<s.runas = "none", "RunAsNotDeclared">>,
                    <<s.runas # "root", "RunAsIsNotRoot">>,
                    <<"SETENV" \in s.tags, "SetenvGranted">>,
                    <<s.tags \ {"NOPASSWD", "NOEXEC"} # {}, "UnknownTag">>,
                    <<"NOPASSWD" \notin s.tags, "PasswordRequired">>,
                    <<s.command = "none", "Malformed">>,
                    <<s.command \in {"ALL", "wildcard"}, "WildcardCommand">>,
                    <<s.command # "approve", "CommandNotExact">> >>)

\* A setting that preserves an environment, as judge recognises it: by the word
\* the setting is written in, a value that touches it included.
Preserving == {"env_keep", "env_keep+=X", "env_file=X", "!env_reset"}

\* The settings judge reads: the last word of each item of each Defaults line,
\* whoever the line is bound to.
ReadSettings(file) == {d.words[Len(d.words)] : d \in file.defaults}

\* judge: a file is its Defaults items, its specifications and its other lines.
JudgeRule(file) ==
    FirstRefusal(<< <<file.large, "TooLarge">>,
                    <<"include" \in file.others, "IncludeDirective">>,
                    <<"alias" \in file.others, "AliasDefinition">>,
                    <<Len(file.specifications) = 0, "Empty">>,
                    <<Len(file.specifications) > 1, "SeveralRules">>,
                    <<"setenv" \in ReadSettings(file), "SetenvGranted">>,
                    <<Preserving \intersect ReadSettings(file) # {}, "EnvironmentPreserved">>,
                    <<RequiredDefaults \ ReadSettings(file) # {}, "MissingDefault">> >>
                 \o [i \in DOMAIN file.specifications |->
                        <<JudgeSpecification(file.specifications[i]) # "ok",
                          JudgeSpecification(file.specifications[i])>>])

RenderRule ==
    [large |-> FALSE, others |-> {},
     defaults |-> {[bound |-> "auxiliary", words |-> <<s>>] : s \in RequiredDefaults},
     specifications |-> <<[account |-> "auxiliary", host |-> "ALL", runas |-> "root",
                           tags |-> {"NOPASSWD"}, command |-> "approve"]>>]

-----------------------------------------------------------------------------
(* command_endpoint.rs: the sheet of a machine.                            *)

MaxPort == 65535

JudgeFields(machine, s) ==
    FirstRefusal(<< <<s.machine # machine, "ForeignMachine">>,
                    <<s.account # "auxiliary", "UnexpectedAccount">>,
                    <<s.host = "unusable", "UnusableHost">>,
                    <<s.port = 0 \/ s.port > MaxPort, "UnusablePort">>,
                    <<s.key = "unusable", "UnusableHostKey">> >>)

\* judge: a sheet or none, against the host key that is expected.
JudgeEndpoint(machine, sheets, expected) ==
    IF sheets = <<>> THEN "Absent"
    ELSE FirstRefusal(<< <<~sheets[1].whole, "Malformed">>,
                         <<JudgeFields(machine, sheets[1]) # "ok",
                           JudgeFields(machine, sheets[1])>>,
                         <<sheets[1].key # expected, "HostKeyChanged">> >>)

SheetOf(machine, host, port, key) ==
    [whole |-> TRUE, machine |-> machine, account |-> "auxiliary", host |-> host, port |-> port,
     key |-> key]

RenderEndpoint(machine, host, port, key) ==
    IF JudgeFields(machine, SheetOf(machine, host, port, key)) = "ok"
    THEN <<SheetOf(machine, host, port, key)>> ELSE <<>>

-----------------------------------------------------------------------------
(* identity.rs: the identities of the estate.                              *)

MaxEnrolled == 64

\* mint: a list of declarations, each with a machine and a fingerprint.
Mint(declared) ==
    IF declared = <<>> THEN "NothingDeclared"
    ELSE IF Len(declared) > MaxEnrolled THEN "TooManyMachines"
    ELSE FirstRefusal([i \in DOMAIN declared |->
           LET d == declared[i]
               earlier == {declared[j] : j \in 1..(i - 1)}
               why == FirstRefusal(<< <<d.machine = "malformed", "MalformedMachine">>,
                                      <<d.print = "malformed", "MalformedFingerprint">>,
                                      <<\E e \in earlier : e.machine = d.machine,
                                        "DuplicateMachine">>,
                                      <<\E e \in earlier : e.print = d.print,
                                        "SharedIdentity">> >>)
           IN <<why # "ok", why>>])

Named(enrolled, machine) == {i \in DOMAIN enrolled : enrolled[i].machine = machine}

\* admits: the machine's own identity, another machine's, or nobody's.
Admits(enrolled, machine, presented) ==
    FirstRefusal(<< <<Named(enrolled, machine) = {}, "UnknownMachine">>,
                    <</\ \E i \in DOMAIN enrolled : enrolled[i].print = presented
                      /\ \A i \in Named(enrolled, machine) : enrolled[i].print # presented,
                      "ForeignIdentity">>,
                    <<\A i \in Named(enrolled, machine) : enrolled[i].print # presented,
                      "Unattributed">> >>)

-----------------------------------------------------------------------------
(* plan.rs: the gates of an enrolment.                                     *)

EnrolmentSteps == <<"InstallArtifact", "CreateAccount", "InstallApprovalAnchor",
                    "InstallReplayState", "InstallElevationRule", "ActivateForcedKey",
                    "WriteCommandEndpoint", "VerifyNewPath", "ActivateApprovedRoles",
                    "DestroyTemporaryState">>

AuthorizeEnrolment(cleared, placements, enrolled, machine) ==
    FirstRefusal(<< <<machine \notin cleared, "MachineNotCleared">>,
                    <<Named(enrolled, machine) = {}, "UnknownMachine">>,
                    <<\E i \in DOMAIN placements : placements[i].endpoint # machine,
                      "PlacementForAnotherMachine">>,
                    <<\E i, j \in DOMAIN placements : i # j /\ placements[i].role = placements[j].role,
                      "DuplicateRole">>,
                    <<placements = <<>>, "NoApprovedRole">> >>)

\* verify: the Auxiliary's own report of a read-only diagnosis.
VerifyPath(enrolled, machine, report) ==
    FirstRefusal(<< <<report.machine # machine, "AnotherMachine">>,
                    <<Admits(enrolled, machine, report.print) # "ok",
                      Admits(enrolled, machine, report.print)>>,
                    <<report.changed, "AuxiliaryReportedAMutation">>,
                    <<report.operation # "diagnose", "NotTheDiagnosticOperation">>,
                    <<report.sequence = 0, "NothingConsumed">> >>)

Activate(machine, verified, roles, role) ==
    FirstRefusal(<< <<verified # machine, "VerifiedAnotherMachine">>,
                    <<role = "auxiliary", "AuxiliaryIsNeverAService">>,
                    <<role = "controller", "ControllerIsNotActivatedByAnEnrolment">>,
                    <<role \notin roles, "RoleNotApproved">> >>)
=============================================================================
