----------------------------- MODULE InstallPlan -----------------------------
(***************************************************************************)
(* The installation as the assistant plans it: its steps, the channels of  *)
(* each step, the budget declared for them, what a step leaves on the      *)
(* target, the readings that establish it, the ledger and its unwinding.   *)
(* AssistantSession runs it.                                               *)
(***************************************************************************)
EXTENDS AccessJudges, MachineAudit

-----------------------------------------------------------------------------
(* plan.rs                                                                 *)

Steps == <<"TransferBundle", "InstallPackage", "WriteMachineConfiguration", "CreateState",
           "InstallCredentialSources", "InitialiseController", "MintReaderIdentity",
           "ActivateController", "AssociateApp", "Preflight">>

AuthorizedSteps(action) ==
    CASE action = "install" -> SubSeq(Steps, 1, 7)
      [] action = "activate" -> SubSeq(Steps, 8, 10)
      [] OTHER -> <<>>

\* The approved actions are a list: the pair in its order, or a single one.
AuthorizedStepsFor(actions) ==
    CASE actions = <<"install", "activate">> -> Steps
      [] Len(actions) = 1 -> AuthorizedSteps(actions[1])
      [] OTHER -> <<>>

\* authorize: the placement, the bundle's target, and for a replacement the
\* endpoints the preflight cleared.
Authorize(role, bundle, endpoint, origin) ==
    FirstRefusal(<< <<role # "controller", "NotAControllerPlacement">>,
                    <<bundle.target # "supported", "BundleNotForThisTarget">>,
                    <<origin.kind = "replacement" /\ endpoint \notin origin.cleared,
                      "PlacementNotCleared">> >>)

-----------------------------------------------------------------------------
(* acts.rs                                                                 *)

\* The elevated acts of a step, in order.
Acts(step) ==
    CASE step = "InstallPackage" -> <<"dpkg", "reload">>
      [] step = "WriteMachineConfiguration" -> <<"place-configuration">>
      [] step = "CreateState" -> <<"create-state">>
      [] step = "InstallCredentialSources" -> <<"create-sources">>
      [] step = "InitialiseController" -> <<"controller-init">>
      [] step = "MintReaderIdentity" -> <<"mint-reader">>
      [] step = "ActivateController" -> <<"enable-unit">>
      [] OTHER -> <<>>

\* The declared cost of a step.
ChannelsFor(step) ==
    CASE step \in {"TransferBundle", "WriteMachineConfiguration"} -> 4
      [] step = "InstallPackage" -> 3
      [] step \in {"MintReaderIdentity", "ActivateController"} -> 2
      [] step \in {"AssociateApp", "Preflight"} -> 0
      [] OTHER -> 1

MaxExecChannels == 4
ObservationChannels == 3

SumOver(f, n) == LET total[i \in 0..n] == IF i = 0 THEN 0 ELSE total[i - 1] + f[i] IN total[n]

(* Mutant: the channel that drops the credential is not counted. *)
ChannelBudgetOfSteps(actions) ==
    LET steps == AuthorizedStepsFor(actions)
        opened == SumOver([i \in 1..Len(steps) |-> ChannelsFor(steps[i])], Len(steps))
    IN IF opened = 0 THEN 0 ELSE MaxExecChannels + ObservationChannels + opened

\* channel_budget: the proof, the observation, the steps and the dropped credential.
ChannelBudget(actions) ==
    LET steps == AuthorizedStepsFor(actions)
        opened == SumOver([i \in 1..Len(steps) |-> ChannelsFor(steps[i])], Len(steps))
    IN IF opened = 0 THEN 0 ELSE MaxExecChannels + ObservationChannels + opened + 1

\* may_adopt_budget: the same budget again, or the first one on an unspent session.
MayAdoptBudget(spent, current, requested) ==
    current = requested \/ (spent = 0 /\ current = MaxExecChannels)

ConstatFor(step) ==
    CASE step = "InstallPackage" -> <<"package">>
      [] step = "MintReaderIdentity" -> <<"nodes">>
      [] step = "ActivateController" -> <<"unit">>
      [] OTHER -> <<>>

CoveredBy(constat) ==
    CASE constat = "package" -> {"InstallPackage"}
      [] constat = "unit" -> {"ActivateController"}
      [] OTHER -> {"WriteMachineConfiguration", "CreateState", "InstallCredentialSources",
                   "MintReaderIdentity"}

\* The deposits of a step: made as the administrator, not elevated.
Deposits(step) ==
    CASE step = "TransferBundle" -> <<"mkdir", "put-bundle", "size", "digest">>
      [] step = "WriteMachineConfiguration" -> <<"put-configuration", "size", "digest">>
      [] OTHER -> <<>>

\* The channels drive really opens for a step, in order.
Program(step) == Deposits(step) \o Acts(step) \o ConstatFor(step)

-----------------------------------------------------------------------------
(* What is on the target, and the readings of it.                          *)

Items == {"staging", "bundle", "staged-configuration", "package", "configuration", "state",
          "sources", "authority", "reader", "unit"}

\* What an operation writes when it does what it is for.
Writes(op) ==
    CASE op = "mkdir" -> {"staging"}
      [] op = "put-bundle" -> {"bundle"}
      [] op = "put-configuration" -> {"staged-configuration"}
      [] op = "dpkg" -> {"package"}
      [] op = "place-configuration" -> {"configuration"}
      [] op = "create-state" -> {"state"}
      [] op = "create-sources" -> {"sources"}
      [] op = "controller-init" -> {"authority"}
      [] op = "mint-reader" -> {"reader"}
      [] op = "enable-unit" -> {"unit"}
      [] OTHER -> {}

Measured(step) == IF step = "TransferBundle" THEN "bundle" ELSE "staged-configuration"

\* deposited: the three answers of a deposit, judged together once all are in.
Deposited(readings) ==
    FirstRefusal(<< <<readings[1] # "done", "DepositFailed">>,
                    <<readings[2] = "failed", "MeasurementFailed">>,
                    <<readings[2] # "right", "StagedSizeMismatch">>,
                    <<readings[3] = "failed", "MeasurementFailed">>,
                    <<readings[3] # "right", "StagedDigestMismatch">> >>)

\* package::read and posed: installed, whole and at the version of the bundle.
Posed(exit, package) ==
    FirstRefusal(<< <<exit # "done" /\ package # "absent", "QueryFailed">>,
                    <<package = "absent", "NotInstalled">>,
                    <<package # "right", "UnexpectedVersion">> >>)

(* Mutant: a node that is there is taken for a right one. *)
OwnedPresent(exit, target) ==
    FirstRefusal(<< <<exit = "garbled", "ReadingUnreadable">>,
                    <<\E n \in {"configuration", "state", "sources", "reader"} :
                          target[n] = "absent", "Missing">> >>)

\* nodes::owned, over the four kinds of nodes it expects; its exit is not read.
Owned(exit, target) ==
    FirstRefusal(<< <<exit = "garbled", "ReadingUnreadable">>,
                    <<\E n \in {"configuration", "state", "sources", "reader"} :
                          target[n] = "absent", "Missing">>,
                    <<\E n \in {"configuration", "state", "sources", "reader"} :
                          target[n] # "right", "WrongOwnerKindOrMode">> >>)

\* unit::running: active, running and isolated as declared.
Running(exit, unit) ==
    FirstRefusal(<< <<exit # "done", "ReadingUnreadable">>, <<unit = "absent", "NotRunning">>,
                    <<unit # "right", "IsolationDiverged">> >>)

Constate(constat, exit, target) ==
    CASE constat = "package" -> Posed(exit, target["package"])
      [] constat = "unit" -> Running(exit, target["unit"])
      [] OTHER -> Owned(exit, target)

\* identity.rs: the act's own output names canonical identifiers.
IdentityOutput(step, output) ==
    step \in {"InitialiseController", "MintReaderIdentity"} /\ output # "canonical"

-----------------------------------------------------------------------------
(* rollback.rs and record_step: the ledger.                                *)

Entry(item, provenance) == [item |-> item, provenance |-> provenance]

RecordStep(step, provenance) ==
    CASE step = "InstallPackage" -> <<Entry("package", provenance)>>
      [] step = "WriteMachineConfiguration" -> <<Entry("configuration", provenance)>>
      [] step = "CreateState" -> <<Entry("state", provenance)>>
      [] step = "InstallCredentialSources" -> <<Entry("sources", provenance)>>
      [] step = "InitialiseController" -> <<Entry("authority", provenance)>>
      [] step = "MintReaderIdentity" -> <<Entry("reader", provenance)>>
      [] step = "ActivateController" -> <<Entry("unit", provenance)>>
      [] OTHER -> <<>>

\* The records of the steps of a list that are in a set, in the list's order.
RecordSteps(steps, among, provenance) ==
    LET records[i \in 0..Len(steps)] ==
            IF i = 0 THEN <<>>
            ELSE records[i - 1] \o (IF steps[i] \in among THEN RecordStep(steps[i], provenance)
                                    ELSE <<>>)
    IN records[Len(steps)]

\* The steps of a list that a reading does not cover, which go on waiting.
StillPending(steps, covered) ==
    LET left[i \in 0..Len(steps)] ==
            IF i = 0 THEN <<>>
            ELSE left[i - 1] \o (IF steps[i] \in covered THEN <<>> ELSE <<steps[i]>>)
    IN left[Len(steps)]

(* Mutant: whatever was not found is taken back, the unknown items too. *)
UnwindUnknown(ledger) ==
    LET taken[i \in 0..Len(ledger)] ==
            IF i = 0 THEN <<>>
            ELSE (IF ledger[i].provenance # "found" THEN <<ledger[i].item>> ELSE <<>>)
                 \o taken[i - 1]
    IN [complete |-> \A i \in DOMAIN ledger : ledger[i].provenance # "unknown",
        removals |-> taken[Len(ledger)]]

\* unwind: the created items, last first; incomplete as soon as one is unknown.
Unwind(ledger) ==
    LET taken[i \in 0..Len(ledger)] ==
            IF i = 0 THEN <<>>
            ELSE (IF ledger[i].provenance = "created" THEN <<ledger[i].item>> ELSE <<>>)
                 \o taken[i - 1]
    IN [complete |-> \A i \in DOMAIN ledger : ledger[i].provenance # "unknown",
        removals |-> taken[Len(ledger)]]

-----------------------------------------------------------------------------
(* What the assistant carries: bundle.rs, embedded.rs, configuration.rs.   *)

\* embedded::read at the attested position, then bundle::verify.
Carried(c) == c.position = "attested" /\ c.files = "all"

VerifyBundle(c) ==
    FirstRefusal(<< <<c.large, "TooLarge">>, <<~c.signed, "SignatureNotByAnchor">>,
                    <<~c.readable, "ManifestUnreadable">>,
                    <<c.target # "supported", "UnsupportedTarget">>,
                    <<c.version # "expected", "UnexpectedVersion">>,
                    <<~c.digest, "DigestMismatch">> >>)

\* compose, of values the scope has already bounded: an equals sign is refused
\* only here.
Compose(configuration) ==
    FirstRefusal(<< <<configuration = "empty", "EmptyValue">>,
                    <<configuration = "equals", "UnrepresentableValue">> >>)
=============================================================================
