-------------------------- MODULE PlanConfirmation --------------------------
(***************************************************************************)
(* What a human is shown of a plan, and what makes a window's frame valid. *)
(* A line is the fixed texts it is made of, the value of the document it   *)
(* carries and the columns that value takes; the two digests close the     *)
(* list. The frame bounds the lines, the bytes of each and, folded at 72   *)
(* columns, what the window has to display.                                *)
(***************************************************************************)
EXTENDS PlanDocuments

MaxLines == 24
(* Mutant: a line is bounded by what it carries, its label left out. *)
MaxLineBytesUnlabelled == 255
MaxLineBytes == 384
FoldColumns == 72
MaxFoldedLines == 32
DigestColumns == 64
PeerKeyColumns == 44

\* The fixed texts, each with the characters and the bytes it takes.
TextWidths ==
    [machine |-> <<10, 10>>, operation |-> <<12, 13>>, profile |-> <<20, 20>>,
     defined |-> <<17, 18>>, image |-> <<8, 8>>, image_digest |-> <<27, 29>>,
     local_port |-> <<23, 23>>, origin |-> <<18, 18>>, volume |-> <<60, 60>>,
     signups |-> <<45, 47>>, invitations |-> <<49, 51>>, password_hint |-> <<48, 50>>,
     domain |-> <<39, 41>>, egress |-> <<127, 130>>, public_ports |-> <<56, 58>>,
     sysctl |-> <<106, 111>>, published |-> <<13, 14>>, backend |-> <<26, 26>>,
     opener_policy |-> <<61, 64>>, embedder_policy |-> <<64, 67>>,
     link_backend |-> <<61, 63>>, outage |-> <<116, 122>>, slot |-> <<14, 14>>,
     immutable |-> <<105, 112>>, recreated |-> <<133, 141>>, restored |-> <<23, 24>>,
     return |-> <<108, 114>>, revision |-> <<28, 30>>, no_origin |-> <<76, 78>>,
     carried_origin |-> <<76, 78>>, decides |-> <<182, 190>>, rollback |-> <<13, 13>>,
     plan_sha256 |-> <<20, 20>>, rollback_sha256 |-> <<24, 24>>, role |-> <<15, 16>>,
     tunnel |-> <<58, 60>>, listen |-> <<53, 59>>, keepalive |-> <<44, 46>>, keys |-> <<68, 76>>,
     peer |-> <<23, 24>>, service_port |-> <<18, 18>>, flow_to |-> <<58, 61>>,
     table |-> <<78, 81>>, endpoint |-> <<23, 23>>, flow_from |-> <<72, 75>>]

RoleWidths == [listener |-> <<47, 51>>, initiator |-> <<51, 53>>]

OperationWidths ==
    [deploy_web_service |-> <<40, 41>>, remove_web_service |-> <<39, 39>>,
     deploy_entrypoint |-> <<33, 37>>, remove_entrypoint |-> <<32, 35>>,
     publish_route |-> <<25, 27>>, retire_route |-> <<25, 27>>,
     deploy_private_service |-> <<35, 39>>, remove_private_service |-> <<34, 37>>,
     publish_link_route |-> <<33, 34>>, retire_link_route |-> <<33, 34>>,
     snapshot_service |-> <<40, 42>>, discard_snapshot |-> <<25, 29>>,
     restore_service |-> <<38, 40>>, deploy_user_service |-> <<31, 32>>,
     remove_user_service |-> <<30, 30>>]
LinkOperationWidths ==
    [prepare_link |-> <<39, 41>>, withdraw_link |-> <<38, 39>>, attach_link_peer |-> <<37, 40>>,
     detach_link_peer |-> <<38, 42>>, join_link_peer |-> <<35, 37>>, leave_link_peer |-> <<35, 37>>]
ProbeOperationWidths == [deploy_oci_probe |-> <<31, 32>>, remove_oci_probe |-> <<30, 30>>]

ScopeWidths ==
    [WebService |-> <<66, 70>>, Entrypoint |-> <<36, 38>>, Route |-> <<48, 51>>,
     PrivateService |-> <<83, 88>>, LinkRoute |-> <<48, 51>>, Snapshot |-> <<58, 61>>,
     Restore |-> <<88, 95>>, UserService |-> <<105, 113>>]
LinkScopeWidths ==
    [Link |-> <<35, 38>>, ListenerPeer |-> <<49, 52>>, InitiatorPeer |-> <<67, 71>>]
ProbeScopeWidths == [OciProbe |-> <<50, 53>>]

WidthOf(text) ==
    LET tables == {TextWidths, RoleWidths, OperationWidths, LinkOperationWidths,
                   ProbeOperationWidths, ScopeWidths, LinkScopeWidths, ProbeScopeWidths}
        table == CHOOSE t \in tables : text \in DOMAIN t
    IN table[text]

-----------------------------------------------------------------------------
(* The lines of each group.                                                *)

Line(texts, value, columns) == [texts |-> texts, value |-> value, columns |-> columns]
Fixed(text) == Line(<<text>>, "", 0)
Saying(text, value) == Line(<<text>>, value, Len(value))
Counting(text, port) == Saying(text, ToString(port))

\* Two ports are not written alike.
ASSUME NumeralsAreApart == Cardinality({ToString(port) : port \in Ports}) = Cardinality(Ports)

Fingerprint(text, digest) == Line(<<text>>, digest, DigestColumns)

\* service_name_line: a slug of a definition is not a profile of the product.
ServiceNameLine(profile) ==
    Saying(IF profile \in {"bentopdf", "vaultwarden"} THEN "profile" ELSE "defined", profile)

ImageLines(d) ==
    <<Saying("image", Joined(d.image_reference, "/")), Fingerprint("image_digest", d.image_digest)>>

WebServiceLines(d) ==
    <<ServiceNameLine(d.service_profile)>> \o ImageLines(d) \o <<Counting("local_port", d.local_port)>>
EntrypointLines(d) == ImageLines(d) \o <<Fixed("public_ports"), Fixed("sysctl")>>
RouteLines(d) ==
    <<Saying("published", d.route_host), Counting("backend", d.backend_port),
      Fixed("opener_policy"), Fixed("embedder_policy")>>
PrivateServiceLines(d) ==
    <<ServiceNameLine(d.service_profile)>> \o ImageLines(d)
    \o <<Counting("local_port", d.local_port), Saying("origin", d.origin_host), Fixed("volume"),
         Fixed("signups"), Fixed("invitations"), Fixed("password_hint"),
         Saying("domain", d.origin_host), Fixed("egress")>>
LinkRouteLines(d) ==
    <<Saying("published", d.route_host), Counting("link_backend", d.backend_port), Fixed("outage")>>
SnapshotLines(d) ==
    <<ServiceNameLine(d.service_profile), Saying("slot", d.snapshot_slot),
      Fixed(IF d.operation = "snapshot_service" THEN "immutable" ELSE "recreated")>>
RestoreLines(d) ==
    <<ServiceNameLine(d.service_profile), Saying("restored", d.snapshot_slot), Fixed("return")>>
(* Mutant: the revision of the definition is not displayed. *)
UserServiceLinesUnrevised(d) ==
    <<Saying("defined", d.definition_slug)>> \o ImageLines(d)
    \o <<Counting("local_port", d.local_port), Saying("carried_origin", d.origin_host),
         Fixed("decides")>>
UserServiceLines(d) ==
    <<Saying("defined", d.definition_slug), Fingerprint("revision", d.definition_digest)>>
    \o ImageLines(d)
    \o <<Counting("local_port", d.local_port),
         IF d.origin_host = "" THEN Fixed("no_origin") ELSE Saying("carried_origin", d.origin_host),
         Fixed("decides")>>
OciProbeLines(d) == ImageLines(d) \o <<Counting("local_port", d.local_port)>>
LinkLines(d) ==
    <<Line(<<"role", d.link_role>>, "", 0), Line(<<"tunnel">>, d.link_role, 0),
      Fixed(IF d.link_role = "listener" THEN "listen" ELSE "keepalive"), Fixed("keys")>>
ListenerPeerLines(d) ==
    <<Line(<<"peer">>, d.peer_public_key, PeerKeyColumns), Counting("service_port", d.service_port),
      Counting("flow_to", d.service_port), Fixed("table")>>
InitiatorPeerLines(d) ==
    <<Line(<<"peer">>, d.peer_public_key, PeerKeyColumns), Saying("endpoint", d.peer_endpoint_host),
      Counting("service_port", d.service_port), Fixed("flow_from"), Fixed("table")>>

GroupLines(d) ==
    LET group == GroupOf(d)
    IN CASE group = "OciProbe" -> OciProbeLines(d) [] group = "WebService" -> WebServiceLines(d)
         [] group = "Entrypoint" -> EntrypointLines(d) [] group = "Route" -> RouteLines(d)
         [] group = "PrivateService" -> PrivateServiceLines(d)
         [] group = "LinkRoute" -> LinkRouteLines(d) [] group = "Snapshot" -> SnapshotLines(d)
         [] group = "Restore" -> RestoreLines(d) [] group = "UserService" -> UserServiceLines(d)
         [] group = "Link" -> LinkLines(d) [] group = "ListenerPeer" -> ListenerPeerLines(d)
         [] group = "InitiatorPeer" -> InitiatorPeerLines(d)

OpeningLines(plan) ==
    <<Saying("machine", plan.machine_id), Line(<<"operation", plan.operation>>, "", 0)>>
ClosingLines(plan, rollback) ==
    <<Line(<<"rollback", rollback.operation, GroupOf(rollback)>>, "", 0),
      Fingerprint("plan_sha256", Digest(plan)), Fingerprint("rollback_sha256", Digest(rollback))>>
ConfirmationLines(plan, rollback) ==
    OpeningLines(plan) \o GroupLines(plan) \o ClosingLines(plan, rollback)

-----------------------------------------------------------------------------
(* The panel of a definition, before it is frozen: what the machine will   *)
(* receive. The account, the home and the data root are the slug's.        *)

Each(text, values) == [i \in DOMAIN values |-> Saying(text, values[i])]
FirstUnprivilegedPort == 1024

MountLines(d) ==
    (IF d.volumes = <<>> THEN <<Fixed("keeps_nothing")>> ELSE Each("volume_kept", PathTexts(d.volumes)))
    \o Each("tmpfs_lost", PathTexts(d.tmpfs))

(* Mutant: the lines of the environment are not shown. *)
SheetLinesBare(d) ==
    <<Counting("publish_port", d.container_port), Fixed("hardening")>>
    \o Each("sheet_tmpfs", PathTexts(d.tmpfs))
    \o (IF d.secret_keys = <<>> THEN <<>> ELSE <<Fixed("environment_file")>>)
    \o (IF d.container_port < FirstUnprivilegedPort THEN <<Fixed("low_port")>> ELSE <<>>)
SheetLines(d) ==
    <<Counting("publish_port", d.container_port), Fixed("hardening")>>
    \o Each("sheet_environment", LineTexts(d.environment))
    \o Each("sheet_tmpfs", PathTexts(d.tmpfs))
    \o (IF d.secret_keys = <<>> THEN <<>> ELSE <<Fixed("environment_file")>>)
    \o (IF d.container_port < FirstUnprivilegedPort THEN <<Fixed("low_port")>> ELSE <<>>)

SecretLines(d) ==
    IF d.secret_keys = <<>> THEN <<Fixed("no_secret")>>
    ELSE Each("secret", d.secret_keys) \o <<Fixed("secrets_stay")>>

DefinitionLines(d) ==
    <<Saying("defined", d.slug), Fingerprint("revision_to_freeze", DefinitionDigest(d)),
      Fixed("freezing_keeps"), Fixed("freezing_deploys_nothing"), Saying("account", d.slug),
      Saying("home", d.slug), Saying("repository", Joined(d.image_repository, "/")),
      Fixed("executed_image")>>
    \o MountLines(d) \o SheetLines(d)
    \o <<Fixed(IF InterpolatesOriginHost(d) THEN "needs_origin" ELSE "takes_no_origin")>>
    \o SecretLines(d) \o <<Fixed("egress_refused")>>
    \o (IF d.volumes = <<>> THEN <<Fixed("nothing_archived")>>
         ELSE <<Fixed("whole_root_archived"), Fixed("secrets_not_archived")>>)
    \o <<Fixed("next_revision"), Fingerprint("definition_sha256", DefinitionDigest(d))>>

-----------------------------------------------------------------------------
(* approval_consent.rs: the frame.                                         *)

\* unit 1 is characters, unit 2 bytes; a value is ASCII.
LineWidth(line, unit) ==
    FoldLeft(LAMBDA n, text : n + WidthOf(text)[unit], line.columns, line.texts)

FoldedLineCount(lines) ==
    FoldLeft(LAMBDA n, line : n + Max({1, (LineWidth(line, 1) + FoldColumns - 1) \div FoldColumns}),
             0, lines)

ValidConfirmationLines(lines, plan_sha256, rollback_sha256) ==
    /\ Len(lines) \in 3..MaxLines
    /\ \A i \in DOMAIN lines : LineWidth(lines[i], 2) \in 1..MaxLineBytes
    /\ FoldedLineCount(lines) <= MaxFoldedLines
    /\ lines[Len(lines) - 1].value = plan_sha256 /\ lines[Len(lines)].value = rollback_sha256

Consent(request, plan, rollback) ==
    [request |-> request, infrastructure |-> plan.infrastructure_id, machine |-> plan.machine_id,
     operation |-> plan.operation, plan_sha256 |-> Digest(plan),
     rollback_sha256 |-> Digest(rollback), lines |-> ConfirmationLines(plan, rollback)]

\* validate, for a request whose window has not lapsed.
ValidConsent(c) ==
    /\ c.infrastructure \in Infrastructures /\ CanonicalMachineId(c.machine)
    /\ c.plan_sha256 # c.rollback_sha256
    /\ ValidConfirmationLines(c.lines, c.plan_sha256, c.rollback_sha256)

Outcomes == {"confirmed", "refused", "cancelled", "expired", "unavailable"}
Nothing == <<>>

\* confirmed and without_confirmation: only a confirmation names a pair.
Outcome(c, kind) ==
    [request |-> c.request, kind |-> kind,
     plan_sha256 |-> IF kind = "confirmed" THEN c.plan_sha256 ELSE Nothing,
     rollback_sha256 |-> IF kind = "confirmed" THEN c.rollback_sha256 ELSE Nothing]

ValidOutcome(o) ==
    LET pair == o.plan_sha256 # Nothing /\ o.rollback_sha256 # Nothing /\ o.plan_sha256 # o.rollback_sha256
        none == o.plan_sha256 = Nothing /\ o.rollback_sha256 = Nothing
    IN (o.kind = "confirmed") = pair /\ (o.kind = "confirmed") # none

ConsentConfirms(c, o) ==
    /\ o.request = c.request /\ ValidOutcome(o) /\ o.kind = "confirmed"
    /\ o.plan_sha256 = c.plan_sha256 /\ o.rollback_sha256 = c.rollback_sha256
=============================================================================
