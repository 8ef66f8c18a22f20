----------------------------- MODULE MCDocuments -----------------------------
(* Documents of every group, at the edges of what their fields may hold.   *)
EXTENDS PlanApproval

Long == "xxxxxxxxxxxxxxxxxxxxxxxxxxxxxxxxxxxxxxxxxxxxxxxxxxxxxxxxxxxxxxxx"
Longer == Long \o Long \o Long \o Long
Start(text, n) == SubSeq(text, 1, n)

With(d, field, value) ==
    [f \in DOMAIN d \union {field} |-> IF f = field THEN value ELSE d[f]]
Without(d, field) == [f \in DOMAIN d \ {field} |-> d[f]]

PlanHead(schema, operation) ==
    [schema_version |-> schema, infrastructure_id |-> "own", machine_id |-> "edge",
     operation |-> operation]
Plan(schema, operation, fields) == PlanHead(schema, operation) @@ fields

Image(pinned) == [image_reference |-> pinned.reference, image_digest |-> pinned.digest]

WideMachine == Start(Long, 63)
WideHost == Start(Longer, 253)
WideRepository == <<"r.io", Start(Longer, 250)>>

UserService ==
    Plan(2, "deploy_user_service",
         [definition_slug |-> "notes", definition_digest |-> "one",
          image_reference |-> <<"docker.io", "notes">>, image_digest |-> "one",
          local_port |-> 1024, origin_host |-> ""])
Snapshot(operation, profile, slot) ==
    Plan(2, operation, [service_profile |-> profile, snapshot_slot |-> slot])

Plans ==
    {Plan(1, "deploy_oci_probe", Image(ProbeImage) @@ [local_port |-> 1024]),
     Plan(2, "deploy_web_service",
          Image(BentoPdfImage) @@ [service_profile |-> "bentopdf", local_port |-> 65535]),
     Plan(2, "remove_entrypoint", Image(EntrypointImage)),
     Plan(2, "publish_route", [route_host |-> "a.bc", backend_port |-> 1024]),
     With(Plan(2, "deploy_private_service",
               Image(VaultwardenImage)
               @@ [service_profile |-> "vaultwarden", local_port |-> 65535, origin_host |-> WideHost]),
          "machine_id", WideMachine),
     Plan(2, "retire_link_route", [route_host |-> WideHost, backend_port |-> 65535]),
     Snapshot("snapshot_service", "a", "ab"),
     Snapshot("snapshot_service", "aa", "b"),
     Snapshot("discard_snapshot", "a", "b"),
     Snapshot("restore_service", "vaultwarden", "b"),
     Snapshot("restore_service", "a", "previous"),
     UserService,
     With(UserService, "definition_digest", "other"),
     With(With(With(UserService, "origin_host", WideHost), "image_reference", WideRepository),
          "machine_id", WideMachine),
     Plan(3, "prepare_link", [link_role |-> "listener"]),
     Plan(3, "attach_link_peer", [peer_public_key |-> "peer", service_port |-> 1024]),
     Plan(3, "join_link_peer",
          [peer_public_key |-> "peer", peer_endpoint_host |-> WideHost, service_port |-> 65535])}

View(plan, plan_sha256, rollback, rollback_sha256) ==
    [schema |-> plan.schema_version, plan |-> plan, plan_sha256 |-> plan_sha256,
     rollback |-> rollback, rollback_sha256 |-> rollback_sha256]
Honest(plan, rollback) ==
    View(plan, Digest(Defaulted(plan)), rollback, Digest(Defaulted(rollback)))

\* What a Controller may say instead: another plan's digest, a rollback that does
\* not undo the plan, another infrastructure, a field too few, too many or beyond
\* its bound.
Bent ==
    LET other == With(UserService, "definition_digest", "other")
    IN {View(UserService, Digest(other), Inverted(UserService), Digest(Inverted(UserService))),
        Honest(UserService, Inverted(other)),
        Honest(UserService, UserService),
        Honest(Without(UserService, "origin_host"), Inverted(UserService))}
       \union {Honest(d, Inverted(d)) : d \in
                {With(UserService, "infrastructure_id", "foreign"),
                 With(UserService, "machine_id", Long),
                 With(UserService, "definition_slug", "probe"),
                 With(UserService, "local_port", 1023),
                 With(UserService, "service_profile", "bentopdf"),
                 With(UserService, "image_reference", <<"docker.io", "notes:1">>),
                 Snapshot("snapshot_service", "a", "previous"),
                 Snapshot("snapshot_service", "bentopdf", "b")}}

MCViews == {Honest(d, Inverted(d)) : d \in Plans} \union Bent

-----------------------------------------------------------------------------
(* Definitions.                                                            *)

Draft ==
    [slug |-> "notes", image_repository |-> <<"docker.io", "notes">>, container_port |-> 80,
     volumes |-> <<<<"", "data">>>>, tmpfs |-> <<<<"", "tmp">>>>,
     environment |-> <<<<"URL", "{origin_host}">>>>, secret_keys |-> <<"TOKEN">>]

Full ==
    [Draft EXCEPT !.environment =
        [i \in 1..16 |-> <<Start("ABCDEFGHIJKLMNOP", i), Longer \o Longer>>]]

MCDrafts ==
    {Draft, Full,
     [Draft EXCEPT !.environment = <<<<"URL", "y">>>>],
     [Draft EXCEPT !.slug = "vaultwarden"],
     [Draft EXCEPT !.slug = Start(Long, MaxSlugChars + 1)],
     [Draft EXCEPT !.image_repository = <<"docker.io", "notes:1">>],
     [Draft EXCEPT !.image_repository = <<"r.io:443", "notes">>],
     [Draft EXCEPT !.image_repository = <<"r.io:", "notes">>],
     [Draft EXCEPT !.image_repository = <<"notes">>],
     [Draft EXCEPT !.container_port = 0],
     [Draft EXCEPT !.container_port = MaxContainerPort],
     [Draft EXCEPT !.volumes = <<<<"data">>, <<"data">>>>],
     [Draft EXCEPT !.tmpfs = <<<<"", "data", "cache">>>>],
     [Draft EXCEPT !.tmpfs = <<<<"", "data-cache">>>>],
     [Draft EXCEPT !.volumes = [i \in 1..(MaxVolumes + 1) |-> <<"", Start(Long, i)>>]],
     [Draft EXCEPT !.environment = <<<<"URL">>, <<"URL">>>>],
     [Draft EXCEPT !.environment = <<<<"url", "{host}">>>>],
     [Draft EXCEPT !.environment = <<<<"URL", "{origin_host}}">>>>],
     [Draft EXCEPT !.environment = <<<<"URL", "caf\f">>>>],
     [Draft EXCEPT !.secret_keys = <<"TOKEN", "URL">>]}

Command(tokens) == [large |-> FALSE, lines |-> <<>>, tokens |-> tokens]
At(indent, key, value) == [indent |-> indent, key |-> key, value |-> value, item |-> ""]
Item(indent, text) == [indent |-> indent, key |-> "", value |-> "", item |-> text]
Compose(lines) == [large |-> FALSE, lines |-> lines, tokens |-> <<>>]

MCPastes ==
    {Command(<<"kubectl", "apply">>), Command(<<"docker", "build", ".">>),
     [large |-> TRUE, lines |-> <<>>, tokens |-> <<>>],
     Command(<<"sudo", "docker", "run", "-d", "--name", "Lab_Notes", "-p", "127.0.0.1:8080:80",
               "-v", "/opt:/srv/notes/", "-v", "data", "--tmpfs", "/tmp", "-e", "URL=a=b", "-e", "BARE",
               "--network", "host", "r.io:443/notes:1.4@sha256:f", "serve">>),
     Command(<<"podman", "create", "--env=URL=", "--expose=53/udp", "--mount", "type=bind",
               "--restart", "always", "--env-file", "x", "notes@sha256:f">>),
     Command(<<"docker", "run", "-p", "x:y", "-e">>),
     Command(<<"docker", "run", "--name", "--------", "a/b:c">>),
     Command(<<"docker", "run", "--name", "Vaultwarden", "-p", "80:80", "-v", "/data:/data",
               "docker.io/vaultwarden/server">>),
     Compose(<<At(0, "version", "3"), At(0, "services", ""), At(2, "web", ""),
               At(4, "image", "r.io/notes:1"), At(4, "ports", ""), Item(6, "8080:80"),
               Item(6, "443"), At(4, "expose", ""), Item(6, "9000"),
               At(4, "volumes", ""), Item(6, "notes:/srv"), Item(6, "notes"),
               At(4, "tmpfs", "/tmp"), At(4, "environment", ""), At(6, "URL", "x"), At(6, "BARE", ""),
               At(4, "restart", "always"), At(4, "networks", ""), Item(6, "back"),
               At(2, "a-very-long-service-name", ""), At(4, "image", "r.io/db")>>),
     Compose(<<At(0, "services", ""), At(2, "a-very-long-service-name", ""),
               At(4, "image", "r.io/a:1@sha256:f"), At(0, "volumes", ""), At(2, "data", "")>>),
     Compose(<<At(0, "services", ""), At(0, "web", "")>>)}

Entry(d) == [slug |-> d.slug, document |-> d, digest |-> DefinitionDigest(Read(d))]
Split(volumes, tmpfs) == Document([Draft EXCEPT !.volumes = volumes, !.tmpfs = tmpfs])
One == <<"", "a">>
Two == <<"", "b">>

\* The same two paths, kept or lost with the container; a list left out; a digest
\* that is another's; a name that is another's.
MCServed ==
    LET kept == Entry(Split(<<One, Two>>, <<>>))
        lost == Entry(Split(<<One>>, <<Two>>))
        bare == Entry(Document([Draft EXCEPT !.environment = <<<<"URL", "x">>>>]))
    IN {kept, lost, bare, Entry(Without(kept.document, "tmpfs")),
        [kept EXCEPT !.digest = lost.digest], [kept EXCEPT !.slug = "other"],
        Entry(Document([Draft EXCEPT !.container_port = 0]))}
=============================================================================
