---------------------------- MODULE PlanDocuments ----------------------------
(***************************************************************************)
(* The plans a human approves. A document of schema 1, 2 or 3 names an     *)
(* infrastructure, a machine, an operation and the fields of the           *)
(* operation's group, and nothing else; its digest is taken over a         *)
(* transcript of the whole of it; its rollback is the document that undoes *)
(* it. A document is the record of its fields, so a field that is missing  *)
(* or unknown shows in its domain.                                         *)
(*                                                                         *)
(* A digest held in a field (of an image, of a definition) and a peer's    *)
(* public key are names of canonical values of their one length; any other *)
(* text in their place does not decode.                                    *)
(***************************************************************************)
EXTENDS ServiceDefinitions

CONSTANTS
    Infrastructures,  \* canonical infrastructure identifiers
    HexDigests,       \* canonical SHA-256 values held in a field
    PeerKeys          \* canonical WireGuard public keys

-----------------------------------------------------------------------------
(* Operations.                                                             *)

GroupV1 == [deploy_oci_probe |-> "OciProbe", remove_oci_probe |-> "OciProbe"]
GroupV2 ==
    [deploy_web_service |-> "WebService", remove_web_service |-> "WebService",
     deploy_entrypoint |-> "Entrypoint", remove_entrypoint |-> "Entrypoint",
     publish_route |-> "Route", retire_route |-> "Route",
     deploy_private_service |-> "PrivateService", remove_private_service |-> "PrivateService",
     publish_link_route |-> "LinkRoute", retire_link_route |-> "LinkRoute",
     snapshot_service |-> "Snapshot", discard_snapshot |-> "Snapshot",
     restore_service |-> "Restore",
     deploy_user_service |-> "UserService", remove_user_service |-> "UserService"]
GroupV3 ==
    [prepare_link |-> "Link", withdraw_link |-> "Link",
     attach_link_peer |-> "ListenerPeer", detach_link_peer |-> "ListenerPeer",
     join_link_peer |-> "InitiatorPeer", leave_link_peer |-> "InitiatorPeer"]

GroupsOf(schema) == CASE schema = 1 -> GroupV1 [] schema = 2 -> GroupV2 [] schema = 3 -> GroupV3
GroupOf(d) == GroupsOf(d.schema_version)[d.operation]

\* inverse: the other operation of the group, and a restoration's is itself.
InverseOperation(schema, operation) ==
    LET groups == GroupsOf(schema)
        others == {o \in DOMAIN groups : groups[o] = groups[operation]} \ {operation}
    IN IF others = {} THEN operation ELSE CHOOSE o \in others : TRUE

-----------------------------------------------------------------------------
(* The fields of each group.                                               *)

HeadFields == {"schema_version", "infrastructure_id", "machine_id", "operation"}
OciProbeFields == {"image_reference", "image_digest", "local_port"}
WebServiceFields == {"service_profile", "image_reference", "image_digest", "local_port"}
EntrypointFields == {"image_reference", "image_digest"}
RouteFields == {"route_host", "backend_port"}
PrivateServiceFields ==
    {"service_profile", "image_reference", "image_digest", "local_port", "origin_host"}
LinkRouteFields == {"route_host", "backend_port"}
SnapshotFields == {"service_profile", "snapshot_slot"}
RestoreFields == {"service_profile", "snapshot_slot"}
UserServiceFields ==
    {"definition_slug", "definition_digest", "image_reference", "image_digest", "local_port",
     "origin_host"}
LinkFields == {"link_role"}
ListenerPeerFields == {"peer_public_key", "service_port"}
InitiatorPeerFields == {"peer_public_key", "peer_endpoint_host", "service_port"}

FieldsOf(group) ==
    CASE group = "OciProbe" -> OciProbeFields [] group = "WebService" -> WebServiceFields
      [] group = "Entrypoint" -> EntrypointFields [] group = "Route" -> RouteFields
      [] group = "PrivateService" -> PrivateServiceFields [] group = "LinkRoute" -> LinkRouteFields
      [] group = "Snapshot" -> SnapshotFields [] group = "Restore" -> RestoreFields
      [] group = "UserService" -> UserServiceFields [] group = "Link" -> LinkFields
      [] group = "ListenerPeer" -> ListenerPeerFields
      [] group = "InitiatorPeer" -> InitiatorPeerFields

-----------------------------------------------------------------------------
(* What a field may hold.                                                  *)

MinPlanPort == 1024
MaxPlanPort == 65535
Ports == MinPlanPort..MaxPlanPort
Pinned(reference, digest) == [reference |-> reference, digest |-> digest]
ProbeImage == Pinned(<<"docker.io", "traefik", "whoami">>, "probe image")
BentoPdfImage == Pinned(<<"ghcr.io", "alam00000", "bentopdf">>, "bentopdf image")
EntrypointImage == Pinned(<<"docker.io", "library", "traefik">>, "entrypoint image")
VaultwardenImage == Pinned(<<"docker.io", "vaultwarden", "server">>, "vaultwarden image")

PinnedImageMatches(d, image) ==
    d.image_reference = image.reference /\ d.image_digest = image.digest

CanonicalMachineId(machine) ==
    /\ Len(machine) \in 3..63
    /\ First(machine) \in Alphanumeric
    /\ InText(machine) \subseteq Alphanumeric \union {"-"}

CanonicalHost(host) ==
    /\ Len(host) \in 3..253
    /\ First(host) \in Alphanumeric /\ Final(host) \in Alphanumeric
    /\ InText(host) \subseteq Alphanumeric \union {"-", "."}
    /\ \A i \in 1..(Len(host) - 1) : SubSeq(host, i, i + 1) # ".."

CanonicalPeerEndpointHost(host) == CanonicalHost(host)
CanonicalUserServiceOrigin(origin) == origin = "" \/ CanonicalHost(origin)

CanonicalSlot(slot) ==
    /\ Len(slot) \in 1..32
    /\ First(slot) \in Alphanumeric
    /\ InText(slot) \subseteq Alphanumeric \union {"-"}

ReservedSlot == "previous"
ArchivesData(profile) == profile = "vaultwarden" \/ CanonicalDefinitionSlug(profile)
DecodesPeerKey(key) == key \in PeerKeys

OciProbeHolds(d) == PinnedImageMatches(d, ProbeImage) /\ d.local_port \in Ports
WebServiceHolds(d) ==
    d.service_profile = "bentopdf" /\ PinnedImageMatches(d, BentoPdfImage) /\ d.local_port \in Ports
EntrypointHolds(d) == PinnedImageMatches(d, EntrypointImage)
RouteHolds(d) == CanonicalHost(d.route_host) /\ d.backend_port \in Ports
PrivateServiceHolds(d) ==
    /\ d.service_profile = "vaultwarden" /\ PinnedImageMatches(d, VaultwardenImage)
    /\ d.local_port \in Ports /\ CanonicalHost(d.origin_host)
LinkRouteHolds(d) == CanonicalHost(d.route_host) /\ d.backend_port \in Ports
SnapshotHolds(d) ==
    /\ ArchivesData(d.service_profile) /\ CanonicalSlot(d.snapshot_slot)
    /\ d.snapshot_slot # ReservedSlot
RestoreHolds(d) == ArchivesData(d.service_profile) /\ CanonicalSlot(d.snapshot_slot)
UserServiceHolds(d) ==
    /\ CanonicalDefinitionSlug(d.definition_slug) /\ d.definition_digest \in HexDigests
    /\ CanonicalImageRepository(d.image_reference) /\ d.image_digest \in HexDigests
    /\ d.local_port \in Ports /\ CanonicalUserServiceOrigin(d.origin_host)
LinkHolds(d) == d.link_role \in {"listener", "initiator"}
ListenerPeerHolds(d) == DecodesPeerKey(d.peer_public_key) /\ d.service_port \in Ports
InitiatorPeerHolds(d) ==
    /\ DecodesPeerKey(d.peer_public_key) /\ CanonicalPeerEndpointHost(d.peer_endpoint_host)
    /\ d.service_port \in Ports

GroupHolds(d) ==
    LET group == GroupOf(d)
    IN CASE group = "OciProbe" -> OciProbeHolds(d) [] group = "WebService" -> WebServiceHolds(d)
         [] group = "Entrypoint" -> EntrypointHolds(d) [] group = "Route" -> RouteHolds(d)
         [] group = "PrivateService" -> PrivateServiceHolds(d)
         [] group = "LinkRoute" -> LinkRouteHolds(d) [] group = "Snapshot" -> SnapshotHolds(d)
         [] group = "Restore" -> RestoreHolds(d) [] group = "UserService" -> UserServiceHolds(d)
         [] group = "Link" -> LinkHolds(d) [] group = "ListenerPeer" -> ListenerPeerHolds(d)
         [] group = "InitiatorPeer" -> InitiatorPeerHolds(d)

HeadHolds(d) == d.infrastructure_id \in Infrastructures /\ CanonicalMachineId(d.machine_id)

(***************************************************************************)
(* decode: the operation is read first and chooses the shape; the document *)
(* then has that shape exactly, an origin that is left out of a user       *)
(* service's being the empty one; and every field holds.                   *)
(***************************************************************************)
Defaulted(json) ==
    IF GroupOf(json) = "UserService" /\ "origin_host" \notin DOMAIN json
    THEN [f \in DOMAIN json \union {"origin_host"} |-> IF f = "origin_host" THEN "" ELSE json[f]]
    ELSE json
DeclaredOperation(schema, json) ==
    /\ HeadFields \subseteq DOMAIN json /\ json.schema_version = schema
    /\ json.operation \in DOMAIN GroupsOf(schema)
Decoded(schema, json) ==
    /\ DeclaredOperation(schema, json)
    /\ DOMAIN Defaulted(json) = HeadFields \union FieldsOf(GroupOf(json))
    /\ HeadHolds(json) /\ GroupHolds(Defaulted(json))

-----------------------------------------------------------------------------
(* The transcript. A port is four bytes, without a length.                 *)

DecodedDigest(digest) == <<32, digest>>
DecodedKey(key) == <<32, key>>
Repository(reference) == AppendField(Joined(reference, "/"))

HeadTranscript(domain, d) ==
    <<domain, d.schema_version>> \o AppendField(d.infrastructure_id) \o AppendField(d.machine_id)
    \o AppendField(d.operation)
HeadV1(d) == HeadTranscript("your-cloud/oci-plan.v1", d)
HeadV2(d) == HeadTranscript("your-cloud/oci-plan.v2", d)
HeadV3(d) == HeadTranscript("your-cloud/oci-plan.v3", d)

OciProbeTail(d) ==
    Repository(d.image_reference) \o DecodedDigest(d.image_digest) \o <<d.local_port>>
WebServiceTail(d) ==
    AppendField(d.service_profile) \o Repository(d.image_reference)
    \o DecodedDigest(d.image_digest) \o <<d.local_port>>
EntrypointTail(d) == Repository(d.image_reference) \o DecodedDigest(d.image_digest)
RouteTail(d) == AppendField(d.route_host) \o <<d.backend_port>>
PrivateServiceTail(d) ==
    AppendField(d.service_profile) \o Repository(d.image_reference)
    \o DecodedDigest(d.image_digest) \o <<d.local_port>> \o AppendField(d.origin_host)
LinkRouteTail(d) == AppendField(d.route_host) \o <<d.backend_port>>
SnapshotTail(d) == AppendField(d.service_profile) \o AppendField(d.snapshot_slot)
RestoreTail(d) == AppendField(d.service_profile) \o AppendField(d.snapshot_slot)
UserServiceTail(d) ==
    AppendField(d.definition_slug) \o DecodedDigest(d.definition_digest)
    \o Repository(d.image_reference) \o DecodedDigest(d.image_digest)
    \o <<d.local_port>> \o AppendField(d.origin_host)
LinkTail(d) == AppendField(d.link_role)
ListenerPeerTail(d) == DecodedKey(d.peer_public_key) \o <<d.service_port>>
InitiatorPeerTail(d) ==
    DecodedKey(d.peer_public_key) \o AppendField(d.peer_endpoint_host) \o <<d.service_port>>

TranscriptV1(d) == HeadV1(d) \o OciProbeTail(d)
TranscriptV2(d) ==
    LET group == GroupOf(d)
    IN HeadV2(d) \o
       CASE group = "WebService" -> WebServiceTail(d) [] group = "Entrypoint" -> EntrypointTail(d)
         [] group = "Route" -> RouteTail(d) [] group = "PrivateService" -> PrivateServiceTail(d)
         [] group = "LinkRoute" -> LinkRouteTail(d) [] group = "Snapshot" -> SnapshotTail(d)
         [] group = "Restore" -> RestoreTail(d) [] group = "UserService" -> UserServiceTail(d)
TranscriptV3(d) ==
    LET group == GroupOf(d)
    IN HeadV3(d) \o
       CASE group = "Link" -> LinkTail(d) [] group = "ListenerPeer" -> ListenerPeerTail(d)
         [] group = "InitiatorPeer" -> InitiatorPeerTail(d)

\* SHA-256 is taken to be injective.
Digest(d) ==
    CASE d.schema_version = 1 -> TranscriptV1(d)
      [] d.schema_version = 2 -> TranscriptV2(d)
      [] d.schema_version = 3 -> TranscriptV3(d)

\* verify_plan_document and its two siblings.
VerifiedV1(json, digest) == Decoded(1, json) /\ TranscriptV1(json) = digest
VerifiedV2(json, digest) == Decoded(2, json) /\ TranscriptV2(Defaulted(json)) = digest
VerifiedV3(json, digest) == Decoded(3, json) /\ TranscriptV3(json) = digest

-----------------------------------------------------------------------------
(* Undoing.                                                                *)

RestoreInverted(d) == [d EXCEPT !.snapshot_slot = ReservedSlot]
Inverted(d) ==
    IF GroupOf(d) = "Restore" THEN RestoreInverted(d)
    ELSE [d EXCEPT !.operation = InverseOperation(d.schema_version, @)]
IsUndoneBy(plan, rollback) == Inverted(plan) = rollback
=============================================================================
