------------------------- MODULE ServiceDefinitions -------------------------
(***************************************************************************)
(* The one document a user writes: a slug, an image repository, a port and *)
(* four lists. The mirror reads it twice over, once to say yes or no       *)
(* (holds_the_contract) and once to name every fault (refusals), and takes *)
(* its digest over a transcript in which each text carries its length and  *)
(* each list its count. SHA-256 is taken to be injective: a digest is the  *)
(* transcript it is taken over.                                            *)
(*                                                                         *)
(* A repository and a container path are the sequences that splitting them *)
(* at "/" gives, and an environment line the one that splitting it at its  *)
(* first "=" gives.                                                        *)
(***************************************************************************)
EXTENDS Naturals, SequencesExt

Chars(text) == [i \in 1..Len(text) |-> SubSeq(text, i, i)]
InText(text) == {SubSeq(text, i, i) : i \in 1..Len(text)}
First(text) == SubSeq(text, 1, 1)
Final(text) == SubSeq(text, Len(text), Len(text))

Alphanumeric == InText("abcdefghijklmnopqrstuvwxyz0123456789")
Uppercase == InText("ABCDEFGHIJKLMNOPQRSTUVWXYZ")
Digit == InText("0123456789")
\* The bytes 0x20 to 0x7e; a TLA+ string cannot hold the backquote, which no value
\* of the model has.
Printable ==
    Alphanumeric \union Uppercase \union InText(" !\"#$%&'()*+,-./:;<=>?@[\\]^_{|}~")

Joined(parts, mark) == FoldLeft(LAMBDA a, b : a \o mark \o b, parts[1], Tail(parts))

-----------------------------------------------------------------------------
(* The grammars.                                                           *)

MaxSlugChars == 16
MaxRepositoryBytes == 255
MaxContainerPort == 65535
MaxVolumes == 8
MaxTmpfs == 8
MaxPathBytes == 253
MaxEnvironmentLines == 32
MaxSecretKeys == 16
MaxKeyChars == 64
MaxValueBytes == 512
MaxDefinitionBytes == 8192
Placeholder == "{origin_host}"
ReservedSlugs == {"bentopdf", "vaultwarden", "probe", "entrypoint"}

CanonicalServiceSlug(slug) ==
    /\ Len(slug) \in 1..MaxSlugChars
    /\ First(slug) \in Alphanumeric
    /\ InText(slug) \subseteq Alphanumeric \union {"-"}

CanonicalDefinitionSlug(slug) == CanonicalServiceSlug(slug) /\ slug \notin ReservedSlugs

\* image_repository_names_one_image: a digest anywhere, or a tag at the end.
NamesOneImage(repository) ==
    \/ \E i \in DOMAIN repository : "@" \in InText(repository[i])
    \/ ":" \in InText(Last(repository))

\* rsplit_once(':'): the host, and the port when there is one.
ColonAt(text) == {i \in 1..Len(text) : SubSeq(text, i, i) = ":"}
HostOf(registry) ==
    IF ColonAt(registry) = {} THEN registry ELSE SubSeq(registry, 1, Max(ColonAt(registry)) - 1)
PortOf(registry) == SubSeq(registry, Len(HostOf(registry)) + 2, Len(registry))

CanonicalRegistryHost(registry) ==
    LET host == HostOf(registry)
        port == PortOf(registry)
    IN /\ ColonAt(registry) # {} => Len(port) \in 1..5 /\ InText(port) \subseteq Digit
       /\ host # "" /\ First(host) \in Alphanumeric /\ Final(host) \in Alphanumeric
       /\ InText(host) \subseteq Alphanumeric \union {".", "-"}
       /\ \A i \in 1..(Len(host) - 1) : InText(SubSeq(host, i, i + 1)) \intersect Alphanumeric # {}

CanonicalRepositoryPath(components) ==
    /\ components # <<>>
    /\ \A i \in DOMAIN components :
         /\ components[i] # ""
         /\ First(components[i]) \in Alphanumeric /\ Final(components[i]) \in Alphanumeric
         /\ InText(components[i]) \subseteq Alphanumeric \union {".", "_", "-"}

CanonicalImageRepository(repository) ==
    /\ Len(Joined(repository, "/")) \in 1..MaxRepositoryBytes
    /\ ~NamesOneImage(repository)
    /\ Len(repository) > 1
    /\ InText(repository[1]) \intersect {".", ":"} # {}
    /\ CanonicalRegistryHost(repository[1])
    /\ CanonicalRepositoryPath(Tail(repository))

CanonicalContainerPath(path) ==
    /\ Len(path) > 1 /\ path[1] = "" /\ Len(Joined(path, "/")) <= MaxPathBytes
    /\ \A i \in 2..Len(path) :
         /\ path[i] \notin {"", ".", ".."}
         /\ InText(path[i]) \subseteq Alphanumeric \union {".", "_", "-"}

OpensOrEquals(outer, inner) == IsPrefix(outer, inner)
Overlap(one, other) == OpensOrEquals(one, other) \/ OpensOrEquals(other, one)

CanonicalKey(key) ==
    /\ Len(key) \in 1..MaxKeyChars
    /\ First(key) \in Uppercase
    /\ InText(key) \subseteq Uppercase \union Digit \union {"_"}

\* A brace belongs to the one placeholder, or the value is refused.
CanonicalValue(value) ==
    /\ Len(value) <= MaxValueBytes
    /\ InText(value) \subseteq Printable
    /\ \A i \in 1..Len(value) :
         LET at(k) == k >= 1 /\ k + Len(Placeholder) - 1 <= Len(value)
                      /\ SubSeq(value, k, k + Len(Placeholder) - 1) = Placeholder
         IN /\ SubSeq(value, i, i) = "{" => at(i)
            /\ SubSeq(value, i, i) = "}" => at(i - Len(Placeholder) + 1)

-----------------------------------------------------------------------------
(* The contract, as one answer.                                            *)

Mounts(d) == d.volumes \o d.tmpfs

HoldsTheMounts(d) ==
    /\ Len(d.volumes) <= MaxVolumes /\ Len(d.tmpfs) <= MaxTmpfs
    /\ \A i \in DOMAIN Mounts(d) : CanonicalContainerPath(Mounts(d)[i])
    /\ \A i, j \in DOMAIN Mounts(d) : i < j => ~Overlap(Mounts(d)[i], Mounts(d)[j])

\* The keys in the order they are declared, the secrets after the lines.
DeclaredKeys(d) == [i \in DOMAIN d.environment |-> d.environment[i][1]] \o d.secret_keys

HoldsTheEnvironment(d) ==
    /\ Len(d.environment) <= MaxEnvironmentLines /\ Len(d.secret_keys) <= MaxSecretKeys
    /\ \A i \in DOMAIN d.environment : Len(d.environment[i]) = 2 /\ CanonicalValue(d.environment[i][2])
    /\ \A i \in DOMAIN DeclaredKeys(d) : CanonicalKey(DeclaredKeys(d)[i])
    /\ \A i, j \in DOMAIN DeclaredKeys(d) : i < j => DeclaredKeys(d)[i] # DeclaredKeys(d)[j]

HoldsTheContract(d) ==
    /\ d.schema_version = 1
    /\ CanonicalDefinitionSlug(d.slug)
    /\ CanonicalImageRepository(d.image_repository)
    /\ d.container_port \in 1..MaxContainerPort
    /\ HoldsTheMounts(d)
    /\ HoldsTheEnvironment(d)

-----------------------------------------------------------------------------
(* The transcript and the canonical encoding.                              *)

AppendField(text) == <<Len(text)>> \o Chars(text)
(* Mutant: the entries follow one another without their count. *)
AppendListUncounted(texts) ==
    FoldLeft(LAMBDA a, text : a \o AppendField(text), <<>>, texts)
AppendList(texts) ==
    <<Len(texts)>> \o FoldLeft(LAMBDA a, text : a \o AppendField(text), <<>>, texts)

PathTexts(paths) == [i \in DOMAIN paths |-> Joined(paths[i], "/")]
LineTexts(lines) == [i \in DOMAIN lines |-> Joined(lines[i], "=")]

RawTranscript(d) ==
    <<"your-cloud/service-definition.v1", d.schema_version>>
    \o AppendField(d.slug) \o AppendField(Joined(d.image_repository, "/"))
    \o <<d.container_port>>
    \o AppendList(PathTexts(d.volumes)) \o AppendList(PathTexts(d.tmpfs))
    \o AppendList(LineTexts(d.environment)) \o AppendList(d.secret_keys)

DefinitionDigest(d) == RawTranscript(d)

\* What serde_json writes: 128 bytes of names and punctuation, the texts, each
\* entry of a list in quotes and after a comma, a quote or a backslash escaped.
EscapedBytes(text) ==
    Len(text) + Cardinality({i \in 1..Len(text) : SubSeq(text, i, i) \in {"\"", "\\"}})
ListBytes(texts) ==
    FoldLeft(LAMBDA n, text : n + EscapedBytes(text) + 3, 0, texts) - (IF texts = <<>> THEN 0 ELSE 1)
EncodedBytes(d) ==
    128 + Len(d.slug) + Len(Joined(d.image_repository, "/")) + Len(ToString(d.container_port))
    + ListBytes(PathTexts(d.volumes)) + ListBytes(PathTexts(d.tmpfs))
    + ListBytes(LineTexts(d.environment)) + ListBytes(d.secret_keys)

\* encode: what is written is bounded, and only what holds the contract is.
Encodes(d) == HoldsTheContract(d) /\ EncodedBytes(d) <= MaxDefinitionBytes

InterpolatesOriginHost(d) ==
    \E i \in DOMAIN d.environment :
        LET line == Joined(d.environment[i], "=")
        IN \E k \in 1..Len(line) :
             k + Len(Placeholder) - 1 <= Len(line)
             /\ SubSeq(line, k, k + Len(Placeholder) - 1) = Placeholder

-----------------------------------------------------------------------------
(* The contract, as every fault at once.                                   *)

Refusal(field, entry, why) == [field |-> field, entry |-> entry, why |-> why]
WholeField == 0

HeadRefusals(d) ==
    {Refusal("schema_version", WholeField, "UnknownSchemaVersion") : x \in {1} \ {d.schema_version}}
    \union (IF ~CanonicalServiceSlug(d.slug) THEN {Refusal("slug", WholeField, "SlugGrammar")}
            ELSE IF d.slug \in ReservedSlugs THEN {Refusal("slug", WholeField, "SlugReserved")}
            ELSE {})
    \union (IF CanonicalImageRepository(d.image_repository) THEN {}
            ELSE {Refusal("image_repository", WholeField,
                          IF NamesOneImage(d.image_repository) THEN "ImageRepositoryPinned"
                          ELSE "ImageRepositoryGrammar")})
    \union (IF d.container_port \in 1..MaxContainerPort THEN {}
            ELSE {Refusal("container_port", WholeField, "ContainerPortRange")})

TooLong(field, list, bound) ==
    IF Len(list) > bound THEN {Refusal(field, WholeField, "ListTooLong")} ELSE {}

\* An entry of the two lists of paths, under the name of the list it is of.
MountAt(d, i) ==
    IF i <= Len(d.volumes) THEN <<"volumes", i>> ELSE <<"tmpfs", i - Len(d.volumes)>>

(* Mutant: a path is compared with those of its own list. *)
MountRefusalsWithin(d) ==
    LET read == {i \in DOMAIN Mounts(d) : CanonicalContainerPath(Mounts(d)[i])}
    IN TooLong("volumes", d.volumes, MaxVolumes) \union TooLong("tmpfs", d.tmpfs, MaxTmpfs)
       \union {Refusal(MountAt(d, i)[1], MountAt(d, i)[2], "ContainerPathGrammar")
                  : i \in DOMAIN Mounts(d) \ read}
       \union {Refusal(MountAt(d, i)[1], MountAt(d, i)[2], "MountsOverlap")
                  : i \in {k \in read : \E j \in read : j < k /\ MountAt(d, j)[1] = MountAt(d, k)[1]
                                                      /\ Overlap(Mounts(d)[k], Mounts(d)[j])}}
\* mount_refusals: an overlap is looked for among the entries before it that read.
MountRefusals(d) ==
    LET read == {i \in DOMAIN Mounts(d) : CanonicalContainerPath(Mounts(d)[i])}
    IN TooLong("volumes", d.volumes, MaxVolumes) \union TooLong("tmpfs", d.tmpfs, MaxTmpfs)
       \union {Refusal(MountAt(d, i)[1], MountAt(d, i)[2], "ContainerPathGrammar")
                  : i \in DOMAIN Mounts(d) \ read}
       \union {Refusal(MountAt(d, i)[1], MountAt(d, i)[2], "MountsOverlap")
                  : i \in {k \in read : \E j \in read : j < k /\ Overlap(Mounts(d)[k], Mounts(d)[j])}}

\* environment_refusals: a key that does not read declares nothing.
KeyRefusals(d, i) ==
    LET n == Len(d.environment)
        key == DeclaredKeys(d)[i]
        place == IF i <= n THEN <<"environment", i>> ELSE <<"secret_keys", i - n>>
        shaped == {k \in DOMAIN DeclaredKeys(d) : k > n \/ Len(d.environment[k]) = 2}
    IN IF i \notin shaped THEN {Refusal(place[1], place[2], "EnvironmentLineShape")}
       ELSE (IF ~CanonicalKey(key) THEN {Refusal(place[1], place[2], "KeyGrammar")}
             ELSE IF \E j \in shaped : j < i /\ DeclaredKeys(d)[j] = key
                  THEN {Refusal(place[1], place[2], "KeyAlreadyDeclared")} ELSE {})
            \union (IF i <= n /\ ~CanonicalValue(d.environment[i][2])
                    THEN {Refusal(place[1], place[2], "ValueGrammar")} ELSE {})

EnvironmentRefusals(d) ==
    TooLong("environment", d.environment, MaxEnvironmentLines)
    \union TooLong("secret_keys", d.secret_keys, MaxSecretKeys)
    \union UNION {KeyRefusals(d, i) : i \in DOMAIN DeclaredKeys(d)}

Refusals(d) ==
    LET named == HeadRefusals(d) \union MountRefusals(d) \union EnvironmentRefusals(d)
    IN IF named = {} /\ ~Encodes(d) THEN {Refusal("document", WholeField, "DocumentTooLarge")}
       ELSE named

-----------------------------------------------------------------------------
(* Reading a document back.                                                *)

\* decode_service_definition_document, list_or_null: a list that is left out, or
\* null, is the empty list; any other field missing or unknown is refused.
ListFields == {"volumes", "tmpfs", "environment", "secret_keys"}
DefinitionFields == {"schema_version", "slug", "image_repository", "container_port"} \union ListFields
Read(json) ==
    [field \in DefinitionFields |-> IF field \in DOMAIN json THEN json[field] ELSE <<>>]
Decodes(json) ==
    /\ DOMAIN json \subseteq DefinitionFields
    /\ DefinitionFields \ ListFields \subseteq DOMAIN json
    /\ EncodedBytes(Read(json)) <= MaxDefinitionBytes
    /\ HoldsTheContract(Read(json))

Verifies(json, digest) == Decodes(json) /\ DefinitionDigest(Read(json)) = digest

\* displayable_definition: and the bytes are the canonical ones, so that every
\* list is written out.
Displayable(json, digest) ==
    Verifies(json, digest) /\ Encodes(Read(json)) /\ json = Read(json)
=============================================================================
