--------------------------- MODULE DefinitionPaste ---------------------------
(***************************************************************************)
(* A paste, which can only prefill the form: a container command, given as *)
(* its tokens, or a compose document, given as its significant lines. What *)
(* it answers is a draft, and the names of what it dropped on the way.     *)
(***************************************************************************)
EXTENDS ServiceDefinitions

\* A text at each of its marks, and at the first one only.
MarksIn(text, mark) == {i \in 1..Len(text) : SubSeq(text, i, i) = mark}
Parts(text, mark) ==
    LET marks == SetToSortSeq(MarksIn(text, mark), <)
        bounds == <<0>> \o marks \o <<Len(text) + 1>>
    IN [i \in 1..(Len(bounds) - 1) |-> SubSeq(text, bounds[i] + 1, bounds[i + 1] - 1)]
Halves(text, mark) ==
    IF MarksIn(text, mark) = {} THEN <<text>>
    ELSE LET at == Min(MarksIn(text, mark))
         IN <<SubSeq(text, 1, at - 1), SubSeq(text, at + 1, Len(text))>>

EmptyDraft ==
    [slug |-> "", image_repository |-> <<"">>, container_port |-> 0, volumes |-> <<>>,
     tmpfs |-> <<>>, environment |-> <<>>, secret_keys |-> <<>>]

Note(name, subject) == {[note |-> name, subject |-> subject]}

\* What has been read so far: the draft, the name, the two kinds of port, the notes.
NothingRead ==
    [draft |-> EmptyDraft, name |-> "", published |-> 0, exposed |-> 0, notes |-> {},
     awaits |-> "", done |-> FALSE]
Noted(s, name, subject) == [s EXCEPT !.notes = @ \union Note(name, subject)]

-----------------------------------------------------------------------------
(* The values both shapes carry.                                           *)

Number(text) ==
    FoldLeft(LAMBDA n, char : 10 * n + (CHOOSE d \in 0..9 : ToString(d) = char), 0, Chars(text))

\* container_port_of_mapping: the last field, its protocol dropped; 0 is no port.
ContainerPortOfMapping(mapping) ==
    LET port == Parts(Last(Parts(mapping, ":")), "/")[1]
    IN IF port # "" /\ InText(port) \subseteq Digit THEN Number(port) ELSE 0

\* container_path_of_mount: the container's side, or nothing.
WithoutTrailing(path) ==
    LET last == Max({i \in 1..Len(path) : path[i] # ""} \union {0}) IN SubSeq(path, 1, last)
ContainerPathOfMount(mount) ==
    LET fields == Parts(mount, ":")
        path == Parts(IF Len(fields) = 1 THEN fields[1] ELSE fields[2], "/")
    IN IF path[1] = "" THEN WithoutTrailing(path) ELSE <<>>

(* Mutant: a reference pinned by a digest keeps its tag. *)
RepositoryOfDigested(reference) ==
    LET parts == Parts(Halves(reference, "@")[1], "/")
    IN IF Len(Halves(reference, "@")) > 1 THEN parts
       ELSE Front(parts) \o <<Halves(Last(parts), ":")[1]>>
\* repository_of: the digest goes, then the tag of the last component.
RepositoryOf(reference) ==
    LET parts == Parts(Halves(reference, "@")[1], "/")
    IN Front(parts) \o <<Halves(Last(parts), ":")[1]>>
IsPinned(reference) ==
    \/ "@" \in InText(reference)
    \/ ":" \in InText(Last(Parts(Halves(reference, "@")[1], "/")))

\* suggested_slug: sixteen characters of a name, each run of others one dash.
Lowered(char) ==
    IF char \notin Uppercase THEN char
    ELSE LET upper == Chars("ABCDEFGHIJKLMNOPQRSTUVWXYZ")
             lower == Chars("abcdefghijklmnopqrstuvwxyz")
         IN lower[CHOOSE i \in DOMAIN upper : upper[i] = char]
SuggestedSlug(name, repository) ==
    LET source == IF name # "" THEN name ELSE Last(repository)
        grown == FoldLeft(LAMBDA slug, char :
                            IF Len(slug) = MaxSlugChars THEN slug
                            ELSE IF Lowered(char) \in Alphanumeric THEN slug \o Lowered(char)
                            ELSE IF slug # "" /\ Final(slug) # "-" THEN slug \o "-" ELSE slug,
                          "", Chars(source))
    IN IF grown # "" /\ Final(grown) = "-" THEN SubSeq(grown, 1, Len(grown) - 1) ELSE grown

TakeImage(s, reference) ==
    LET t == [s EXCEPT !.draft.image_repository = RepositoryOf(reference)]
    IN IF IsPinned(reference) THEN Noted(t, "ImagePinDropped", reference) ELSE t
HostSide(s, value) ==
    IF ":" \in InText(value) THEN Noted(s, "HostSideDropped", value) ELSE s
TakeVolume(s, value) ==
    LET path == ContainerPathOfMount(value)
    IN IF path = <<>> THEN Noted(s, "UnsupportedDirectiveDropped", value)
       ELSE HostSide([s EXCEPT !.draft.volumes = Append(@, path)], value)
TakeTmpfs(s, value) ==
    LET path == ContainerPathOfMount(value)
    IN IF path = <<>> THEN Noted(s, "UnsupportedDirectiveDropped", value)
       ELSE [s EXCEPT !.draft.tmpfs = Append(@, path)]
TakeLine(s, value) ==
    IF "=" \in InText(value)
    THEN [s EXCEPT !.draft.environment = Append(@, Halves(value, "="))]
    ELSE Noted(s, "EnvironmentEntryDropped", value)
TakeExposed(s, value) ==
    IF s.exposed # 0 THEN s ELSE [s EXCEPT !.exposed = ContainerPortOfMapping(value)]

\* The end of either reading.
Prefilled(s, source) ==
    LET repository == s.draft.image_repository
    IN [source |-> source,
        draft |-> [s.draft EXCEPT !.container_port = IF s.published # 0 THEN s.published ELSE s.exposed,
                                  !.slug = SuggestedSlug(s.name, repository)],
        notes |-> s.notes \union IF repository = <<"">> THEN Note("NoImageFound", "") ELSE {}]

-----------------------------------------------------------------------------
(* A container command.                                                    *)

ValueTakingOptions ==
    {"--publish", "--expose", "--volume", "--mount", "--tmpfs", "--env", "--env-file", "--name",
     "--network", "--restart", "--user", "--workdir", "--entrypoint", "--hostname", "--label",
     "--memory", "--cpus", "--device", "--sysctl", "--ulimit", "--cap-add", "--cap-drop",
     "--security-opt", "--pull", "--platform", "--add-host", "--dns", "--log-driver",
     "--health-cmd", "--volumes-from", "-p", "-v", "-e", "-w", "-h", "-m", "-u"}
RefusedOptions ==
    {"--network", "--restart", "--privileged", "--cap-add", "--device", "--sysctl", "--user",
     "--entrypoint", "--add-host", "--dns", "--security-opt", "--volumes-from"}

\* position_of_run: 0 is none.
PositionOfRun(tokens) ==
    LET runs == {i \in DOMAIN tokens : tokens[i] \in {"run", "create"}}
    IN IF runs = {} THEN 0
       ELSE IF \E i \in 1..(Min(runs) - 1) : tokens[i] \in {"docker", "podman", "nerdctl"}
            THEN Min(runs) ELSE 0

\* The value of an option, once it is known; one that is refused or unknown is spent.
TakeOption(s, option, value) ==
    CASE option \in {"-p", "--publish"} ->
           IF ContainerPortOfMapping(value) = 0 THEN s
           ELSE HostSide([s EXCEPT !.published = ContainerPortOfMapping(value)], value)
      [] option = "--expose" -> TakeExposed(s, value)
      [] option \in {"-v", "--volume"} -> TakeVolume(s, value)
      [] option = "--mount" -> Noted(s, "UnsupportedDirectiveDropped", "--mount")
      [] option = "--tmpfs" -> TakeTmpfs(s, value)
      [] option \in {"-e", "--env"} -> TakeLine(s, value)
      [] option = "--env-file" -> Noted(s, "EnvironmentEntryDropped", value)
      [] option = "--name" -> [s EXCEPT !.name = value]
      [] OTHER -> s

\* One token: the value an option waits for, an option, or the image; what
\* follows the image is the command it would run.
TakeToken(s, token) ==
    LET halves == Halves(token, "=")
        inline == Len(halves) = 2 /\ SubSeq(token, 1, Min({2, Len(token)})) = "--"
        option == IF inline THEN halves[1] ELSE token
        named == IF option \in RefusedOptions
                 THEN Noted(s, "UnsupportedDirectiveDropped", option) ELSE s
    IN IF s.done THEN Noted(s, "UnsupportedDirectiveDropped", "command")
       ELSE IF s.awaits # ""
            THEN TakeOption([s EXCEPT !.awaits = ""], s.awaits, token)
       ELSE IF First(token) # "-" THEN TakeImage([s EXCEPT !.done = TRUE], token)
       ELSE IF inline THEN TakeOption(named, option, halves[2])
       ELSE IF option \in ValueTakingOptions THEN [named EXCEPT !.awaits = option]
       ELSE named

ParseContainerCommand(tokens) ==
    Prefilled(FoldLeft(TakeToken, NothingRead, SubSeq(tokens, PositionOfRun(tokens) + 1, Len(tokens))),
              "container_command")

-----------------------------------------------------------------------------
(* A compose document: lines of an indentation and a key with its scalar,  *)
(* or an item of a list; "" is what a line does not have.                  *)

CarriedKeys == {"image", "ports", "expose", "volumes", "tmpfs", "environment"}
SilentKeys == {"container_name", "restart", "depends_on", "healthcheck", "labels"}

\* compose_values: the scalar, or what is indented beneath the key.
ComposeValues(body, position, indent) ==
    LET beneath == {i \in (position + 1)..Len(body) :
                      \A j \in (position + 1)..i : body[j].indent > indent}
        spelled(line) == IF line.item # "" THEN line.item
                         ELSE IF line.value # "" THEN line.key \o "=" \o line.value ELSE line.key
    IN IF body[position].value # "" THEN <<body[position].value>>
       ELSE [i \in 1..Cardinality(beneath) |-> spelled(body[position + i])]

TakeKey(s, key, values) ==
    CASE key = "image" -> IF values = <<>> THEN s ELSE TakeImage(s, values[1])
      [] key = "ports" ->
           FoldLeft(LAMBDA t, v : IF ContainerPortOfMapping(v) = 0 THEN t
                                  ELSE HostSide([t EXCEPT !.published =
                                         IF @ # 0 THEN @ ELSE ContainerPortOfMapping(v)], v),
                    s, values)
      [] key = "expose" -> FoldLeft(TakeExposed, s, values)
      [] key = "volumes" -> FoldLeft(TakeVolume, s, values)
      [] key = "tmpfs" -> FoldLeft(TakeTmpfs, s, values)
      [] key = "environment" -> FoldLeft(TakeLine, s, values)
      [] OTHER -> s

TakeBody(body, name) ==
    LET taken == {i \in DOMAIN body : body[i].indent = body[1].indent /\ body[i].key # ""}
        each(s, i) ==
            LET key == body[i].key
            IN IF i \notin taken \/ key \in SilentKeys THEN s
               ELSE IF key \notin CarriedKeys THEN Noted(s, "UnsupportedDirectiveDropped", key)
               ELSE TakeKey(s, key, ComposeValues(body, i, body[1].indent))
    IN FoldLeft(each, [NothingRead EXCEPT !.name = name], [i \in DOMAIN body |-> i])

\* The services: the keys at the indentation of the first, until a line at none.
ServicesAt(lines) == {i \in DOMAIN lines : lines[i].indent = 0 /\ lines[i].key = "services"}
ServiceNames(lines) ==
    LET at == Min(ServicesAt(lines))
    IN {i \in (at + 1)..Len(lines) :
          /\ \A j \in (at + 1)..i : lines[j].indent > 0
          /\ lines[i].indent = lines[at + 1].indent /\ lines[i].key # ""}
IsComposeDocument(lines) == ServicesAt(lines) # {} /\ ServiceNames(lines) # {}

ParseComposeDocument(lines) ==
    LET names == SetToSortSeq(ServiceNames(lines), <)
        end == IF Len(names) > 1 THEN names[2] - 1 ELSE Len(lines)
        read == TakeBody(SubSeq(lines, names[1] + 1, end), lines[names[1]].key)
        others == IF Len(names) = 1 THEN {}
                  ELSE UNION {Note("SingleServiceOnly", lines[names[i]].key) : i \in DOMAIN names}
    IN Prefilled([read EXCEPT !.notes = @ \union others], "compose_document")

-----------------------------------------------------------------------------
\* parse_service_definition_paste: a paste is [large, lines, tokens], its lines empty
\* when it does not read as a mapping.
Unrecognised(name) == [source |-> "unrecognised", draft |-> EmptyDraft, notes |-> Note(name, "")]
ParseServiceDefinitionPaste(paste) ==
    IF paste.large THEN Unrecognised("PasteTooLarge")
    ELSE IF IsComposeDocument(paste.lines) THEN ParseComposeDocument(paste.lines)
    ELSE IF PositionOfRun(paste.tokens) # 0 THEN ParseContainerCommand(paste.tokens)
    ELSE Unrecognised("NothingRecognised")
=============================================================================
