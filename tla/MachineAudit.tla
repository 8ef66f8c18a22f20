---------------------------- MODULE MachineAudit ----------------------------
(***************************************************************************)
(* What the native assistant learns of a target from three read-only       *)
(* channels, and the placement it derives from it: pure functions from the *)
(* answers to a decision.                                                  *)
(*                                                                         *)
(* A fact is known with a value or unknown with a reason. Quantities are   *)
(* levels: the thresholds of the three roles cut memory and disk into a    *)
(* few bands, and nothing else of a quantity is ever looked at.            *)
(***************************************************************************)
EXTENDS Naturals, Sequences, FiniteSets

Known(v) == [known |-> TRUE, value |-> v]
Unknown(why) == [known |-> FALSE, value |-> why]
Unverified == {"NotAnswered", "NotProduced", "Unreadable"}

Role == {"controller", "relay", "agent", "auxiliary"}

(***************************************************************************)
(* A channel's answer: its exit and the shape of its text. A channel that  *)
(* was cut is read as one that failed with nothing readable.               *)
(***************************************************************************)
ChannelAnswer(exit, text) == [exit |-> exit, text |-> text]
NoAnswer == ChannelAnswer(1, "garbled")

UnansweredOr(answer, produced) == IF answer.exit = 0 THEN produced ELSE "NotAnswered"

\* uname -m: one printable token of a command that succeeded.
ReadArchitecture(answer) ==
    IF answer.exit # 0 \/ answer.text = "garbled"
    THEN Unknown(UnansweredOr(answer, "NotProduced"))
    ELSE Known(answer.text)

\* df -k -P /var: the second line, six fields, a decimal fourth one. `text` is a
\* level, or the way the reading fails.
ReadFreeDisk(answer) ==
    CASE answer.text = "garbled" -> Unknown(UnansweredOr(answer, "Unreadable"))
      [] answer.text # "garbled" /\ answer.exit # 0 -> Unknown("NotAnswered")
      [] answer.exit = 0 /\ answer.text = "oneline" -> Unknown("NotProduced")
      [] answer.exit = 0 /\ answer.text = "fields" -> Unknown("Unreadable")
      [] OTHER -> Known(answer.level)

AuditFiles == {"os-release", "comm", "cgroup", "meminfo", "cpu", "roles"}

(***************************************************************************)
(* head -v over the fixed list of files. A file whose header comes twice   *)
(* is as good as absent; the exit status is not looked at, one missing     *)
(* file makes it fail. `bodies` maps a file to its body, or to "missing"   *)
(* or "twice".                                                             *)
(***************************************************************************)
ReadFiles(bodies) ==
    [f \in AuditFiles |-> IF bodies[f].shape \in {"missing", "twice"}
                          THEN [shape |-> "missing", value |-> 0] ELSE bodies[f]]

Answered(files) == \E f \in AuditFiles : files[f].shape # "missing"

Missing(files) == IF Answered(files) THEN "NotProduced" ELSE "NotAnswered"

\* read_distribution, read_init, read_memory, read_processors.
ReadBody(files, f) ==
    CASE files[f].shape = "missing" -> Unknown(Missing(files))
      [] files[f].shape = "garbled" -> Unknown("Unreadable")
      [] OTHER -> Known(files[f].value)

\* The unified hierarchy shows by the file being there.
ReadCgroup(files) ==
    IF files["cgroup"].shape # "missing" THEN Known("v2")
    ELSE IF Answered(files) THEN Known("legacy") ELSE Unknown("NotAnswered")

\* The roles file: an unknown or repeated name makes it unreadable, its absence
\* from an answer declares nothing.
ReadInstallation(files) ==
    LET lines == files["roles"].value
    IN CASE files["roles"].shape = "missing" ->
              IF Answered(files) THEN Known({}) ELSE Unknown("NotAnswered")
         [] files["roles"].shape # "missing" /\
              (\/ \E i \in DOMAIN lines : lines[i] \notin Role
               \/ \E i, j \in DOMAIN lines : i # j /\ lines[i] = lines[j]) ->
              Unknown("Unreadable")
         [] OTHER -> Known({lines[i] : i \in DOMAIN lines})

Assemble(architecture, disk, bodies) ==
    LET files == ReadFiles(bodies)
    IN [architecture |-> ReadArchitecture(architecture),
        disk         |-> ReadFreeDisk(disk),
        distribution |-> ReadBody(files, "os-release"),
        init         |-> ReadBody(files, "comm"),
        cgroup       |-> ReadCgroup(files),
        memory       |-> ReadBody(files, "meminfo"),
        processors   |-> ReadBody(files, "cpu"),
        installation |-> ReadInstallation(files)]

-----------------------------------------------------------------------------
(* placement.rs                                                            *)

\* The thresholds, as levels: memory 256 and 512 MiB, disk 256 MiB, 1 and 2 GiB.
Requirements(role) ==
    CASE role = "relay" -> [memory |-> 1, processors |-> 1, disk |-> 2]
      [] role = "agent" -> [memory |-> 1, processors |-> 1, disk |-> 1]
      [] OTHER -> [memory |-> 2, processors |-> 1, disk |-> 3]

Supported == [distribution |-> "debian-13", architecture |-> "amd64", init |-> "systemd",
              cgroup |-> "v2"]

Resource(observed, required) == observed.known /\ observed.value >= required

\* The facts a role is refused for: not the supported value, short, or unknown.
Compatibility(role, machine) ==
    {fact \in DOMAIN Supported :
        ~(machine[fact].known /\ machine[fact].value = Supported[fact])}
    \union
    {fact \in DOMAIN Requirements(role) :
        ~Resource(machine[fact], Requirements(role)[fact])}

\* The roles of an installation nobody could read are none.
DeclaredRoles(machine) ==
    IF machine.installation.known THEN machine.installation.value ELSE {}

Propose(role, endpoint, machine) ==
    CASE role = "controller" /\ ~endpoint.private -> "ControllerOnExposedEndpoint"
      [] role = "controller" /\ endpoint.private /\ ~endpoint.normallyOn ->
            "ControllerOnIntermittentEndpoint"
      [] role = "controller" /\ endpoint.private /\ endpoint.normallyOn
            /\ "relay" \in DeclaredRoles(machine) -> "ControllerBesideRelay"
      [] role = "relay" /\ ~endpoint.relayCandidate -> "RelayOnUndeclaredCandidate"
      [] role = "auxiliary" -> "RoleOutsideThisPalier"
      [] OTHER -> IF Compatibility(role, machine) = {} THEN "proposed" ELSE "Incompatible"

\* approve: the role and the endpoint of the proposal, exactly.
Approve(proposed, role, endpoint, approval) ==
    IF proposed # "proposed" THEN proposed
    ELSE IF approval = [role |-> role, endpoint |-> endpoint.name] THEN "approved"
    ELSE "RoleNotApproved"
=============================================================================
