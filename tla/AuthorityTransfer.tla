-------------------------- MODULE AuthorityTransfer --------------------------
(***************************************************************************)
(* A lost or suspect Controller is replaced on a fleet of machines. A run  *)
(* qualifies the incident, then walks the steps of the plan, each behind   *)
(* the judgement ControllerReplacement and MachineIdentity give of it. The *)
(* effects on the machines and on the Relay are external: they take place  *)
(* when their step is done, may go unanswered, and may then land late.     *)
(*                                                                         *)
(* Nothing a run knows survives it. A run that is cut is followed by       *)
(* another, which rebuilds the state of each machine from its key file and *)
(* from what sshd answers to the old and to the new identity.              *)
(***************************************************************************)
EXTENDS ControllerReplacement

CONSTANTS
    MachineList,    \* the machines, in the order of the estate
    Qualifications, \* "loss", "compromise"
    Granting,       \* the kinds of residue that grant something at first
    MaxCuts,        \* bound: runs that are cut
    MaxFlight,      \* bound: writes in flight
    MaxEpoch        \* bound: approval epochs

Machines == {MachineList[i] : i \in DOMAIN MachineList}

ASSUME TransferAssumption ==
    /\ MachineList # <<>>
    /\ \A i, j \in DOMAIN MachineList : MachineList[i] = MachineList[j] => i = j
    /\ Qualifications \subseteq {"loss", "compromise"} /\ Granting \subseteq Kinds
    /\ MaxCuts \in Nat /\ MaxFlight \in Nat /\ MaxEpoch \in Nat \ {0}

VARIABLES
    isolated,   \* its host is cut off
    entries,    \* the key entries of each machine
    serving,    \* the managed fingerprints sshd honours on each machine
    flight,     \* writes nobody heard the end of
    epoch,      \* the approval epoch of each machine
    reader,     \* the Relay's reader: manifest and socket
    installed,  \* the new Controller exists
    residues,   \* the kinds of residue of the old authority that still grant
    run,        \* the run under way, in memory only
    cuts,
    outcome     \* "none" | "secured"

world == <<isolated, installed, residues>>
vars == <<world, entries, serving, flight, epoch, reader, run, cuts, outcome>>

Human == [file |-> "managed", print |-> "human",
          line |-> [shape |-> "plain", options |-> {}, command |-> "none",
                    algorithm |-> "ssh-ed25519", key |-> "key"]]
Copy == [file |-> "personal", print |-> "old", line |-> EntryOf("ssh-ed25519", "key")]
Ours(print) == [file |-> "managed", print |-> print, line |-> EntryOf("ssh-ed25519", "key")]

NoRun == [kind |-> "none", at |-> 0, samples |-> {}, file |-> [m \in Machines |-> {}],
          read |-> {}, seen |-> [m \in Machines |-> "unseen"], rotated |-> {}, verified |-> {}]

Manifest == [port |-> "reader", status |-> "active", controllers |-> <<reader.to>>,
             derived |-> TRUE, address |-> reader.address]
ReaderNow == ReadReader(Manifest, IF reader.listening THEN "listening" ELSE "not listening")
ManagedPrints(m) == {e.print : e \in {x \in entries[m] : x.file = "managed"}}

TypeOK ==
    /\ isolated \in BOOLEAN /\ installed \in BOOLEAN
    /\ residues \subseteq Granting
    /\ entries \in [Machines -> SUBSET {Human, Copy, Ours("old"), Ours("new")}]
    /\ serving \in [Machines -> SUBSET {"human", "old", "new"}]
    /\ flight \subseteq [machine : Machines, op : {"install", "withdraw"}]
    /\ epoch \in [Machines -> 1..MaxEpoch]
    /\ reader \in [to : {"old", "new"}, listening : BOOLEAN, address : {"old", "new"}]
    /\ run.kind \in {"none"} \union Qualifications
    /\ run.at \in 0..Len(PlanSteps["compromise"])
    /\ run.seen \in [Machines -> {"unseen", "unknown", "old only", "overlap", "new only"}]
    /\ run.rotated \subseteq Machines /\ run.verified \subseteq Machines
    /\ cuts \in 0..MaxCuts /\ outcome \in {"none", "secured"}

Init ==
    /\ isolated = FALSE /\ installed = FALSE /\ residues = Granting
    /\ entries = [m \in Machines |-> {Human, Copy, Ours("old")}]
    /\ serving = [m \in Machines |-> {"human", "old"}]
    /\ flight = {} /\ epoch = [m \in Machines |-> 1]
    /\ reader = [to |-> "old", listening |-> TRUE, address |-> "old"]
    /\ run = NoRun /\ cuts = 0 /\ outcome = "none"

-----------------------------------------------------------------------------
(* What goes on around a run.                                              *)

Isolate == /\ ~isolated /\ isolated' = TRUE /\ run.kind # "loss"
           /\ UNCHANGED <<installed, residues, entries, serving, flight, epoch, reader,
                          run, cuts, outcome>>

LoseIsolation == /\ isolated /\ isolated' = FALSE /\ run.kind # "loss" /\ outcome = "none"
                 /\ UNCHANGED <<installed, residues, entries, serving, flight, epoch,
                                reader, run, cuts, outcome>>

\* sshd starts to honour what the managed file says.
Reload(m) == /\ serving[m] # ManagedPrints(m)
             /\ serving' = [serving EXCEPT ![m] = ManagedPrints(m)]
             /\ UNCHANGED <<world, entries, flight, epoch, reader, run, cuts, outcome>>

\* A grant of the old authority is revoked where it is held.
Revoke == /\ \E kind \in residues : residues' = residues \ {kind}
          /\ installed
          /\ UNCHANGED <<isolated, installed, entries, serving, flight, epoch, reader,
                         run, cuts, outcome>>

Written(m, op) ==
    IF op = "install" THEN entries[m] \union {Ours("new")}
    ELSE {e \in entries[m] : ~Removable(e, "new", {"old"})}

Land(f) == /\ entries' = [entries EXCEPT ![f.machine] = Written(f.machine, f.op)]
           /\ flight' = flight \ {f}
           /\ UNCHANGED <<world, serving, epoch, reader, run, cuts, outcome>>

Cut == /\ run.kind # "none" /\ outcome = "none" /\ cuts < MaxCuts
       /\ run' = NoRun /\ cuts' = cuts + 1
       /\ UNCHANGED <<world, entries, serving, flight, epoch, reader, outcome>>

-----------------------------------------------------------------------------
(* The decision.                                                           *)

\* Where the new Controller may go; the old one lived on "old host".
Places == {[host |-> "new host", state |-> "distinct"],
           [host |-> "old host", state |-> "reinstalled"],
           [host |-> "old host", state |-> "as it stands"]}

\* What a vantage may have to say of an old Controller that is up or silent.
Answers(up) == {"none"} \union (IF up /\ ~isolated THEN {"answered"} ELSE {"unreachable"})
Probes(up) == {[vantage |-> v, answer |-> a, seconds |-> n] :
              v \in {"here", "there", "old host"}, a \in Answers(up),
              n \in {RequiredSilence - 1, RequiredSilence}}

Requests ==
    {r \in [kind : Qualifications, state : {p.state : p \in Places},
            host : {p.host : p \in Places}, old : {"old"}, suspect : {"old host"},
            isolatedBy : {"nobody", "old host", "switch"}, confirmed : BOOLEAN] :
        /\ [host |-> r.host, state |-> r.state] \in Places
        /\ r.isolatedBy = "switch" => isolated}

Qualified(r) ==
    \E up \in BOOLEAN : \E p \in Probes(up), a \in Answers(up) :
        Qualify(r, <<p, [vantage |-> "there", answer |-> a, seconds |-> RequiredSilence]>>) = "ok"

Continued(r) ==
    \E s \in [source : {"app", "machine", "old"}, infrastructure : {"one", "other"}],
       t \in [source : {"app", "machine"}, infrastructure : {"one", "unreadable"}] :
        Concord(r, <<s, t>>) = "ok" /\ s.infrastructure = "one"

Associated ==
    \E offer \in [infrastructure : {"one", "other"}, controller : {"new"}, sheet : {1, 2},
                  issued : {1}, lifetime : {0, 300}] : Bind(offer, "one", {1}, 100) = "ok"

\* The endpoints the preflight cleared: the new host and the machines.
Cleared(r) ==
    LET attempts == <<[name |-> r.host, confirmed |-> "key", presented |-> "key"]>> \o
                    [i \in DOMAIN MachineList |->
                        [name |-> MachineList[i], confirmed |-> "key", presented |-> "key"]]
    IN IF Clear(attempts) = "ok" THEN {attempts[i].name : i \in DOMAIN attempts} ELSE {}

\* authorize, behind its witnesses: the incident, the infrastructure that goes on, a
\* fresh Controller and the association of the App.
Witnessed(r) == Qualified(r) /\ Continued(r) /\ Succeed(r, "new", {"old"}) = "ok" /\ Associated
Authorized(r) ==
    AuthorizeReplacement(r, "new", "one", [controller |-> "new", infrastructure |-> "one"],
                         Cleared(r))

Decide ==
    /\ run.kind = "none" /\ outcome = "none"
    /\ \E r \in Requests : /\ Witnessed(r) /\ Authorized(r) = "ok"
                          /\ run' = [NoRun EXCEPT !.kind = r.kind, !.at = 1]
    /\ UNCHANGED <<world, entries, serving, flight, epoch, reader, cuts, outcome>>

-----------------------------------------------------------------------------
(* The state of a machine, rebuilt.                                        *)

Doing(step) == run.kind # "none" /\ outcome = "none" /\ run.at <= Len(PlanSteps[run.kind])
               /\ PlanSteps[run.kind][run.at] = step

Looking(m) == /\ Doing("InstallNewIdentities") \/ Doing("WithdrawOldAuthority")
              /\ run.seen[m] \in {"unseen", "unknown"}

ReadKeyFile(m) ==
    /\ Looking(m) /\ m \notin run.read
    /\ run' = [run EXCEPT !.file[m] = entries[m], !.read = @ \union {m}]
    /\ UNCHANGED <<world, entries, serving, flight, epoch, reader, cuts, outcome>>

\* Both identities are tried; `hears` tells for each whether anything came back.
\* What was read of the file is kept for a withdrawal.
TryIdentities(m, hears) ==
    LET attempt(key) == IF key \notin hears THEN "none"
                        ELSE IF key \in serving[m] THEN "answered" ELSE "refused"
        managed == {e.print : e \in {x \in run.file[m] : x.file = "managed"}}
        evidence == [readable |-> TRUE, file |-> managed, old |-> attempt("old"),
                     new |-> attempt("new")]
    IN /\ Looking(m) /\ m \in run.read
       /\ run' = [run EXCEPT !.seen[m] = Reconstruct(evidence), !.read = @ \ {m},
                             !.file[m] = IF Reconstruct(evidence) = "overlap" THEN @ ELSE {}]
       /\ UNCHANGED <<world, entries, serving, flight, epoch, reader, cuts, outcome>>

-----------------------------------------------------------------------------
(* The steps of the plan.                                                  *)

Advance == run' = [run EXCEPT !.at = @ + 1]
Sampled == run' = [run EXCEPT !.at = @ + 1, !.samples = @ \union {ReaderNow}]

CheckIsolation == /\ Doing("IsolateSuspectHost") /\ isolated /\ Advance
                  /\ UNCHANGED <<world, entries, serving, flight, epoch, reader, cuts,
                                 outcome>>

AuditMachines == /\ Doing("AuditRedeclaredMachines") /\ Advance
                 /\ UNCHANGED <<world, entries, serving, flight, epoch, reader, cuts,
                                outcome>>

CloseReader == /\ Doing("CloseRelayReader") /\ Advance
               /\ reader' = [reader EXCEPT !.listening = FALSE]
               /\ UNCHANGED <<world, entries, serving, flight, epoch, cuts, outcome>>

\* It starts with nothing of the old association.
InstallController ==
    /\ Doing("InstallNewController") /\ Sampled
    /\ \E carried \in SUBSET [kind : {"secret"}, origin : {"minted", "inherited"}] :
         Admit(carried) = "ok"
    /\ installed' = TRUE
    /\ UNCHANGED <<isolated, residues, entries, serving, flight, epoch, reader, cuts,
                   outcome>>

AssociateApp == /\ Doing("AssociateApp") /\ Sampled
                /\ UNCHANGED <<world, entries, serving, flight, epoch, reader, cuts,
                               outcome>>

\* The Relay takes another manifest only while its reader is closed.
ReopenReader == /\ Doing("ReprovisionRelayReader") /\ ~reader.listening /\ Advance
                /\ reader' = [to |-> "new", listening |-> TRUE, address |-> "new"]
                /\ UNCHANGED <<world, entries, serving, flight, epoch, cuts, outcome>>

RotateEpoch(m) ==
    /\ Doing("RotateApprovalEpoch") /\ m \notin run.rotated
    /\ \E proposed \in 1..MaxEpoch :
         /\ Supersede(epoch[m], proposed) = "ok" /\ proposed <= epoch[m] + 1
         /\ epoch' = [epoch EXCEPT ![m] = proposed]
    /\ run' = [run EXCEPT !.rotated = @ \union {m},
                          !.at = IF run.rotated \union {m} = Machines THEN @ + 1 ELSE @]
    /\ UNCHANGED <<world, entries, serving, flight, reader, cuts, outcome>>

\* What is written may not be heard of, and then lands or not (bound: MaxFlight of
\* them).
Writing(m, op) ==
    \/ /\ entries' = [entries EXCEPT ![m] = Written(m, op)]
       /\ UNCHANGED flight
    \/ /\ [machine |-> m, op |-> op] \notin flight /\ Cardinality(flight) < MaxFlight
       /\ flight' = flight \union {[machine |-> m, op |-> op]}
       /\ UNCHANGED entries

Estate == [i \in DOMAIN MachineList |-> [machine |-> MachineList[i], print |-> MachineList[i]]]

\* The gates of an enrolment, then the entry.
InstallIdentity(m) ==
    /\ Doing("InstallNewIdentities") /\ NextFor(run.seen[m]) = "install new"
    /\ Mint(Estate) = "ok"
    /\ AuthorizeEnrolment(Machines, <<[endpoint |-> m, role |-> "agent"]>>, Estate, m) = "ok"
    /\ JudgeEntry(RenderEntry("ssh-ed25519", "key")) = "ok"
    /\ Writing(m, "install")
    /\ run' = [run EXCEPT !.seen[m] = "unseen"]
    /\ UNCHANGED <<world, serving, epoch, reader, cuts, outcome>>

IdentitiesInstalled ==
    /\ Doing("InstallNewIdentities")
    /\ \A m \in Machines : NextFor(run.seen[m]) \in {"withdraw old", "nothing"}
    /\ Advance
    /\ UNCHANGED <<world, entries, serving, flight, epoch, reader, cuts, outcome>>

Reports == [machine : Machines, print : Machines, changed : BOOLEAN,
            operation : {"diagnose", "other"}, sequence : {0, 1}]

\* The Auxiliary's report, which only the machine's own new identity can fetch.
VerifyMachine(m) ==
    /\ Doing("VerifyNewAuthority") /\ m \notin run.verified
    /\ "new" \in serving[m]
    /\ \E report \in Reports : report.print = m /\ VerifyPath(Estate, m, report) = "ok"
    /\ run' = [run EXCEPT !.verified = @ \union {m},
                          !.at = IF run.verified \union {m} = Machines THEN @ + 1 ELSE @]
    /\ UNCHANGED <<world, entries, serving, flight, epoch, reader, cuts, outcome>>

WithdrawOld(m) ==
    /\ Doing("WithdrawOldAuthority") /\ NextFor(run.seen[m]) = "withdraw old"
    /\ \E v \in run.verified : Withdraw(v, m, run.file[m], "new", {"old"}) = "ok"
    /\ Writing(m, "withdraw")
    /\ run' = [run EXCEPT !.seen[m] = "unseen", !.file[m] = {}]
    /\ UNCHANGED <<world, serving, epoch, reader, cuts, outcome>>

OldWithdrawn ==
    /\ Doing("WithdrawOldAuthority")
    /\ \A m \in Machines : NextFor(run.seen[m]) = "nothing"
    /\ Advance
    /\ UNCHANGED <<world, entries, serving, flight, epoch, reader, cuts, outcome>>

\* Every kind is looked at, or is not seen this time.
SweepResidues ==
    /\ Doing("SweepResidualAuthority")
    /\ \E blind \in SUBSET {"device"} :
         Sweep({[kind |-> k, grant |-> IF k \in blind THEN "not observed"
                                       ELSE IF k \in residues THEN "grants" ELSE "refused"] :
                   k \in Kinds}) = "ok"
    /\ Advance
    /\ UNCHANGED <<world, entries, serving, flight, epoch, reader, cuts, outcome>>

\* conclude, of what this run saw and of the reader and the isolation as they are.
Secure ==
    LET targets == [i \in DOMAIN MachineList |->
                       [machine |-> MachineList[i], state |-> run.seen[MachineList[i]]]]
        containment == IF run.kind = "loss" THEN "not applicable"
                       ELSE IF isolated THEN "held" ELSE "lost"
    IN /\ Doing("ArchiveOldAssociation")
       /\ Assemble(targets) = "ok"
       /\ Rotate(run.samples, ReaderNow, "old", "new", "old") = "ok"
       /\ Conclude(run.kind, containment, targets, ReaderNow.to, "new") = "ok"
       /\ outcome' = "secured"
       /\ UNCHANGED <<world, entries, serving, flight, epoch, reader, run, cuts>>

StepOf(m) == RotateEpoch(m) \/ InstallIdentity(m) \/ VerifyMachine(m) \/ WithdrawOld(m)

Observes(m) == ReadKeyFile(m) \/ \E hears \in SUBSET {"old", "new"} : TryIdentities(m, hears)

FleetStep == \/ CheckIsolation \/ AuditMachines \/ CloseReader \/ InstallController
             \/ AssociateApp \/ ReopenReader \/ IdentitiesInstalled \/ OldWithdrawn
             \/ SweepResidues \/ Secure

Next ==
    \/ Isolate \/ LoseIsolation \/ Revoke \/ Cut \/ Decide \/ FleetStep
    \/ \E m \in Machines : Reload(m) \/ Observes(m) \/ StepOf(m)
    \/ \E f \in flight : Land(f)

Spec == Init /\ [][Next]_vars

(***************************************************************************)
(* The run goes on as long as it can, or a grant is revoked; sshd reloads. *)
(* A machine asked again and again is heard in the end.                    *)
(***************************************************************************)
Progress == \/ FleetStep \/ Revoke
            \/ \E m \in Machines : ReadKeyFile(m) \/ StepOf(m)

FairSpec ==
    /\ Spec /\ WF_vars(Progress) /\ WF_vars(\E m \in Machines : Reload(m))
    /\ \A m \in Machines : SF_vars(TryIdentities(m, {"old", "new"}))

-----------------------------------------------------------------------------
(* What a replacement promises.                                            *)

\* At no moment, cut or late write included, is a machine left without an
\* authority: its key file always holds the old identity or the new one
\* (withdrawal.rs, transition.rs).
AuthorityNeverLost ==
    \A m \in Machines : {"old", "new"} \intersect ManagedPrints(m) # {}

\* The Relay never serves the old Controller once a new one exists (reader.rs,
\* plan.rs).
OneReader == installed => ~(ReaderNow.state = "open" /\ ReaderNow.to = "old")

\* A replacement called secured is one: on every machine the new identity alone,
\* the reader the new Controller's, and nothing left that grants the old one
\* (transition.rs, inheritance.rs and conclude).
SecuredIsExclusive ==
    outcome = "secured" =>
        /\ \A m \in Machines : /\ ManagedPrints(m) \intersect {"old", "new"} = {"new"}
                               /\ "old" \notin serving[m]
        /\ ReaderNow.state = "open" /\ ReaderNow.to = "new"
        /\ residues = {}

\* A run that is neither cut nor released by its suspect host is secured: no
\* order of unheard answers and late writes leaves it without a next step
\* (transition.rs, next).
RunSecures ==
    run.kind # "none" ~> \/ outcome = "secured" \/ run.kind = "none"
                         \/ run.kind = "compromise" /\ ~isolated
=============================================================================
