--------------------------- MODULE AssistantSession ---------------------------
(***************************************************************************)
(* One bootstrap session inside the native assistant, from the scope it    *)
(* was handed to the terminal it writes: the consent window, the personal  *)
(* key, the SSH session and its budget of channels, the proof of the       *)
(* elevation with or without a password, the observation of the target,    *)
(* and the installation with its ledger.                                   *)
(*                                                                         *)
(* The deadline, the lease held by the App, the operator and the target    *)
(* run beside it. An operation on the target may go unanswered, whether or *)
(* not it took effect.                                                     *)
(***************************************************************************)
EXTENDS InstallPlan

CONSTANTS
    Platforms,      \* the systems the App runs on: "linux", "windows"
    Routes,         \* the access routes: "administrator", "root"
    Modes,          \* the modes of a bootstrap: "create", "replace"
    Local,          \* the addresses of the App's own machine
    Resolutions,    \* what the approved name may resolve to: sequences of addresses
    MaxAddresses,   \* the addresses a target may keep
    Found,          \* what the target may hold before the session: functions on Items
    MaxReplaced     \* bound: times the key file changes while the session runs

ASSUME SessionAssumption ==
    /\ Platforms \subseteq {"linux", "windows"}
    /\ Routes \subseteq {"administrator", "root"}
    /\ Modes \subseteq {"create", "replace"}
    /\ MaxReplaced \in Nat /\ MaxAddresses \in Nat
    /\ \A f \in Found : f \in [Items -> {"absent", "right", "wrong"}]

\* IpAddr: a host of a class, in one of the forms it may be written.
Addresses ==
    [family : {"v4", "v6", "mapped"}, host : Nat,
     class : {"unicast", "unspecified", "loopback", "linklocal", "multicast", "broadcast"}]

\* Only an IPv4 address is a broadcast one, and a host this machine has is one
\* address, in whichever of the two forms of IPv4 it is written.
ASSUME AddressAssumption ==
    /\ Local \subseteq Addresses /\ \A r \in Resolutions : r \in Seq(Addresses)
    /\ \A r \in Resolutions : \A i \in DOMAIN r :
          /\ r[i].class = "broadcast" => r[i].family # "v6"
          /\ \A l \in Local : l.host = r[i].host =>
                /\ l.class = r[i].class
                /\ l.family = "v6" <=> r[i].family = "v6"

VARIABLES
    pc,         \* where the session is
    platform,   \* the system it runs on
    scope,      \* the approved actions, the route and the mode
    expired,    \* the deadline has passed
    lease,      \* "held" | "cancelled" | "invalid"
    keyFile,    \* the version of the file the chosen path leads to
    dialled,    \* the frozen addresses of the target
    agent,      \* what the agent offers: "none", only "certificates", a "plain" identity
    credential, \* what will sign: 0 for the agent, else a version of the key file
    live,       \* the SSH session: open or not, channels spent, budget
    proved,     \* what is attested of the other side
    secret,     \* the sudo password: "none" | "held" | "gone"
    policy,     \* the attested sudo policy
    seen,       \* observation channels that were run, and those that answered
    target,     \* what the target holds
    found,      \* what it held before the session
    at,         \* the next operation of the installation: step and index
    readings,   \* the answers of the deposit under way
    pending,    \* steps done and not yet established
    ledger,     \* the ledger
    ended,      \* how the installation ended: "no" until it has
    exports,    \* what the terminal will carry
    terminal    \* the terminal written, "none" before

sessionVars == <<pc, platform, scope, expired, lease, keyFile, dialled, agent, credential, live, proved,
                 secret, policy,
                 seen, exports, terminal>>
installVars == <<target, found, at, readings, pending, ledger, ended>>
vars == <<sessionVars, installVars>>

Outcomes == {"verified", "refused", "cancelled", "expired", "unavailable"}
NoExports == [scope |-> "none", ledger |-> FALSE, cause |-> "none"]
NoPolicy == [required |-> FALSE, suffices |-> FALSE]

\* approved_scope: the lists a window can name.
ApprovedScopes == {<<"audit">>, <<"install", "activate">>}

Installs == \E i \in DOMAIN scope.actions : scope.actions[i] = "install"

(* Mutant: an installation asks of the policy what an audit does. *)
RequiredScopeOfAudit == "one"

RequiredScope == IF Installs THEN "every" ELSE "one"
Cut == expired \/ lease # "held"

TypeOK ==
    /\ pc \in {"open", "window", "key", "passphrase", "dial", "attest", "authenticate",
               "probe", "list", "ask", "list-again", "elevate", "observe", "judge", "drive", "drop", "resolve", "done"}
    /\ platform \in Platforms
    /\ scope \in [actions : ApprovedScopes, route : Routes, mode : Modes]
    /\ expired \in BOOLEAN /\ lease \in {"held", "cancelled", "invalid"}
    /\ keyFile \in 1..(MaxReplaced + 1) /\ credential \in 0..(MaxReplaced + 1)
    /\ dialled \subseteq UNION {Frozen(r) : r \in Resolutions} 
    /\ agent \in {"none", "certificates", "plain"}
    /\ live \in [open : BOOLEAN, spent : Nat, budget : Nat]
    /\ proved \in [host : BOOLEAN, identity : BOOLEAN, elevated : BOOLEAN]
    /\ secret \in {"none", "held", "gone"}
    /\ policy \in [required : BOOLEAN, suffices : BOOLEAN]
    /\ seen \in [run : 0..ObservationChannels, answered : 0..ObservationChannels]
    /\ target \in [Items -> {"absent", "right", "wrong"}] /\ found \in Found
    /\ at \in [step : Nat, op : Nat]
    /\ ended \in {"no", "whole", "BudgetRefused", "Unanswered", "ActFailed", "Refused"}
    /\ terminal \in Outcomes \union {"none", "protocol", "internal"}

Init ==
    /\ pc = "open"
    /\ platform \in Platforms
    /\ scope \in [actions : ApprovedScopes, route : Routes, mode : Modes]
    /\ expired = FALSE /\ lease = "held"
    /\ keyFile = 1 /\ credential = 0 /\ dialled = {} /\ agent = "none"
    /\ live = [open |-> FALSE, spent |-> 0, budget |-> 0]
    /\ proved = [host |-> FALSE, identity |-> FALSE, elevated |-> FALSE]
    /\ secret = "none" /\ policy = NoPolicy
    /\ seen = [run |-> 0, answered |-> 0]
    /\ found \in Found /\ target = found
    /\ at = [step |-> 1, op |-> 1] /\ readings = <<>>
    /\ pending = <<>> /\ ledger = <<>> /\ ended = "no"
    /\ exports = NoExports /\ terminal = "none"

-----------------------------------------------------------------------------
(* What runs beside the session.                                           *)

Expire == ~expired /\ pc # "done" /\ expired' = TRUE
          /\ UNCHANGED <<pc, platform, scope, lease, keyFile, dialled, agent, credential, live, proved,
                         secret, policy,
                         seen, exports, terminal, installVars>>

LoseLease == /\ lease = "held" /\ pc # "done"
             /\ lease' \in {"cancelled", "invalid"}
             /\ UNCHANGED <<pc, platform, scope, expired, keyFile, dialled, agent, credential, live, proved,
                            secret,
                            policy, seen, exports, terminal, installVars>>

ReplaceKeyFile == /\ pc \in {"key", "passphrase"} /\ keyFile <= MaxReplaced
                  /\ keyFile' = keyFile + 1
                  /\ UNCHANGED <<pc, platform, scope, expired, lease, dialled, agent, credential, live,
                                 proved, secret,
                                 policy, seen, exports, terminal, installVars>>

-----------------------------------------------------------------------------
(* The forms a step of the session takes.                                  *)

\* ProtectedSecret is wiped wherever it is dropped.
Forgotten == IF secret = "held" THEN "gone" ELSE secret

\* The SSH session and the password both end with the prompt's outcome.
EndWith(outcome, told) ==
    /\ pc' = "resolve"
    /\ terminal' = outcome
    /\ exports' = told
    /\ live' = [live EXCEPT !.open = FALSE]
    /\ secret' = Forgotten

\* A native window, with what may have happened to it since it opened.
Edits == [intact : BOOLEAN, units : {0, 1, MaxSecretUnits + 1}, readable : BOOLEAN]
Windows(l, x, asks) ==
    [lease : {l}, expired : {x}, asks : {asks}, click : {"accept", "refuse", "close", "timer"},
     selected : BOOLEAN, offered : BOOLEAN, texts : BOOLEAN, cleared : BOOLEAN, edit : Edits]
WindowOutcomes(p, l, x, asks) ==
    LET opened == [lease : {"held", l}, expired : {FALSE, x}, made : BOOLEAN]
        shown == Windows(l, x, asks)
    IN IF p = "linux"
       THEN UNION {{GtkDialog(o, w) : w \in {v \in shown : v.click # "timer"}} : o \in opened}
       ELSE UNION {{Win32Dialog(o, w) : w \in shown} : o \in opened} \ {"open"}
WindowEnds ==
    [q \in Platforms \X {"held", "cancelled", "invalid"} \X BOOLEAN
                     \X {"identity", "secret", "nothing"} |-> WindowOutcomes(q[1], q[2], q[3], q[4])]

Ends(asks) == WindowEnds[<<platform, lease, expired, asks>>]

\* run_channel: a spent budget opens nothing, the deadline sends nothing, and a
\* lost lease sends the command and reads no answer.
ChannelOpens == live.spent < live.budget
Spend == live' = [live EXCEPT !.spent = @ + 1]
Answers == ChannelOpens /\ ~Cut
Sends == ChannelOpens /\ ~expired

\* A channel of the proof is answered as it should and the session goes on, or it
\* ends here.
ProofFails(told) == /\ EndWith("unavailable", told)
                    /\ UNCHANGED <<proved, policy>>

Streams == [large : {FALSE}, ascii : BOOLEAN, terminal : BOOLEAN, secret : BOOLEAN,
            refused : BOOLEAN, prompts : {1, 2}, foreign : BOOLEAN]
Quiet == [large |-> FALSE, ascii |-> TRUE, terminal |-> FALSE, secret |-> FALSE,
          refused |-> FALSE, prompts |-> 1, foreign |-> FALSE]
OneMark == {Quiet} \union {s \in Streams : Cardinality({f \in DOMAIN Quiet : s[f] # Quiet[f]}) = 1}

Entries == [runas : {"root", "other"}, waived : BOOLEAN,
            commands : {{"ALL"}, {"program"}, {"other"}, {"ALL", "!"}}]
Listings ==
    [large : {FALSE}, ascii : {TRUE}, terminal : BOOLEAN, secret : BOOLEAN, succeeded : BOOLEAN,
     anchored : BOOLEAN, entries : {<<>>} \union {<<e>> : e \in Entries}]
Keys == [pem : {TRUE}, encrypted : BOOLEAN, rounds : {0, 1}, maxRounds : {1}, count : {1},
         type : KeyTypes, small : BOOLEAN]
\* The socket the agent's variable names, and what the agent offers to sign with.
Sockets == [path : {"absolute"}, isSocket : BOOLEAN, owner : {1, 2}, writable : BOOLEAN,
            parentOwner : {0, 1, 2}, parentWritable : BOOLEAN, parentSticky : BOOLEAN]
Offers == [certificate : BOOLEAN, fingerprint : {"selected", "other"}, type : KeyTypes,
           hash : {"sha2", "none"}]
Frames == [large : BOOLEAN, owed : {0, 1}, readable : BOOLEAN]
Listed == [frame : Frames, count : {0, 1, MaxOfferedIdentities + 1}, plain : BOOLEAN]
Holds(endpoint, listed) ==
    IF endpoint # "ok" \/ ListIdentities(listed) # "ok" THEN "none"
    ELSE IF listed.plain THEN "plain" ELSE "certificates"

\* What is read of the pipe and of the process behind it.
Pipes == [isPipe : BOOLEAN, process : {0, 1}, owner : {"", "system", "other"},
          system : {"", "agent"}, visible : BOOLEAN, image : {"", "agent", "other"},
          account : {"", "system", "other"}, again : {0, 1, 2}, alive : BOOLEAN]
Tries == {<<"opened">>, <<"denied">>, <<"failed">>, <<"absent", "opened">>, <<"busy", "busy">>}
\* open_agent, open_personal_agent: what the agent leaves that may be offered.
AgentHolds ==
    [p \in Platforms |->
        IF p = "linux"
        THEN {Holds(AgentEndpoint(socket, 1), listed) : socket \in Sockets, listed \in Listed}
        ELSE {Holds(endpoint, listed) :
                 endpoint \in {ObservePipe(tries, pipe) : tries \in Tries, pipe \in Pipes},
                 listed \in Listed}]
MaxLocal == 256
Identities == [exit : {0, 1}, uid : {"root", "user", "unreadable"}, noisy : {FALSE}]

-----------------------------------------------------------------------------
(* serve_personal_access and serve_root_access, up to the open session.    *)

\* Prepared::open: the name is resolved, judged against the addresses of this
\* machine and frozen, or nothing is opened. An agent that refuses ends nothing on
\* Linux, where the window is left with the key file; on Windows it ends the
\* administrator's route.
PrepareAccess ==
    /\ pc = "open"
    /\ \E name \in {"printable", "other"}, answers \in Resolutions, local \in {{}, Local} :
         LET resolved == Collected(answers, MaxAddresses)
             kept == LocalObserved(local, MaxLocal)
                     /\ Freeze(name, resolved, local, MaxAddresses) = "ok"
         IN \/ ~expired /\ kept
               /\ agent' \in AgentHolds[platform] /\ dialled' = Frozen(resolved)
               /\ IF platform = "windows" /\ scope.route = "administrator" /\ agent' = "none"
                  THEN EndWith("unavailable", NoExports)
                  ELSE pc' = "window" /\ UNCHANGED <<exports, terminal, live, secret>>
            \/ /\ expired \/ ~kept
               /\ EndWith("unavailable", NoExports) /\ UNCHANGED <<dialled, agent>>
    /\ UNCHANGED <<platform, scope, expired, lease, keyFile, credential, proved, policy, seen, installVars>>

\* The consent window: an identity of the agent that is not a certificate, or a
\* key file, which neither the root route nor the Win32 window takes.
AnswerWindow ==
    LET ends == Ends(IF agent = "none" THEN "nothing" ELSE "identity")
    IN
    /\ pc = "window"
    /\ \/ \E o \in ends \ {"ok"} : EndWith(o, NoExports)
       \/ /\ \/ "ok" \in ends /\ agent = "plain" /\ pc' = "dial"
             \/ /\ ~Cut /\ platform = "linux" /\ scope.route = "administrator"
                /\ pc' = "key"
          /\ UNCHANGED <<exports, terminal, live, secret>>
    /\ UNCHANGED <<platform, scope, expired, lease, keyFile, dialled, agent, credential, proved, policy,
                   seen, installVars>>

\* open_personal_key: the file is opened, read and judged before the passphrase is
\* asked; one that was replaced meanwhile is refused.
OpenKey ==
    LET file(v, link, key) == [link |-> link, regular |-> TRUE, large |-> FALSE, inode |-> v,
                               version |-> v, key |-> key]
    IN /\ pc = "key"
       /\ \E link \in BOOLEAN, key \in Keys, later \in keyFile..(MaxReplaced + 1) :
            LET judged == OpenKeyFile(file(keyFile, link, key), file(later, link, key))
            IN \/ judged # "ok" /\ EndWith("unavailable", NoExports) /\ UNCHANGED credential
               \/ /\ judged = "ok"
                  /\ pc' = "passphrase" /\ credential' = keyFile
                  /\ UNCHANGED <<exports, terminal, live, secret>>
       /\ UNCHANGED <<platform, scope, expired, lease, keyFile, dialled, agent, proved, policy, seen, installVars>>

\* The passphrase window, then unlock: the file is confirmed, the key derived.
UnlockKey ==
    LET opened(v) == [link |-> FALSE, inode |-> v, version |-> v]
        confirmed == ConfirmKeyFile(opened(keyFile), opened(credential))
    IN /\ pc = "passphrase"
       /\ \/ \E o \in (Ends("secret") \ {"ok"}) \union {"unavailable"} : EndWith(o, NoExports)
          \/ /\ "ok" \in Ends("secret") /\ confirmed = "ok"
             /\ pc' = "dial" /\ UNCHANGED <<exports, terminal, live, secret>>
       /\ UNCHANGED <<platform, scope, expired, lease, keyFile, dialled, agent, credential, proved, policy, seen,
                      installVars>>

\* connect_to_frozen_address: the frozen addresses in turn, until one answers as
\* itself.
Dial ==
    /\ pc = "dial"
    /\ \/ EndWith("unavailable", NoExports)
       \/ /\ ~Cut /\ dialled # {}
          /\ pc' = "attest" /\ UNCHANGED <<exports, terminal, live, secret>>
    /\ UNCHANGED <<platform, scope, expired, lease, keyFile, dialled, agent, credential, proved, policy, seen,
                   installVars>>

\* kex_done and check_server_key: the algorithm first negotiated and the key that
\* was presented under it.
AttestHost ==
    /\ pc = "attest"
    /\ \/ EndWith("unavailable", NoExports) /\ UNCHANGED proved
       \/ \E presented \in [type : KeyTypes, key : {"approved", "other"},
                             signature : {"ssh-ed25519", "rsa-sha2-512", "ssh-dss"}] :
            /\ AttestPresented("approved", presented) = "ok"
            /\ proved' = [proved EXCEPT !.host = TRUE]
            /\ pc' = "authenticate" /\ UNCHANGED <<exports, terminal, live, secret>>
    /\ UNCHANGED <<platform, scope, expired, lease, keyFile, dialled, agent, credential, policy, seen,
                   installVars>>

\* authenticate: one signature, of a host that is attested. The administrator's
\* session then adopts the budget of its plan, or ends.
Authenticate ==
    LET derived == IF scope.route = "root" THEN 0 ELSE ChannelBudget(scope.actions)
        signs(offered, frame) ==
            IF credential = 0 THEN SignWithAgent("selected", offered, frame)
            ELSE SignWithPersonalKey("selected", offered)
    IN /\ pc = "authenticate"
       /\ \/ EndWith("unavailable", NoExports)
          \/ /\ ~Cut /\ proved.host
             /\ \E offered \in Offers, frame \in Frames : signs(offered, frame) = "ok"
             /\ derived # 0 => MayAdoptBudget(0, MaxExecChannels, derived)
             /\ live' = [open |-> TRUE, spent |-> 0,
                         budget |-> IF derived = 0 THEN MaxExecChannels ELSE derived]
             /\ pc' = "probe" /\ UNCHANGED <<exports, terminal, secret>>
       /\ UNCHANGED <<platform, scope, expired, lease, keyFile, dialled, agent, credential, proved, policy, seen,
                      installVars>>

-----------------------------------------------------------------------------
(* prove_administrator_elevation, attested_policy, serve_root_access.      *)

Probe ==
    /\ pc = "probe"
    /\ \/ ProofFails(exports)
       \/ \E a \in Identities :
            /\ Answers /\ AttestIdentity(scope.route, a) = "ok"
            /\ \/ /\ scope.route = "administrator"
                  /\ Spend /\ pc' = "list" /\ UNCHANGED <<exports, terminal, secret>>
               \/ scope.route = "root" /\ EndWith("verified", exports)
            /\ proved' = [proved EXCEPT !.identity = TRUE, !.elevated = scope.route = "root"]
            /\ UNCHANGED policy
    /\ UNCHANGED <<platform, scope, expired, lease, keyFile, dialled, agent, credential, seen, installVars>>

Told(refusal) ==
    LET r == PolicyRefusal(refusal)
    IN EndWith(r.outcome, [exports EXCEPT !.cause = r.cause,
                                          !.scope = IF r.narrow THEN "narrow" ELSE @])

Attests(r) ==
    /\ policy' = [required |-> PasswordRequired(r), suffices |-> Suffices(r)]
    /\ exports' = [exports EXCEPT !.scope = IF Suffices(r) THEN "suffices" ELSE "narrow"]
    /\ pc' = "elevate"
    /\ UNCHANGED <<proved, terminal>>

\* The listing without a password: attested, refused, or it costs the secret.
ListPolicy ==
    /\ pc = "list"
    /\ \/ ProofFails(exports)
       \/ \E r \in Listings :
            LET read == ReadPolicy(r, RequiredScope)
            IN /\ Answers
               /\ \/ read = "ok" /\ Attests(r) /\ Spend /\ UNCHANGED secret
                  \/ /\ read = "CostsTheSecret"
                     /\ pc' = "ask" /\ Spend
                     /\ UNCHANGED <<exports, terminal, secret, policy, proved>>
                  \/ /\ read \notin {"ok", "CostsTheSecret"}
                     /\ Told(read) /\ UNCHANGED <<policy, proved>>
    /\ UNCHANGED <<platform, scope, expired, lease, keyFile, dialled, agent, credential, seen, installVars>>

AskPassword ==
    /\ pc = "ask"
    /\ \/ \E o \in Ends("secret") \ {"ok"} : EndWith(o, exports)
       \/ /\ "ok" \in Ends("secret") /\ secret' = "held" /\ pc' = "list-again"
          /\ UNCHANGED <<exports, terminal, live>>
    /\ UNCHANGED <<platform, scope, expired, lease, keyFile, dialled, agent, credential, proved, policy,
                   seen, installVars>>

\* The listing with the password, which an entry that waives it does not keep.
ListPolicyWithSecret ==
    /\ pc = "list-again"
    /\ \/ ProofFails(exports)
       \/ \E r \in Listings, err \in OneMark :
            LET read == AttestPolicyAfterSecret(r, err, RequiredScope)
            IN /\ Answers
               /\ \/ /\ read = "ok" /\ Attests(r) /\ Spend
                     /\ secret' = IF PasswordRequired(r) THEN "held" ELSE Forgotten
                  \/ read # "ok" /\ Told(read) /\ UNCHANGED <<policy, proved>>
    /\ UNCHANGED <<platform, scope, expired, lease, keyFile, dialled, agent, credential, seen, installVars>>

\* The elevated command. A password that is required and not held ends it, and so
\* does an answer whose status and uid disagree. Only a creation installs.
Elevate ==
    /\ pc = "elevate"
    /\ \/ ProofFails(exports)
       \/ \E a \in Identities, err \in OneMark :
            /\ Answers /\ (policy.required => secret = "held")
            /\ Elevated(a, err) = "ok"
            /\ proved' = [proved EXCEPT !.elevated = TRUE]
            /\ UNCHANGED policy
            /\ \/ /\ Installs /\ scope.mode = "create" /\ Spend /\ pc' = "observe"
                  /\ UNCHANGED <<exports, terminal, secret>>
               \/ Installs /\ scope.mode = "replace" /\ EndWith("unavailable", exports)
               \/ ~Installs /\ EndWith("verified", exports)
    /\ UNCHANGED <<platform, scope, expired, lease, keyFile, dialled, agent, credential, seen, installVars>>

-----------------------------------------------------------------------------
(* run_installation, up to the sequence.                                   *)

\* observe: a channel that gives nothing is a fact nobody knows, not an error.
Observe ==
    /\ pc = "observe" /\ seen.run < ObservationChannels
    /\ live' = [live EXCEPT !.spent = IF ChannelOpens THEN @ + 1 ELSE @]
    /\ \E got \in {0} \union (IF Answers THEN {1} ELSE {}) :
         seen' = [run |-> seen.run + 1, answered |-> seen.answered + got]
    /\ pc' = IF seen.run + 1 = ObservationChannels THEN "judge" ELSE "observe"
    /\ UNCHANGED <<platform, scope, expired, lease, keyFile, dialled, agent, credential, proved, secret,
                   policy, exports,
                   terminal, installVars>>

\* The answers a target may have given to the observation.
Bodies(roles) ==
    [f \in AuditFiles |->
        CASE f = "os-release" -> [shape |-> "text", value |-> "debian-13"]
          [] f = "comm" -> [shape |-> "text", value |-> "systemd"]
          [] f = "roles" -> roles
          [] OTHER -> [shape |-> "text", value |-> 2]]
RolesFiles == {[shape |-> "missing", value |-> <<>>], [shape |-> "text", value |-> <<"relay">>],
               [shape |-> "text", value |-> <<"agent", "agent">>]}
Observed(disk, roles) ==
    IF seen.answered < ObservationChannels
    THEN Assemble(NoAnswer, [exit |-> 1, text |-> "garbled", level |-> 0], Bodies(roles))
    ELSE Assemble(ChannelAnswer(0, "amd64"), [exit |-> 0, text |-> "fine", level |-> disk],
                  Bodies(roles))
Endpoint(private, on) ==
    [name |-> "here", private |-> private, normallyOn |-> on, relayCandidate |-> FALSE]

Placed(endpoint, machine) ==
    Approve(Propose("controller", endpoint, machine), "controller", endpoint,
            [role |-> "controller", endpoint |-> endpoint.name])

\* The placement, the carried bundle, the configuration and the plan, in order:
\* what is not there makes the session unavailable, what is wrong refuses it.
Judge ==
    /\ pc = "judge"
    /\ \E disk \in {2, 3}, roles \in RolesFiles, private \in BOOLEAN, on \in BOOLEAN :
         \/ /\ Placed(Endpoint(private, on), Observed(disk, roles)) # "approved"
            /\ EndWith("refused", exports)
         \/ /\ Placed(Endpoint(private, on), Observed(disk, roles)) = "approved"
            /\ \E c \in [position : {"attested", "elsewhere"}, files : {"all"}, large : {FALSE},
                         signed : BOOLEAN, readable : {TRUE}, target : {"supported"},
                         version : {"expected", "older"}, digest : BOOLEAN] :
                 \/ ~Carried(c) /\ EndWith("unavailable", exports)
                 \/ /\ Carried(c) /\ VerifyBundle(c) # "ok"
                    /\ EndWith("refused", exports)
                 \/ /\ Carried(c) /\ VerifyBundle(c) = "ok"
                    /\ \E configuration \in {"values", "equals"} :
                         \/ /\ Compose(configuration) # "ok"
                            /\ EndWith("refused", exports)
                         \/ /\ Compose(configuration) = "ok"
                            /\ Authorize("controller", c, "here", [kind |-> "creation"]) = "ok"
                            /\ pc' = "drive"
                            /\ UNCHANGED <<exports, terminal, live, secret>>
    /\ UNCHANGED <<platform, scope, expired, lease, keyFile, dialled, agent, credential, proved, policy,
                   seen, installVars>>
=============================================================================
