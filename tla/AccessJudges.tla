----------------------------- MODULE AccessJudges -----------------------------
(***************************************************************************)
(* The judgements of the personal access: what may be dialled, which host  *)
(* key is the approved one, what a key file must be, what a sudo policy    *)
(* allows and what an elevated command has proved. Pure functions of what  *)
(* was observed; AssistantSession takes the steps around them.             *)
(*                                                                         *)
(* A judgement is "ok" or the name of its refusal. The code returns at the *)
(* first check that fails, so a judgement is an ordered list of checks.    *)
(***************************************************************************)
EXTENDS Naturals, Sequences, FiniteSets

FirstRefusal(checks) ==
    LET failing == {i \in DOMAIN checks : checks[i][1]}
    IN IF failing = {} THEN "ok"
       ELSE checks[CHOOSE i \in failing : \A j \in failing : i <= j][2]

-----------------------------------------------------------------------------
(* target.rs, resolver.rs, local_addresses.rs: the frozen target.          *)

(* Mutant: an address is compared as it is written. *)
NormaliseNothing(a) == a

\* An address is a host of a class, written as v4, v6 or v4 mapped into v6.
Normalise(a) == IF a.family = "mapped" THEN [a EXCEPT !.family = "v4"] ELSE a

ReachabilityClass(a) ==
    FirstRefusal(<< <<a.class = "unspecified", "Unspecified">>,
                    <<a.class = "loopback", "Loopback">>,
                    <<a.class = "linklocal", "LinkLocal">>,
                    <<a.class = "multicast", "Multicast">>,
                    <<a.family = "v4" /\ a.class = "broadcast", "Broadcast">> >>)

\* One resolved address, against this machine's own addresses.
Admitted(a, local) ==
    LET class == ReachabilityClass(Normalise(a))
    IN IF class # "ok" THEN class
       ELSE IF Normalise(a) \in {Normalise(l) : l \in local} THEN "LocalInterface" ELSE "ok"

Frozen(resolved) == {Normalise(resolved[i]) : i \in DOMAIN resolved}

\* resolve: one more answer than a target may keep is pulled, never the rest.
Collected(answers, maxAddresses) ==
    SubSeq(answers, 1, IF Len(answers) > maxAddresses THEN maxAddresses + 1 ELSE Len(answers))

\* freeze: the first address refused refuses the whole target; the bound counts
\* the distinct addresses that are left.
Freeze(name, resolved, local, maxAddresses) ==
    FirstRefusal(<< <<name # "printable", "Name">>, <<resolved = <<>>, "NoAddress">> >>
                 \o [i \in DOMAIN resolved |->
                        <<Admitted(resolved[i], local) # "ok", Admitted(resolved[i], local)>>]
                 \o << <<Cardinality(Frozen(resolved)) > maxAddresses, "TooManyAddresses">> >>)

\* LocalAddresses: nothing observed, or more than is kept, is a refusal.
LocalObserved(observed, maxLocal) == observed # {} /\ Cardinality(observed) <= maxLocal

\* accept_linux_endpoint: whose socket the agent's is, and who could replace it.
AgentEndpoint(socket, uid) ==
    FirstRefusal(<< <<socket.path # "absolute", "Path">>,
                    <<~socket.isSocket, "NotASocket">>,
                    <<socket.owner # uid, "ForeignOwner">>,
                    <<socket.writable, "GroupOrWorldWritable">>,
                    <<socket.parentOwner \notin {uid, 0}, "ForeignParentDirectory">>,
                    <<socket.parentWritable /\ ~socket.parentSticky,
                      "ReplaceableParentDirectory">> >>)

\* open_pipe: an absent or a busy pipe is tried again until its own bound is spent.
OpenPipe(tries) ==
    LET last == tries[Len(tries)]
    IN CASE last = "opened" -> "ok"
         [] last = "denied" -> "ServerNotAttestable"
         [] OTHER -> "PipeUnavailable"

\* serves_the_same_process: asked again after everything else was read.
StillServing(pipe) == pipe.again = pipe.process /\ pipe.process # 0 /\ pipe.alive

\* accept_windows_endpoint: the pipe by the account that owns the object, and by
\* the process behind it when that may be looked at; "" is a fact not read.
PipeEndpoint(pipe) ==
    FirstRefusal(<< <<~pipe.isPipe, "NotANamedPipe">>,
                    <<pipe.process = 0 \/ pipe.owner = "" \/ pipe.system = "",
                      "ServerNotAttestable">>,
                    <<pipe.owner # "system", "ForeignPipeOwner">>,
                    <<pipe.visible /\ (pipe.image = "" \/ pipe.account = ""),
                      "ServerNotAttestable">>,
                    <<pipe.visible /\ pipe.image # pipe.system, "ForeignPipeServer">>,
                    <<pipe.visible /\ pipe.account # "system", "ForeignServerAccount">>,
                    <<~StillServing(pipe), "ServerReplaced">> >>)

\* observe_declared_pipe: the handle that is attested is the one spoken over.
ObservePipe(tries, pipe) ==
    FirstRefusal(<< <<OpenPipe(tries) # "ok", OpenPipe(tries)>>,
                    <<PipeEndpoint(pipe) # "ok", PipeEndpoint(pipe)>> >>)

-----------------------------------------------------------------------------
(* native_prompt.rs, native_prompt_windows.rs: how a window ends; "ok" is  *)
(* the consent or the secret it was opened for.                            *)

MaxSecretUnits == 1024

\* capture_secret: nothing typed is a refusal, what cannot be read whole is not.
CaptureSecret(edit) ==
    FirstRefusal(<< <<~edit.intact, "unavailable">>,
                    <<edit.units = 0 /\ edit.readable, "refused">>,
                    <<edit.units \notin 1..MaxSecretUnits \/ ~edit.readable, "unavailable">> >>)

\* What the lease and the deadline make of a window that is open.
Interrupted(w) ==
    << <<w.lease = "invalid", "unavailable">>, <<w.expired, "expired">>,
       <<w.lease = "cancelled", "cancelled">> >>

\* An accepted window: an identity that was selected, or a secret. A consent that
\* names no identity opens no session.
Accepted(w) ==
    CASE w.asks = "identity" -> IF w.selected THEN "ok" ELSE "refused"
      [] w.asks = "secret" -> CaptureSecret(w.edit)
      [] w.asks = "nothing" -> "unavailable"

Clicked(w) == CASE w.click = "accept" -> Accepted(w)
                 [] w.click = "refuse" -> "refused"
                 [] w.click = "close" -> "cancelled"

\* run_dialog of the GTK window: a lease already cancelled comes before the
\* deadline when it opens, after it once it has run.
GtkDialog(opened, w) ==
    LET refused == FirstRefusal(<< <<opened.lease = "invalid" \/ ~opened.made, "unavailable">>,
                                   <<opened.lease = "cancelled", "cancelled">>,
                                   <<opened.expired, "expired">> >>)
    IN FirstRefusal(<< <<refused # "ok", refused>> >> \o Interrupted(w)
                    \o << <<Clicked(w) # "ok", Clicked(w)>> >>)

\* public_surface_is_intact: the texts, the field and the rows that were put there,
\* and no acceptance offered before a selection.
SurfaceIntact(w) ==
    /\ w.texts
    /\ w.asks = "secret" => w.edit.intact
    /\ w.asks = "identity" => (w.offered => w.selected)

\* accept_dialog: the surface counts with the lease, before the deadline.
AcceptDialog(w) ==
    FirstRefusal(<< <<~SurfaceIntact(w), "unavailable">> >> \o Interrupted(w)
                 \o << <<Accepted(w) # "ok", Accepted(w)>> >>)

\* dialog_proc: the timer reads the lease and the deadline; a refusal and a
\* closing read neither. finish_dialog: a field that is not emptied is a fault.
Win32Dialog(opened, w) ==
    LET refused == FirstRefusal(Interrupted(opened) \o << <<~opened.made, "unavailable">> >>)
        ends == CASE w.click = "accept" -> AcceptDialog(w)
                  [] w.click \in {"refuse", "close"} -> Clicked(w)
                  [] OTHER -> FirstRefusal(Interrupted(w)
                                           \o << <<~SurfaceIntact(w), "unavailable">>,
                                                 <<TRUE, "open">> >>)
    IN FirstRefusal(<< <<refused # "ok", refused>>, <<ends = "open", ends>>,
                       <<w.asks = "secret" /\ ~w.cleared, "unavailable">>,
                       <<ends # "ok", ends>> >>)

-----------------------------------------------------------------------------
(* agent_client.rs: the agent's frames and what it offers.                 *)

\* observe_inbound: the length announced is judged before whether a request is
\* owed an answer; the reading of a frame comes after both.
StreamRefusal(frame) ==
    FirstRefusal(<< <<frame.large, "FrameTooLarge">>, <<frame.owed = 0, "UnsolicitedMessage">> >>)

MaxOfferedIdentities == 16
ListIdentities(listed) ==
    FirstRefusal(<< <<StreamRefusal(listed.frame) # "ok", StreamRefusal(listed.frame)>>,
                    <<~listed.frame.readable, "ProtocolFailed">>,
                    <<listed.count = 0, "NoIdentity">>,
                    <<listed.count > MaxOfferedIdentities, "TooManyIdentities">> >>)

-----------------------------------------------------------------------------
(* host_key.rs, algorithms.rs, signature_budget.rs.                        *)

KeyTypes == {"ssh-ed25519", "ssh-rsa"}
SignatureAlgorithms ==
    [t \in KeyTypes |-> IF t = "ssh-rsa" THEN {"rsa-sha2-512", "rsa-sha2-256"}
                        ELSE {"ssh-ed25519"}]

\* check_server_key: the key's own fingerprint and the algorithm negotiated for it.
AttestPresented(approved, presented) ==
    FirstRefusal(<< <<approved = "none", "NoApprovedKey">>,
                    <<approved = "malformed", "ApprovedMalformed">>,
                    <<presented.type \notin KeyTypes, "AlgorithmRefused">>,
                    <<presented.key # approved, "KeyMismatch">>,
                    <<presented.signature \notin UNION {SignatureAlgorithms[t] : t \in KeyTypes},
                      "AlgorithmRefused">>,
                    <<\A t \in KeyTypes : t = presented.type =>
                          presented.signature \notin SignatureAlgorithms[t],
                      "SignatureAlgorithmMismatch">> >>)

\* authorise: one signature, by the identity that was selected.
MaxAuthenticationSignatures == 1
AuthoriseSignature(selected, offered, remaining) ==
    FirstRefusal(<< <<offered.certificate, "CertificateOffered">>,
                    <<offered.fingerprint # selected, "IdentityChanged">>,
                    <<\/ offered.type \notin KeyTypes
                      \/ offered.hash # (IF offered.type = "ssh-rsa" THEN "sha2" ELSE "none"),
                      "HashAlgorithmRefused">>,
                    <<remaining = 0, "Exhausted">> >>)

\* auth_sign of the agent's signer: the budget is spent before the agent is asked.
SignWithAgent(selected, offered, frame) ==
    LET budget == AuthoriseSignature(selected, offered, MaxAuthenticationSignatures)
    IN FirstRefusal(<< <<budget # "ok", budget>>,
                       <<StreamRefusal(frame) # "ok", StreamRefusal(frame)>>,
                       <<~frame.readable, "AgentFailure">> >>)

\* auth_sign of the key's signer: no agent, and the hash the key's type calls for.
SignWithPersonalKey(selected, offered) ==
    LET budget == AuthoriseSignature(selected, offered, MaxAuthenticationSignatures)
    IN FirstRefusal(<< <<budget # "ok", budget>>,
                       <<(offered.type = "ssh-ed25519") # (offered.hash = "none"),
                         "LocalSignature">> >>)

-----------------------------------------------------------------------------
(* key_file.rs, openssh_key.rs, key_unlock.rs.                             *)

\* validate: the envelope OpenSSH writes, with a cipher, a bounded key derivation
\* and one key of an accepted type and strength.
Envelope(key) ==
    FirstRefusal(<< <<~key.pem, "PemEnvelope">>, <<~key.encrypted, "Cipher">>,
                    <<key.rounds = 0 \/ key.rounds > key.maxRounds, "Rounds">>,
                    <<key.count # 1, "KeyCount">>,
                    <<key.type \notin KeyTypes, "IdentityKeyType">>,
                    <<key.type = "ssh-rsa" /\ key.small, "RsaTooSmall">> >>)

(***************************************************************************)
(* confirm: the name still leads to the file that was opened, the open     *)
(* file has not changed and holds the bytes that were read. `named` is     *)
(* what the path leads to now, `selected` what was opened.                 *)
(***************************************************************************)
ConfirmKeyFile(named, selected) ==
    FirstRefusal(<< <<named.link, "SymbolicLink">>,
                    <<named.inode # selected.inode, "Substituted">>,
                    <<named.version # selected.version, "Substituted">> >>)

\* open_and_validate, of a path given by the chooser: `named` is what was opened,
\* `after` what the path leads to once the bytes were read.
OpenKeyFile(named, after) ==
    FirstRefusal(<< <<named.link, "SymbolicLink">>, <<~named.regular, "NotRegularFile">>,
                    <<named.large, "TooLarge">>,
                    <<Envelope(named.key) # "ok", "Envelope">>,
                    <<ConfirmKeyFile(after, named) # "ok", ConfirmKeyFile(after, named)>> >>)

-----------------------------------------------------------------------------
(* elevation.rs, sudo_policy.rs: what sudo said.                           *)

\* evaluate: a listing is attested only whole, in ASCII, free of a demand for a
\* terminal or a secret, and with both of its anchors.
Evaluate(r) ==
    FirstRefusal(<< <<r.large, "OutputTooLarge">>, <<~r.ascii, "OutputNotAscii">>,
                    <<r.terminal, "TerminalRequired">>, <<r.secret, "AuthenticationRequired">>,
                    <<~r.succeeded, "Unattestable">>, <<~r.anchored, "Unattestable">> >>)

RunsAsRoot(entry) == entry.runas \in {"root", "ALL"}
Negated(entry) == "!" \in entry.commands
AuthorisesTheAction(entry) == ~Negated(entry) /\ {"ALL", "program"} \intersect entry.commands # {}
AuthorisesEveryCommand(entry) == ~Negated(entry) /\ "ALL" \in entry.commands

\* attest_policy: one entry, as root, wide enough for the required scope.
AttestPolicy(r, scope) ==
    LET read == Evaluate(r)
        entry == r.entries[1]
    IN IF read # "ok" THEN read
       ELSE IF Len(r.entries) # 1 THEN "AmbiguousPolicy"
       ELSE FirstRefusal(<< <<~RunsAsRoot(entry), "DivergentCommand">>,
                            <<~AuthorisesTheAction(entry), "DivergentCommand">>,
                            <<scope = "every" /\ ~AuthorisesEveryCommand(entry), "Narrower">> >>)

PasswordRequired(r) == ~r.entries[1].waived
Suffices(r) == AuthorisesEveryCommand(r.entries[1])

\* read_policy: a listing that only asks for the password costs the secret.
ReadPolicy(r, scope) ==
    IF AttestPolicy(r, scope) = "AuthenticationRequired" THEN "CostsTheSecret"
    ELSE AttestPolicy(r, scope)

\* prompt_free: what standard error may not hold once a password was presented.
PromptFree(err) ==
    FirstRefusal(<< <<err.large, "OutputTooLarge">>, <<~err.ascii, "UnexpectedPrompt">>,
                    <<err.terminal, "TerminalRequired">>, <<err.refused, "IncorrectPassword">>,
                    <<err.prompts > 1, "UnexpectedPrompt">>,
                    <<err.foreign, "UnexpectedPrompt">> >>)

AttestPolicyAfterSecret(r, err, scope) ==
    LET said == FirstRefusal(<< <<err.large, "OutputTooLarge">>, <<~err.ascii, "UnexpectedPrompt">>,
                                <<err.terminal, "TerminalRequired">>,
                                <<err.secret, "AuthenticationRequired">>,
                                <<PromptFree(err) # "ok", PromptFree(err)>> >>)
    IN IF said # "ok" THEN said ELSE AttestPolicy(r, scope)

\* attest_identity: the route and the uid have to agree.
AttestIdentity(route, answer) ==
    FirstRefusal(<< <<answer.noisy, "UnexpectedPrompt">>,
                    <<answer.exit # 0, "NotElevated">>,
                    <<answer.uid = "unreadable", "UnreadableUid">>,
                    <<route = "administrator" /\ answer.uid = "root", "AlreadyRoot">>,
                    <<route = "root" /\ answer.uid # "root", "NotRoot">> >>)

\* elevated and verified_pair: the exit status and the uid tell the same story.
Elevated(answer, err) ==
    FirstRefusal(<< <<PromptFree(err) # "ok", PromptFree(err)>>,
                    <<answer.uid = "unreadable", "UnreadableUid">>,
                    <<answer.exit # 0 /\ answer.uid # "root", "NotElevated">>,
                    <<(answer.exit = 0) # (answer.uid = "root"), "DivergentOutcome">> >>)

\* policy_refusal: what of a refusal is told to the App.
PolicyRefusal(refusal) ==
    CASE refusal = "Narrower" -> [outcome |-> "refused", cause |-> "none", narrow |-> TRUE]
      [] refusal \in {"AuthenticationRequired", "TerminalRequired", "IncorrectPassword",
                      "AmbiguousPolicy"} ->
            [outcome |-> "refused", cause |-> refusal, narrow |-> FALSE]
      [] OTHER -> [outcome |-> "unavailable", cause |-> "none", narrow |-> FALSE]
=============================================================================
