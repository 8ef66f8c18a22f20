--------------------------- MODULE NativeAssistant ---------------------------
(***************************************************************************)
(* The native bootstrap assistant as a process: one incarnation per        *)
(* request the App starts, its parent lease (the stdin it inherited), its  *)
(* watchdog and the one frame it writes before it exits.                   *)
(*                                                                         *)
(* What the window or the SSH session inside it decides is a choice here   *)
(* (Answer); AssistantSession.tla models that session step by step.        *)
(* The App writes exactly one frame on stdin, so the lease's third state   *)
(* (a byte after the frame) is never reached and is left out.              *)
(***************************************************************************)
EXTENDS Integers

CONSTANTS
    MaxRequests,  \* bound: sessions the App opens over a behaviour
    MaxTime,      \* bound: instants of the shared monotonic clock
    Lifetime,     \* MAX_ASSISTANT_REMAINING_MILLIS, in instants
    CleanupGrace  \* CONTROLLED_CLEANUP_GRACE, in instants

ASSUME TimeAssumption ==
    /\ MaxRequests \in Nat \ {0}
    /\ MaxTime \in Nat
    /\ Lifetime \in Nat \ {0}
    /\ CleanupGrace \in Nat

VARIABLES
    procs,  \* request -> the process started for it
    now     \* the monotonic clock both processes read

Requests == 1..MaxRequests
Kinds == {"bootstrap", "approval"}
Alive == {"spawned", "serving", "answered", "written"}
BootstrapAnswers == {"verified", "refused", "cancelled", "expired", "unavailable"}
ApprovalAnswers == {"confirmed", "refused", "cancelled", "expired", "unavailable"}
Answers == BootstrapAnswers \union ApprovalAnswers
Scopes == {"none", "suffices", "narrow"}

\* AssistantEventKind::terminal_exit_code and the outcome's own table: one
\* exit code per terminal frame. Codes of a session that wrote no frame are
\* collapsed into "failure"; the watchdog's code is also the one of "expired".
ExitCode(frame) == IF frame = "expired" THEN "watchdog" ELSE frame
Codes == {"none", "failure", "watchdog"} \union Answers

Unspawned == [kind |-> "none", phase |-> "none", deadline |-> 0,
              stdin |-> FALSE, lease |-> "active", subject |-> 0, answer |-> "none", late |-> FALSE,
              scope |-> "none", frame |-> "none", code |-> "none"]

ProcessType ==
    [kind : Kinds \union {"none"}, phase : Alive \union {"none", "exited"},
     deadline : Nat, stdin : BOOLEAN,
     lease : {"active", "cancelled"},
     subject : Nat, answer : Answers \union {"none"}, late : BOOLEAN,
     scope : Scopes, frame : Answers \union {"none"}, code : Codes]

\* A process that ended without a frame: nothing of it is ever read again.
Gone == [Unspawned EXCEPT !.phase = "exited", !.code = "failure"]

IsAlive(r) == procs[r].phase \in Alive

Set(r, p) == procs' = [procs EXCEPT ![r] = p]

(***************************************************************************)
(* A fresh process: env and stdin are set up by the parent; the frame is   *)
(* already in the pipe. The watchdog starts from the process's own first   *)
(* instant with the protocol's whole lifetime and is only ever tightened:  *)
(* spawned in the same command that opened the session, it ends where the  *)
(* session does.                                                           *)
(***************************************************************************)
Spawned(kind, subject, deadline) ==
    [Unspawned EXCEPT !.kind = kind, !.phase = "spawned", !.deadline = deadline,
                      !.stdin = TRUE, !.subject = subject]

(***************************************************************************)
(* One probe of stdin by the lease monitor: EOF resolves the lease to      *)
(* cancelled, once and for good.                                           *)
(***************************************************************************)
Probe(p) == IF p.stdin THEN p ELSE [p EXCEPT !.lease = "cancelled"]

\* hardening, the watchdog thread, the arguments, stdin, the parent's
\* attestation or the frame refuses: an exit code and no frame.
PrologueFails(r) ==
    /\ procs[r].phase = "spawned"
    /\ Set(r, Gone)
    /\ UNCHANGED now

\* The prologue holds: the lease monitor's first probe precedes any window, and
\* a deadline already past writes Expired without opening one.
EnterSession(r) ==
    LET p == Probe(procs[r])
    IN /\ procs[r].phase = "spawned"
       /\ Set(r, IF now >= p.deadline
                 THEN [p EXCEPT !.phase = "written", !.frame = "expired"]
                 ELSE [p EXCEPT !.phase = "serving"])
       /\ UNCHANGED now

\* The monitor's periodic probe.
ProbeLease(r) ==
    /\ procs[r].phase = "serving"
    /\ procs[r].lease = "active"
    /\ ~procs[r].stdin
    /\ Set(r, Probe(procs[r]))
    /\ UNCHANGED now

(***************************************************************************)
(* The bootstrap session ends with one prompt outcome. Only a session that *)
(* judged exports the scope of the sudoers entry it read.                  *)
(***************************************************************************)
AnswerBootstrap(r) ==
    /\ procs[r].phase = "serving"
    /\ procs[r].kind = "bootstrap"
    /\ \E answer \in BootstrapAnswers, scope \in Scopes :
        /\ answer = "expired" => now >= procs[r].deadline
        /\ scope # "none" => answer \in {"verified", "refused"}
        /\ answer = "verified" => scope = "suffices"
        /\ Set(r, [procs[r] EXCEPT !.phase = "answered", !.answer = answer,
                                   !.late = now >= procs[r].deadline, !.scope = scope])
    /\ UNCHANGED now

(***************************************************************************)
(* serve_scope after the prompt: the lease is closed with one last probe,  *)
(* the deadline overrides the outcome, then the cancellation does, and an  *)
(* overriding terminal drops the exports. A write that fails exits without *)
(* a frame the App could read.                                             *)
(***************************************************************************)
ResolveBootstrap(r) ==
    LET p == Probe(procs[r])
        terminal == CASE now >= p.deadline -> "expired"
                      [] now < p.deadline /\ p.lease = "cancelled" -> "cancelled"
                      [] OTHER -> p.answer
        scope == IF terminal \in {"verified", "refused"} THEN p.scope ELSE "none"
    IN /\ procs[r].phase = "answered"
       /\ procs[r].kind = "bootstrap"
       /\ \/ Set(r, [p EXCEPT !.phase = "written", !.frame = terminal, !.scope = scope])
          \/ Set(r, Gone)
       /\ UNCHANGED now

(***************************************************************************)
(* The approval window ends: the human's two buttons, or its timer, which  *)
(* looks at the deadline before the lease. The click is taken as it comes: *)
(* nothing re-reads the deadline or the lease after it.                    *)
(***************************************************************************)
AnswerApproval(r) ==
    LET p == procs[r]
        over == now >= p.deadline
    IN /\ p.phase = "serving"
       /\ p.kind = "approval"
       /\ \E answer \in ApprovalAnswers :
            /\ answer = "expired" => over
            /\ answer = "cancelled" => ~over /\ p.lease = "cancelled"
            /\ \/ Set(r, [p EXCEPT !.phase = "written", !.frame = answer,
                                   !.answer = answer, !.late = now >= procs[r].deadline])
               \/ Set(r, Gone)
       /\ UNCHANGED now

\* The exit code is derived from the frame that was written.
Exit(r) ==
    /\ procs[r].phase = "written"
    /\ Set(r, [procs[r] EXCEPT !.phase = "exited", !.code = ExitCode(procs[r].frame)])
    /\ UNCHANGED now

(* Mutant: the watchdog is only armed once a session is served. *)
WatchdogForcesServing(r) ==
    /\ IsAlive(r) /\ procs[r].phase # "spawned"
    /\ now >= procs[r].deadline + CleanupGrace
    /\ Set(r, [procs[r] EXCEPT !.phase = "exited", !.code = "watchdog"])
    /\ UNCHANGED now

(***************************************************************************)
(* The watchdog raises its flag at the deadline (the tests `expired or past *)
(* the deadline` above read it through the clock) and ends the process when *)
(* the cleanup grace has run, wherever it stands. A frame already in the   *)
(* pipe stays there.                                                       *)
(***************************************************************************)
WatchdogForces(r) ==
    /\ IsAlive(r)
    /\ now >= procs[r].deadline + CleanupGrace
    /\ Set(r, [procs[r] EXCEPT !.phase = "exited", !.code = "watchdog"])
    /\ UNCHANGED now

Tick == now < MaxTime /\ now' = now + 1 /\ UNCHANGED procs

AssistantStep(r) ==
    \/ PrologueFails(r) \/ EnterSession(r) \/ ProbeLease(r)
    \/ AnswerBootstrap(r) \/ ResolveBootstrap(r) \/ AnswerApproval(r) \/ Exit(r)
    \/ WatchdogForces(r)

AssistantInit == procs = [r \in Requests |-> Unspawned] /\ now = 0
AssistantTypeOK == procs \in [Requests -> ProcessType] /\ now \in 0..MaxTime
==============================================================================
