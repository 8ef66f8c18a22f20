--------------------------- MODULE HelperSupervisor ---------------------------
(***************************************************************************)
(* NativeHelperSupervisor of the App: at most one helper session, its      *)
(* start, poll and stop, and the reaper thread that takes over a child     *)
(* whose end could not be proved within the bounded wait.                  *)
(*                                                                         *)
(* The operations run under the App's local lock and block until they      *)
(* return, so each is one step. What the operating system decides inside   *)
(* one (does the child end within the grace, does waitpid answer) is the   *)
(* choice of a member of the operation's set of results.                   *)
(***************************************************************************)
EXTENDS NativeAssistant

VARIABLE sup  \* active and cleanup: a request or 0

NoRequest == 0

SupervisorType ==
    [active : Requests \union {NoRequest}, cleanup : Requests \union {NoRequest},
     outcome : {"none", "reaped", "unproven"}, unproven : BOOLEAN]

SupervisorInit ==
    sup = [active |-> NoRequest, cleanup |-> NoRequest, outcome |-> "none", unproven |-> FALSE]

\* The operations take and give the pair of states the local lock guards.
Here == [sup |-> sup, procs |-> procs, status |-> "ok"]
Result(s, p, status) == [sup |-> s, procs |-> p, status |-> status]

\* reconcile_pending_cleanup: the worker's answer is read only here.
Reconciled(s) ==
    IF s.cleanup # NoRequest /\ s.outcome # "none"
    THEN [s EXCEPT !.cleanup = NoRequest, !.outcome = "none",
                   !.unproven = @ \/ s.outcome = "unproven"]
    ELSE s

\* defer_cleanup hands the child to the reaper thread.
Deferred(s, r) == [s EXCEPT !.active = NoRequest, !.cleanup = r]

Closed(p, r) == [p EXCEPT ![r].stdin = FALSE]
\* The end is observed and no frame is read.
Ended(p, r) == [p EXCEPT ![r] = Gone]
\* The frame and the exit code are taken, once.
Heard(p, r) == [p EXCEPT ![r].stdin = FALSE, ![r].frame = "none", ![r].code = "none",
                         ![r].scope = "none"]

\* stop_bounded: stdin is closed, then either the child's end is observed (it
\* left by itself or was killed) or the child is deferred.
Stopped(s, p, r, status) ==
    { Result([s EXCEPT !.active = NoRequest], Ended(p, r), status),
      Result(Deferred(s, r), Closed(p, r), "unavailable") }

\* stop_active.
StopActive(st) ==
    LET s == Reconciled(st.sup)
    IN IF s.cleanup # NoRequest \/ s.unproven THEN {Result(s, st.procs, "unavailable")}
       ELSE IF s.active = NoRequest THEN {Result(s, st.procs, "ok")}
       ELSE Stopped(s, st.procs, s.active, "ok")

\* NativeHelperSupervisor::cancel.
CancelHelper(st, r) ==
    IF st.sup.active # r THEN {Result(st.sup, st.procs, "refused")} ELSE StopActive(st)

(* Mutant: a child that is still being reaped does not count. *)
StartHelperBeside(st, r, kind, subject, deadline) ==
    LET s == Reconciled(st.sup)
    IN IF s.unproven THEN {Result(s, st.procs, "unavailable")}
       ELSE IF s.active # NoRequest THEN {Result(s, st.procs, "busy")}
       ELSE { Result([s EXCEPT !.active = r],
                     [st.procs EXCEPT ![r] = Spawned(kind, subject, deadline)], "ok") }

(***************************************************************************)
(* start_with_policy. The refusals precede any process: an unproven or     *)
(* pending cleanup, a session already active, an executable that is not    *)
(* the installed one, a lease with nothing left. Once the child exists, a  *)
(* frame that cannot be written ends it, or hands it to the reaper.        *)
(***************************************************************************)
StartHelper(st, r, kind, subject, deadline) ==
    LET s == Reconciled(st.sup)
        spawned == [st.procs EXCEPT ![r] = Spawned(kind, subject, deadline)]
    IN IF s.unproven THEN {Result(s, st.procs, "unavailable")}
       ELSE IF s.active # NoRequest \/ s.cleanup # NoRequest
            THEN {Result(s, st.procs, "busy")}
       ELSE { Result(s, st.procs, "unavailable"),
              Result([s EXCEPT !.active = r], spawned, "ok"),
              Result(s, Ended(spawned, r), "unavailable"),
              Result(Deferred(s, r), Closed(spawned, r), "unavailable") }

(* Mutant: any frame that agrees with its exit code is a success. *)
CompletedByCode(p) ==
    IF p.frame = "none" \/ p.code # ExitCode(p.frame) THEN {"refused"}
    ELSE IF p.kind = "bootstrap" THEN {"verified", "refused"} ELSE {"decided", "refused"}

\* complete_session: the frame, its request and its exit code must be one pair.
\* With descendants left in its group, a success or an answer is refused too.
Completed(p) ==
    IF p.frame = "none" \/ p.code # ExitCode(p.frame) THEN {"refused"}
    ELSE IF p.kind = "bootstrap"
         THEN CASE p.frame = "verified" -> {"verified", "refused"}
                [] p.frame = "refused" -> {"judged"}
                [] p.frame = "unavailable" -> {"gaveup"}
                [] OTHER -> {p.frame}
         ELSE {"decided", "refused"}

(***************************************************************************)
(* poll. The deadline is read before the child's status, so a child that   *)
(* answered and left is not listened to once the deadline has passed. A    *)
(* status that cannot be read ends the session.                            *)
(***************************************************************************)
PollHelper(st, r) ==
    LET s == st.sup
        p == st.procs
    IN IF s.active # r THEN {Result(s, p, "refused")}
       ELSE IF now >= p[r].deadline THEN Stopped(s, p, r, "expired")
       ELSE Stopped(s, p, r, "unavailable") \union
            IF p[r].phase # "exited" THEN {Result(s, p, "running")}
            ELSE { Result([s EXCEPT !.active = NoRequest],
                          IF verdict = "refused" THEN Ended(p, r) ELSE Heard(p, r), verdict)
                   : verdict \in Completed(p[r]) }

\* The reaper thread observes the end of its child, after killing it, or gives
\* the proof up.
Reap ==
    /\ sup.cleanup # NoRequest
    /\ sup.outcome = "none"
    /\ \/ /\ procs' = Ended(procs, sup.cleanup)
          /\ sup' = [sup EXCEPT !.outcome = "reaped"]
       \/ /\ sup' = [sup EXCEPT !.outcome = "unproven"]
          /\ UNCHANGED procs
    /\ UNCHANGED now
==============================================================================
