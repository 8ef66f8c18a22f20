----------------------------- MODULE AppSessions -----------------------------
(***************************************************************************)
(* The App side of the native windows: the bootstrap session, the plan     *)
(* consent session, the pair under consideration, the lock, and the        *)
(* commands the WebView calls in any order and with any request it has     *)
(* ever been given. Composes HelperSupervisor and NativeAssistant.         *)
(*                                                                         *)
(* The commands are synchronous functions, which the Tauri runtime runs    *)
(* one at a time on its main thread: each is one step. What runs beside    *)
(* them is the helper process, the reaper thread and the clock.            *)
(***************************************************************************)
EXTENDS HelperSupervisor

CONSTANTS
    Targets,         \* machines a bootstrap may name
    AuthorityTime,   \* CONFIRMED_AUTHORITY_LIFETIME, in instants
    MaxPairs         \* bound: plan pairs read back from the Controller

ASSUME SessionsAssumption ==
    /\ AuthorityTime \in Nat \ {0}
    /\ MaxPairs \in Nat
    /\ Targets \subseteq Nat \ {0}

VARIABLES
    vault,     \* "locked" | "unlocked"
    fresh,     \* the next request identifier, drawn by the App
    boot,      \* BootstrapState.active
    narrow,    \* BootstrapState.attested_narrow: a target, or 0
    closed,    \* BootstrapState.closed
    pair,      \* the plan pair held: 0 for none, else how many were read
    consent,   \* PlanConsentState.active
    signed     \* history: request -> how many approvals were signed under it

appVars == <<vault, fresh, boot, narrow, closed, pair, consent, signed>>
vars == <<procs, now, sup, appVars>>

Actions == {"audit", "install"}
Outcomes == {"verified", "refused", "cancelled", "unavailable"}
None == [rid |-> NoRequest]

BootType == {None} \union
    [rid : Requests, target : Targets, action : Actions, expires : Nat,
     concluded : Outcomes \union {"awaiting"}]
ConsentType == {None} \union
    [rid : Requests, pair : 1..MaxPairs, expires : Nat, answer : {"open", "confirmed", "refused"}]

TypeOK ==
    /\ AssistantTypeOK
    /\ sup \in SupervisorType
    /\ vault \in {"locked", "unlocked"}
    /\ fresh \in 1..(MaxRequests + 1)
    /\ boot \in BootType
    /\ narrow \in Targets \union {0}
    /\ closed \in BOOLEAN
    /\ pair \in 0..MaxPairs
    /\ consent \in ConsentType
    /\ signed \in [Requests -> Nat]

Init ==
    /\ AssistantInit /\ SupervisorInit
    /\ vault = "unlocked" /\ fresh = 1
    /\ boot = None /\ narrow = 0 /\ closed = FALSE
    /\ pair = 0 /\ consent = None
    /\ signed = [r \in Requests |-> 0]

-----------------------------------------------------------------------------
(* Helpers of the two sessions.                                            *)

Lapsed(session) == session # None /\ now >= session.expires
Swept(session) == IF Lapsed(session) THEN None ELSE session
Waiting(b) == b # None /\ b.concluded = "awaiting"
Became(result) == sup' = result.sup /\ procs' = result.procs
Issued == 1..(fresh - 1)
\* Bound: a session is opened only while its watchdog can still run out.
RoomForSession == fresh \in Requests /\ now + Lifetime + CleanupGrace <= MaxTime

(***************************************************************************)
(* start_bootstrap. A session that waits is Busy, a narrow entry attested  *)
(* for this target refuses an installation and is consumed by refusing;    *)
(* otherwise the session is taken, whatever helper runs is stopped, and    *)
(* the helper is started. Every failure clears the session.                *)
(***************************************************************************)
StartBootstrap(t, a) ==
    LET refused == a = "install" /\ narrow = t
        taken == [rid |-> fresh, target |-> t, action |-> a, expires |-> now + Lifetime,
                  concluded |-> "awaiting"]
    IN /\ vault = "unlocked"
       /\ ~closed
       /\ RoomForSession
       /\ ~Waiting(Swept(boot))
       /\ \/ /\ refused
             /\ boot' = Swept(boot) /\ narrow' = 0
             /\ UNCHANGED <<fresh, sup, procs>>
          \/ /\ ~refused
             /\ fresh' = fresh + 1
             /\ \E stop \in StopActive(Here) :
                  \/ stop.status # "ok" /\ Became(stop) /\ boot' = None
                  \/ /\ stop.status = "ok"
                     /\ \E run \in StartHelper(stop, fresh, "bootstrap", t, now + Lifetime) :
                          /\ Became(run)
                          /\ boot' = IF run.status = "ok" THEN taken ELSE None
             /\ UNCHANGED narrow
       /\ UNCHANGED <<now, vault, closed, pair, consent, signed>>

\* The verdicts of a poll that end the session with a named outcome.
Conclusions == [verified |-> "verified", judged |-> "refused", cancelled |-> "cancelled",
                gaveup |-> "unavailable"]

\* retain_attested_scope, for the session that just ended.
Retained(scope, target) ==
    CASE scope = "narrow" -> target
      [] scope = "suffices" /\ narrow = target -> 0
      [] OTHER -> narrow

(***************************************************************************)
(* bootstrap_status. An expiry is read before the identifier is compared,  *)
(* and stops whatever helper is active. A concluded session is only read   *)
(* again. A poll that judged retains the attested scope and concludes; any *)
(* other end clears the session and stops the helper.                      *)
(***************************************************************************)
BootstrapStatus(r) ==
    /\ \/ /\ Lapsed(boot)
          /\ boot' = None
          /\ \E stop \in StopActive(Here) : Became(stop)
          /\ UNCHANGED narrow
       \/ /\ ~Lapsed(boot) /\ boot.rid = r /\ Waiting(boot)
          /\ \E poll \in PollHelper(Here, r) :
               \/ /\ poll.status = "running"
                  /\ Became(poll) /\ UNCHANGED <<boot, narrow>>
               \/ /\ poll.status \in DOMAIN Conclusions
                  /\ Became(poll)
                  /\ narrow' = Retained(procs[r].scope, boot.target)
                  /\ boot' = [boot EXCEPT !.concluded = Conclusions[poll.status]]
               \/ /\ poll.status \in {"refused", "expired", "unavailable", "decided"}
                  /\ \E stop \in StopActive(poll) : Became(stop)
                  /\ boot' = None /\ UNCHANGED narrow
    /\ UNCHANGED <<now, vault, fresh, closed, pair, consent, signed>>

(***************************************************************************)
(* cancel_bootstrap. A concluded session has no helper to stop; a helper   *)
(* that could not be stopped leaves the session as it was.                 *)
(***************************************************************************)
CancelBootstrap(r) ==
    /\ \/ /\ Lapsed(boot)
          /\ \E stop \in StopActive(Here) : Became(stop)
          /\ boot' = None
       \/ /\ ~Lapsed(boot) /\ boot # None /\ boot.rid = r
          /\ \/ ~Waiting(boot) /\ boot' = None /\ UNCHANGED <<sup, procs>>
             \/ /\ Waiting(boot)
                /\ \E stop \in CancelHelper(Here, r) :
                     /\ Became(stop)
                     /\ boot' = IF stop.status = "ok" THEN None ELSE boot
    /\ UNCHANGED <<now, vault, fresh, narrow, closed, pair, consent, signed>>

-----------------------------------------------------------------------------
(***************************************************************************)
(* lock_app: the vault is locked, the helper stopped and the bootstrap     *)
(* session cleared. The plan pair and the plan consent stay.               *)
(***************************************************************************)
LockApp ==
    /\ vault = "unlocked" /\ vault' = "locked"
    /\ \E stop \in StopActive(Here) : Became(stop)
    /\ boot' = None
    /\ UNCHANGED <<now, fresh, narrow, closed, pair, consent, signed>>

\* unlock_app with the right phrase.
Unlock ==
    /\ vault = "locked" /\ vault' = "unlocked"
    /\ UNCHANGED <<procs, now, sup, fresh, boot, narrow, closed, pair,
                   consent, signed>>

\* The main window is closed: AppLocalState::close.
CloseWindow ==
    /\ ~closed /\ closed' = TRUE
    /\ \E stop \in StopActive(Here) : Became(stop)
    /\ boot' = None
    /\ UNCHANGED <<now, vault, fresh, narrow, pair, consent, signed>>

-----------------------------------------------------------------------------
(* Mutant: the window on the previous pair keeps its session. *)
ReadPlanPairBeside ==
    /\ vault = "unlocked"
    /\ pair < MaxPairs
    /\ pair' = pair + 1
    /\ UNCHANGED <<procs, now, sup, vault, fresh, boot, narrow, closed, consent, signed>>

(***************************************************************************)
(* read_plan_pair, once the Controller answered and the pair verified: the *)
(* pair is held, and the window still open on the previous one is ended.   *)
(***************************************************************************)
ReadPlanPair ==
    /\ vault = "unlocked"
    /\ pair < MaxPairs
    /\ pair' = pair + 1
    /\ consent' = None
    /\ \E stop \in StopActive(Here) : Became(stop)
    /\ UNCHANGED <<now, vault, fresh, boot, narrow, closed, signed>>

\* open_plan_consent: PlanConsentState::start refuses a second session, and a
\* helper that does not start clears the one just taken.
OpenPlanConsent ==
    /\ vault = "unlocked" /\ pair # 0 /\ RoomForSession
    /\ Swept(consent) = None
    /\ fresh' = fresh + 1
    /\ \E run \in StartHelper(Here, fresh, "approval", pair, now + Lifetime) :
         /\ Became(run)
         /\ consent' = IF run.status = "ok"
                       THEN [rid |-> fresh, pair |-> pair, expires |-> now + Lifetime,
                             answer |-> "open"]
                       ELSE None
    /\ UNCHANGED <<now, vault, boot, narrow, closed, pair, signed>>

(***************************************************************************)
(* PlanConsentState::answer: what the window wrote, held against the       *)
(* consent that was sent and the pair still held. A confirmation arms the  *)
(* second deadline, a refusal arms none.                                   *)
(***************************************************************************)
Answered(c, p) ==
    LET confirmed == p.frame = "confirmed" /\ p.subject = c.pair /\ c.pair = pair
    IN [c EXCEPT !.answer = IF confirmed THEN "confirmed" ELSE "refused",
                 !.expires = IF confirmed THEN now + AuthorityTime ELSE @]

\* plan_consent_status.
PlanConsentStatus(r) ==
    /\ \/ /\ Lapsed(consent) /\ consent' = None
          /\ UNCHANGED <<sup, procs>>
       \/ /\ ~Lapsed(consent) /\ consent # None /\ consent.rid = r /\ consent.answer = "open"
          /\ \E poll \in PollHelper(Here, r) :
               \/ poll.status = "running" /\ Became(poll) /\ UNCHANGED consent
               \/ /\ poll.status = "decided" /\ Became(poll)
                  /\ consent' = Answered(consent, procs[r])
               \/ /\ poll.status \notin {"running", "decided"}
                  /\ \E stop \in StopActive(poll) : Became(stop)
                  /\ consent' = None
    /\ UNCHANGED <<now, vault, fresh, boot, narrow, closed, pair, signed>>

\* cancel_plan_consent: a helper that is gone, or cannot be stopped, refuses.
CancelPlanConsent(r) ==
    /\ \/ /\ Lapsed(consent) /\ consent' = None /\ UNCHANGED <<sup, procs>>
       \/ /\ ~Lapsed(consent) /\ consent # None /\ consent.rid = r
          /\ \E stop \in CancelHelper(Here, r) :
               Became(stop) /\ consent' = IF stop.status = "ok" THEN None ELSE consent
    /\ UNCHANGED <<now, vault, fresh, boot, narrow, closed, pair, signed>>

(***************************************************************************)
(* submit_plan_decision: PlanConsentState::confirmed sweeps the expiry, the *)
(* held pair is signed and the session is spent before anything is sent.   *)
(* Arguments that `sign` refuses return before the session is spent.       *)
(***************************************************************************)
Confirmed(c, r) == c # None /\ c.rid = r /\ c.answer = "confirmed"

SubmitPlanDecision(r) ==
    /\ vault = "unlocked"
    /\ \/ /\ Confirmed(Swept(consent), r) /\ pair # 0
          /\ signed' = [signed EXCEPT ![r] = @ + 1]
          /\ consent' = None
       \/ /\ Lapsed(consent)
          /\ consent' = None
          /\ UNCHANGED signed
    /\ UNCHANGED <<procs, now, sup, vault, fresh, boot, narrow, closed, pair>>

-----------------------------------------------------------------------------
Assistant == (\E r \in Requests : AssistantStep(r)) /\ UNCHANGED <<sup, appVars>>
Reaper == Reap /\ UNCHANGED appVars
Clock == Tick /\ UNCHANGED <<sup, appVars>>

\* What the WebView calls, while there is one.
Command ==
    \/ \E t \in Targets, a \in Actions : StartBootstrap(t, a)
    \/ \E r \in Issued :
         \/ BootstrapStatus(r) \/ CancelBootstrap(r)
         \/ PlanConsentStatus(r) \/ CancelPlanConsent(r) \/ SubmitPlanDecision(r)
    \/ LockApp \/ Unlock \/ CloseWindow \/ ReadPlanPair \/ OpenPlanConsent

Next ==
    \/ Assistant \/ Reaper \/ Clock
    \/ ~closed /\ Command

Spec == Init /\ [][Next]_vars

-----------------------------------------------------------------------------
(* Properties.                                                             *)

\* No two helper processes are ever alive together: whatever command stopped
\* the first one, and however its end was waited for, the next one is spawned
\* only once that end is proved (native_helper.rs, start_with_policy).
OneHelperAlive == \A r, s \in Requests : IsAlive(r) /\ IsAlive(s) => r = s

\* Every approval the App signs was confirmed by the human, in the window of
\* that request, on the very pair that is signed, before the window's deadline,
\* is the only one signed under that request, and is signed before the confirmed
\* authority ran out (plan_consent.rs, publication_plan.rs). The window itself
\* takes a late click: it is the App's poll that does not listen to it.
SignedWasConfirmed ==
    [][\A r \in Requests : signed'[r] > signed[r] =>
         /\ signed[r] = 0
         /\ procs[r].kind = "approval"
         /\ procs[r].answer = "confirmed"
         /\ procs[r].subject = pair
         /\ ~procs[r].late
         /\ now < procs[r].deadline + AuthorityTime]_vars

\* A bootstrap the App shows as verified proved its access before its deadline,
\* in a session whose lease was never withdrawn, and its process is gone.
VerifiedIsProved ==
    boot # None /\ boot.concluded = "verified" =>
        LET p == procs[boot.rid]
        IN /\ p.phase = "exited" /\ p.answer = "verified"
           /\ ~p.late /\ p.lease = "active"
           /\ p.subject = boot.target

(***************************************************************************)
(* Fairness: the clock runs and the watchdog thread of a live process is   *)
(* scheduled. Nothing is assumed of the human, of the window, of the       *)
(* WebView's polls or of the reaper.                                       *)
(***************************************************************************)
Fairness ==
    /\ WF_vars(Clock)
    /\ \A r \in Requests :
         WF_vars(WatchdogForces(r) /\ UNCHANGED <<sup, appVars>>)

FairSpec == Spec /\ Fairness

\* No helper outlives its session: with nobody polling and nobody at the
\* window, the processes end (watchdog.rs).
HelpersEnd == []<>(\A r \in Requests : ~IsAlive(r))
==============================================================================
