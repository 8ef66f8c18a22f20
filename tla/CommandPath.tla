---------------------------- MODULE CommandPath ----------------------------
(***************************************************************************)
(* The trajectory of one signed approval towards one machine: the App      *)
(* reads a position and signs its successor (plans-view.tsx), a request    *)
(* handler of the Controller records the dispatch and launches it          *)
(* (servePlanApprovals, CommandDispatcher), the Auxiliary spends and       *)
(* performs it, and what came back through the SSH client is concluded     *)
(* into the registry (concludeLaunch).                                     *)
(*                                                                         *)
(* The verifications that only read the submission itself are passed by    *)
(* every approval in `signed`.  Clock windows are a choice: the Controller *)
(* may find one closed before the launch, or at any time during it.        *)
(* History variables, read by no guard: `changed`, the approvals that had  *)
(* an effect on the machine; `cut`, those whose client ended without a     *)
(* word from the Auxiliary; `spent` and `twice`, those the registry        *)
(* accepted, and accepted again.                                           *)
(***************************************************************************)
EXTENDS MachineApproval, DispatchRegistry

CONSTANTS Request,   \* requests one device may have open: maxDeviceRequests
          MaxClock   \* bound: seconds told apart

ASSUME CommandAssumption ==
    /\ MaxClock \in Nat \ {0}
    /\ \A e \in Envelope : e.id \in Nat

VARIABLES signed,       \* approvals the App signed; any may be delivered again
          handler,      \* each open request of servePlanApprovals
          knownHosts,   \* the derived known_hosts file exists
          changed, cut, spent, twice

historyVars == <<changed, cut, spent, twice>>
pathVars == <<machineVars, registryVars, signed, handler, knownHosts,
              historyVars>>

Closed == [phase |-> "closed"]

Init == /\ MachineInit /\ RegistryInit
        /\ signed = {}
        /\ handler = [h \in Request |-> Closed]
        /\ knownHosts = FALSE
        /\ changed = {} /\ cut = {} /\ spent = {} /\ twice = {}

-----------------------------------------------------------------------------
(* The App. *)

(* buildPair: the position is the one this Controller attests, the epoch
   that of the newest dispatch, or 1. *)
Attested == [seq |-> HighestReportedSequence,
             epoch |-> IF registry = <<>> THEN 1 ELSE Last(registry).approval.epoch]

(* submitDecision: the successor of the position held with the pair is
   signed.  The pair may have been built at any earlier moment, and it is
   kept after a submission that failed, so an older position may be named. *)
SubmitDecision ==
    /\ \E a \in Envelope :
          /\ a.id = Cardinality(signed) + 1
          /\ a.epoch = Attested.epoch
          /\ a.seq <= Attested.seq + 1
          /\ signed' = signed \cup {a}
    /\ UNCHANGED <<machineVars, registryVars, handler, knownHosts, historyVars>>

-----------------------------------------------------------------------------
(* The Controller: servePlanApprovals. *)

Moves(h, phase) ==
    [handler EXCEPT ![h] = [phase |-> phase, approval |-> handler[h].approval]]

Concluded(h, state) ==
    [handler EXCEPT ![h] = [phase |-> "concluding", approval |-> handler[h].approval,
                            state |-> state]]

(* Everything up to AlreadySpent.  AcceptedAtUnix is the second read here, on
   a wall clock that may have been set back since another request read it. *)
Check(h, a) ==
    /\ handler[h] = Closed
    /\ a \in signed
    /\ HighestReportedSequence < a.seq
    /\ ~AlreadySpent(a)
    /\ \E now \in 1..MaxClock :
          handler' = [handler EXCEPT ![h] = [phase |-> "checked", approval |-> a,
                                             at |-> now]]
    /\ UNCHANGED <<machineVars, registryVars, signed, knownHosts, historyVars>>

(* sessions.Accept runs dispatches.Accept: the approval is spent here. *)
AcceptDispatch(h) ==
    /\ handler[h].phase = "checked"
    /\ CommitOk(Accepting(handler[h].approval, handler[h].at))
    /\ handler' = Moves(h, "spent")
    /\ spent' = spent \cup {handler[h].approval}
    /\ twice' = twice \cup (spent \cap {handler[h].approval})
    /\ UNCHANGED <<machineVars, signed, knownHosts, changed, cut>>

(* The session ended meanwhile, or the registry refuses or fails: the
   request is answered 401 or 409 and nothing is launched. *)
AcceptFails(h) ==
    /\ handler[h].phase = "checked"
    /\ CommitFails(Accepting(handler[h].approval, handler[h].at))
    /\ handler' = [handler EXCEPT ![h] = Closed]
    /\ UNCHANGED <<machineVars, signed, knownHosts, historyVars>>

(* Dispatch returns before the client runs: no endpoint, no identity, no
   window left, or the known host could not be derived. *)
NotLaunched(h) ==
    /\ handler[h].phase = "spent"
    /\ handler' = Concluded(h, "not_launched")
    /\ UNCHANGED <<machineVars, registryVars, signed, knownHosts, historyVars>>

(* deriveKnownHosts, then the client is started: its pipe takes the wrapper
   whatever becomes of the connection. *)
Launch(h) ==
    /\ handler[h].phase = "spent"
    /\ knownHosts' = TRUE
    /\ handler' = Moves(h, "connecting")
    /\ UNCHANGED <<machineVars, registryVars, signed, historyVars>>

(* The client fails on its own account and exits 255 without an answer. *)
ClientFails(h) ==
    /\ handler[h].phase = "connecting"
    /\ knownHosts' = FALSE
    /\ handler' = Concluded(h, "not_launched")
    /\ UNCHANGED <<machineVars, registryVars, signed, historyVars>>

(* The client reads known_hosts, opens the session, and the forced command
   starts an Auxiliary. *)
Connect(h, r) ==
    /\ handler[h].phase = "connecting"
    /\ knownHosts
    /\ Start(r, handler[h].approval)
    /\ handler' = [handler EXCEPT ![h] = [phase |-> "running", run |-> r,
                                          approval |-> handler[h].approval]]
    /\ UNCHANGED <<registryVars, signed, knownHosts, historyVars>>

(* The established channel is lost: the client exits 255 with no output,
   the Auxiliary goes on. *)
ChannelLost(h) ==
    /\ handler[h].phase = "running"
    /\ knownHosts' = FALSE
    /\ handler' = Concluded(h, "not_launched")
    /\ cut' = cut \cup {handler[h].approval}
    /\ UNCHANGED <<machineVars, registryVars, signed, changed, spent, twice>>

(* Mutant: the client runs without the context's deadline. *)
NoDeadline(h) == handler[h].phase = "never" /\ UNCHANGED pathVars

(* The window of the approval closes: CommandContext kills the client, Wait
   returns an ExitError whose code is -1, and the output is empty. *)
Deadline(h) ==
    /\ handler[h].phase \in {"connecting", "running"}
    /\ knownHosts' = FALSE
    /\ handler' = Concluded(h, "machine_refused")
    /\ cut' = cut \cup {handler[h].approval}
    /\ UNCHANGED <<machineVars, registryVars, signed, changed, spent, twice>>

(* The client could not be waited for, or was cut while a report came in:
   result.Err is set, or the output is not a whole report. *)
ClientErrs(h) ==
    /\ handler[h].phase = "running"
    /\ knownHosts' = FALSE
    /\ handler' = Concluded(h, "launched_unreported")
    /\ cut' = cut \cup {handler[h].approval}
    /\ UNCHANGED <<machineVars, registryVars, signed, changed, spent, twice>>

(* Mutant: any answer of the machine is taken for a report. *)
ConclusionOfTrusting(answer) ==
    IF answer = "silent" THEN "not_launched" ELSE "reported"

(* concludeLaunch and ingestReport on what the Auxiliary left: killed by a
   signal it makes the client exit 255; a refusal writes nothing on the
   standard output; a report that cannot be read is discarded. *)
ConclusionOf(answer) ==
    CASE answer = "silent" -> "not_launched"
      [] answer = "refused" -> "machine_refused"
      [] answer = "report" -> "reported"
      [] answer = "garbled" -> "launched_unreported"

Answer(h) ==
    /\ handler[h].phase = "running"
    /\ run[handler[h].run].phase = "done"
    /\ knownHosts' = FALSE
    /\ handler' = Concluded(h, ConclusionOf(run[handler[h].run].answer))
    /\ Exit(handler[h].run)
    /\ cut' = IF run[handler[h].run].answer = "silent"
              THEN cut \cup {handler[h].approval} ELSE cut
    /\ UNCHANGED <<registryVars, signed, changed, spent, twice>>

(* dispatches.Conclude, then the answer to the App. *)
Conclude(h) ==
    /\ handler[h].phase = "concluding"
    /\ Concludes(handler[h].approval)
    /\ CommitOk(Concluding(handler[h].approval, handler[h].state))
    /\ handler' = [handler EXCEPT ![h] = Closed]
    /\ UNCHANGED <<machineVars, signed, knownHosts, historyVars>>

(* Conclude errs: the request is answered 503. *)
ConcludeFails(h) ==
    /\ handler[h].phase = "concluding"
    /\ IF Concludes(handler[h].approval)
       THEN CommitFails(Concluding(handler[h].approval, handler[h].state))
       ELSE UNCHANGED registryVars
    /\ handler' = [handler EXCEPT ![h] = Closed]
    /\ UNCHANGED <<machineVars, signed, knownHosts, historyVars>>

(* The Controller dies with its clients and its runtime directory, and is
   started again; the Auxiliaries it launched go on. *)
ControllerRestarts ==
    /\ ReopenRegistry
    /\ handler' = [h \in Request |-> Closed]
    /\ knownHosts' = FALSE
    /\ UNCHANGED <<machineVars, signed, historyVars>>

-----------------------------------------------------------------------------
(* The machine: the actions of MachineApproval, with the history they make. *)

controllerVars == <<registryVars, signed, handler, knownHosts>>

AuxiliaryTouches(r) == /\ Touch(r)
                       /\ changed' = changed \cup {run[r].envelope}
                       /\ UNCHANGED <<controllerVars, cut, spent, twice>>

AuxiliarySteps(r) ==
    /\ \/ Refuse(r) \/ Acquire(r) \/ Decide(r) \/ ConsumeRefused(r)
       \/ Consume(r) \/ ConsumeUnsynced(r) \/ ApplyRefuses(r) \/ Report(r) \/ Killed(r)
    /\ UNCHANGED <<controllerVars, historyVars>>

(* An Auxiliary nobody listens to any more ends unheard. *)
Unheard(r) ==
    /\ Exit(r)
    /\ \A h \in Request : handler[h].phase = "running" => handler[h].run # r
    /\ UNCHANGED <<controllerVars, historyVars>>

MachineFails == PowerLoss /\ UNCHANGED <<controllerVars, historyVars>>

-----------------------------------------------------------------------------

HandlerStep(h) ==
    \/ AcceptDispatch(h) \/ AcceptFails(h)
    \/ NotLaunched(h) \/ Launch(h) \/ ClientFails(h)
    \/ \E r \in Run : Connect(h, r)
    \/ Deadline(h) \/ Answer(h) \/ Conclude(h) \/ ConcludeFails(h)

AuxiliaryStep(r) == \/ AuxiliaryTouches(r)
                    \/ AuxiliarySteps(r) \/ Unheard(r)

Next == \/ SubmitDecision
        \/ \E h \in Request : \/ \E a \in signed : Check(h, a)
                              \/ HandlerStep(h)
                              \/ ChannelLost(h) \/ ClientErrs(h)
        \/ \E r \in Run : AuxiliaryStep(r)
        \/ ControllerRestarts \/ MachineFails

Spec == Init /\ [][Next]_pathVars

(* Requests are served to their end; nothing is assumed of the machine, of
   the network or of the human. *)
FairSpec == Spec /\ \A h \in Request : WF_pathVars(HandlerStep(h))

-----------------------------------------------------------------------------

Record == [approval : Envelope, at : 1..MaxClock, state : DispatchStates]

HandlerState ==
    {Closed}
    \cup [phase : {"checked"}, approval : Envelope, at : 1..MaxClock]
    \cup [phase : {"spent", "connecting"}, approval : Envelope]
    \cup [phase : {"running"}, approval : Envelope, run : Run]
    \cup [phase : {"concluding"}, approval : Envelope, state : TerminalStates]

(* Every variable holds what the program can hold. *)
TypeOK ==
    /\ MachineTypeOK
    /\ registry \in Seq(Record) /\ registryDisk \in Seq(Record)
    /\ signed \subseteq Envelope
    /\ handler \in [Request -> HandlerState]
    /\ knownHosts \in BOOLEAN
    /\ \A s \in {changed, cut, spent, twice} : s \subseteq Envelope

Underway(h) == handler[h].phase \in {"spent", "connecting", "running", "concluding"}

(* "the durable write precedes any connection" (servePlanApprovals): while a
   launch is under way the file holds an open record of it, whatever other
   requests commit or fail to commit, so a restart can never find the
   approval unspent. *)
LaunchIsRecorded ==
    \A h \in Request : Underway(h) =>
        \E i \in DOMAIN registryDisk :
            /\ registryDisk[i].approval = handler[h].approval
            /\ ~Terminal(registryDisk[i])

(* "Two open records for the same bytes would be two launches of a one-shot
   authority" (validateDispatchRegistry): two requests that both passed
   AlreadySpent with the same bytes are never launching them together. *)
OneLaunchAtATime ==
    \A g, h \in Request :
        (g # h /\ Underway(g) /\ Underway(h)) => handler[g].approval # handler[h].approval

(* HighestReportedSequence is "what this Controller can attest": a record
   that says reported, in memory or on disk, names an approval the machine
   accepted, at a position no power loss takes the machine back behind. *)
AttestedIsSpent ==
    \A records \in {registry, registryDisk} : \A i \in DOMAIN records :
        records[i].state = "reported" =>
            /\ records[i].approval \in Range(accepted)
            /\ ~Before(synced, records[i].approval)

(* "never invents a stronger one" (concludeLaunch): the record of an
   approval that had an effect on the machine is open, reported or
   unreported, across restarts and failed writes, unless its client ended
   without a word from the Auxiliary or its bytes were spent twice. *)
EffectIsOwned ==
    \A records \in {registry, registryDisk} : \A i \in DOMAIN records :
        records[i].approval \in changed \ (cut \cup twice) =>
            records[i].state \in {"in_flight", "reported", "launched_unreported"}

Terminals(records) == {i \in DOMAIN records : Terminal(records[i])}

(* "a dispatch has one conclusion, and a second one would be a rewrite of
   history" (Conclude): a terminal record stays as it is, through commits,
   failed commits and restarts, until the bound makes it leave, which takes
   more conclusions than the bound. *)
HistoryIsFinal ==
    [][\A i \in Terminals(registry) :
          \/ registry[i] \in Range(registry')
          \/ Cardinality(Terminals(registry))
              + Cardinality({j \in DOMAIN registry \ Terminals(registry) :
                                registry[j] \notin Range(registry')})
                > MaxTerminal]_pathVars

(* The context of Dispatch bounds the launch by the window of its approval:
   a request always ends, though the machine may never answer. *)
LaunchIsBounded ==
    \A h \in Request : (handler[h] # Closed) ~> (handler[h] = Closed)

=============================================================================
