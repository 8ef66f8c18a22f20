--------------------------- MODULE AuthorityProofs ---------------------------
(***************************************************************************)
(* The replacement of a Controller, for any estate, any number of cut runs *)
(* and any number of late writes: no machine is ever left without an       *)
(* identity, the Relay never serves the old Controller beside a new one,   *)
(* and what is called secured is.                                          *)
(*                                                                         *)
(* None of the three is inductive.  They rest on what a run knows and on   *)
(* when it learnt it: the identities of a machine only move forward (the   *)
(* new one is never removed, the old one never comes back), so what a run  *)
(* read of a key file, and what it concluded from it, stays true however   *)
(* late it is used; a withdrawal is launched only where the new identity   *)
(* was read; and the position in the plan tells what was closed or swept.  *)
(***************************************************************************)
EXTENDS AuthorityTransfer, WellFoundedInduction, SequenceTheorems, TLAPS

Entry == {Human, Copy, Ours("old"), Ours("new")}

Reading == [state : {"open", "closed"}, to : {"old", "new", "nobody"},
            address : {"old", "new", "none"}]

Shift(kind) == IF kind = "compromise" THEN 1 ELSE 0

WorldTyped ==
    /\ isolated \in BOOLEAN /\ installed \in BOOLEAN
    /\ residues \subseteq Granting
    /\ entries \in [Machines -> SUBSET Entry]
    /\ serving \in [Machines -> SUBSET {"human", "old", "new"}]
    /\ flight \subseteq [machine : Machines, op : {"install", "withdraw"}]
    /\ epoch \in [Machines -> 1..MaxEpoch]
    /\ reader \in [to : {"old", "new"}, listening : BOOLEAN, address : {"old", "new"}]
    /\ cuts \in 0..MaxCuts /\ outcome \in {"none", "secured"}

RunTyped ==
    run \in [kind : {"none"} \union Qualifications, at : 0..12, samples : SUBSET Reading,
             file : [Machines -> SUBSET Entry], read : SUBSET Machines,
             seen : [Machines -> {"unseen", "unknown", "old only", "overlap", "new only"}],
             rotated : SUBSET Machines, verified : SUBSET Machines]

HasStarted == run.kind # "none" => run.at >= 1

SomeIdentity == \A m \in Machines : Ours("old") \in entries[m] \/ Ours("new") \in entries[m]

\* What was read of a key file still holds of it, as far as it is used.
FileIsOfTheMachine ==
    \A m \in Machines : Ours("new") \in run.file[m] => Ours("new") \in entries[m]
OldIsStillRead ==
    \A m \in run.read : Ours("old") \in entries[m] => Ours("old") \in run.file[m]

ReadIsUnseen == \A m \in run.read : run.seen[m] \in {"unseen", "unknown"}

LateWithdrawal ==
    \A m \in Machines : [machine |-> m, op |-> "withdraw"] \in flight
                           => Ours("new") \in entries[m]

NewOnlyIsNewOnly ==
    \A m \in Machines : run.seen[m] = "new only" =>
        /\ Ours("new") \in entries[m] /\ Ours("old") \notin entries[m]
        /\ "old" \notin serving[m]

NotToTheOld == ~(reader.listening /\ reader.to = "old")

ReaderWasClosed ==
    installed \/ (run.kind # "none" /\ run.at > 2 + Shift(run.kind)) => NotToTheOld

ResiduesWereSwept ==
    run.kind # "none" /\ run.at > 10 + Shift(run.kind) => residues = {}

SecuredWasJudged ==
    outcome = "secured" =>
        /\ \A m \in Machines : run.seen[m] = "new only"
        /\ reader.listening /\ reader.to = "new" /\ residues = {}

Keys == /\ SomeIdentity /\ FileIsOfTheMachine /\ OldIsStillRead /\ ReadIsUnseen
        /\ LateWithdrawal /\ NewOnlyIsNewOnly

Order == HasStarted /\ ReaderWasClosed /\ ResiduesWereSwept /\ SecuredWasJudged

TransferInv == WorldTyped /\ RunTyped /\ Keys /\ Order

-----------------------------------------------------------------------------
(* What the judgements say.                                                *)

LEMMA LeastExists ==
    ASSUME NEW S, S \subseteq Nat, S # {}
    PROVE  \E i \in S : \A j \in S : i <= j
<1>1. PICK i \in S : \A j \in S : ~(<<j, i>> \in OpToRel(<, Nat))
  BY NatLessThanWellFounded, WFMin, Zenon
<1>2. \A j \in S : ~(j < i)
  BY <1>1 DEF OpToRel
<1>. QED  BY <1>2

(* A judgement is "ok" only when none of its checks failed. *)
LEMMA OkRefusesNothing ==
    ASSUME NEW checks, DOMAIN checks \subseteq Nat,
           \A i \in DOMAIN checks : checks[i][2] # "ok",
           FirstRefusal(checks) = "ok"
    PROVE  \A i \in DOMAIN checks : ~checks[i][1]
<1>. DEFINE failing == {i \in DOMAIN checks : checks[i][1]}
            first == CHOOSE i \in failing : \A j \in failing : i <= j
<1>. SUFFICES ASSUME failing # {} PROVE FALSE
  BY Zenon
<1>1. failing \subseteq Nat
  OBVIOUS
<1>2. first \in failing
  BY <1>1, LeastExists, Zenon
<1>3. checks[first][2] = "ok"
  BY Zenon DEF FirstRefusal
<1>. QED  BY <1>2, <1>3, Zenon

(* Only a line of the managed file is classified as the product's own. *)
LEMMA ClassifyOk ==
    ASSUME NEW e, NEW minted, Classify(e, minted) = "ok"
    PROVE  e.file = "managed"
<1>. DEFINE a1 == e.file # "managed"
            a2 == JudgeEntry(<<e.line>>) # "ok"
            a3 == e.print \notin minted
            checks == << <<a1, "personal">>, <<a2, "unmanaged">>, <<a3, "unrecognised">> >>
<1>1. FirstRefusal(checks) = "ok"
  BY Zenon DEF Classify
<1>. HIDE DEF a1, a2, a3
<1>2. DOMAIN checks = 1..3
  OBVIOUS
<1>3. \A i \in 1..3 : checks[i][2] # "ok"
  OBVIOUS
<1>4. ~a1
  BY <1>1, <1>2, <1>3, OkRefusesNothing
<1>. QED  BY <1>4 DEF a1

(* A withdrawal is granted only where the new identity was read. *)
LEMMA WithdrawOk ==
    ASSUME NEW v, NEW m, NEW observed, Withdraw(v, m, observed, "new", {"old"}) = "ok"
    PROVE  \E e \in observed : e.print = "new" /\ Classify(e, {"old"} \union {"new"}) = "ok"
<1>. DEFINE a1 == v # m
            a2 == "new" = "malformed"
            a3 == "new" \in {"old"}
            a4 == observed = {}
            a5 == \E e \in observed : e.print = "malformed"
            a6 == ~\E e \in observed : e.print = "new" /\ Classify(e, {"old"} \union {"new"}) = "ok"
            checks == << <<a1, "VerifiedAnotherMachine">>, <<a2, "MalformedFingerprint">>, <<a3, "WouldRemoveTheNewIdentity">>,
                         <<a4, "NothingObserved">>, <<a5, "MalformedFingerprint">>, <<a6, "NewIdentityNotPresent">> >>
<1>1. FirstRefusal(checks) = "ok"
  BY Zenon DEF Withdraw
<1>. HIDE DEF a1, a2, a3, a4, a5, a6
<1>2. DOMAIN checks = 1..6
  OBVIOUS
<1>3. \A i \in 1..6 : checks[i][2] # "ok"
  OBVIOUS
<1>4. ~a6
  BY <1>1, <1>2, <1>3, OkRefusesNothing
<1>. QED  BY <1>4 DEF a6

(* A rotation ends with the reader open to the new Controller. *)
LEMMA RotateOk ==
    ASSUME NEW during, NEW after, Rotate(during, after, "old", "new", "old") = "ok"
    PROVE  after.state = "open" /\ after.to = "new"
<1>. DEFINE a1 == during = {}
            a2 == \E s \in during : s.state = "open"
            a3 == after.state # "open"
            a4 == after.to = "old"
            a5 == after.to # "new"
            a6 == after.address = "old"
            checks == << <<a1, "NeverSampledDuringTheSwitch">>, <<a2, "OpenDuringTheSwitch">>, <<a3, "NeverReopened">>,
                         <<a4, "StillOpenToTheOldController">>, <<a5, "OpenToAnotherController">>, <<a6, "SourceAddressNotReprovisioned">> >>
<1>1. FirstRefusal(checks) = "ok"
  BY Zenon DEF Rotate
<1>. HIDE DEF a1, a2, a3, a4, a5, a6
<1>2. DOMAIN checks = 1..6
  OBVIOUS
<1>3. \A i \in 1..6 : checks[i][2] # "ok"
  OBVIOUS
<1>4. ~a3 /\ ~a5
  BY <1>1, <1>2, <1>3, OkRefusesNothing
<1>. QED  BY <1>4 DEF a3, a5

(* Every target concluded upon holds the new identity alone. *)
LEMMA ConcludeOk ==
    ASSUME NEW kind, NEW c, NEW targets, NEW to, Conclude(kind, c, targets, to, "new") = "ok"
    PROVE  \A i \in DOMAIN targets : targets[i].state = "new only"
<1>. DEFINE a1 == kind = "compromise" /\ c = "lost"
            a2 == c # (IF kind = "compromise" THEN "held" ELSE "not applicable")
            a3 == \E i \in DOMAIN targets : targets[i].state = "unknown"
            a4 == \E i \in DOMAIN targets : targets[i].state # "new only"
            a5 == to # "new"
            checks == << <<a1, "SuspectHostNoLongerIsolated">>, <<a2, "ContainmentDoesNotMatchTheJourney">>, <<a3, "TargetsUnknown">>,
                         <<a4, "TargetsNotFinished">>, <<a5, "ReaderRotatedForAnotherController">> >>
<1>1. FirstRefusal(checks) = "ok"
  BY Zenon DEF Conclude
<1>. HIDE DEF a1, a2, a3, a4, a5
<1>2. DOMAIN checks = 1..5
  OBVIOUS
<1>3. \A i \in 1..5 : checks[i][2] # "ok"
  OBVIOUS
<1>4. ~a4
  BY <1>1, <1>2, <1>3, OkRefusesNothing
<1>. QED  BY <1>4 DEF a4

(* A sweep passes only when every residue was seen and none grants. *)
LEMMA SweepOk ==
    ASSUME NEW seen, Sweep(seen) = "ok"
    PROVE  \A r \in seen : r.grant # "grants" /\ r.grant # "not observed"
<1>. DEFINE a1 == \E r \in seen : r.grant = "grants"
            a2 == \E r \in seen : r.grant = "not observed"
            a3 == \E k \in Kinds : \A r \in seen : r.kind # k
            checks == << <<a1, "StillGrantsAuthority">>, <<a2, "NotObserved">>, <<a3, "KindNotSwept">> >>
<1>1. FirstRefusal(checks) = "ok"
  BY Zenon DEF Sweep
<1>. HIDE DEF a1, a2, a3
<1>2. DOMAIN checks = 1..3
  OBVIOUS
<1>3. \A i \in 1..3 : checks[i][2] # "ok"
  OBVIOUS
<1>4. ~a1 /\ ~a2
  BY <1>1, <1>2, <1>3, OkRefusesNothing
<1>. QED  BY <1>4 DEF a1, a2

(* The manifest the Relay holds reads as open to its Controller, or closed. *)
LEMMA ReaderReads ==
    ASSUME WorldTyped
    PROVE  ReaderNow = IF reader.listening
                       THEN [state |-> "open", to |-> reader.to, address |-> reader.address]
                       ELSE [state |-> "closed", to |-> "nobody", address |-> "none"]
<1>. DEFINE socket == IF reader.listening THEN "listening" ELSE "not listening"
            a1 == Manifest.port # "reader"
            a2 == Manifest.status \notin {"active", "revoked"}
            a3 == Len(Manifest.controllers) = 0
            a4 == Len(Manifest.controllers) > 1
            a5 == ~Manifest.derived
            a6 == Manifest.address = "range"
            a7 == socket = "not observed"
            checks == << <<a1, "WrongPort">>, <<a2, "UnknownStatus">>, <<a3, "NoController">>,
                         <<a4, "TwoControllers">>, <<a5, "UriDoesNotDeriveFromThePair">>,
                         <<a6, "SourceAddressNotExact">>, <<a7, "SocketNotObserved">> >>
<1>1. /\ Manifest.port = "reader" /\ Manifest.status = "active" /\ Manifest.derived = TRUE
      /\ Manifest.controllers = <<reader.to>> /\ Manifest.address = reader.address
  BY DEF Manifest
<1>2. Len(Manifest.controllers) = 1 /\ Manifest.controllers[1] = reader.to
  BY <1>1
<1>3. Manifest.address # "range" /\ socket # "not observed"
  BY <1>1 DEF WorldTyped
<1>4. ~a1 /\ ~a2 /\ ~a3 /\ ~a4 /\ ~a5 /\ ~a6 /\ ~a7
  BY <1>1, <1>2, <1>3
<1>5. FirstRefusal(checks) = "ok"
  <2>. HIDE DEF a1, a2, a3, a4, a5, a6, a7
  <2>1. DOMAIN checks = 1..7
    OBVIOUS
  <2>2. \A i \in 1..7 : ~checks[i][1]
    BY <1>4
  <2>3. {i \in DOMAIN checks : checks[i][1]} = {}
    BY <2>1, <2>2, Zenon
  <2>. QED  BY <2>3, Zenon DEF FirstRefusal
<1>6. ReaderNow = IF socket = "listening" /\ Manifest.status = "active"
                  THEN [state |-> "open", to |-> Manifest.controllers[1],
                        address |-> Manifest.address]
                  ELSE [state |-> "closed", to |-> "nobody", address |-> "none"]
  BY <1>1, <1>5 DEF ReaderNow, ReadReader
<1>. QED  BY <1>1, <1>2, <1>6

LEMMA NewOnlyEvidence ==
    ASSUME NEW e, Reconstruct(e) = "new only"
    PROVE  /\ "old" \notin e.file /\ "new" \in e.file
           /\ e.old # "answered" /\ e.old # "none"
BY DEF Reconstruct

LEMMA ReconstructType ==
    ASSUME NEW e
    PROVE  Reconstruct(e) \in {"unknown", "old only", "overlap", "new only"}
BY DEF Reconstruct

-----------------------------------------------------------------------------
(* The order of the plan.                                                  *)

LEMMA CompromiseFollowsCommonSteps ==
    /\ Len(PlanSteps["compromise"]) = 12
    /\ PlanSteps["compromise"][1] = "IsolateSuspectHost"
    /\ \A i \in 2..12 : PlanSteps["compromise"][i] = CommonSteps[i - 1]
<1>. DEFINE S == {CommonSteps[i] : i \in 1..11} \union {"IsolateSuspectHost"}
            first == <<"IsolateSuspectHost">>
<1>1. Len(CommonSteps) = 11 /\ CommonSteps = [i \in 1..11 |-> CommonSteps[i]]
  BY DEF CommonSteps
<1>2. CommonSteps \in [1..11 -> S]
  BY <1>1
<1>3. CommonSteps \in Seq(S)
  BY <1>2, SeqDef
<1>4. PlanSteps["compromise"] = first \o CommonSteps
  BY DEF PlanSteps
<1>5. first \in Seq(S) /\ Len(first) = 1 /\ first[1] = "IsolateSuspectHost"
  OBVIOUS
<1>. HIDE DEF S, first
<1>6. /\ Len(first \o CommonSteps) = Len(first) + Len(CommonSteps)
      /\ \A i \in 1..(Len(first) + Len(CommonSteps)) :
            (first \o CommonSteps)[i] =
                IF i <= Len(first) THEN first[i] ELSE CommonSteps[i - Len(first)]
  BY <1>3, <1>5, ConcatProperties, Zenon
<1>. QED  BY <1>1, <1>4, <1>5, <1>6

LEMMA CommonOrder ==
    \A i \in 1..11 : /\ CommonSteps[i] # "IsolateSuspectHost"
                     /\ CommonSteps[i] = "CloseRelayReader" <=> i = 2
                     /\ CommonSteps[i] = "InstallNewController" <=> i = 3
                     /\ CommonSteps[i] = "SweepResidualAuthority" <=> i = 10
                     /\ CommonSteps[i] = "ArchiveOldAssociation" <=> i = 11
BY DEF CommonSteps

(* Where the run is, when it is doing a step. *)
LEMMA DoingAt ==
    ASSUME RunTyped, Order, NEW step, Doing(step)
    PROVE  /\ run.kind \in {"loss", "compromise"} /\ outcome = "none"
           /\ run.at \in 1..(11 + Shift(run.kind))
           /\ step = "CloseRelayReader" <=> run.at = 2 + Shift(run.kind)
           /\ step = "InstallNewController" <=> run.at = 3 + Shift(run.kind)
           /\ step = "SweepResidualAuthority" <=> run.at = 10 + Shift(run.kind)
           /\ step = "ArchiveOldAssociation" <=> run.at = 11 + Shift(run.kind)
<1>1. run.kind \in {"loss", "compromise"} /\ outcome = "none" /\ run.at \in Nat /\ run.at >= 1
  <2>1. run.kind # "none" /\ outcome = "none" /\ run.at >= 1
    BY DEF Order, HasStarted, Doing
  <2>2. run.kind \in {"loss", "compromise"}
    <3>1. run.kind \in {"none"} \union Qualifications
      BY DEF RunTyped
    <3>. QED  BY <2>1, <3>1, TransferAssumption, Zenon
  <2>3. run.at \in Nat
    <3>1. run.at \in 0..12
      BY DEF RunTyped
    <3>. QED  BY <3>1
  <2>. QED  BY <2>1, <2>2, <2>3
<1>2. PlanSteps["loss"] = CommonSteps /\ Len(CommonSteps) = 11
  BY DEF PlanSteps, CommonSteps
<1>3. CASE run.kind = "loss"
  <2>1. run.at \in 1..11 /\ CommonSteps[run.at] = step /\ Shift(run.kind) = 0
    BY <1>1, <1>2, <1>3 DEF Doing, Shift
  <2>. QED  BY <1>1, <2>1, CommonOrder
<1>4. CASE run.kind = "compromise"
  <2>1. run.at \in 1..12 /\ PlanSteps["compromise"][run.at] = step /\ Shift(run.kind) = 1
    BY <1>1, <1>4, CompromiseFollowsCommonSteps DEF Doing, Shift
  <2>2. CASE run.at = 1
    BY <1>1, <2>1, <2>2, CompromiseFollowsCommonSteps
  <2>3. CASE run.at \in 2..12
    <3>1. step = CommonSteps[run.at - 1] /\ run.at - 1 \in 1..11
      BY <2>1, <2>3, CompromiseFollowsCommonSteps
    <3>. QED  BY <1>1, <2>1, <3>1, CommonOrder
  <2>. QED  BY <2>1, <2>2, <2>3
<1>. QED  BY <1>1, <1>3, <1>4

-----------------------------------------------------------------------------
(* The entries of a key file.                                              *)

LEMMA EntryFacts ==
    /\ \A p : Ours(p).print = p /\ Ours(p).file = "managed"
    /\ \A e \in Entry : \A p \in {"old", "new"} :
          e.file = "managed" /\ e.print = p => e = Ours(p)
    /\ Ours("old") # Ours("new")
BY DEF Entry, Human, Copy, Ours

LEMMA ManagedOurs ==
    ASSUME NEW S \in SUBSET Entry, NEW p \in {"old", "new"}
    PROVE  p \in {e.print : e \in {x \in S : x.file = "managed"}} <=> Ours(p) \in S
BY EntryFacts

LEMMA WrittenMovesForward ==
    ASSUME NEW m \in Machines, NEW op, entries[m] \in SUBSET Entry
    PROVE  /\ Written(m, op) \in SUBSET Entry
           /\ Ours("new") \in entries[m] => Ours("new") \in Written(m, op)
           /\ Ours("old") \in Written(m, op) => Ours("old") \in entries[m]
           /\ op = "install" => Ours("new") \in Written(m, op)
<1>1. ~Removable(Ours("new"), "new", {"old"})
  BY EntryFacts DEF Removable
<1>2. Ours("new") \in Entry
  BY DEF Entry
<1>. QED  BY <1>1, <1>2, EntryFacts DEF Written

-----------------------------------------------------------------------------
(* The steps, in groups: what they do to the keys, to the order of the     *)
(* plan and to the types.                                                  *)

LEMMA KeysUntouched ==
    ASSUME Keys, UNCHANGED <<entries, serving, flight>>,
           run'.file = run.file, run'.read = run.read, run'.seen = run.seen
    PROVE  Keys'
BY DEF Keys, SomeIdentity, FileIsOfTheMachine, OldIsStillRead, ReadIsUnseen,
       LateWithdrawal, NewOnlyIsNewOnly

(* A step of the plan other than a closing, a sweep or the last one. *)
LEMMA OrderAdvances ==
    ASSUME RunTyped, Order, NEW step, Doing(step),
           step \notin {"CloseRelayReader", "SweepResidualAuthority", "ArchiveOldAssociation"},
           run'.kind = run.kind, run'.at \in {run.at, run.at + 1},
           UNCHANGED <<residues, outcome>>,
           NotToTheOld => NotToTheOld',
           installed' => installed \/ NotToTheOld
    PROVE  Order'
<1>1. /\ run.kind \in {"loss", "compromise"} /\ outcome = "none"
      /\ run.at \in 1..(11 + Shift(run.kind)) /\ Shift(run.kind) \in {0, 1}
      /\ run.at # 2 + Shift(run.kind) /\ run.at # 10 + Shift(run.kind)
      /\ run.at # 11 + Shift(run.kind)
  BY DoingAt DEF Order, Shift
<1>2. Shift(run'.kind) = Shift(run.kind)
  OBVIOUS
<1>3. HasStarted'
  BY <1>1 DEF HasStarted
<1>4. ReaderWasClosed'
  <2>1. run'.at > 2 + Shift(run.kind) => run.at > 2 + Shift(run.kind)
    BY <1>1
  <2>. QED  BY <1>1, <1>2, <2>1 DEF Order, ReaderWasClosed, NotToTheOld
<1>5. ResiduesWereSwept'
  <2>1. run'.at > 10 + Shift(run.kind) => run.at > 10 + Shift(run.kind)
    BY <1>1
  <2>. QED  BY <1>1, <1>2, <2>1 DEF Order, ResiduesWereSwept
<1>6. SecuredWasJudged'
  BY <1>1 DEF SecuredWasJudged
<1>. QED  BY <1>3, <1>4, <1>5, <1>6 DEF Order

(* A step that leaves the run where it is and does not reopen anything. *)
LEMMA OrderStands ==
    ASSUME Order, run'.kind = run.kind, run'.at = run.at,
           \A m \in Machines : run.seen[m] = "new only" => run'.seen[m] = "new only",
           UNCHANGED <<installed, reader, outcome>>, residues' \subseteq residues
    PROVE  Order'
<1>1. Shift(run'.kind) = Shift(run.kind)
  OBVIOUS
<1>. QED
  BY <1>1 DEF Order, HasStarted, ReaderWasClosed, NotToTheOld, ResiduesWereSwept,
              SecuredWasJudged

(* Entries that move forward keep every machine's keys in order. *)
LEMMA KeysMoveForward ==
    ASSUME WorldTyped, RunTyped, Keys, UNCHANGED serving,
           NEW m \in Machines, NEW op \in {"install", "withdraw"},
           op = "withdraw" => Ours("new") \in entries[m],
           entries' = [entries EXCEPT ![m] = Written(m, op)],
           flight' \subseteq flight,
           \A n \in Machines : run'.file[n] = run.file[n] \/ run'.file[n] = {},
           run'.read = run.read \/ run'.read = run.read \ {m},
           \A n \in run'.read : run'.file[n] = run.file[n],
           \A n \in Machines : run'.seen[n] = run.seen[n] \/ run'.seen[n] = "unseen"
    PROVE  Keys'
<1>1. \A n \in Machines : entries[n] \in SUBSET Entry
  BY DEF WorldTyped
<1>2. \A n \in Machines : /\ Ours("new") \in entries[n] => Ours("new") \in entries'[n]
                          /\ Ours("old") \in entries'[n] => Ours("old") \in entries[n]
  BY <1>1, WrittenMovesForward DEF WorldTyped
<1>3. Ours("new") \in entries'[m]
  BY <1>1, WrittenMovesForward DEF WorldTyped
<1>4. SomeIdentity'
  <2>. SUFFICES ASSUME NEW n \in Machines
                PROVE  Ours("old") \in entries'[n] \/ Ours("new") \in entries'[n]
    BY DEF SomeIdentity
  <2>1. CASE n = m
    BY <1>3, <2>1
  <2>2. CASE n # m
    BY <2>2 DEF Keys, SomeIdentity, WorldTyped
  <2>. QED  BY <2>1, <2>2
<1>5. FileIsOfTheMachine'
  BY <1>2 DEF Keys, FileIsOfTheMachine
<1>6. OldIsStillRead'
  <2>1. run'.read \subseteq run.read /\ run.read \subseteq Machines
    BY DEF RunTyped
  <2>. QED  BY <1>2, <2>1 DEF Keys, OldIsStillRead
<1>7. LateWithdrawal'
  BY <1>2 DEF Keys, LateWithdrawal
<1>8. NewOnlyIsNewOnly'
  BY <1>2 DEF Keys, NewOnlyIsNewOnly
<1>9. ReadIsUnseen'
  BY DEF RunTyped, Keys, ReadIsUnseen
<1>. QED  BY <1>4, <1>5, <1>6, <1>7, <1>8, <1>9 DEF Keys

-----------------------------------------------------------------------------
(* One lemma per action, or per group of actions with the same effects.    *)

LEMMA WorldMoves ==
    ASSUME TransferInv, Isolate \/ LoseIsolation \/ Revoke
    PROVE  TransferInv'
<1>1. /\ UNCHANGED <<installed, entries, serving, flight, epoch, reader, run, cuts, outcome>>
      /\ residues' \subseteq residues /\ isolated' \in BOOLEAN
  BY DEF Isolate, LoseIsolation, Revoke, TransferInv, WorldTyped
<1>2. WorldTyped'
  BY <1>1 DEF TransferInv, WorldTyped
<1>3. RunTyped'
  BY <1>1 DEF TransferInv, RunTyped
<1>4. Keys'
  BY <1>1, KeysUntouched DEF TransferInv
<1>5. Order'
  BY <1>1, OrderStands DEF TransferInv
<1>. QED  BY <1>2, <1>3, <1>4, <1>5 DEF TransferInv

LEMMA NoRunKnowsNothing ==
    NoRun \in [kind : {"none"}, at : {0}, samples : {{}}, file : [Machines -> {{}}],
               read : {{}}, seen : [Machines -> {"unseen"}], rotated : {{}}, verified : {{}}]
BY DEF NoRun

(* A run starts, or is cut: nothing it knew is left. *)
LEMMA RunStartsOver ==
    ASSUME TransferInv, NEW kind \in {"none"} \union Qualifications, NEW at \in 0..1,
           kind # "none" => at = 1,
           run' = [NoRun EXCEPT !.kind = kind, !.at = at], outcome = "none",
           UNCHANGED <<world, entries, serving, flight, epoch, reader, outcome>>,
           cuts' \in 0..MaxCuts
    PROVE  TransferInv'
<1>1. /\ run' \in [kind : {kind}, at : {at}, samples : {{}}, file : [Machines -> {{}}],
                   read : {{}}, seen : [Machines -> {"unseen"}], rotated : {{}},
                   verified : {{}}]
  BY NoRunKnowsNothing
<1>2. RunTyped'
  <2>1. /\ [Machines -> {{}}] \subseteq [Machines -> SUBSET Entry]
        /\ [Machines -> {"unseen"}] \subseteq
              [Machines -> {"unseen", "unknown", "old only", "overlap", "new only"}]
    OBVIOUS
  <2>2. run'.file \in [Machines -> {{}}] /\ run'.seen \in [Machines -> {"unseen"}]
    BY <1>1
  <2>3. /\ run'.kind \in {"none"} \union Qualifications /\ run'.at \in 0..12
        /\ run'.samples \in SUBSET Reading /\ run'.read \in SUBSET Machines
        /\ run'.rotated \in SUBSET Machines /\ run'.verified \in SUBSET Machines
    <3>1. /\ run'.kind = kind /\ run'.at = at /\ run'.samples = {} /\ run'.read = {}
          /\ run'.rotated = {} /\ run'.verified = {}
      BY <1>1
    <3>2. at \in 0..12
      OBVIOUS
    <3>. QED  BY <3>1, <3>2, Zenon
  <2>4. run' = [kind |-> run'.kind, at |-> run'.at, samples |-> run'.samples,
                file |-> run'.file, read |-> run'.read, seen |-> run'.seen,
                rotated |-> run'.rotated, verified |-> run'.verified]
    BY <1>1
  <2>. QED  BY <2>1, <2>2, <2>3, <2>4 DEF RunTyped
<1>3. WorldTyped'
  BY DEF TransferInv, WorldTyped, world
<1>4. Keys'
  <2>1. run'.read = {} /\ \A m \in Machines : run'.file[m] = {} /\ run'.seen[m] = "unseen"
    BY <1>1
  <2>. QED
    BY <2>1 DEF TransferInv, Keys, SomeIdentity, FileIsOfTheMachine, OldIsStillRead,
                ReadIsUnseen, LateWithdrawal, NewOnlyIsNewOnly
<1>5. Order'
  <2>1. run'.kind = kind /\ run'.at = at
    BY <1>1
  <2>2. ~(run'.at > 2 + Shift(run'.kind)) /\ ~(run'.at > 10 + Shift(run'.kind))
    BY <2>1 DEF Shift
  <2>3. outcome' = "none" /\ installed' = installed /\ reader' = reader
    BY DEF world
  <2>. QED
    BY <2>1, <2>2, <2>3 DEF TransferInv, Order, HasStarted, ReaderWasClosed, NotToTheOld,
                            ResiduesWereSwept, SecuredWasJudged
<1>. QED  BY <1>2, <1>3, <1>4, <1>5 DEF TransferInv

LEMMA CutKeeps ==
    ASSUME TransferInv, Cut
    PROVE  TransferInv'
<1>1. NoRun = [NoRun EXCEPT !.kind = "none", !.at = 0]
  BY NoRunKnowsNothing
<1>2. cuts' \in 0..MaxCuts
  BY TransferAssumption DEF Cut, TransferInv, WorldTyped
<1>3. run' = [NoRun EXCEPT !.kind = "none", !.at = 0] /\ outcome = "none"
  BY <1>1 DEF Cut
<1>4. /\ "none" \in {"none"} \union Qualifications /\ 0 \in 0..1
      /\ "none" # "none" => 0 = 1
  OBVIOUS
<1>5. UNCHANGED <<world, entries, serving, flight, epoch, reader, outcome>>
  BY DEF Cut
<1>. QED  BY <1>2, <1>3, <1>4, <1>5, RunStartsOver

LEMMA DecideKeeps ==
    ASSUME TransferInv, Decide
    PROVE  TransferInv'
<1>1. PICK r \in Requests : run' = [NoRun EXCEPT !.kind = r.kind, !.at = 1]
  BY DEF Decide
<1>2. r.kind \in Qualifications
  BY DEF Requests
<1>3. cuts' \in 0..MaxCuts /\ outcome = "none"
  BY DEF Decide, TransferInv, WorldTyped
<1>4. /\ r.kind \in {"none"} \union Qualifications /\ 1 \in 0..1
      /\ r.kind # "none" => 1 = 1
  BY <1>2
<1>5. UNCHANGED <<world, entries, serving, flight, epoch, reader, outcome>>
  BY DEF Decide
<1>. QED  BY <1>1, <1>3, <1>4, <1>5, RunStartsOver

(* sshd reloads: what it honours is what the file says now. *)
LEMMA ReloadKeeps ==
    ASSUME TransferInv, NEW m \in Machines, Reload(m)
    PROVE  TransferInv'
<1>1. ManagedPrints(m) \subseteq {"human", "old", "new"}
  <2>1. entries[m] \subseteq Entry
    BY DEF TransferInv, WorldTyped
  <2>2. \A e \in Entry : e.print \in {"human", "old", "new"}
    BY DEF Entry, Human, Copy, Ours
  <2>. QED  BY <2>1, <2>2 DEF ManagedPrints
<1>2. WorldTyped'
  BY <1>1 DEF Reload, TransferInv, WorldTyped, world
<1>3. RunTyped'
  BY DEF Reload, TransferInv, RunTyped
<1>4. NewOnlyIsNewOnly'
  <2>1. Ours("old") \notin entries[m] => "old" \notin ManagedPrints(m)
    <3>1. entries[m] \in SUBSET Entry
      BY DEF TransferInv, WorldTyped
    <3>. QED  BY <3>1, ManagedOurs DEF ManagedPrints
  <2>. QED  BY <2>1 DEF Reload, TransferInv, WorldTyped, Keys, NewOnlyIsNewOnly
<1>5. Keys'
  BY <1>4 DEF Reload, TransferInv, Keys, SomeIdentity, FileIsOfTheMachine, OldIsStillRead,
              ReadIsUnseen, LateWithdrawal
<1>6. Order'
  BY OrderStands DEF Reload, TransferInv, world
<1>. QED  BY <1>2, <1>3, <1>5, <1>6 DEF TransferInv

(* A write nobody heard of lands. *)
LEMMA LandKeeps ==
    ASSUME TransferInv, NEW f \in flight, Land(f)
    PROVE  TransferInv'
<1>1. /\ f.machine \in Machines /\ f.op \in {"install", "withdraw"}
      /\ f = [machine |-> f.machine, op |-> f.op]
  BY DEF TransferInv, WorldTyped
<1>2. f.op = "withdraw" => Ours("new") \in entries[f.machine]
  BY <1>1 DEF TransferInv, Keys, LateWithdrawal
<1>3. entries[f.machine] \in SUBSET Entry
  BY <1>1 DEF TransferInv, WorldTyped
<1>4. WorldTyped'
  <2>1. Written(f.machine, f.op) \in SUBSET Entry
    BY <1>1, <1>3, WrittenMovesForward
  <2>2. entries' \in [Machines -> SUBSET Entry]
    BY <1>1, <2>1 DEF Land, TransferInv, WorldTyped
  <2>3. flight' \subseteq [machine : Machines, op : {"install", "withdraw"}]
    BY DEF Land, TransferInv, WorldTyped
  <2>. QED  BY <2>2, <2>3 DEF Land, TransferInv, WorldTyped, world
<1>5. RunTyped'
  BY DEF Land, TransferInv, RunTyped
<1>6. Keys'
  BY <1>1, <1>2, KeysMoveForward DEF Land, TransferInv
<1>7. Order'
  BY OrderStands DEF Land, TransferInv, world
<1>. QED  BY <1>4, <1>5, <1>6, <1>7 DEF TransferInv

(* A key file is read: what is known of it is what it holds. *)
LEMMA ReadKeyFileKeeps ==
    ASSUME TransferInv, NEW m \in Machines, ReadKeyFile(m)
    PROVE  TransferInv'
<1>1. /\ run.file \in [Machines -> SUBSET Entry] /\ run.read \in SUBSET Machines
      /\ run.seen \in [Machines -> {"unseen", "unknown", "old only", "overlap", "new only"}]
      /\ entries \in [Machines -> SUBSET Entry]
  BY DEF TransferInv, WorldTyped, RunTyped
<1>2. run' = [run EXCEPT !.file = [run.file EXCEPT ![m] = entries[m]],
                         !.read = run.read \union {m}]
  BY DEF ReadKeyFile
<1>3. RunTyped'
  <2>1. /\ [run.file EXCEPT ![m] = entries[m]] \in [Machines -> SUBSET Entry]
        /\ run.read \union {m} \in SUBSET Machines
    BY <1>1
  <2>. QED  BY <1>2, <2>1 DEF TransferInv, RunTyped
<1>4. /\ run'.file = [run.file EXCEPT ![m] = entries[m]]
      /\ run'.read = run.read \union {m} /\ run'.seen = run.seen
      /\ run'.kind = run.kind /\ run'.at = run.at
  BY <1>2 DEF TransferInv, RunTyped
<1>5. WorldTyped'
  BY DEF ReadKeyFile, TransferInv, WorldTyped, world
<1>6. Keys'
  <2>1. UNCHANGED <<entries, serving, flight>>
    BY DEF ReadKeyFile
  <2>2. \A n \in Machines : run'.file[n] = IF n = m THEN entries[m] ELSE run.file[n]
    BY <1>1, <1>4
  <2>. QED
    BY <1>1, <1>4, <2>1, <2>2 DEF TransferInv, Keys, SomeIdentity, FileIsOfTheMachine,
                                  OldIsStillRead, ReadIsUnseen, LateWithdrawal,
                                  NewOnlyIsNewOnly, ReadKeyFile, Looking
<1>7. Order'
  BY <1>4, OrderStands DEF ReadKeyFile, TransferInv, world
<1>. QED  BY <1>3, <1>5, <1>6, <1>7 DEF TransferInv

(* Both identities are tried: "new only" is said of a machine where it is so. *)
LEMMA TryIdentitiesKeeps ==
    ASSUME TransferInv, NEW m \in Machines, NEW hears, TryIdentities(m, hears)
    PROVE  TransferInv'
<1>. DEFINE attempt(key) == IF key \notin hears THEN "none"
                            ELSE IF key \in serving[m] THEN "answered" ELSE "refused"
            managed == {e.print : e \in {x \in run.file[m] : x.file = "managed"}}
            evidence == [readable |-> TRUE, file |-> managed, old |-> attempt("old"),
                         new |-> attempt("new")]
            file == IF Reconstruct(evidence) = "overlap" THEN run.file[m] ELSE {}
<1>1. /\ run.file \in [Machines -> SUBSET Entry] /\ run.read \in SUBSET Machines
      /\ run.seen \in [Machines -> {"unseen", "unknown", "old only", "overlap", "new only"}]
  BY DEF TransferInv, RunTyped
<1>2. /\ m \in run.read /\ run.seen[m] \in {"unseen", "unknown"}
      /\ run' = [run EXCEPT !.seen = [run.seen EXCEPT ![m] = Reconstruct(evidence)],
                            !.read = run.read \ {m},
                            !.file = [run.file EXCEPT ![m] = file]]
  BY DEF TryIdentities, Looking
<1>3. Reconstruct(evidence) = "new only" =>
        /\ Ours("new") \in entries[m] /\ Ours("old") \notin entries[m]
        /\ "old" \notin serving[m]
  <2>. SUFFICES ASSUME Reconstruct(evidence) = "new only"
                PROVE  /\ Ours("new") \in entries[m] /\ Ours("old") \notin entries[m]
                       /\ "old" \notin serving[m]
    OBVIOUS
  <2>1. /\ "old" \notin evidence.file /\ "new" \in evidence.file
        /\ evidence.old # "answered" /\ evidence.old # "none"
    BY NewOnlyEvidence, Zenon
  <2>2. "old" \notin managed /\ "new" \in managed /\ "old" \notin serving[m]
    BY <2>1
  <2>3. Ours("new") \in run.file[m] /\ Ours("old") \notin run.file[m]
    BY <1>1, <2>2, ManagedOurs
  <2>. QED
    BY <1>2, <2>2, <2>3 DEF TransferInv, Keys, FileIsOfTheMachine, OldIsStillRead
<1>4. Reconstruct(evidence) \in {"unknown", "old only", "overlap", "new only"}
  BY ReconstructType, Zenon
<1>. HIDE DEF evidence
<1>5. RunTyped'
  <2>1. /\ [run.file EXCEPT ![m] = file] \in [Machines -> SUBSET Entry]
        /\ run.read \ {m} \in SUBSET Machines
        /\ [run.seen EXCEPT ![m] = Reconstruct(evidence)]
              \in [Machines -> {"unseen", "unknown", "old only", "overlap", "new only"}]
    BY <1>1, <1>4
  <2>. QED  BY <1>2, <2>1 DEF TransferInv, RunTyped
<1>6. /\ run'.file = [run.file EXCEPT ![m] = file]
      /\ run'.read = run.read \ {m} /\ run'.seen = [run.seen EXCEPT ![m] = Reconstruct(evidence)]
      /\ run'.kind = run.kind /\ run'.at = run.at
  BY <1>2 DEF TransferInv, RunTyped
<1>7. WorldTyped'
  BY DEF TryIdentities, TransferInv, WorldTyped, world
<1>8. UNCHANGED <<entries, serving, flight>>
  BY DEF TryIdentities
<1>9. Keys'
  <2>1. \A n \in Machines : /\ run'.file[n] = run.file[n] \/ run'.file[n] = {}
                            /\ n # m => run'.file[n] = run.file[n]
                            /\ run'.seen[n] = IF n = m THEN Reconstruct(evidence)
                                              ELSE run.seen[n]
    BY <1>1, <1>6
  <2>2. NewOnlyIsNewOnly'
    BY <1>3, <1>8, <2>1 DEF TransferInv, Keys, NewOnlyIsNewOnly
  <2>3. SomeIdentity' /\ FileIsOfTheMachine' /\ LateWithdrawal'
    BY <1>8, <2>1 DEF TransferInv, Keys, SomeIdentity, FileIsOfTheMachine, LateWithdrawal
  <2>4. OldIsStillRead'
    BY <1>1, <1>6, <1>8, <2>1 DEF TransferInv, Keys, OldIsStillRead
  <2>5. ReadIsUnseen'
    BY <1>1, <1>6, <2>1 DEF TransferInv, Keys, ReadIsUnseen
  <2>. QED  BY <2>2, <2>3, <2>4, <2>5 DEF Keys
<1>10. Order'
  <2>1. \A n \in Machines : run.seen[n] = "new only" => run'.seen[n] = "new only"
    <3>1. run.seen[m] # "new only"
      BY DEF TryIdentities, Looking
    <3>2. \A n \in Machines : n # m => run'.seen[n] = run.seen[n]
      BY <1>1, <1>6
    <3>. QED  BY <3>1, <3>2
  <2>. QED  BY <1>6, <2>1, OrderStands DEF TryIdentities, TransferInv, world
<1>. QED  BY <1>5, <1>7, <1>9, <1>10 DEF TransferInv

LEMMA ReaderNowTyped ==
    ASSUME WorldTyped
    PROVE  ReaderNow \in Reading
<1>1. reader.to \in {"old", "new"} /\ reader.address \in {"old", "new"}
  BY DEF WorldTyped
<1>. QED  BY <1>1, ReaderReads DEF Reading

(* Whatever the plan does to a run, it moves it by one step at most. *)
LEMMA AdvanceTyped ==
    ASSUME TransferInv, NEW step, Doing(step), step # "ArchiveOldAssociation",
           Advance \/ Sampled
    PROVE  /\ RunTyped'
           /\ run'.kind = run.kind /\ run'.at = run.at + 1
           /\ run'.file = run.file /\ run'.read = run.read /\ run'.seen = run.seen
<1>1. run.at + 1 \in 0..12
  <2>1. run.at \in 1..(11 + Shift(run.kind)) /\ run.at # 11 + Shift(run.kind)
    BY DoingAt DEF TransferInv
  <2>. QED  BY <2>1 DEF Shift
<1>2. run.samples \union {ReaderNow} \in SUBSET Reading /\ run.samples \in SUBSET Reading
  BY ReaderNowTyped DEF TransferInv, RunTyped
<1>3. \E samples \in SUBSET Reading :
         run' = [run EXCEPT !.at = run.at + 1, !.samples = samples]
  <2>1. CASE Advance
    <3>1. run' = [run EXCEPT !.at = run.at + 1, !.samples = run.samples]
      BY <2>1 DEF Advance, TransferInv, RunTyped
    <3>. QED  BY <1>2, <3>1
  <2>2. CASE Sampled
    BY <1>2, <2>2 DEF Sampled
  <2>. QED  BY <2>1, <2>2
<1>. QED  BY <1>1, <1>3 DEF TransferInv, RunTyped

LEMMA PlainStepKeeps ==
    ASSUME TransferInv,
           CheckIsolation \/ AuditMachines \/ AssociateApp \/ IdentitiesInstalled \/ OldWithdrawn
    PROVE  TransferInv'
<1>1. PICK step \in {"IsolateSuspectHost", "AuditRedeclaredMachines", "AssociateApp",
                     "InstallNewIdentities", "WithdrawOldAuthority"} : Doing(step)
  BY DEF CheckIsolation, AuditMachines, AssociateApp, IdentitiesInstalled, OldWithdrawn
<1>2. /\ Advance \/ Sampled
      /\ UNCHANGED <<world, entries, serving, flight, epoch, reader, cuts, outcome>>
  BY DEF CheckIsolation, AuditMachines, AssociateApp, IdentitiesInstalled, OldWithdrawn
<1>3. /\ RunTyped'
      /\ run'.kind = run.kind /\ run'.at = run.at + 1
      /\ run'.file = run.file /\ run'.read = run.read /\ run'.seen = run.seen
  BY <1>1, <1>2, AdvanceTyped
<1>4. WorldTyped'
  BY <1>2 DEF TransferInv, WorldTyped, world
<1>5. Keys'
  BY <1>2, <1>3, KeysUntouched DEF TransferInv
<1>6. Order'
  <2>1. /\ NotToTheOld => NotToTheOld'
        /\ installed' => installed \/ NotToTheOld
        /\ UNCHANGED <<residues, outcome>>
    BY <1>2 DEF NotToTheOld, world
  <2>. QED  BY <1>1, <1>3, <2>1, OrderAdvances DEF TransferInv
<1>. QED  BY <1>3, <1>4, <1>5, <1>6 DEF TransferInv

(* The reader is closed, and stays so until it serves the new Controller. *)
LEMMA CloseReaderKeeps ==
    ASSUME TransferInv, CloseReader
    PROVE  TransferInv'
<1>1. /\ RunTyped'
      /\ run'.kind = run.kind /\ run'.at = run.at + 1
      /\ run'.file = run.file /\ run'.read = run.read /\ run'.seen = run.seen
  BY AdvanceTyped DEF CloseReader
<1>2. WorldTyped'
  BY DEF CloseReader, TransferInv, WorldTyped, world
<1>3. Keys'
  BY <1>1, KeysUntouched DEF CloseReader, TransferInv
<1>4. ~reader'.listening
  BY DEF CloseReader, TransferInv, WorldTyped
<1>5. /\ outcome = "none" /\ UNCHANGED <<residues, outcome>>
      /\ run.at = 2 + Shift(run.kind) /\ Shift(run.kind) \in {0, 1}
  BY DoingAt DEF CloseReader, TransferInv, world, Shift
<1>6. Order'
  <2>1. HasStarted' /\ SecuredWasJudged' /\ ReaderWasClosed'
    BY <1>1, <1>4, <1>5 DEF HasStarted, SecuredWasJudged, ReaderWasClosed, NotToTheOld
  <2>2. ResiduesWereSwept'
    <3>1. Shift(run'.kind) = Shift(run.kind)
      BY <1>1
    <3>2. ~(run'.at > 10 + Shift(run'.kind))
      BY <1>1, <1>5, <3>1
    <3>. QED  BY <3>2 DEF ResiduesWereSwept
  <2>. QED  BY <2>1, <2>2 DEF Order
<1>. QED  BY <1>1, <1>2, <1>3, <1>6 DEF TransferInv

LEMMA InstallControllerKeeps ==
    ASSUME TransferInv, InstallController
    PROVE  TransferInv'
<1>1. /\ RunTyped'
      /\ run'.kind = run.kind /\ run'.at = run.at + 1
      /\ run'.file = run.file /\ run'.read = run.read /\ run'.seen = run.seen
  BY AdvanceTyped DEF InstallController
<1>2. WorldTyped'
  BY DEF InstallController, TransferInv, WorldTyped
<1>3. Keys'
  BY <1>1, KeysUntouched DEF InstallController, TransferInv
<1>4. NotToTheOld
  <2>1. run.kind \in {"loss", "compromise"} /\ run.at = 3 + Shift(run.kind)
    BY DoingAt DEF InstallController, TransferInv
  <2>2. run.kind # "none" /\ run.at > 2 + Shift(run.kind)
    BY <2>1 DEF Shift
  <2>. QED  BY <2>2 DEF TransferInv, Order, ReaderWasClosed
<1>5. Order'
  <2>1. NotToTheOld' /\ UNCHANGED <<residues, outcome>>
    BY <1>4 DEF InstallController, NotToTheOld
  <2>. QED  BY <1>1, <1>4, <2>1, OrderAdvances DEF InstallController, TransferInv
<1>. QED  BY <1>1, <1>2, <1>3, <1>5 DEF TransferInv

LEMMA ReopenReaderKeeps ==
    ASSUME TransferInv, ReopenReader
    PROVE  TransferInv'
<1>1. /\ RunTyped'
      /\ run'.kind = run.kind /\ run'.at = run.at + 1
      /\ run'.file = run.file /\ run'.read = run.read /\ run'.seen = run.seen
  BY AdvanceTyped DEF ReopenReader
<1>2. WorldTyped'
  BY DEF ReopenReader, TransferInv, WorldTyped, world
<1>3. Keys'
  BY <1>1, KeysUntouched DEF ReopenReader, TransferInv
<1>4. Order'
  <2>1. NotToTheOld' /\ UNCHANGED <<residues, installed, outcome>>
    BY DEF ReopenReader, NotToTheOld, world
  <2>. QED  BY <1>1, <2>1, OrderAdvances DEF ReopenReader, TransferInv
<1>. QED  BY <1>1, <1>2, <1>3, <1>4 DEF TransferInv

(* A machine is ticked off, and the step ends with the last of them. *)
LEMMA TickKeeps ==
    ASSUME TransferInv, NEW m \in Machines, RotateEpoch(m) \/ VerifyMachine(m)
    PROVE  TransferInv'
<1>1. PICK step \in {"RotateApprovalEpoch", "VerifyNewAuthority"} : Doing(step)
  BY DEF RotateEpoch, VerifyMachine
<1>2. run.at \in 0..12 /\ run.at + 1 \in 0..12
  <2>1. run.at \in 1..(11 + Shift(run.kind)) /\ run.at # 11 + Shift(run.kind)
    BY <1>1, DoingAt DEF TransferInv
  <2>. QED  BY <2>1 DEF Shift
<1>3. \E at \in {run.at, run.at + 1}, rotated, verified \in SUBSET Machines :
         run' = [run EXCEPT !.rotated = rotated, !.verified = verified, !.at = at]
  <2>1. run.rotated \in SUBSET Machines /\ run.verified \in SUBSET Machines
    BY DEF TransferInv, RunTyped
  <2>2. CASE RotateEpoch(m)
    <3>. DEFINE rotated == run.rotated \union {m}
                at == IF run.rotated \union {m} = Machines THEN run.at + 1 ELSE run.at
    <3>1. run' = [run EXCEPT !.rotated = rotated, !.verified = run.verified, !.at = at]
      BY <2>2 DEF RotateEpoch, TransferInv, RunTyped
    <3>2. rotated \in SUBSET Machines /\ at \in {run.at, run.at + 1}
      BY <2>1
    <3>. QED  BY <2>1, <3>1, <3>2
  <2>3. CASE VerifyMachine(m)
    <3>. DEFINE verified == run.verified \union {m}
                at == IF run.verified \union {m} = Machines THEN run.at + 1 ELSE run.at
    <3>1. run' = [run EXCEPT !.rotated = run.rotated, !.verified = verified, !.at = at]
      BY <2>3 DEF VerifyMachine, TransferInv, RunTyped
    <3>2. verified \in SUBSET Machines /\ at \in {run.at, run.at + 1}
      BY <2>1
    <3>. QED  BY <2>1, <3>1, <3>2
  <2>. QED  BY <2>2, <2>3
<1>4. /\ RunTyped'
      /\ run'.kind = run.kind /\ run'.at \in {run.at, run.at + 1}
      /\ run'.file = run.file /\ run'.read = run.read /\ run'.seen = run.seen
  <2>1. PICK at \in {run.at, run.at + 1}, rotated \in SUBSET Machines,
             verified \in SUBSET Machines :
           run' = [run EXCEPT !.rotated = rotated, !.verified = verified, !.at = at]
    BY <1>3
  <2>2. at \in 0..12
    BY <1>2
  <2>. QED  BY <2>1, <2>2 DEF TransferInv, RunTyped
<1>5. UNCHANGED <<world, entries, serving, flight, reader, cuts, outcome>>
  BY DEF RotateEpoch, VerifyMachine
<1>6. epoch' \in [Machines -> 1..MaxEpoch]
  <2>1. CASE RotateEpoch(m)
    BY <2>1 DEF RotateEpoch, TransferInv, WorldTyped
  <2>2. CASE VerifyMachine(m)
    BY <2>2 DEF VerifyMachine, TransferInv, WorldTyped
  <2>. QED  BY <2>1, <2>2
<1>7. WorldTyped'
  BY <1>5, <1>6 DEF TransferInv, WorldTyped, world
<1>8. Keys'
  BY <1>4, <1>5, KeysUntouched DEF TransferInv
<1>9. Order'
  <2>1. /\ NotToTheOld => NotToTheOld'
        /\ installed' => installed \/ NotToTheOld
        /\ UNCHANGED <<residues, outcome>>
    BY <1>5 DEF NotToTheOld, world
  <2>. QED  BY <1>1, <1>4, <2>1, OrderAdvances DEF TransferInv
<1>. QED  BY <1>4, <1>7, <1>8, <1>9 DEF TransferInv

(* A write that goes unheard: it may land at any later moment. *)
LEMMA KeysLaunch ==
    ASSUME TransferInv, NEW m \in Machines, NEW op \in {"install", "withdraw"},
           op = "withdraw" => Ours("new") \in entries[m],
           Writing(m, op), UNCHANGED serving,
           \A n \in Machines : run'.file[n] = run.file[n] \/ run'.file[n] = {},
           run'.read = run.read, \A n \in run.read : run'.file[n] = run.file[n],
           \A n \in Machines : run'.seen[n] = run.seen[n] \/ run'.seen[n] = "unseen"
    PROVE  /\ Keys' /\ entries' \in [Machines -> SUBSET Entry]
           /\ flight' \subseteq [machine : Machines, op : {"install", "withdraw"}]
<1>1. entries \in [Machines -> SUBSET Entry] /\ entries[m] \in SUBSET Entry
  BY DEF TransferInv, WorldTyped
<1>2. CASE /\ entries' = [entries EXCEPT ![m] = Written(m, op)]
           /\ UNCHANGED flight
  <2>1. Keys'
    BY <1>2, KeysMoveForward DEF TransferInv
  <2>2. entries' \in [Machines -> SUBSET Entry]
    BY <1>1, <1>2, WrittenMovesForward
  <2>. QED  BY <1>2, <2>1, <2>2 DEF TransferInv, WorldTyped
<1>3. CASE /\ flight' = flight \union {[machine |-> m, op |-> op]}
           /\ UNCHANGED entries
  <2>1. LateWithdrawal'
    <3>. SUFFICES ASSUME NEW n \in Machines, [machine |-> n, op |-> "withdraw"] \in flight'
                  PROVE  Ours("new") \in entries'[n]
      BY DEF LateWithdrawal
    <3>1. CASE [machine |-> n, op |-> "withdraw"] \in flight
      BY <1>3, <3>1 DEF TransferInv, Keys, LateWithdrawal
    <3>2. CASE [machine |-> n, op |-> "withdraw"] = [machine |-> m, op |-> op]
      BY <1>3, <3>2
    <3>. QED  BY <1>3, <3>1, <3>2
  <2>2. SomeIdentity' /\ FileIsOfTheMachine' /\ NewOnlyIsNewOnly'
    BY <1>3 DEF TransferInv, Keys, SomeIdentity, FileIsOfTheMachine, NewOnlyIsNewOnly
  <2>3. OldIsStillRead' /\ ReadIsUnseen'
    BY <1>3 DEF TransferInv, RunTyped, Keys, OldIsStillRead, ReadIsUnseen
  <2>4. flight' \subseteq [machine : Machines, op : {"install", "withdraw"}]
    BY <1>3 DEF TransferInv, WorldTyped
  <2>. QED  BY <1>1, <1>3, <2>1, <2>2, <2>3, <2>4 DEF Keys
<1>. QED  BY <1>2, <1>3 DEF Writing

LEMMA InstallIdentityKeeps ==
    ASSUME TransferInv, NEW m \in Machines, InstallIdentity(m)
    PROVE  TransferInv'
<1>1. run.seen \in [Machines -> {"unseen", "unknown", "old only", "overlap", "new only"}]
  BY DEF TransferInv, RunTyped
<1>2. run' = [run EXCEPT !.seen = [run.seen EXCEPT ![m] = "unseen"]]
  BY DEF InstallIdentity
<1>3. /\ run'.kind = run.kind /\ run'.at = run.at /\ run'.file = run.file
      /\ run'.read = run.read /\ run'.seen = [run.seen EXCEPT ![m] = "unseen"]
      /\ RunTyped'
  <2>1. [run.seen EXCEPT ![m] = "unseen"]
           \in [Machines -> {"unseen", "unknown", "old only", "overlap", "new only"}]
    BY <1>1
  <2>. QED  BY <1>2, <2>1 DEF TransferInv, RunTyped
<1>4. \A n \in Machines : run'.seen[n] = run.seen[n] \/ run'.seen[n] = "unseen"
  BY <1>1, <1>3
<1>5. /\ Keys' /\ entries' \in [Machines -> SUBSET Entry]
      /\ flight' \subseteq [machine : Machines, op : {"install", "withdraw"}]
  BY <1>3, <1>4, KeysLaunch DEF InstallIdentity
<1>6. WorldTyped'
  BY <1>5 DEF InstallIdentity, TransferInv, WorldTyped, world
<1>7. Order'
  <2>1. /\ NotToTheOld => NotToTheOld'
        /\ installed' => installed \/ NotToTheOld
        /\ UNCHANGED <<residues, outcome>>
    BY DEF InstallIdentity, NotToTheOld, world
  <2>. QED  BY <1>3, <2>1, OrderAdvances DEF InstallIdentity, TransferInv
<1>. QED  BY <1>3, <1>5, <1>6, <1>7 DEF TransferInv

(* A withdrawal is launched where the new identity was read, and there it still is. *)
LEMMA WithdrawOldKeeps ==
    ASSUME TransferInv, NEW m \in Machines, WithdrawOld(m)
    PROVE  TransferInv'
<1>1. /\ run.seen \in [Machines -> {"unseen", "unknown", "old only", "overlap", "new only"}]
      /\ run.file \in [Machines -> SUBSET Entry]
  BY DEF TransferInv, RunTyped
<1>2. run' = [run EXCEPT !.seen = [run.seen EXCEPT ![m] = "unseen"],
                         !.file = [run.file EXCEPT ![m] = {}]]
  BY DEF WithdrawOld
<1>3. /\ run'.kind = run.kind /\ run'.at = run.at /\ run'.read = run.read
      /\ run'.file = [run.file EXCEPT ![m] = {}]
      /\ run'.seen = [run.seen EXCEPT ![m] = "unseen"] /\ RunTyped'
  <2>1. /\ [run.seen EXCEPT ![m] = "unseen"]
              \in [Machines -> {"unseen", "unknown", "old only", "overlap", "new only"}]
        /\ [run.file EXCEPT ![m] = {}] \in [Machines -> SUBSET Entry]
    BY <1>1
  <2>. QED  BY <1>2, <2>1 DEF TransferInv, RunTyped
<1>4. Ours("new") \in entries[m]
  <2>1. PICK e \in run.file[m] : /\ e.print = "new"
                                 /\ Classify(e, {"old"} \union {"new"}) = "ok"
    BY WithdrawOk DEF WithdrawOld
  <2>2. e.file = "managed" /\ e \in Entry
    BY <1>1, <2>1, ClassifyOk
  <2>3. e = Ours("new")
    BY <2>1, <2>2, EntryFacts
  <2>. QED  BY <2>1, <2>3 DEF TransferInv, Keys, FileIsOfTheMachine
<1>5. m \notin run.read
  <2>1. run.seen[m] = "overlap"
    BY DEF WithdrawOld, NextFor
  <2>. QED  BY <2>1 DEF TransferInv, Keys, ReadIsUnseen
<1>6. /\ Keys' /\ entries' \in [Machines -> SUBSET Entry]
      /\ flight' \subseteq [machine : Machines, op : {"install", "withdraw"}]
  <2>1. \A n \in Machines : /\ run'.seen[n] = run.seen[n] \/ run'.seen[n] = "unseen"
                            /\ run'.file[n] = run.file[n] \/ run'.file[n] = {}
                            /\ n # m => run'.file[n] = run.file[n]
    BY <1>1, <1>3
  <2>2. \A n \in run.read : run'.file[n] = run.file[n]
    BY <1>5, <2>1 DEF TransferInv, RunTyped
  <2>3. Writing(m, "withdraw") /\ UNCHANGED serving
    BY DEF WithdrawOld
  <2>. QED  BY <1>3, <1>4, <2>1, <2>2, <2>3, KeysLaunch
<1>7. WorldTyped'
  BY <1>6 DEF WithdrawOld, TransferInv, WorldTyped, world
<1>8. Order'
  <2>1. /\ NotToTheOld => NotToTheOld'
        /\ installed' => installed \/ NotToTheOld
        /\ UNCHANGED <<residues, outcome>>
    BY DEF WithdrawOld, NotToTheOld, world
  <2>. QED  BY <1>3, <2>1, OrderAdvances DEF WithdrawOld, TransferInv
<1>. QED  BY <1>3, <1>6, <1>7, <1>8 DEF TransferInv

(* Past the sweep, nothing of the old authority grants anything. *)
LEMMA SweepKeeps ==
    ASSUME TransferInv, SweepResidues
    PROVE  TransferInv'
<1>1. /\ RunTyped'
      /\ run'.kind = run.kind /\ run'.at = run.at + 1
      /\ run'.file = run.file /\ run'.read = run.read /\ run'.seen = run.seen
  BY AdvanceTyped DEF SweepResidues
<1>2. WorldTyped'
  BY DEF SweepResidues, TransferInv, WorldTyped, world
<1>3. Keys'
  BY <1>1, KeysUntouched DEF SweepResidues, TransferInv
<1>4. residues = {}
  <2>. DEFINE grant(blind, k) == IF k \in blind THEN "not observed"
                                 ELSE IF k \in residues THEN "grants" ELSE "refused"
  <2>1. PICK blind \in SUBSET {"device"} :
           Sweep({[kind |-> k, grant |-> grant(blind, k)] : k \in Kinds}) = "ok"
    BY DEF SweepResidues
  <2>2. \A k \in Kinds : k \notin residues
    <3>1. \A r \in {[kind |-> k, grant |-> grant(blind, k)] : k \in Kinds} :
             r.grant # "grants" /\ r.grant # "not observed"
      BY <2>1, SweepOk, Zenon
    <3>. SUFFICES ASSUME NEW k \in Kinds PROVE k \notin residues
      OBVIOUS
    <3>2. grant(blind, k) # "grants" /\ grant(blind, k) # "not observed"
      <4>. HIDE DEF grant
      <4>1. [kind |-> k, grant |-> grant(blind, k)]
               \in {[kind |-> j, grant |-> grant(blind, j)] : j \in Kinds}
        OBVIOUS
      <4>. QED  BY <3>1, <4>1
    <3>. QED  BY <3>2
  <2>3. residues \subseteq Kinds
    <3>1. Granting \subseteq Kinds
      BY TransferAssumption
    <3>. QED  BY <3>1 DEF TransferInv, WorldTyped
  <2>. QED  BY <2>2, <2>3
<1>5. /\ run.kind \in {"loss", "compromise"} /\ outcome = "none"
      /\ run.at = 10 + Shift(run.kind) /\ Shift(run.kind) \in {0, 1}
      /\ UNCHANGED <<residues, installed, reader, outcome>>
  BY DoingAt DEF SweepResidues, TransferInv, world, Shift
<1>6. Order'
  <2>1. HasStarted' /\ SecuredWasJudged' /\ ResiduesWereSwept'
    BY <1>1, <1>4, <1>5 DEF HasStarted, SecuredWasJudged, ResiduesWereSwept
  <2>2. ReaderWasClosed'
    <3>1. run.kind # "none" /\ run.at > 2 + Shift(run.kind)
      BY <1>5
    <3>2. NotToTheOld
      BY <3>1 DEF TransferInv, Order, ReaderWasClosed
    <3>. QED  BY <1>5, <3>2 DEF ReaderWasClosed, NotToTheOld
  <2>. QED  BY <2>1, <2>2 DEF Order
<1>. QED  BY <1>1, <1>2, <1>3, <1>6 DEF TransferInv

(* What is concluded upon is what was judged of every machine and of the reader. *)
LEMMA SecureKeeps ==
    ASSUME TransferInv, Secure
    PROVE  TransferInv'
<1>. DEFINE targets == [i \in DOMAIN MachineList |->
                          [machine |-> MachineList[i], state |-> run.seen[MachineList[i]]]]
<1>1. /\ Doing("ArchiveOldAssociation") /\ outcome' = "secured"
      /\ UNCHANGED <<world, entries, serving, flight, epoch, reader, run, cuts>>
      /\ Rotate(run.samples, ReaderNow, "old", "new", "old") = "ok"
  BY DEF Secure
<1>2. PICK c : Conclude(run.kind, c, targets, ReaderNow.to, "new") = "ok"
  BY DEF Secure
<1>3. \A m \in Machines : run.seen[m] = "new only"
  <2>1. \A i \in DOMAIN targets : targets[i].state = "new only"
    <3>. HIDE DEF targets
    <3>. QED  BY <1>2, ConcludeOk, ZenonT(40)
  <2>. QED  BY <2>1 DEF Machines
<1>4. reader.listening /\ reader.to = "new"
  <2>1. ReaderNow.state = "open" /\ ReaderNow.to = "new"
    BY <1>1, RotateOk
  <2>. QED  BY <2>1, ReaderReads DEF TransferInv
<1>5. residues = {}
  <2>1. run.kind \in {"loss", "compromise"} /\ run.at = 11 + Shift(run.kind)
    BY <1>1, DoingAt DEF TransferInv
  <2>2. run.kind # "none" /\ run.at > 10 + Shift(run.kind)
    BY <2>1 DEF Shift
  <2>. QED  BY <2>2 DEF TransferInv, Order, ResiduesWereSwept
<1>6. WorldTyped' /\ RunTyped'
  BY <1>1 DEF TransferInv, WorldTyped, RunTyped, world
<1>7. Keys'
  BY <1>1, KeysUntouched DEF TransferInv
<1>8. Order'
  <2>1. UNCHANGED <<installed, residues, reader, run>>
    BY <1>1 DEF world
  <2>2. Shift(run'.kind) = Shift(run.kind)
    BY <2>1
  <2>. QED
    BY <1>3, <1>4, <1>5, <2>1, <2>2 DEF TransferInv, Order, HasStarted, ReaderWasClosed,
                                        NotToTheOld, ResiduesWereSwept, SecuredWasJudged
<1>. QED  BY <1>6, <1>7, <1>8 DEF TransferInv

LEMMA TransferInit ==
    ASSUME Init
    PROVE  TransferInv
<1>1. run \in [kind : {"none"}, at : {0}, samples : {{}}, file : [Machines -> {{}}],
               read : {{}}, seen : [Machines -> {"unseen"}], rotated : {{}}, verified : {{}}]
  BY NoRunKnowsNothing DEF Init
<1>2. /\ run.kind = "none" /\ run.at = 0 /\ run.read = {}
      /\ \A m \in Machines : run.file[m] = {} /\ run.seen[m] = "unseen"
  BY <1>1
<1>3. RunTyped
  <2>1. /\ [Machines -> {{}}] \subseteq [Machines -> SUBSET Entry]
        /\ [Machines -> {"unseen"}] \subseteq
              [Machines -> {"unseen", "unknown", "old only", "overlap", "new only"}]
    OBVIOUS
  <2>2. run.file \in [Machines -> {{}}] /\ run.seen \in [Machines -> {"unseen"}]
    BY <1>1
  <2>3. /\ run.kind = "none" /\ run.at = 0 /\ run.samples = {} /\ run.read = {}
        /\ run.rotated = {} /\ run.verified = {}
    BY <1>1
  <2>4. /\ run.kind \in {"none"} \union Qualifications /\ run.at \in 0..12
        /\ run.samples \in SUBSET Reading /\ run.read \in SUBSET Machines
        /\ run.rotated \in SUBSET Machines /\ run.verified \in SUBSET Machines
    BY <2>3
  <2>5. run = [kind |-> run.kind, at |-> run.at, samples |-> run.samples, file |-> run.file,
               read |-> run.read, seen |-> run.seen, rotated |-> run.rotated,
               verified |-> run.verified]
    BY <1>1
  <2>. QED  BY <2>1, <2>2, <2>4, <2>5 DEF RunTyped
<1>4. WorldTyped
  <2>1. 1 \in 1..MaxEpoch /\ 0 \in 0..MaxCuts
    BY TransferAssumption
  <2>2. entries \in [Machines -> SUBSET Entry]
    BY DEF Init, Entry
  <2>3. serving \in [Machines -> SUBSET {"human", "old", "new"}]
    BY DEF Init
  <2>4. epoch \in [Machines -> 1..MaxEpoch]
    BY <2>1 DEF Init
  <2>. QED  BY <2>1, <2>2, <2>3, <2>4 DEF Init, WorldTyped
<1>5. Keys
  <2>1. \A m \in Machines : Ours("old") \in entries[m]
    BY DEF Init
  <2>2. flight = {}
    BY DEF Init
  <2>. QED
    BY <1>2, <2>1, <2>2, EntryFacts
       DEF Keys, SomeIdentity, FileIsOfTheMachine, OldIsStillRead, ReadIsUnseen,
           LateWithdrawal, NewOnlyIsNewOnly
<1>6. Order
  BY <1>2 DEF Init, Order, HasStarted, ReaderWasClosed, ResiduesWereSwept, SecuredWasJudged
<1>. QED  BY <1>3, <1>4, <1>5, <1>6 DEF TransferInv

LEMMA TransferStep ==
    ASSUME TransferInv, [Next]_vars
    PROVE  TransferInv'
<1>1. CASE Isolate \/ LoseIsolation \/ Revoke
  BY <1>1, WorldMoves
<1>2. CASE Cut
  BY <1>2, CutKeeps
<1>3. CASE Decide
  BY <1>3, DecideKeeps
<1>4. CASE FleetStep
  BY <1>4, PlainStepKeeps, CloseReaderKeeps, InstallControllerKeeps, ReopenReaderKeeps,
     SweepKeeps, SecureKeeps, Zenon DEF FleetStep
<1>5. ASSUME NEW m \in Machines, Reload(m) \/ Observes(m) \/ StepOf(m)
      PROVE  TransferInv'
  BY <1>5, ReloadKeeps, ReadKeyFileKeeps, TryIdentitiesKeeps, TickKeeps,
     InstallIdentityKeeps, WithdrawOldKeeps, Zenon DEF Observes, StepOf
<1>6. ASSUME NEW f \in flight, Land(f)
      PROVE  TransferInv'
  BY <1>6, LandKeeps
<1>7. CASE UNCHANGED vars
  <2>1. /\ UNCHANGED <<installed, residues, isolated, entries, serving, flight, epoch,
                       reader, run, cuts, outcome>>
    BY <1>7 DEF vars, world
  <2>2. Keys'
    BY <2>1, KeysUntouched DEF TransferInv
  <2>3. Order'
    BY <2>1, OrderStands DEF TransferInv
  <2>4. WorldTyped' /\ RunTyped'
    BY <2>1 DEF TransferInv, WorldTyped, RunTyped
  <2>. QED  BY <2>2, <2>3, <2>4 DEF TransferInv
<1>. QED  BY <1>1, <1>2, <1>3, <1>4, <1>5, <1>6, <1>7, Zenon DEF Next

(* The inductive invariant holds of every run of the specification. *)
THEOREM TransferIsInvariant == Spec => []TransferInv
<1>1. Init => TransferInv
  BY TransferInit
<1>2. TransferInv /\ [Next]_vars => TransferInv'
  BY TransferStep
<1>. QED  BY <1>1, <1>2, PTL DEF Spec

(***************************************************************************)
(* The variables of a replacement keep their types: the key entries are    *)
(* the four that are told apart, the position stays within the plan        *)
(* (plan.rs, transition.rs).                                               *)
(***************************************************************************)
THEOREM TransferIsTyped == Spec => []TypeOK
<1>1. TransferInv => TypeOK
  <2>. SUFFICES ASSUME TransferInv PROVE TypeOK
    OBVIOUS
  <2>1. /\ run.kind \in {"none"} \union Qualifications /\ run.at \in 0..12
        /\ run.seen \in [Machines -> {"unseen", "unknown", "old only", "overlap", "new only"}]
        /\ run.rotated \subseteq Machines /\ run.verified \subseteq Machines
    BY DEF TransferInv, RunTyped
  <2>2. run.at \in 0..Len(PlanSteps["compromise"])
    BY <2>1, CompromiseFollowsCommonSteps
  <2>3. entries \in [Machines -> SUBSET {Human, Copy, Ours("old"), Ours("new")}]
    BY DEF TransferInv, WorldTyped, Entry
  <2>. QED  BY <2>1, <2>2, <2>3 DEF TransferInv, WorldTyped, TypeOK
<1>. QED  BY <1>1, TransferIsInvariant, PTL

(***************************************************************************)
(* No machine is ever without an authority, whatever the cuts and however  *)
(* late a withdrawal lands: its key file holds the old identity or the new *)
(* one (withdrawal.rs withdraw, transition.rs next).                       *)
(***************************************************************************)
THEOREM AuthorityIsNeverLost == Spec => []AuthorityNeverLost
<1>1. TransferInv => AuthorityNeverLost
  <2>. SUFFICES ASSUME TransferInv, NEW m \in Machines
                PROVE  {"old", "new"} \intersect ManagedPrints(m) # {}
    BY DEF AuthorityNeverLost
  <2>1. entries[m] \in SUBSET Entry
    BY DEF TransferInv, WorldTyped
  <2>2. "old" \in ManagedPrints(m) \/ "new" \in ManagedPrints(m)
    BY <2>1, ManagedOurs DEF ManagedPrints, TransferInv, Keys, SomeIdentity
  <2>. QED  BY <2>2
<1>. QED  BY <1>1, TransferIsInvariant, PTL

(***************************************************************************)
(* The Relay's reader never serves the old Controller once a new one       *)
(* exists, in this run or after one that was cut (reader.rs, plan.rs).     *)
(***************************************************************************)
THEOREM OneReaderAlways == Spec => []OneReader
<1>1. TransferInv => OneReader
  BY ReaderReads DEF TransferInv, Order, ReaderWasClosed, NotToTheOld, OneReader
<1>. QED  BY <1>1, TransferIsInvariant, PTL

(***************************************************************************)
(* A replacement called secured is exclusive and stays so: late writes     *)
(* that land after the conclusion, reloads and revocations included        *)
(* (transition.rs, inheritance.rs sweep and conclude).                     *)
(***************************************************************************)
THEOREM SecuredIsAlwaysExclusive == Spec => []SecuredIsExclusive
<1>1. TransferInv => SecuredIsExclusive
  <2>. SUFFICES ASSUME TransferInv, outcome = "secured"
                PROVE  /\ \A m \in Machines :
                            /\ ManagedPrints(m) \intersect {"old", "new"} = {"new"}
                            /\ "old" \notin serving[m]
                       /\ ReaderNow.state = "open" /\ ReaderNow.to = "new"
                       /\ residues = {}
    BY DEF SecuredIsExclusive
  <2>1. \A m \in Machines : run.seen[m] = "new only"
    BY DEF TransferInv, Order, SecuredWasJudged
  <2>2. ASSUME NEW m \in Machines
        PROVE  /\ ManagedPrints(m) \intersect {"old", "new"} = {"new"}
               /\ "old" \notin serving[m]
    <3>1. /\ Ours("new") \in entries[m] /\ Ours("old") \notin entries[m]
          /\ "old" \notin serving[m]
      BY <2>1 DEF TransferInv, Keys, NewOnlyIsNewOnly
    <3>2. entries[m] \in SUBSET Entry
      BY DEF TransferInv, WorldTyped
    <3>3. "new" \in ManagedPrints(m) /\ "old" \notin ManagedPrints(m)
      BY <3>1, <3>2, ManagedOurs DEF ManagedPrints
    <3>. QED  BY <3>1, <3>3
  <2>3. ReaderNow.state = "open" /\ ReaderNow.to = "new"
    <3>1. reader.listening /\ reader.to = "new"
      BY DEF TransferInv, Order, SecuredWasJudged
    <3>2. ReaderNow = [state |-> "open", to |-> reader.to, address |-> reader.address]
      BY <3>1, ReaderReads DEF TransferInv
    <3>. QED  BY <3>1, <3>2
  <2>. QED  BY <2>2, <2>3 DEF TransferInv, Order, SecuredWasJudged
<1>. QED  BY <1>1, TransferIsInvariant, PTL
=============================================================================
