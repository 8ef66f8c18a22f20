-------------------------- MODULE DispatchRegistry --------------------------
(***************************************************************************)
(* The Controller's durable registry of dispatches, for one machine        *)
(* (internal/controller/dispatch_registry.go).  A record is one launch of  *)
(* one signed approval; the digest of the signed bytes is the approval     *)
(* itself.  The file's bound of bytes is derived from the bound of records *)
(* and never met; the records of other machines share the file and no      *)
(* decision below.                                                         *)
(***************************************************************************)
EXTENDS Integers, Sequences, FiniteSets, SequencesExt

CONSTANT MaxTerminal   \* maxDispatchRecordsPerMachine

ASSUME RegistryAssumption == MaxTerminal \in Nat \ {0}

VARIABLES registry,      \* DispatchRegistryStore.state, in memory
          registryDisk   \* dispatches.json

registryVars == <<registry, registryDisk>>

TerminalStates ==
    {"not_launched", "machine_refused", "reported", "launched_unreported"}

DispatchStates == TerminalStates \cup {"in_flight"}

Terminal(record) == record.state # "in_flight"

RegistryInit == registry = <<>> /\ registryDisk = <<>>

AlreadySpent(approval) == \E i \in DOMAIN registry : registry[i].approval = approval

(* HighestReportedSequence, which is also the position of CommandPosition. *)
HighestReportedSequence ==
    Max({0} \cup {registry[i].approval.seq :
                    i \in {j \in DOMAIN registry : registry[j].state = "reported"}})

(* Mutant: open records are trimmed like the others. *)
BoundAnyRecords(records) ==
    SubSeq(records, Len(records) - Min({Len(records), MaxTerminal}) + 1, Len(records))

(* A terminal record is kept while fewer than MaxTerminal come after it. *)
TerminalAfter(records, i) ==
    Cardinality({j \in (i + 1)..Len(records) : Terminal(records[j])})

KeptRecords(records) ==
    {i \in DOMAIN records :
        ~Terminal(records[i]) \/ TerminalAfter(records, i) < MaxTerminal}

(* The reversed walk is sorted by the second of acceptance, and the sort is
   stable: records of one second come out in the opposite order. *)
Precedes(records, i, j) ==
    \/ records[i].at < records[j].at
    \/ (records[i].at = records[j].at /\ i > j)

Rank(records, i) ==
    Cardinality({j \in KeptRecords(records) : Precedes(records, j, i)}) + 1

(* boundDispatchRecords: the kept records, each at its rank. *)
BoundDispatchRecords(records) ==
    [k \in 1..Cardinality(KeptRecords(records)) |->
        records[CHOOSE i \in KeptRecords(records) : Rank(records, i) = k]]

(* Mutant: two open records may hold the same bytes. *)
ValidAlways(records) == records = records

(* validateDispatchRegistry, as far as a legal record can break it: two
   launches of one signed approval are never open together. *)
ValidRegistry(records) ==
    \A i, j \in DOMAIN records :
        (i # j /\ ~Terminal(records[i]) /\ ~Terminal(records[j]))
            => records[i].approval # records[j].approval

CommitOk(records) == /\ ValidRegistry(records)
                     /\ registry' = records
                     /\ registryDisk' = records

(* commit errs: refused by validation, or the write fails before or after
   the rename.  Memory never runs ahead of the disk. *)
CommitFails(records) ==
    /\ UNCHANGED registry
    /\ \/ UNCHANGED registryDisk
       \/ ValidRegistry(records) /\ registryDisk' = records

(* The registry Accept commits. *)
Accepting(approval, now) ==
    BoundDispatchRecords(Append(registry, [approval |-> approval, at |-> now,
                                           state |-> "in_flight"]))

(* The first record that holds these bytes, if any: the one Conclude finds. *)
Holding(approval) ==
    SelectInSeq(registry, LAMBDA record : record.approval = approval)

(* Mutant: a conclusion is written over whatever the record holds. *)
ConcludesAgain(approval) == Holding(approval) # 0

(* Conclude refuses unless that record is open. *)
Concludes(approval) ==
    Holding(approval) # 0 /\ ~Terminal(registry[Holding(approval)])

(* The registry Conclude commits. *)
Concluding(approval, state) ==
    BoundDispatchRecords([registry EXCEPT ![Holding(approval)].state = state])

(* Mutant: what was open when the Controller died is taken as not launched. *)
RequalifiedAsNotLaunched(records) ==
    [i \in DOMAIN records |->
        IF Terminal(records[i]) THEN records[i]
        ELSE [records[i] EXCEPT !.state = "not_launched"]]

(* OpenDispatchRegistryStore: an open record belongs to a life that was cut. *)
Requalified(records) ==
    [i \in DOMAIN records |->
        IF Terminal(records[i]) THEN records[i]
        ELSE [records[i] EXCEPT !.state = "launched_unreported"]]

ReopenRegistry == /\ registry' = Requalified(registryDisk)
                  /\ registryDisk' = Requalified(registryDisk)

=============================================================================
