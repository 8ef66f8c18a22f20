----------------------------- MODULE RelayStore -----------------------------
(***************************************************************************)
(* The Relay's durable record of one machine's observations                *)
(* (internal/relay/observation_store.go).  Entries of different machines   *)
(* share the file and nothing else, so one entry is the whole story here.  *)
(*                                                                         *)
(* `accepted` is a history field: the sequences whose envelope this entry  *)
(* took in.  No guard reads it.                                            *)
(***************************************************************************)
EXTENDS Integers, FiniteSets

VARIABLES stored,      \* ObservationStore.state, in memory
          storedDisk   \* relay-observations.json

storeVars == <<stored, storedDisk>>

(* Sequence 0 stands for a machine the file has no entry for. *)
Nothing == [seq |-> 0, bytes |-> <<>>, gaps |-> {}, accepted |-> {}]

StoreInit == /\ stored = Nothing
             /\ storedDisk = Nothing

(* Mutant: a declaration wider than what was skipped is let through. *)
GapsCoverSkippedRange(gaps, first, last) == first..last \subseteq gaps

(* gapsMatchSkippedRange: the declared gaps tile first..last exactly; with
   nothing skipped there must be none. *)
GapsMatchSkippedRange(gaps, first, last) == gaps = first..last

(* Mutant: an exact replay is not recognised. *)
NeverPresent(e) == FALSE /\ e = stored.bytes

AlreadyPresent(e) == stored.seq # 0 /\ e.seq = stored.seq /\ e = stored.bytes

Saves(e) == /\ e.seq > stored.seq
            /\ GapsMatchSkippedRange(e.gaps, stored.seq + 1, e.seq - 1)

(* Mutant: the gaps received earlier are not merged in. *)
SavedForgetting(e) == [seq |-> e.seq, bytes |-> e, gaps |-> e.gaps,
                       accepted |-> stored.accepted \cup {e.seq}]

Saved(e) == [seq |-> e.seq, bytes |-> e, gaps |-> stored.gaps \cup e.gaps,
             accepted |-> stored.accepted \cup {e.seq}]

(* Save returns an acknowledgement: an exact replay, or a durable commit. *)
SaveOk(e) ==
    \/ AlreadyPresent(e) /\ UNCHANGED storeVars
    \/ Saves(e) /\ stored' = Saved(e) /\ storedDisk' = Saved(e)

(* Save refuses, or its commit fails before or after the rename. *)
SaveFails(e) ==
    /\ ~AlreadyPresent(e)
    /\ stored' = stored
    /\ IF Saves(e) THEN storedDisk' \in {storedDisk, Saved(e)}
                   ELSE UNCHANGED storedDisk

(* The Relay restarts: OpenObservationStore reads the file back. *)
RelayRestart == /\ stored' = storedDisk
                /\ UNCHANGED storedDisk

=============================================================================
