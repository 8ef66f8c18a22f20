------------------------- MODULE ObservationLedger -------------------------
(***************************************************************************)
(* What a machine's observation chain promises, without queues, disks or   *)
(* messages: collections are numbered 1, 2, 3, ...; each is settled once,  *)
(* as accepted by the Relay or as declared lost, and they are settled in   *)
(* order, an acceptance settling as lost all that it skips.                *)
(***************************************************************************)
EXTENDS Integers

VARIABLES numbered,   \* collections numbered so far
          accepted,   \* settled as received
          lost        \* settled as lost

ledgerVars == <<numbered, accepted, lost>>

Settled == accepted \cup lost

Init == numbered = 0 /\ accepted = {} /\ lost = {}

Number == numbered' = numbered + 1 /\ UNCHANGED <<accepted, lost>>

Settle == \E n \in 1..numbered :
              /\ \A m \in Settled : m < n
              /\ accepted' = accepted \cup {n}
              /\ lost' = lost \cup {m \in 1..(n - 1) : m \notin Settled}
              /\ UNCHANGED numbered

Next == Number \/ Settle

Spec == Init /\ [][Next]_ledgerVars
=============================================================================
