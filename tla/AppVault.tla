------------------------------ MODULE AppVault ------------------------------
(***************************************************************************)
(* The App's local vault: two files in one private directory, the metadata *)
(* that names a snapshot and holds its salt, and the snapshots, each       *)
(* encrypted under the key its phrase and salt derive. A phrase change     *)
(* writes a new snapshot, publishes it by renaming the metadata and only   *)
(* then removes the old one; a document is replaced by one rename.         *)
(*                                                                         *)
(* The directory is what the kernel shows. A rename is durable only once   *)
(* the directory is synced, so `past` keeps every directory a power loss   *)
(* may bring back: the one last synced and the ones since. The commands    *)
(* hold the App's lock, so they never overlap; an end of the process or of *)
(* the machine falls between any two of their writes. `misread` is a       *)
(* history variable: no guard reads it.                                    *)
(***************************************************************************)
EXTENDS Naturals, FiniteSets

CONSTANTS
    MaxPhrases,    \* bound: phrases the App generates over a behaviour
    MaxDocuments,  \* bound: documents committed over a behaviour
    MaxNames       \* bound: snapshot names drawn over a behaviour

ASSUME VaultAssumption == MaxPhrases \in Nat /\ MaxDocuments \in Nat /\ MaxNames \in Nat

VARIABLES
    dir,      \* what the directory shows: the metadata and the snapshots
    past,     \* the directories a power loss may leave
    mem,      \* the unlocked vault, or Locked
    pending,  \* the phrases of a preparation and of a phrase change, 0 for none
    doing,    \* the command that is between two writes
    used,     \* phrases, names and documents already drawn
    human,    \* the phrases the human confirmed to have copied
    told,     \* what the App answered: there is a vault, the last document stored
    misread   \* a phrase change renamed its metadata and could not read it back

vaultVars == <<dir, past, mem, pending, doing, used, human, told, misread>>

Names == 1..MaxNames
Phrases == 1..MaxPhrases
Documents == 0..MaxDocuments
NoFile == [phrase |-> 0, document |-> 0]
Locked == [name |-> 0, phrase |-> 0, document |-> 0, store |-> 0]
Idle == [command |-> "none", name |-> 0, phrase |-> 0]

DirectoryType ==
    [metadata : 0..MaxNames, snapshot : [Names -> [phrase : 0..MaxPhrases, document : Documents]]]

TypeOK ==
    /\ dir \in DirectoryType
    /\ past \in SUBSET DirectoryType /\ dir \in past
    /\ mem \in [name : 0..MaxNames, phrase : 0..MaxPhrases, document : Documents, store : Documents]
    /\ pending \in [initialization : 0..MaxPhrases, change : 0..MaxPhrases]
    /\ doing \in [command : {"none", "initialize", "named", "publish", "retire"},
                  name : 0..MaxNames, phrase : 0..MaxPhrases]
    /\ used \in [phrase : 0..MaxPhrases, name : 0..MaxNames, document : Documents]
    /\ human \in SUBSET Phrases
    /\ told \in [vault : BOOLEAN, document : Documents]
    /\ misread \in BOOLEAN

Empty == [metadata |-> 0, snapshot |-> [n \in Names |-> NoFile]]
VaultInit ==
    /\ dir = Empty /\ past = {Empty} /\ mem = Locked /\ doing = Idle
    /\ pending = [initialization |-> 0, change |-> 0]
    /\ used = [phrase |-> 0, name |-> 0, document |-> 0]
    /\ human = {} /\ told = [vault |-> FALSE, document |-> 0] /\ misread = FALSE

-----------------------------------------------------------------------------
(* Writes.                                                                 *)

Exists(d, n) == n # 0 /\ d.snapshot[n] # NoFile
WithSnapshot(d, n, p, doc) ==
    [d EXCEPT !.snapshot[n] = [phrase |-> p, document |-> doc]]
WithMetadata(d, n) == [d EXCEPT !.metadata = n]
Without(d, n) == [d EXCEPT !.snapshot[n] = NoFile]

\* sync_directory succeeds: only the directory it shows is left to come back.
Synced(d) == dir' = d /\ past' = {d}
\* A change the directory shows and that no successful sync covers.
Unsynced(d) == dir' = d /\ past' = past \union {d}

\* status, as the operations ask it: a metadata file whose snapshot cannot be
\* read makes the vault unavailable.
LockState ==
    CASE mem # Locked -> "unlocked"
      [] mem = Locked /\ dir.metadata = 0 -> "uninitialized"
      [] mem = Locked /\ Exists(dir, dir.metadata) -> "locked"
      [] OTHER -> "unavailable"

Quiet == doing = Idle
End == doing' = Idle

-----------------------------------------------------------------------------
(* Initialization.                                                         *)

Prepare ==
    /\ Quiet /\ LockState = "uninitialized"
    /\ used.phrase < MaxPhrases
    /\ used' = [used EXCEPT !.phrase = @ + 1]
    /\ pending' = [pending EXCEPT !.initialization = used'.phrase]
    /\ UNCHANGED <<dir, past, mem, doing, human, told, misread>>

DiscardPreparation ==
    /\ Quiet /\ pending.initialization # 0
    /\ pending' = [pending EXCEPT !.initialization = 0]
    /\ UNCHANGED <<dir, past, mem, doing, used, human, told, misread>>

(***************************************************************************)
(* confirm_initialization up to create_snapshot: the phrase comes back as  *)
(* it was shown, the snapshot is written beside, opened, renamed and       *)
(* synced. A failed sync returns and leaves the snapshot behind.           *)
(***************************************************************************)
ConfirmInitialization ==
    /\ Quiet /\ LockState = "uninitialized" /\ pending.initialization # 0
    /\ used.name < MaxNames
    /\ used' = [used EXCEPT !.name = @ + 1]
    /\ human' = human \union {pending.initialization}
    /\ LET written == WithSnapshot(dir, used'.name, pending.initialization, 0)
       IN \/ /\ Synced(written)
             /\ doing' = [command |-> "initialize", name |-> used'.name,
                          phrase |-> pending.initialization]
          \/ Unsynced(written) /\ UNCHANGED doing
          \/ UNCHANGED <<dir, past, doing>>
    /\ UNCHANGED <<mem, pending, told, misread>>

(***************************************************************************)
(* The rest of it: the metadata is renamed into place and synced. On any   *)
(* error, one that came after the rename too, the snapshot is removed, if  *)
(* it can be.                                                              *)
(***************************************************************************)
UndoInitialization ==
    /\ End
    /\ Unsynced(Without(dir, doing.name)) \/ UNCHANGED <<dir, past>>
    /\ UNCHANGED <<mem, pending, told>>

PublishInitialization ==
    /\ doing.command = "initialize"
    /\ \/ /\ Unsynced(WithMetadata(dir, doing.name))
          /\ doing' = [doing EXCEPT !.command = "named"]
          /\ UNCHANGED <<mem, pending, told>>
       \/ UndoInitialization
    /\ UNCHANGED <<used, human, misread>>

SettleInitialization ==
    /\ doing.command = "named"
    /\ \/ /\ Synced(dir) /\ End
          /\ mem' = [name |-> doing.name, phrase |-> doing.phrase, document |-> 0, store |-> 0]
          /\ pending' = [pending EXCEPT !.initialization = 0]
          /\ told' = [told EXCEPT !.vault = TRUE]
       \/ UndoInitialization
    /\ UNCHANGED <<used, human, misread>>

\* unlock: a phrase opens the snapshot the metadata names when it is that
\* snapshot's, and the document has to read.
Unlock ==
    /\ Quiet /\ LockState = "locked"
    /\ \E p \in human :
         LET file == dir.snapshot[dir.metadata]
         IN /\ file.phrase = p
            /\ mem' = [name |-> dir.metadata, phrase |-> p, document |-> file.document,
                       store |-> file.document]
    /\ UNCHANGED <<dir, past, pending, doing, used, human, told, misread>>

-----------------------------------------------------------------------------
(* The phrase change.                                                      *)

PreparePhraseChange ==
    /\ Quiet /\ mem # Locked
    /\ used.phrase < MaxPhrases
    /\ used' = [used EXCEPT !.phrase = @ + 1]
    /\ pending' = [pending EXCEPT !.change = used'.phrase]
    /\ UNCHANGED <<dir, past, mem, doing, human, told, misread>>

\* The key of the presented phrase under the salt on disk is the key in memory.
HoldsCurrent(p) == p = mem.phrase /\ dir.metadata = mem.name

\* snapshot_contains_document, of a snapshot the in-memory store was written to.
SnapshotContains(store, document) == store = document

(***************************************************************************)
(* confirm_phrase_change up to the new snapshot. It is written from the    *)
(* in-memory store and must hold the document the App shows before it is   *)
(* renamed; a failed sync returns and leaves it behind.                    *)
(***************************************************************************)
ConfirmPhraseChange ==
    /\ Quiet /\ mem # Locked /\ pending.change # 0
    /\ \E p \in human : HoldsCurrent(p) /\ p # pending.change
    /\ used.name < MaxNames
    /\ used' = [used EXCEPT !.name = @ + 1]
    /\ human' = human \union {pending.change}
    /\ LET written == WithSnapshot(dir, used'.name, pending.change, mem.store)
       IN \/ /\ SnapshotContains(mem.store, mem.document) /\ Synced(written)
             /\ doing' = [command |-> "publish", name |-> used'.name, phrase |-> pending.change]
          \/ /\ SnapshotContains(mem.store, mem.document) /\ Unsynced(written)
             /\ UNCHANGED doing
          \/ UNCHANGED <<dir, past, doing>>
    /\ UNCHANGED <<mem, pending, told, misread>>

(* Mutant: the result of the write decides: an error removes the new snapshot. *)
PublishPhraseChangeByResult ==
    /\ doing.command = "publish"
    /\ \/ /\ Synced(WithMetadata(dir, doing.name))
          /\ mem' = [mem EXCEPT !.name = doing.name, !.phrase = doing.phrase]
          /\ pending' = [pending EXCEPT !.change = 0]
          /\ doing' = [doing EXCEPT !.command = "retire", !.name = mem.name]
       \/ /\ \/ Unsynced(Without(dir, doing.name))
             \/ Unsynced(Without(WithMetadata(dir, doing.name), doing.name))
          /\ End /\ UNCHANGED <<mem, pending>>
    /\ UNCHANGED <<used, human, told, misread>>

(***************************************************************************)
(* The publication. What decides is the metadata read back, not the result *)
(* of the write: the new snapshot is removed when what was read does not   *)
(* name it, and also when nothing could be read (`.ok()`). In that case    *)
(* the rename, synced or not, may have been done: the metadata is left     *)
(* with the name, and the salt, of a snapshot that is removed if it can be.*)
(***************************************************************************)
PublicationMisread ==
    LET named == WithMetadata(dir, doing.name)
    IN /\ dir' \in {named, Without(named, doing.name)}
       /\ past' \in {{named, dir'}, past \union {named, dir'}}
       /\ misread' = TRUE
       /\ End /\ UNCHANGED <<mem, pending>>

PublishPhraseChange ==
    /\ doing.command = "publish"
    /\ \/ /\ \/ Synced(WithMetadata(dir, doing.name))
             \/ Unsynced(WithMetadata(dir, doing.name))
          /\ mem' = [mem EXCEPT !.name = doing.name, !.phrase = doing.phrase]
          /\ pending' = [pending EXCEPT !.change = 0]
          /\ doing' = [doing EXCEPT !.command = "retire", !.name = mem.name]
          /\ UNCHANGED misread
       \/ /\ Unsynced(Without(dir, doing.name)) \/ UNCHANGED <<dir, past>>
          /\ End /\ UNCHANGED <<mem, pending, misread>>
       \/ PublicationMisread
    /\ UNCHANGED <<used, human, told>>

\* The previous snapshot is removed last; an error here is an error of the whole
\* command, for a change that is done.
RetireSnapshot ==
    /\ doing.command = "retire" /\ End
    /\ \/ Synced(Without(dir, doing.name))
       \/ Unsynced(Without(dir, doing.name))
       \/ UNCHANGED <<dir, past>>
    /\ UNCHANGED <<mem, pending, used, human, told, misread>>

-----------------------------------------------------------------------------
(* Mutant: the App answers once the rename is done, synced or not. *)
CommitDocumentAtRename ==
    /\ Quiet /\ mem # Locked
    /\ used.document < MaxDocuments
    /\ used' = [used EXCEPT !.document = @ + 1]
    /\ LET candidate == used'.document
       IN /\ Unsynced(WithSnapshot(dir, mem.name, mem.phrase, candidate))
          /\ mem' = [mem EXCEPT !.document = candidate, !.store = candidate]
          /\ told' = [vault |-> TRUE, document |-> candidate]
    /\ UNCHANGED <<pending, doing, human, misread>>

(***************************************************************************)
(* commit_document, for any change of the document. The store in memory is *)
(* written first; a failure before the rename puts it back, if it can; a   *)
(* failure to sync after the rename is an error for a change that is done. *)
(***************************************************************************)
CommitDocument ==
    /\ Quiet /\ mem # Locked
    /\ used.document < MaxDocuments
    /\ used' = [used EXCEPT !.document = @ + 1]
    /\ LET candidate == used'.document
           written == WithSnapshot(dir, mem.name, mem.phrase, candidate)
           stored == [mem EXCEPT !.document = candidate, !.store = candidate]
       IN \/ Synced(written) /\ mem' = stored /\ told' = [vault |-> TRUE, document |-> candidate]
          \/ Unsynced(written) /\ mem' = stored /\ UNCHANGED told
          \/ /\ mem' \in {[mem EXCEPT !.store = mem.document], [mem EXCEPT !.store = candidate]}
             /\ UNCHANGED <<dir, past, told>>
    /\ UNCHANGED <<pending, doing, human, misread>>

\* lock.
Lock ==
    /\ Quiet
    /\ mem' = Locked /\ pending' = [initialization |-> 0, change |-> 0]
    /\ UNCHANGED <<dir, past, doing, used, human, told, misread>>

\* The process ends: what was not synced is still shown, and still not durable.
ProcessEnds ==
    /\ mem' = Locked /\ pending' = [initialization |-> 0, change |-> 0] /\ End
    /\ UNCHANGED <<dir, past, used, human, told, misread>>

PowerLoss ==
    /\ mem' = Locked /\ pending' = [initialization |-> 0, change |-> 0] /\ End
    /\ \E d \in past : Synced(d)
    /\ UNCHANGED <<used, human, told, misread>>

VaultNext ==
    \/ Prepare \/ DiscardPreparation \/ ConfirmInitialization \/ PublishInitialization
    \/ SettleInitialization \/ Unlock \/ PreparePhraseChange \/ ConfirmPhraseChange \/ PublishPhraseChange
    \/ RetireSnapshot \/ CommitDocument \/ Lock
    \/ ProcessEnds \/ PowerLoss

VaultSpec == VaultInit /\ [][VaultNext]_vaultVars

-----------------------------------------------------------------------------
(* Properties.                                                             *)

Opens(d) ==
    /\ Exists(d, d.metadata)
    /\ d.snapshot[d.metadata].phrase \in human

\* Once the App answered for the vault, initialized or written to, it opens:
\* whatever the crash, the power loss or the write that failed, in a phrase
\* change or elsewhere, the metadata names a snapshot that is there, under a
\* phrase the human copied (vault.rs, confirm_phrase_change). The one failure
\* that breaks this is of a read: metadata that a phrase change just renamed
\* into place and could not read back.
VaultOpens == told.vault /\ ~misread => \A d \in past : Opens(d)

\* A document the App answered for is never lost: what the next unlock reads is
\* that document or a later one (vault.rs, commit_document), unless a phrase
\* change could not read its metadata back.
StoredSurvives ==
    told.vault /\ ~misread =>
        \A d \in past : d.snapshot[d.metadata].document >= told.document

\* Between two commands, the unlocked vault is the one on disk: same snapshot,
\* same phrase, same document. A commit that failed half way, or an error after
\* a change that is done, never leaves the App showing another document than
\* the one it would read back, with the same exception.
MemoryIsDisk ==
    Quiet /\ mem # Locked /\ ~misread =>
        /\ dir.metadata = mem.name
        /\ dir.snapshot[mem.name] = [phrase |-> mem.phrase, document |-> mem.document]
==============================================================================
