------------------------------ MODULE AppProofs ------------------------------
(***************************************************************************)
(* Proofs about two parts of the App that share no state: its vault, and   *)
(* the plans it shows and signs.                                           *)
(*                                                                         *)
(* The vault opens and keeps what it answered for, for any number of       *)
(* phrases, documents and snapshot names.  Neither property is inductive:  *)
(* both speak of every directory a power loss may bring back, and what     *)
(* keeps those good is where each command stands between two writes. Both  *)
(* hold until a phrase change fails to read back the metadata it renamed,  *)
(* and so does VaultSound; the types, and the names the commands act on,   *)
(* hold after it too.                                                      *)
(*                                                                         *)
(* What is signed was shown and confirmed, whatever pairs the Controller   *)
(* serves and in whatever order windows open, are answered, lapse and are  *)
(* cut.  And a review that names no fault is of a definition that encodes, *)
(* whatever the form holds.  And two windows that read the same are about  *)
(* the same two documents: their lines tell every field of a plan.         *)
(***************************************************************************)
EXTENDS AppVault, PlanApproval, TLAPS, FiniteSetTheorems

-----------------------------------------------------------------------------
(* The vault.                                                              *)

(* A directory a power loss may bring back: it names and holds no snapshot
   whose name was not drawn yet, each snapshot in it is under a phrase the
   human copied, and it opens on what the App answered for. *)
Good(d) ==
    /\ d.metadata <= used.name
    /\ \A n \in Names : n > used.name => d.snapshot[n] = NoFile
    /\ \A n \in Names : d.snapshot[n] # NoFile => d.snapshot[n].phrase \in human
    /\ told.vault => Opens(d) /\ d.snapshot[d.metadata].document >= told.document

(* What the App answered is no later than what it drew, and it answers for no
   document without answering for the vault. *)
AnswersAreDrawn == /\ told.document <= used.document
                   /\ ~told.vault => told.document = 0

(* The unlocked vault is the one on disk, between two commands and inside a
   phrase change. *)
UnlockedIsOnDisk ==
    mem # Locked =>
        /\ mem.name \in Names /\ dir.metadata = mem.name
        /\ mem.phrase \in human
        /\ dir.snapshot[mem.name] = [phrase |-> mem.phrase, document |-> mem.document]

(* Where a command is between two writes. *)
Initializing ==
    doing.command = "initialize" =>
        /\ mem = Locked /\ ~told.vault
        /\ doing.name \in Names /\ doing.name <= used.name /\ doing.phrase \in human
        /\ dir.snapshot[doing.name] = [phrase |-> doing.phrase, document |-> 0]

Named ==
    doing.command = "named" =>
        /\ mem = Locked /\ ~told.vault
        /\ doing.name \in Names /\ doing.phrase \in human
        /\ dir.metadata = doing.name
        /\ dir.snapshot[doing.name] = [phrase |-> doing.phrase, document |-> 0]

Publishing ==
    doing.command = "publish" =>
        /\ mem # Locked /\ past = {dir}
        /\ doing.name \in Names /\ doing.name <= used.name /\ doing.name # mem.name
        /\ doing.phrase \in human
        /\ dir.snapshot[doing.name] = [phrase |-> doing.phrase, document |-> mem.document]

Retiring ==
    doing.command = "retire" => mem # Locked /\ doing.name \in Names /\ doing.name # mem.name

VaultSound ==
    /\ TypeOK
    /\ \A d \in past : Good(d)
    /\ AnswersAreDrawn /\ UnlockedIsOnDisk
    /\ Initializing /\ Named /\ Publishing /\ Retiring

(* A command acts on names that were drawn, whatever the files became. *)
ActsOnNames ==
    /\ mem # Locked => mem.name \in Names
    /\ doing.command # "none" => doing.name \in Names
    /\ doing.command = "publish" => mem # Locked

VaultInv == TypeOK /\ ActsOnNames /\ (misread \/ VaultSound)

-----------------------------------------------------------------------------
(* What the three writes leave in a directory.                             *)

LEMMA WithSnapshotIs ==
    ASSUME NEW d \in DirectoryType, NEW n \in Names,
           NEW p \in 0..MaxPhrases, NEW doc \in Documents
    PROVE  /\ WithSnapshot(d, n, p, doc) \in DirectoryType
           /\ WithSnapshot(d, n, p, doc).metadata = d.metadata
           /\ WithSnapshot(d, n, p, doc).snapshot[n] = [phrase |-> p, document |-> doc]
           /\ \A k \in Names \ {n} : WithSnapshot(d, n, p, doc).snapshot[k] = d.snapshot[k]
BY DEF DirectoryType, WithSnapshot

LEMMA WithMetadataIs ==
    ASSUME NEW d \in DirectoryType, NEW n \in 0..MaxNames
    PROVE  /\ WithMetadata(d, n) \in DirectoryType
           /\ WithMetadata(d, n).metadata = n
           /\ WithMetadata(d, n).snapshot = d.snapshot
BY DEF DirectoryType, WithMetadata

LEMMA WithoutIs ==
    ASSUME NEW d \in DirectoryType, NEW n \in Names
    PROVE  /\ Without(d, n) \in DirectoryType
           /\ Without(d, n).metadata = d.metadata
           /\ Without(d, n).snapshot[n] = NoFile
           /\ \A k \in Names \ {n} : Without(d, n).snapshot[k] = d.snapshot[k]
BY VaultAssumption DEF DirectoryType, Without, NoFile, Documents

-----------------------------------------------------------------------------

(* What status tells of the vault. *)
LEMMA LockStateIs ==
    /\ LockState = "uninitialized" => mem = Locked /\ dir.metadata = 0
    /\ LockState = "locked" => mem = Locked /\ Exists(dir, dir.metadata)
BY DEF LockState

(* A directory stays good while names are drawn and phrases are copied. *)
LEMMA GoodStays ==
    ASSUME NEW d, d.metadata \in Nat, Good(d), TypeOK, TypeOK',
           used.name <= used'.name, human \subseteq human',
           told'.vault => told.vault /\ told'.document = told.document
    PROVE  Good(d)'
BY VaultAssumption DEF Good, Opens, TypeOK, Names

-----------------------------------------------------------------------------

LEMMA VaultTypeInit == VaultInit => TypeOK
<1> SUFFICES ASSUME VaultInit PROVE TypeOK
  OBVIOUS
<1> USE VaultAssumption
<1>1. Empty \in DirectoryType
  BY DEF Empty, DirectoryType, NoFile, Documents, Names
<1>2. mem \in [name : 0..MaxNames, phrase : 0..MaxPhrases, document : Documents, store : Documents]
  BY DEF VaultInit, Locked, Documents
<1>3. /\ doing \in [command : {"none", "initialize", "named", "publish", "retire"},
                    name : 0..MaxNames, phrase : 0..MaxPhrases]
      /\ pending \in [initialization : 0..MaxPhrases, change : 0..MaxPhrases]
  BY DEF VaultInit, Idle
<1>4. /\ used \in [phrase : 0..MaxPhrases, name : 0..MaxNames, document : Documents]
      /\ told \in [vault : BOOLEAN, document : Documents]
  BY DEF VaultInit, Documents
<1>5. QED
  BY <1>1, <1>2, <1>3, <1>4 DEF VaultInit, TypeOK

LEMMA VaultTypeStep == TypeOK /\ ActsOnNames /\ [VaultNext]_vaultVars => TypeOK'
<1> SUFFICES ASSUME TypeOK, ActsOnNames, [VaultNext]_vaultVars PROVE TypeOK'
  OBVIOUS
<1> USE VaultAssumption
<1>a. TypeOK
  OBVIOUS
<1>1. CASE Prepare \/ DiscardPreparation \/ PreparePhraseChange
  BY <1>a, <1>1 DEF Prepare, DiscardPreparation, PreparePhraseChange, TypeOK
<1>2. CASE Lock \/ ProcessEnds
  BY <1>a, <1>2 DEF Lock, ProcessEnds, TypeOK, Locked, Idle, End, Documents
<1>3. CASE PowerLoss
  BY <1>a, <1>3 DEF PowerLoss, Synced, TypeOK, Locked, Idle, End, Documents
<1>4. CASE Unlock
  <2>1. dir.metadata \in Names
    BY <1>a, <1>4, LockStateIs DEF Unlock, TypeOK, DirectoryType, Exists, Names
  <2>2. dir.snapshot[dir.metadata] \in [phrase : 0..MaxPhrases, document : Documents]
    BY <1>a, <2>1 DEF TypeOK, DirectoryType
  <2>3. mem' \in [name : 0..MaxNames, phrase : 0..MaxPhrases,
                 document : Documents, store : Documents]
    BY <1>4, <2>1, <2>2 DEF Unlock, Names
  <2>4. QED
    BY <1>a, <1>4, <2>3 DEF Unlock, TypeOK
<1>5. CASE ConfirmInitialization
  <2>1. used.name + 1 \in Names /\ pending.initialization \in Phrases
    BY <1>a, <1>5 DEF ConfirmInitialization, TypeOK, Names, Phrases
  <2>2. WithSnapshot(dir, used.name + 1, pending.initialization, 0) \in DirectoryType
    <3>1. 0 \in Documents /\ dir \in DirectoryType /\ pending.initialization \in 0..MaxPhrases
      BY <1>a DEF TypeOK, Documents
    <3>2. QED
      BY <2>1, <3>1, WithSnapshotIs
  <2>3. QED
    BY <1>a, <1>5, <2>1, <2>2
       DEF ConfirmInitialization, TypeOK, Synced, Unsynced, Names, Phrases
<1>6. CASE ConfirmPhraseChange
  <2>1. used.name + 1 \in Names /\ pending.change \in Phrases
    BY <1>a, <1>6 DEF ConfirmPhraseChange, TypeOK, Names, Phrases
  <2>2. WithSnapshot(dir, used.name + 1, pending.change, mem.store) \in DirectoryType
    BY <1>a, <2>1, WithSnapshotIs DEF TypeOK, Phrases
  <2>3. QED
    BY <1>a, <1>6, <2>1, <2>2
       DEF ConfirmPhraseChange, TypeOK, Synced, Unsynced, Names, Phrases
<1>7. CASE PublishInitialization \/ SettleInitialization
  <2>1. doing.name \in Names
    BY <1>7 DEF PublishInitialization, SettleInitialization, ActsOnNames
  <2>2. /\ WithMetadata(dir, doing.name) \in DirectoryType
        /\ Without(dir, doing.name) \in DirectoryType
    BY <1>a, <2>1, WithMetadataIs, WithoutIs DEF TypeOK, Names
  <2>3. dir' \in DirectoryType /\ past' \in SUBSET DirectoryType /\ dir' \in past'
    BY <1>a, <1>7, <2>2 DEF PublishInitialization, SettleInitialization,
                           UndoInitialization, TypeOK, Synced, Unsynced
  <2>4. mem' \in [name : 0..MaxNames, phrase : 0..MaxPhrases,
                 document : Documents, store : Documents]
    BY <1>a, <1>7 DEF PublishInitialization, SettleInitialization, UndoInitialization,
                      TypeOK, Documents
  <2>5. /\ pending' \in [initialization : 0..MaxPhrases, change : 0..MaxPhrases]
        /\ told' \in [vault : BOOLEAN, document : Documents]
    <3>1. \/ UNCHANGED <<pending, told>>
          \/ /\ pending' = [pending EXCEPT !.initialization = 0]
             /\ told' = [told EXCEPT !.vault = TRUE]
      BY <1>7 DEF PublishInitialization, SettleInitialization, UndoInitialization
    <3>2. CASE UNCHANGED <<pending, told>>
      BY <1>a, <3>2 DEF TypeOK
    <3>3. CASE /\ pending' = [pending EXCEPT !.initialization = 0]
               /\ told' = [told EXCEPT !.vault = TRUE]
      <4>1. pending' \in [initialization : 0..MaxPhrases, change : 0..MaxPhrases]
        BY <1>a, <3>3 DEF TypeOK
      <4>2. told \in [vault : BOOLEAN, document : Documents]
        BY <1>a DEF TypeOK
      <4>3. told' \in [vault : BOOLEAN, document : Documents]
        BY <3>3, <4>2
      <4>4. QED
        BY <4>1, <4>3
    <3>4. QED
      BY <3>1, <3>2, <3>3
  <2>6. doing' \in [command : {"none", "initialize", "named", "publish", "retire"},
                   name : 0..MaxNames, phrase : 0..MaxPhrases]
    BY <1>a, <1>7 DEF PublishInitialization, SettleInitialization, UndoInitialization,
                      TypeOK, End, Idle
  <2>7. UNCHANGED <<used, human, misread>>
    BY <1>7 DEF PublishInitialization, SettleInitialization
  <2>8. QED
    BY <1>a, <2>3, <2>4, <2>5, <2>6, <2>7 DEF TypeOK
<1>8. CASE PublishPhraseChange
  <2>1. doing.name \in Names
    BY <1>8 DEF PublishPhraseChange, ActsOnNames
  <2>2. /\ WithMetadata(dir, doing.name) \in DirectoryType
        /\ Without(dir, doing.name) \in DirectoryType
        /\ Without(WithMetadata(dir, doing.name), doing.name) \in DirectoryType
    BY <1>a, <2>1, WithMetadataIs, WithoutIs DEF TypeOK, Names
  <2>3. dir' \in DirectoryType /\ past' \in SUBSET DirectoryType /\ dir' \in past'
    <3>1. CASE PublicationMisread
      BY <1>a, <2>2, <3>1 DEF PublicationMisread, TypeOK
    <3>2. CASE ~PublicationMisread
      BY <1>a, <1>8, <2>2, <3>2 DEF PublishPhraseChange, TypeOK, Synced, Unsynced
    <3>3. QED
      BY <3>1, <3>2
  <2>4. /\ mem' \in [name : 0..MaxNames, phrase : 0..MaxPhrases,
                    document : Documents, store : Documents]
        /\ pending' \in [initialization : 0..MaxPhrases, change : 0..MaxPhrases]
    <3>1. \/ UNCHANGED <<mem, pending>>
          \/ /\ mem' = [mem EXCEPT !.name = doing.name, !.phrase = doing.phrase]
             /\ pending' = [pending EXCEPT !.change = 0]
      BY <1>8 DEF PublishPhraseChange, PublicationMisread
    <3>2. CASE UNCHANGED <<mem, pending>>
      BY <1>a, <3>2 DEF TypeOK
    <3>3. CASE /\ mem' = [mem EXCEPT !.name = doing.name, !.phrase = doing.phrase]
               /\ pending' = [pending EXCEPT !.change = 0]
      <4>1. mem' \in [name : 0..MaxNames, phrase : 0..MaxPhrases,
                     document : Documents, store : Documents]
        BY <1>a, <3>3 DEF TypeOK
      <4>2. pending' \in [initialization : 0..MaxPhrases, change : 0..MaxPhrases]
        BY <1>a, <3>3 DEF TypeOK
      <4>3. QED
        BY <4>1, <4>2
    <3>4. QED
      BY <3>1, <3>2, <3>3
  <2>5. doing' \in [command : {"none", "initialize", "named", "publish", "retire"},
                   name : 0..MaxNames, phrase : 0..MaxPhrases]
    <3>1. doing' = Idle \/ doing' = [doing EXCEPT !.command = "retire", !.name = mem.name]
      BY <1>8 DEF PublishPhraseChange, PublicationMisread, End
    <3>2. CASE doing' = Idle
      BY <3>2 DEF Idle
    <3>3. CASE doing' = [doing EXCEPT !.command = "retire", !.name = mem.name]
      BY <1>a, <3>3 DEF TypeOK
    <3>4. QED
      BY <3>1, <3>2, <3>3
  <2>6. UNCHANGED <<used, human, told>>
    BY <1>8 DEF PublishPhraseChange
  <2>7. misread' \in BOOLEAN
    BY <1>a, <1>8 DEF PublishPhraseChange, PublicationMisread, TypeOK
  <2>8. QED
    BY <1>a, <2>3, <2>4, <2>5, <2>6, <2>7 DEF TypeOK
<1>9. CASE RetireSnapshot
  <2>1. Without(dir, doing.name) \in DirectoryType
    BY <1>a, <1>9, WithoutIs DEF TypeOK, RetireSnapshot, ActsOnNames
  <2>2. QED
    BY <1>a, <1>9, <2>1 DEF RetireSnapshot, TypeOK, Synced, Unsynced, End, Idle
<1>10. CASE CommitDocument
  <2>1. used.document + 1 \in Documents
    BY <1>a, <1>10 DEF CommitDocument, TypeOK, Documents
  <2>2. WithSnapshot(dir, mem.name, mem.phrase, used.document + 1) \in DirectoryType
    BY <1>a, <1>10, <2>1, WithSnapshotIs
       DEF CommitDocument, TypeOK, ActsOnNames
  <2>3. used' = [used EXCEPT !.document = @ + 1] /\ used'.document = used.document + 1
    BY <1>a, <1>10 DEF CommitDocument, TypeOK
  <2>4. dir' \in DirectoryType /\ past' \in SUBSET DirectoryType /\ dir' \in past'
    BY <1>a, <1>10, <2>2, <2>3 DEF CommitDocument, TypeOK, Synced, Unsynced
  <2>5. /\ mem' \in [name : 0..MaxNames, phrase : 0..MaxPhrases,
                    document : Documents, store : Documents]
        /\ told' \in [vault : BOOLEAN, document : Documents]
    <3>1. /\ \/ mem' = [mem EXCEPT !.document = used.document + 1,
                               !.store = used.document + 1]
             \/ mem' = [mem EXCEPT !.store = mem.document]
             \/ mem' = [mem EXCEPT !.store = used.document + 1]
          /\ UNCHANGED told \/ told' = [vault |-> TRUE, document |-> used.document + 1]
      BY <1>10, <2>3 DEF CommitDocument
    <3>2. told' \in [vault : BOOLEAN, document : Documents]
      <4>1. told \in [vault : BOOLEAN, document : Documents]
        BY <1>a DEF TypeOK
      <4>2. told' = told \/ told' = [vault |-> TRUE, document |-> used.document + 1]
        BY <3>1
      <4>3. CASE told' = [vault |-> TRUE, document |-> used.document + 1]
        BY <2>1, <4>3
      <4>4. QED
        BY <4>1, <4>2, <4>3
    <3>3. CASE mem' = [mem EXCEPT !.document = used.document + 1,
                                  !.store = used.document + 1]
      BY <1>a, <2>1, <3>2, <3>3 DEF TypeOK
    <3>4. CASE mem' = [mem EXCEPT !.store = mem.document]
      BY <1>a, <2>1, <3>2, <3>4 DEF TypeOK
    <3>5. CASE mem' = [mem EXCEPT !.store = used.document + 1]
      BY <1>a, <2>1, <3>2, <3>5 DEF TypeOK
    <3>6. QED
      BY <3>1, <3>3, <3>4, <3>5
  <2>6. UNCHANGED <<pending, doing, human, misread>>
    BY <1>10 DEF CommitDocument
  <2>7. QED
    BY <1>a, <2>1, <2>3, <2>4, <2>5, <2>6 DEF TypeOK
<1>11. CASE UNCHANGED vaultVars
  BY <1>a, <1>11 DEF TypeOK, vaultVars
<1>12. QED
  BY <1>1, <1>2, <1>3, <1>4, <1>5, <1>6, <1>7, <1>8, <1>9, <1>10, <1>11 DEF VaultNext

-----------------------------------------------------------------------------

LEMMA VaultSoundInit == VaultInit => VaultSound
<1> SUFFICES ASSUME VaultInit PROVE VaultSound
  OBVIOUS
<1>1. TypeOK
  BY VaultTypeInit
<1>2. \A d \in past : Good(d)
  BY VaultAssumption DEF VaultInit, Good, Empty, NoFile, Names
<1>3. QED
  BY <1>1, <1>2 DEF VaultInit, VaultSound, AnswersAreDrawn, UnlockedIsOnDisk, Initializing, Named,
                   Publishing, Retiring, Idle

(* The commands that touch no file. *)
LEMMA MemoryStep ==
    ASSUME VaultSound, TypeOK',
           \/ Prepare \/ DiscardPreparation \/ PreparePhraseChange
           \/ Unlock \/ Lock \/ ProcessEnds
    PROVE  VaultSound'
<1> USE VaultAssumption
<1>1. /\ UNCHANGED <<dir, past, human, told>>
      /\ doing' = Idle
      /\ used'.name = used.name /\ used'.document = used.document
  BY DEF Prepare, DiscardPreparation, PreparePhraseChange, Unlock, Lock, ProcessEnds, Quiet,
         End, VaultSound, TypeOK
<1>2. (\A d \in past : Good(d))'
  BY <1>1 DEF VaultSound, Good, Opens
<1>3. AnswersAreDrawn'
  BY <1>1 DEF VaultSound, AnswersAreDrawn
<1>4. UnlockedIsOnDisk'
  <2>1. CASE UNCHANGED mem
    BY <1>1, <2>1 DEF VaultSound, UnlockedIsOnDisk
  <2>2. CASE mem' = Locked
    BY <2>2 DEF UnlockedIsOnDisk, Locked
  <2>3. CASE Unlock
    <3>1. dir.metadata \in Names
      BY <2>3, LockStateIs DEF Unlock, VaultSound, TypeOK, DirectoryType, Exists, Names
    <3>2. dir.snapshot[dir.metadata] \in [phrase : 0..MaxPhrases, document : Documents]
      BY <3>1 DEF VaultSound, TypeOK, DirectoryType
    <3>3. PICK p \in human :
             /\ dir.snapshot[dir.metadata].phrase = p
             /\ mem' = [name |-> dir.metadata, phrase |-> p,
                        document |-> dir.snapshot[dir.metadata].document,
                        store |-> dir.snapshot[dir.metadata].document]
      BY <2>3 DEF Unlock
    <3>4. QED
      BY <1>1, <3>1, <3>2, <3>3 DEF UnlockedIsOnDisk
  <2>4. QED
    BY <2>1, <2>2, <2>3
       DEF Prepare, DiscardPreparation, PreparePhraseChange, Lock, ProcessEnds
<1>5. (Initializing /\ Named /\ Publishing /\ Retiring)'
  BY <1>1 DEF Idle, Initializing, Named, Publishing, Retiring
<1>6. QED
  BY <1>2, <1>3, <1>4, <1>5 DEF VaultSound

LEMMA PowerLossStep == ASSUME VaultSound, TypeOK', PowerLoss PROVE VaultSound'
<1>1. /\ past' \subseteq past /\ UNCHANGED <<used, human, told>>
      /\ mem' = Locked /\ doing' = Idle
  BY DEF PowerLoss, Synced, End
<1>2. (\A d \in past : Good(d))'
  BY <1>1 DEF VaultSound, Good, Opens
<1>3. QED
  BY <1>1, <1>2 DEF VaultSound, AnswersAreDrawn, UnlockedIsOnDisk, Locked, Idle, Initializing,
                   Named, Publishing, Retiring

LEMMA ConfirmInitializationStep ==
    ASSUME VaultSound, TypeOK', ConfirmInitialization PROVE VaultSound'
<1> DEFINE n == used.name + 1
           written == WithSnapshot(dir, n, pending.initialization, 0)
<1> USE VaultAssumption
<1>1. TypeOK /\ \A d \in past : Good(d)
  BY DEF VaultSound
<1>2. /\ mem = Locked /\ mem' = Locked /\ dir.metadata = 0 /\ UNCHANGED told
      /\ doing = Idle
  BY LockStateIs DEF ConfirmInitialization, Quiet
<1>3. ~told.vault
  BY <1>1, <1>2 DEF Good, Opens, Exists, TypeOK
<1>4. /\ n \in Names /\ pending.initialization \in Phrases
      /\ used' = [used EXCEPT !.name = n] /\ used'.name = n /\ used'.document = used.document
      /\ human' = human \union {pending.initialization}
  BY <1>1 DEF ConfirmInitialization, TypeOK, Names, Phrases
<1>5. /\ written.metadata = 0
      /\ written.snapshot[n] = [phrase |-> pending.initialization, document |-> 0]
      /\ \A k \in Names \ {n} : written.snapshot[k] = dir.snapshot[k]
  <2>1. 0 \in Documents /\ dir \in DirectoryType /\ pending.initialization \in 0..MaxPhrases
    BY <1>1 DEF TypeOK, Documents
  <2>2. QED
    BY <1>2, <1>4, <2>1, WithSnapshotIs
<1>6. ASSUME NEW w, w = written PROVE Good(w)'
  <2>1. Good(dir)
    BY <1>1 DEF TypeOK
  <2>2. used.name \in Nat
    BY <1>1 DEF TypeOK
  <2>3. \A k \in Names : k > n => written.snapshot[k] = NoFile
    BY <1>5, <2>1, <2>2 DEF Good, Names
  <2>4. \A k \in Names : written.snapshot[k] # NoFile => written.snapshot[k].phrase \in human'
    BY <1>4, <1>5, <2>1 DEF Good
  <2>5. QED
    BY <1>2, <1>3, <1>4, <1>5, <1>6, <2>2, <2>3, <2>4 DEF Good
<1>7. \A d \in past : Good(d)'
  <2>1. used.name <= used'.name /\ human \subseteq human'
    BY <1>1, <1>4 DEF TypeOK
  <2>2. \A d \in past : d.metadata \in Nat
    BY <1>1 DEF TypeOK, DirectoryType
  <2>3. QED
    BY <1>1, <1>2, <2>1, <2>2, GoodStays
<1>8. /\ \A d \in past' : d \in past \/ d = written
      /\ \/ doing' = Idle
         \/ /\ doing' = [command |-> "initialize", name |-> n,
                         phrase |-> pending.initialization]
            /\ dir' = written
  BY <1>2, <1>4 DEF ConfirmInitialization, Synced, Unsynced
<1>9. (Initializing /\ Named /\ Publishing /\ Retiring)'
  BY <1>1, <1>2, <1>3, <1>4, <1>5, <1>8
     DEF Initializing, Named, Publishing, Retiring, Idle, TypeOK
<1>10. (\A d \in past : Good(d))'
  BY <1>6, <1>7, <1>8
<1>11. QED
  BY <1>2, <1>3, <1>4, <1>9, <1>10 DEF VaultSound, AnswersAreDrawn, UnlockedIsOnDisk

LEMMA InitializationStep ==
    ASSUME VaultSound, TypeOK', PublishInitialization \/ SettleInitialization
    PROVE  VaultSound'
<1> USE VaultAssumption
<1>1. TypeOK /\ \A d \in past : Good(d)
  BY DEF VaultSound
<1>2. /\ mem = Locked /\ ~told.vault /\ doing.name \in Names /\ doing.phrase \in human
      /\ doing.name <= used.name
      /\ dir.snapshot[doing.name] = [phrase |-> doing.phrase, document |-> 0]
      /\ UNCHANGED <<used, human>>
      /\ told.document = 0
  BY <1>1 DEF PublishInitialization, SettleInitialization, VaultSound, Initializing, Named,
              AnswersAreDrawn, Good, TypeOK
<1>3. CASE UndoInitialization
  <2>1. mem' = Locked /\ doing' = Idle /\ UNCHANGED told
    BY <1>2, <1>3 DEF UndoInitialization, End
  <2>2. ASSUME NEW w, w = Without(dir, doing.name) PROVE Good(w)'
    <3>1. /\ w.metadata = dir.metadata /\ w.snapshot[doing.name] = NoFile
          /\ \A k \in Names \ {doing.name} : w.snapshot[k] = dir.snapshot[k]
      BY <1>1, <1>2, <2>2, WithoutIs DEF TypeOK
    <3>2. Good(dir)
      BY <1>1 DEF TypeOK
    <3>3. QED
      BY <1>2, <2>1, <3>1, <3>2 DEF Good
  <2>3. \A d \in past : Good(d)'
    BY <1>1, <1>2, <2>1 DEF Good, Opens
  <2>4. (\A d \in past : Good(d))'
    <3>1. \A d \in past' : d \in past \/ d = Without(dir, doing.name)
      BY <1>3 DEF UndoInitialization, Unsynced
    <3>2. QED
      BY <2>2, <2>3, <3>1
  <2>5. QED
    BY <1>2, <2>1, <2>4 DEF VaultSound, AnswersAreDrawn, UnlockedIsOnDisk, Locked, Idle,
                           Initializing, Named, Publishing, Retiring
<1>4. CASE /\ Unsynced(WithMetadata(dir, doing.name))
           /\ doing.command = "initialize" /\ doing' = [doing EXCEPT !.command = "named"]
           /\ UNCHANGED <<mem, pending, told>>
  <2>1. /\ WithMetadata(dir, doing.name).metadata = doing.name
        /\ WithMetadata(dir, doing.name).snapshot = dir.snapshot
    <3>1. doing.name \in 0..MaxNames /\ dir \in DirectoryType
      BY <1>1 DEF TypeOK
    <3>2. QED
      BY <3>1, WithMetadataIs
  <2>2. ASSUME NEW w, w = WithMetadata(dir, doing.name) PROVE Good(w)'
    <3>1. Good(dir)
      BY <1>1 DEF TypeOK
    <3>2. QED
      BY <1>2, <1>4, <2>1, <2>2, <3>1 DEF Good
  <2>3. \A d \in past : Good(d)'
    BY <1>1, <1>2, <1>4 DEF Good, Opens
  <2>4. (\A d \in past : Good(d))'
    <3>1. \A d \in past' : d \in past \/ d = WithMetadata(dir, doing.name)
      BY <1>4 DEF Unsynced
    <3>2. QED
      BY <2>2, <2>3, <3>1
  <2>5. doing'.command = "named" /\ doing'.name = doing.name /\ doing'.phrase = doing.phrase
    BY <1>1, <1>4 DEF TypeOK
  <2>6. QED
    BY <1>2, <1>4, <2>1, <2>4, <2>5
       DEF VaultSound, AnswersAreDrawn, UnlockedIsOnDisk, Initializing, Named, Publishing,
           Retiring, Unsynced
<1>5. CASE /\ Synced(dir) /\ End /\ doing.command = "named"
           /\ mem' = [name |-> doing.name, phrase |-> doing.phrase, document |-> 0, store |-> 0]
           /\ told' = [told EXCEPT !.vault = TRUE]
  <2>1. told'.document = 0 /\ dir' = dir /\ past' = {dir} /\ doing' = Idle
    BY <1>1, <1>2, <1>5 DEF TypeOK, Synced, End
  <2>2. dir.metadata = doing.name /\ doing.name # 0
    BY <1>2, <1>5 DEF VaultSound, Named, Names
  <2>3. ASSUME NEW w, w = dir PROVE Good(w)'
    <3>1. Good(dir) /\ doing.phrase # 0
      BY <1>1, <1>2 DEF TypeOK, Phrases
    <3>2. dir.snapshot[doing.name] # NoFile
      BY <1>2, <3>1 DEF NoFile
    <3>3. QED
      BY <1>2, <2>1, <2>2, <2>3, <3>1, <3>2 DEF Good, Opens, Exists
  <2>4. (\A d \in past : Good(d))'
    BY <2>1, <2>3
  <2>5. QED
    BY <1>1, <1>2, <1>5, <2>1, <2>2, <2>4
       DEF VaultSound, TypeOK, Documents, AnswersAreDrawn, UnlockedIsOnDisk, Idle,
           Initializing, Named, Publishing, Retiring
<1>6. QED
  BY <1>3, <1>4, <1>5 DEF PublishInitialization, SettleInitialization

(* A document the App shows is no older than the one it answered for. *)
LEMMA ShownIsAnswered ==
    ASSUME VaultSound, mem # Locked
    PROVE  /\ Good(dir) /\ mem.name \in Names /\ dir.metadata = mem.name
           /\ mem.name # 0 /\ mem.name <= used.name
           /\ mem.phrase \in human /\ mem.phrase # 0
           /\ dir.snapshot[mem.name] = [phrase |-> mem.phrase, document |-> mem.document]
           /\ dir.snapshot[mem.name] # NoFile
           /\ told.vault => mem.document >= told.document
<1>1. /\ Good(dir) /\ mem.name \in Names /\ dir.metadata = mem.name
      /\ mem.phrase \in human
      /\ dir.snapshot[mem.name] = [phrase |-> mem.phrase, document |-> mem.document]
  BY DEF VaultSound, TypeOK, UnlockedIsOnDisk
<1>2. mem.name # 0 /\ mem.phrase # 0 /\ mem.name <= used.name
  BY <1>1, VaultAssumption DEF VaultSound, TypeOK, Good, Names, Phrases
<1>3. dir.snapshot[mem.name].phrase # 0 /\ dir.snapshot[mem.name].document = mem.document
  BY <1>1, <1>2
<1>4. dir.snapshot[mem.name] # NoFile
  BY <1>3 DEF NoFile
<1>5. QED
  BY <1>1, <1>2, <1>3, <1>4 DEF Good

LEMMA ConfirmPhraseChangeStep ==
    ASSUME VaultSound, TypeOK', ConfirmPhraseChange PROVE VaultSound'
<1> DEFINE n == used.name + 1
           written == WithSnapshot(dir, n, pending.change, mem.store)
<1> USE VaultAssumption
<1>1. TypeOK /\ \A d \in past : Good(d)
  BY DEF VaultSound
<1>2. mem # Locked /\ UNCHANGED <<mem, pending, told>> /\ doing = Idle
  BY DEF ConfirmPhraseChange, Quiet
<1>3. /\ n \in Names /\ pending.change \in Phrases
      /\ used'.name = n /\ used'.document = used.document
      /\ human' = human \union {pending.change}
  BY <1>1 DEF ConfirmPhraseChange, TypeOK, Names, Phrases
<1>4. /\ written.metadata = mem.name /\ n # mem.name
      /\ written.snapshot[n] = [phrase |-> pending.change, document |-> mem.store]
      /\ \A k \in Names \ {n} : written.snapshot[k] = dir.snapshot[k]
  <2>1. /\ dir \in DirectoryType /\ mem.store \in Documents
        /\ pending.change \in 0..MaxPhrases /\ used.name \in Nat
    BY <1>1 DEF TypeOK
  <2>2. QED
    BY <1>2, <1>3, <2>1, WithSnapshotIs, ShownIsAnswered DEF Names
<1>5. ASSUME NEW w, w = written PROVE Good(w)'
  <2>1. Good(dir) /\ used.name \in Nat
    BY <1>1 DEF TypeOK
  <2>2. \A k \in Names : k > n => w.snapshot[k] = NoFile
    BY <1>4, <1>5, <2>1 DEF Good, Names
  <2>3. \A k \in Names : w.snapshot[k] # NoFile => w.snapshot[k].phrase \in human'
    BY <1>3, <1>4, <1>5, <2>1 DEF Good
  <2>4. w.metadata = mem.name /\ w.snapshot[mem.name] = dir.snapshot[mem.name]
    BY <1>2, <1>4, <1>5, ShownIsAnswered
  <2>5. mem.name <= n
    BY <1>2, <2>1, ShownIsAnswered DEF Names
  <2>6. w.snapshot[mem.name] # NoFile /\ w.snapshot[mem.name].phrase \in human'
    BY <1>2, <1>3, <2>4, ShownIsAnswered
  <2>7. told.vault => w.snapshot[mem.name].document >= told.document
    BY <1>2, <2>4, ShownIsAnswered
  <2>8. mem.name # 0
    BY <1>2, ShownIsAnswered
  <2>9. QED
    BY <1>2, <1>3, <2>2, <2>3, <2>4, <2>5, <2>6, <2>7, <2>8 DEF Good, Opens, Exists
<1>6. \A d \in past : Good(d)'
  <2>1. used.name <= used'.name /\ human \subseteq human'
    BY <1>1, <1>3 DEF TypeOK
  <2>2. \A d \in past : d.metadata \in Nat
    BY <1>1 DEF TypeOK, DirectoryType
  <2>3. QED
    BY <1>1, <1>2, <2>1, <2>2, GoodStays
<1>7. /\ \A d \in past' : d \in past \/ d = written
      /\ dir' = dir \/ dir' = written
      /\ \/ doing' = Idle
         \/ /\ doing' = [command |-> "publish", name |-> n, phrase |-> pending.change]
            /\ dir' = written /\ past' = {written} /\ mem.store = mem.document
  BY <1>2, <1>3 DEF ConfirmPhraseChange, Synced, Unsynced, SnapshotContains
<1>8. (\A d \in past : Good(d))'
  BY <1>5, <1>6, <1>7
<1>9. UnlockedIsOnDisk'
  <2>1. dir'.metadata = mem.name /\ dir'.snapshot[mem.name] = dir.snapshot[mem.name]
    BY <1>2, <1>4, <1>7, ShownIsAnswered
  <2>2. QED
    BY <1>2, <1>3, <2>1, ShownIsAnswered DEF UnlockedIsOnDisk
<1>10. (Initializing /\ Named /\ Publishing /\ Retiring)'
  <2>1. CASE doing' = Idle
    BY <2>1 DEF Idle, Initializing, Named, Publishing, Retiring
  <2>2. CASE doing' # Idle
    BY <1>1, <1>2, <1>3, <1>4, <1>7, <2>2
       DEF Initializing, Named, Publishing, Retiring, TypeOK
  <2>3. QED
    BY <2>1, <2>2
<1>11. QED
  BY <1>2, <1>3, <1>8, <1>9, <1>10 DEF VaultSound, AnswersAreDrawn

LEMMA PublishPhraseChangeStep ==
    ASSUME VaultSound, TypeOK', PublishPhraseChange, ~misread' PROVE VaultSound'
<1> USE VaultAssumption
<1>1. TypeOK /\ \A d \in past : Good(d)
  BY DEF VaultSound
<1>2. /\ mem # Locked /\ past = {dir}
      /\ doing.name \in Names /\ doing.name <= used.name /\ doing.name # mem.name
      /\ doing.phrase \in human
      /\ dir.snapshot[doing.name] = [phrase |-> doing.phrase, document |-> mem.document]
      /\ UNCHANGED <<used, human, told>>
  BY DEF PublishPhraseChange, VaultSound, Publishing
<1>3. doing.phrase # 0 /\ doing.name # 0 /\ dir \in DirectoryType
  BY <1>1, <1>2 DEF TypeOK, Names, Phrases
<1>4. \A d \in past : Good(d)'
  BY <1>1, <1>2 DEF Good, Opens
<1>5. CASE /\ dir' = WithMetadata(dir, doing.name)
           /\ past' \subseteq past \union {WithMetadata(dir, doing.name)}
           /\ mem' = [mem EXCEPT !.name = doing.name, !.phrase = doing.phrase]
           /\ doing' = [doing EXCEPT !.command = "retire", !.name = mem.name]
  <2>1. /\ WithMetadata(dir, doing.name).metadata = doing.name
        /\ WithMetadata(dir, doing.name).snapshot = dir.snapshot
    <3>1. doing.name \in 0..MaxNames
      BY <1>2 DEF Names
    <3>. QED
      BY <1>3, <3>1, WithMetadataIs, Zenon
  <2>2. ASSUME NEW w, w = WithMetadata(dir, doing.name) PROVE Good(w)'
    <3>1. dir.snapshot[doing.name].phrase # 0
      BY <1>2, <1>3
    <3>2. Opens(w)' /\ (told.vault => w.snapshot[w.metadata].document >= told.document)
      BY <1>2, <1>3, <2>1, <2>2, <3>1, ShownIsAnswered DEF Opens, Exists, NoFile
    <3>3. Good(dir)
      BY <1>1, <1>2
    <3>4. QED
      BY <1>2, <2>1, <2>2, <3>2, <3>3 DEF Good
  <2>3. (\A d \in past : Good(d))'
    BY <1>4, <1>5, <2>2
  <2>4. /\ mem'.name = doing.name /\ mem'.phrase = doing.phrase /\ mem'.document = mem.document
        /\ doing'.command = "retire" /\ doing'.name = mem.name
    BY <1>1, <1>5 DEF TypeOK
  <2>5. UnlockedIsOnDisk'
    BY <1>2, <1>5, <2>1, <2>4 DEF UnlockedIsOnDisk
  <2>6. Retiring'
    BY <1>2, <1>3, <2>4, ShownIsAnswered DEF Retiring, Locked
  <2>7. QED
    BY <1>2, <2>3, <2>4, <2>5, <2>6
       DEF VaultSound, AnswersAreDrawn, Initializing, Named, Publishing
<1>6. CASE /\ dir' \in {dir, Without(dir, doing.name)}
           /\ past' \subseteq past \union {Without(dir, doing.name)}
           /\ doing' = Idle /\ UNCHANGED mem
  <2>1. /\ Without(dir, doing.name).metadata = dir.metadata
        /\ Without(dir, doing.name).snapshot[doing.name] = NoFile
        /\ \A k \in Names \ {doing.name} : Without(dir, doing.name).snapshot[k] = dir.snapshot[k]
    BY <1>2, <1>3, WithoutIs
  <2>2. ASSUME NEW w, w = Without(dir, doing.name) PROVE Good(w)'
    <3>1. Good(dir) /\ dir.metadata = mem.name /\ w.snapshot[mem.name] = dir.snapshot[mem.name]
      BY <1>2, <2>1, <2>2, ShownIsAnswered
    <3>2. Opens(w)' <=> Opens(dir)
      BY <1>2, <2>1, <2>2, <3>1 DEF Opens, Exists
    <3>3. QED
      BY <1>2, <2>1, <2>2, <3>1, <3>2 DEF Good
  <2>3. (\A d \in past : Good(d))'
    BY <1>4, <1>6, <2>2
  <2>4. UnlockedIsOnDisk'
    BY <1>2, <1>6, <2>1, ShownIsAnswered DEF UnlockedIsOnDisk
  <2>5. QED
    BY <1>2, <1>6, <2>3, <2>4
       DEF VaultSound, AnswersAreDrawn, Initializing, Named, Publishing, Retiring, Idle
<1>7. QED
  BY <1>2, <1>5, <1>6 DEF PublishPhraseChange, PublicationMisread, Synced, Unsynced, End

LEMMA RetireSnapshotStep == ASSUME VaultSound, TypeOK', RetireSnapshot PROVE VaultSound'
<1> USE VaultAssumption
<1>1. TypeOK /\ \A d \in past : Good(d)
  BY DEF VaultSound
<1>2. /\ mem # Locked /\ doing.name \in Names /\ doing.name # mem.name
      /\ UNCHANGED <<mem, used, human, told>> /\ doing' = Idle
      /\ dir' \in {dir, Without(dir, doing.name)}
      /\ past' \subseteq past \union {Without(dir, doing.name)}
  BY DEF RetireSnapshot, VaultSound, Retiring, Synced, Unsynced, End
<1>3. /\ Without(dir, doing.name).metadata = dir.metadata
      /\ Without(dir, doing.name).snapshot[doing.name] = NoFile
      /\ \A k \in Names \ {doing.name} : Without(dir, doing.name).snapshot[k] = dir.snapshot[k]
  BY <1>1, <1>2, WithoutIs DEF TypeOK
<1>4. ASSUME NEW w, w = Without(dir, doing.name) PROVE Good(w)'
  <2>1. Good(dir) /\ dir.metadata = mem.name /\ w.snapshot[mem.name] = dir.snapshot[mem.name]
    BY <1>2, <1>3, <1>4, ShownIsAnswered
  <2>2. Opens(w)' <=> Opens(dir)
    BY <1>2, <1>3, <1>4, <2>1 DEF Opens, Exists
  <2>3. QED
    BY <1>2, <1>3, <1>4, <2>1, <2>2 DEF Good
<1>5. (\A d \in past : Good(d))'
  <2>1. \A d \in past : Good(d)'
    BY <1>1, <1>2 DEF Good, Opens
  <2>2. QED
    BY <1>2, <1>4, <2>1
<1>6. UnlockedIsOnDisk'
  BY <1>2, <1>3, ShownIsAnswered DEF UnlockedIsOnDisk
<1>7. QED
  BY <1>2, <1>5, <1>6
     DEF VaultSound, AnswersAreDrawn, Initializing, Named, Publishing, Retiring, Idle

LEMMA CommitDocumentStep == ASSUME VaultSound, TypeOK', CommitDocument PROVE VaultSound'
<1> DEFINE candidate == used.document + 1
           written == WithSnapshot(dir, mem.name, mem.phrase, candidate)
<1> USE VaultAssumption
<1>1. TypeOK /\ \A d \in past : Good(d)
  BY DEF VaultSound
<1>2. /\ mem # Locked /\ doing = Idle /\ UNCHANGED <<pending, doing, human>>
      /\ used'.document = candidate /\ used'.name = used.name
      /\ candidate \in Documents /\ used.document \in Nat
  BY <1>1 DEF CommitDocument, Quiet, TypeOK, Documents
<1>3. /\ written.metadata = dir.metadata
      /\ written.snapshot[mem.name] = [phrase |-> mem.phrase, document |-> candidate]
      /\ \A k \in Names \ {mem.name} : written.snapshot[k] = dir.snapshot[k]
  <2>1. dir \in DirectoryType /\ mem.phrase \in 0..MaxPhrases
    BY <1>1 DEF TypeOK
  <2>2. QED
    BY <1>2, <2>1, ShownIsAnswered, WithSnapshotIs
<1>4. told.document <= candidate /\ told.document \in Nat
  BY <1>1, <1>2 DEF VaultSound, AnswersAreDrawn, TypeOK, Documents
<1>5. \/ UNCHANGED told
      \/ told'.vault /\ told'.document = candidate
  BY <1>2 DEF CommitDocument
<1>6. ASSUME NEW w, w = written PROVE Good(w)'
  <2>1. /\ Good(dir) /\ dir.metadata = mem.name /\ mem.name \in Names /\ mem.name # 0
        /\ mem.name <= used.name /\ mem.phrase \in human /\ mem.phrase # 0
    BY <1>2, ShownIsAnswered
  <2>2. \A k \in Names : k > used.name => w.snapshot[k] = NoFile
    <3>1. used.name \in Nat
      BY <1>1 DEF TypeOK
    <3>2. QED
      BY <1>3, <1>6, <2>1, <3>1 DEF Good, Names
  <2>3. /\ w.metadata = mem.name
        /\ w.snapshot[mem.name].phrase = mem.phrase
        /\ w.snapshot[mem.name].document = candidate
    BY <1>3, <1>6, <2>1
  <2>4. \A k \in Names : w.snapshot[k] # NoFile => w.snapshot[k].phrase \in human
    BY <1>3, <1>6, <2>1, <2>3 DEF Good
  <2>5. w.snapshot[mem.name] # NoFile
    BY <2>1, <2>3 DEF NoFile
  <2>6. candidate >= told'.document
    BY <1>2, <1>4, <1>5
  <2>7. QED
    BY <1>2, <2>1, <2>2, <2>3, <2>4, <2>5, <2>6 DEF Good, Opens, Exists
<1>7. CASE /\ dir' = written
           /\ \/ past' = {written}
              \/ past' = past \union {written} /\ UNCHANGED told
           /\ mem' = [mem EXCEPT !.document = candidate, !.store = candidate]
  <2>1. (\A d \in past : Good(d))'
    <3>1. CASE past' = {written}
      BY <1>6, <3>1
    <3>2. CASE past' = past \union {written} /\ UNCHANGED told
      <4>1. \A d \in past : Good(d)'
        BY <1>1, <1>2, <3>2 DEF Good, Opens
      <4>2. QED
        BY <1>6, <3>2, <4>1
    <3>3. QED
      BY <1>7, <3>1, <3>2
  <2>2. /\ mem'.name = mem.name /\ mem'.phrase = mem.phrase /\ mem'.document = candidate
    BY <1>1, <1>7 DEF TypeOK
  <2>3. UnlockedIsOnDisk'
    BY <1>2, <1>3, <1>7, <2>2, ShownIsAnswered DEF UnlockedIsOnDisk
  <2>4. AnswersAreDrawn'
    BY <1>2, <1>4, <1>5 DEF VaultSound, AnswersAreDrawn
  <2>5. QED
    BY <1>2, <2>1, <2>3, <2>4
       DEF VaultSound, Initializing, Named, Publishing, Retiring, Idle
<1>8. CASE /\ UNCHANGED <<dir, past, told>>
           /\ \/ mem' = [mem EXCEPT !.store = mem.document]
              \/ mem' = [mem EXCEPT !.store = candidate]
  <2>1. (\A d \in past : Good(d))'
    BY <1>1, <1>2, <1>8 DEF Good, Opens
  <2>2. mem'.name = mem.name /\ mem'.phrase = mem.phrase /\ mem'.document = mem.document
    BY <1>1, <1>8 DEF TypeOK
  <2>3. UnlockedIsOnDisk'
    BY <1>2, <1>8, <2>2, ShownIsAnswered DEF UnlockedIsOnDisk
  <2>4. AnswersAreDrawn'
    BY <1>2, <1>4, <1>8 DEF VaultSound, AnswersAreDrawn
  <2>5. QED
    BY <1>2, <2>1, <2>3, <2>4
       DEF VaultSound, Initializing, Named, Publishing, Retiring, Idle
<1>9. QED
  BY <1>2, <1>7, <1>8 DEF CommitDocument, Synced, Unsynced

-----------------------------------------------------------------------------

LEMMA VaultSoundStep ==
    ASSUME VaultSound, TypeOK', [VaultNext]_vaultVars, ~misread'
    PROVE  VaultSound'
<1>1. CASE UNCHANGED vaultVars
  BY <1>1 DEF vaultVars, VaultSound, TypeOK, Good, Opens, AnswersAreDrawn, UnlockedIsOnDisk,
              Initializing, Named, Publishing, Retiring
<1>2. CASE VaultNext
  BY <1>2, MemoryStep, PowerLossStep, ConfirmInitializationStep, InitializationStep,
     ConfirmPhraseChangeStep, PublishPhraseChangeStep, RetireSnapshotStep, CommitDocumentStep
     DEF VaultNext
<1>3. QED
  BY <1>1, <1>2

LEMMA ActsOnNamesStep ==
    ASSUME TypeOK, TypeOK', ActsOnNames, [VaultNext]_vaultVars
    PROVE  ActsOnNames'
<1> USE VaultAssumption
<1>1. CASE Prepare \/ DiscardPreparation \/ PreparePhraseChange \/ UNCHANGED vaultVars
  BY <1>1 DEF Prepare, DiscardPreparation, PreparePhraseChange, vaultVars, ActsOnNames
<1>2. CASE Lock \/ ProcessEnds \/ PowerLoss
  BY <1>2 DEF Lock, ProcessEnds, PowerLoss, Quiet, End, Idle, ActsOnNames
<1>3. CASE Unlock
  <2>1. dir.metadata \in Names /\ doing.command = "none" /\ UNCHANGED doing
    BY <1>3, LockStateIs DEF Unlock, TypeOK, DirectoryType, Exists, Names, Quiet, Idle
  <2>2. mem'.name = dir.metadata
    BY <1>3 DEF Unlock
  <2>3. QED
    BY <2>1, <2>2 DEF ActsOnNames
<1>4. CASE ConfirmInitialization \/ ConfirmPhraseChange
  <2>1. /\ UNCHANGED mem /\ used'.name \in Names
        /\ \/ UNCHANGED doing
           \/ doing'.name = used'.name /\ doing'.command = "initialize"
           \/ doing'.name = used'.name /\ doing'.command = "publish" /\ mem # Locked
    BY <1>4 DEF ConfirmInitialization, ConfirmPhraseChange, TypeOK, Names
  <2>2. QED
    BY <2>1 DEF ActsOnNames
<1>5. CASE PublishInitialization \/ SettleInitialization
  <2>1. /\ doing.name \in Names
        /\ doing'.command \in {"none", "named"} /\ (doing'.command # "none" => doing'.name = doing.name)
        /\ UNCHANGED mem \/ mem'.name = doing.name
    BY <1>5 DEF PublishInitialization, SettleInitialization, UndoInitialization, End, Idle,
                ActsOnNames, TypeOK
  <2>2. QED
    BY <2>1 DEF ActsOnNames
<1>6. CASE PublishPhraseChange
  <2>1. doing.name \in Names /\ mem # Locked /\ mem.name \in Names
    BY <1>6 DEF PublishPhraseChange, ActsOnNames
  <2>2. CASE doing' = Idle /\ UNCHANGED mem
    BY <2>1, <2>2 DEF ActsOnNames, Idle
  <2>3. CASE /\ mem' = [mem EXCEPT !.name = doing.name, !.phrase = doing.phrase]
             /\ doing' = [doing EXCEPT !.command = "retire", !.name = mem.name]
    <3>1. mem'.name = doing.name /\ doing'.command = "retire" /\ doing'.name = mem.name
      BY <2>3 DEF TypeOK
    <3>2. QED
      BY <2>1, <3>1 DEF ActsOnNames
  <2>4. QED
    BY <1>6, <2>2, <2>3 DEF PublishPhraseChange, PublicationMisread, End
<1>7. CASE RetireSnapshot
  BY <1>7 DEF RetireSnapshot, End, Idle, ActsOnNames
<1>8. CASE CommitDocument
  <2>1. mem # Locked /\ mem'.name = mem.name /\ doing.command = "none" /\ UNCHANGED doing
    BY <1>8 DEF CommitDocument, TypeOK, Quiet, Idle
  <2>2. QED
    BY <2>1 DEF ActsOnNames
<1>9. QED
  BY <1>1, <1>2, <1>3, <1>4, <1>5, <1>6, <1>7, <1>8 DEF VaultNext

LEMMA VaultInvInit == VaultInit => VaultInv
<1>1. VaultInit => ActsOnNames
  BY DEF VaultInit, ActsOnNames, Locked, Idle
<1>2. QED
  BY <1>1, VaultTypeInit, VaultSoundInit DEF VaultInv

LEMMA VaultInvStep == VaultInv /\ [VaultNext]_vaultVars => VaultInv'
<1> SUFFICES ASSUME VaultInv, [VaultNext]_vaultVars PROVE VaultInv'
  OBVIOUS
<1>1. TypeOK /\ TypeOK' /\ ActsOnNames'
  BY VaultTypeStep, ActsOnNamesStep DEF VaultInv
<1>2. ~misread' => ~misread
  BY <1>1 DEF TypeOK, VaultNext, vaultVars, Prepare, DiscardPreparation, ConfirmInitialization,
              PublishInitialization, SettleInitialization, Unlock, PreparePhraseChange,
              ConfirmPhraseChange, PublishPhraseChange, PublicationMisread, RetireSnapshot,
              CommitDocument, Lock, ProcessEnds, PowerLoss
<1>3. ~misread' => VaultSound'
  BY <1>1, <1>2, VaultSoundStep DEF VaultInv
<1>4. QED
  BY <1>1, <1>3 DEF VaultInv

LEMMA VaultInvHolds == VaultSpec => []VaultInv
BY VaultInvInit, VaultInvStep, PTL DEF VaultSpec

(* Every variable of the vault holds what the program can hold. *)
THEOREM VaultIsTyped == VaultSpec => []TypeOK
<1>1. VaultInv => TypeOK
  BY DEF VaultInv
<1>2. QED
  BY <1>1, VaultInvHolds, PTL

(* Once the App answered for the vault, every directory a power loss may leave
   names a snapshot that is there, under a phrase the human copied
   (vault.rs, confirm_initialization and confirm_phrase_change), as long as no
   phrase change failed to read back the metadata it renamed. *)
THEOREM VaultAlwaysOpens == VaultSpec => []VaultOpens
<1>1. VaultInv => VaultOpens
  BY DEF VaultInv, VaultSound, Good, VaultOpens
<1>2. QED
  BY <1>1, VaultInvHolds, PTL

(* The document the App answered for, or a later one, is what any directory a
   power loss may leave opens on (vault.rs, commit_document), with the same
   exception. *)
THEOREM StoredAlwaysSurvives == VaultSpec => []StoredSurvives
<1>1. VaultInv => StoredSurvives
  BY DEF VaultInv, VaultSound, Good, StoredSurvives
<1>2. QED
  BY <1>1, VaultInvHolds, PTL

(* Between two commands the unlocked vault is the one on disk, after a commit
   that failed half way too (vault.rs, commit_document), with the same
   exception. *)
THEOREM MemoryIsAlwaysDisk == VaultSpec => []MemoryIsDisk
<1>1. VaultInv => MemoryIsDisk
  BY DEF VaultInv, VaultSound, UnlockedIsOnDisk, MemoryIsDisk
<1>2. QED
  BY <1>1, VaultInvHolds, PTL

-----------------------------------------------------------------------------
(* The plans.                                                              *)

(* The pair that is presented is the one the documents in hand make. *)
HeldIsPresented == held # None => held.presented = Presented(held.documents)

(* The session that is open is about the pair that is held: reading another
   pair closes it. *)
SessionIsAboutHeld ==
    session # None =>
        /\ held # None
        /\ session = [consent |-> session.consent, answered |-> session.answered]
        /\ session.consent = ConsentOf(held.presented, session.consent.request)

(* A window is the session's as long as the session waits for it; one that
   outlived its session stands in the way of the next. *)
WindowIsOfTheSession ==
    /\ window # None =>
          /\ window = [consent |-> window.consent, outcome |-> window.outcome]
          /\ window.consent \in shown
    /\ session # None /\ session.answered = "open" => window.consent = session.consent

(* What a window wrote, and what became of it: a confirmation is the human's. *)
ConfirmationsAreAgreed ==
    /\ window # None /\ window.outcome # None =>
          \E kind \in Outcomes : /\ window.outcome = Outcome(window.consent, kind)
                                 /\ kind = "confirmed" => window.consent \in agreed
    /\ session # None /\ session.answered = "confirmed" => session.consent \in agreed
    /\ agreed \subseteq shown

PlanInv ==
    /\ HeldIsPresented
    /\ SessionIsAboutHeld
    /\ WindowIsOfTheSession
    /\ ConfirmationsAreAgreed
    /\ SignedWasShown

(* Only the window's own outcome confirms its consent: without a confirmation
   an outcome is of another kind. *)
LEMMA ConfirmsIsConfirmed ==
    ASSUME NEW c, NEW d, NEW kind \in Outcomes, ConsentConfirms(c, Outcome(d, kind))
    PROVE  kind = "confirmed"
BY DEF ConsentConfirms, Outcome

LEMMA PlanInvInit == Init => PlanInv
BY DEF Init, PlanInv, HeldIsPresented, SessionIsAboutHeld, WindowIsOfTheSession,
       ConfirmationsAreAgreed, SignedWasShown

(* Reading another pair leaves no session and no window about the old one. *)
LEMMA ReadPlanPairStep ==
    ASSUME PlanInv, NEW view \in Views, ReadPlanPair(view)
    PROVE  PlanInv'
<1>1. held'.presented = Presented(held'.documents)
  BY DEF ReadPlanPair
<1>. QED  BY <1>1 DEF ReadPlanPair, PlanInv, HeldIsPresented, SessionIsAboutHeld,
                      WindowIsOfTheSession, ConfirmationsAreAgreed, SignedWasShown

LEMMA OpenPlanConsentStep ==
    ASSUME PlanInv, OpenPlanConsent
    PROVE  PlanInv'
<1>. DEFINE c == ConsentOf(held.presented, Cardinality(shown) + 1)
<1>1. /\ held # None /\ UNCHANGED <<held, agreed, signed>>
      /\ session' = [consent |-> c, answered |-> "open"]
      /\ window' = [consent |-> c, outcome |-> None]
      /\ shown' = shown \union {c}
  BY DEF OpenPlanConsent
<1>2. c.request = Cardinality(shown) + 1
  BY DEF ConsentOf, Consent
<1>3. c = ConsentOf(held.presented, c.request)
  BY <1>2
<1>4. /\ session'.consent = c /\ session'.answered = "open"
      /\ window'.consent = c /\ window'.outcome = None
  BY <1>1
<1>. HIDE DEF c
<1>5. HeldIsPresented' /\ SignedWasShown'
  BY <1>1 DEF PlanInv, HeldIsPresented, SignedWasShown
<1>6. SessionIsAboutHeld'
  BY <1>1, <1>3, <1>4 DEF SessionIsAboutHeld
<1>7. WindowIsOfTheSession' /\ ConfirmationsAreAgreed'
  BY <1>1, <1>4 DEF PlanInv, WindowIsOfTheSession, ConfirmationsAreAgreed
<1>. QED  BY <1>5, <1>6, <1>7 DEF PlanInv

(* An answer is the window's, and a confirmation among them is the human's. *)
LEMMA AnswerWindowStep ==
    ASSUME PlanInv, NEW kind \in Outcomes, AnswerWindow(kind)
    PROVE  PlanInv'
<1>1. /\ window # None /\ window.outcome = None
      /\ window' = [window EXCEPT !.outcome = Outcome(window.consent, kind)]
      /\ agreed' = IF kind = "confirmed" THEN agreed \union {window.consent} ELSE agreed
      /\ UNCHANGED <<held, session, shown, signed>>
  BY DEF AnswerWindow
<1>2. window' = [consent |-> window.consent, outcome |-> Outcome(window.consent, kind)]
  BY <1>1 DEF PlanInv, WindowIsOfTheSession
<1>3. /\ window'.consent = window.consent
      /\ window'.outcome = Outcome(window.consent, kind)
  BY <1>2
<1>4. agreed \subseteq agreed' /\ (kind = "confirmed" => window.consent \in agreed')
  BY <1>1
<1>5. HeldIsPresented' /\ SessionIsAboutHeld'
  BY <1>1 DEF PlanInv, HeldIsPresented, SessionIsAboutHeld
<1>6. SignedWasShown'
  BY <1>1, <1>4 DEF PlanInv, SignedWasShown
<1>7. WindowIsOfTheSession'
  BY <1>1, <1>2, <1>3 DEF PlanInv, WindowIsOfTheSession
<1>8. agreed' \subseteq shown'
  BY <1>1 DEF PlanInv, WindowIsOfTheSession, ConfirmationsAreAgreed
<1>9. ConfirmationsAreAgreed'
  BY <1>1, <1>3, <1>4, <1>8 DEF PlanInv, ConfirmationsAreAgreed
<1>. QED  BY <1>5, <1>6, <1>7, <1>9 DEF PlanInv

(* A session is confirmed on the outcome of its own window, and the human gave
   that outcome. *)
LEMMA PlanConsentStatusStep ==
    ASSUME PlanInv, PlanConsentStatus
    PROVE  PlanInv'
<1>. DEFINE confirms == ConfirmedBy(held.presented, session.consent, window.outcome)
<1>1. /\ session # None /\ session.answered = "open" /\ window # None /\ window.outcome # None
      /\ session' = [session EXCEPT !.answered = IF confirms THEN "confirmed" ELSE "refused"]
      /\ window' = None
      /\ UNCHANGED <<held, shown, agreed, signed>>
  BY DEF PlanConsentStatus
<1>2. session' = [consent |-> session.consent,
                  answered |-> IF confirms THEN "confirmed" ELSE "refused"]
  BY <1>1 DEF PlanInv, SessionIsAboutHeld
<1>3. /\ session'.consent = session.consent
      /\ session'.answered = "confirmed" => confirms
      /\ session'.answered # "open"
  BY <1>2
<1>4. confirms => session.consent \in agreed
  <2>. SUFFICES ASSUME confirms PROVE window.consent \in agreed
    BY <1>1 DEF PlanInv, WindowIsOfTheSession
  <2>1. PICK kind \in Outcomes : /\ window.outcome = Outcome(window.consent, kind)
                                 /\ kind = "confirmed" => window.consent \in agreed
    BY <1>1 DEF PlanInv, ConfirmationsAreAgreed
  <2>2. kind = "confirmed"
    BY <2>1, ConfirmsIsConfirmed DEF ConfirmedBy
  <2>. QED  BY <2>1, <2>2
<1>. HIDE DEF confirms
<1>5. HeldIsPresented' /\ SignedWasShown'
  BY <1>1 DEF PlanInv, HeldIsPresented, SignedWasShown
<1>6. SessionIsAboutHeld'
  BY <1>1, <1>2, <1>3 DEF PlanInv, SessionIsAboutHeld
<1>7. WindowIsOfTheSession' /\ ConfirmationsAreAgreed'
  BY <1>1, <1>3, <1>4 DEF PlanInv, WindowIsOfTheSession, ConfirmationsAreAgreed
<1>. QED  BY <1>5, <1>6, <1>7 DEF PlanInv

(* What is signed is the pair that is held, which the session's consent is about. *)
LEMMA SubmitPlanDecisionStep ==
    ASSUME PlanInv, NEW epoch, NEW sequence, SubmitPlanDecision(epoch, sequence)
    PROVE  PlanInv'
<1>. DEFINE e == Envelope(held.presented, epoch, sequence)
            s == [envelope |-> e, signature |-> SigningTranscript(e), documents |-> held.documents]
<1>1. /\ session # None /\ session.answered = "confirmed"
      /\ signed' = signed \union {s}
      /\ session' = None
      /\ UNCHANGED <<held, window, shown, agreed>>
  BY DEF SubmitPlanDecision
<1>2. /\ held # None /\ held.presented = Presented(held.documents)
      /\ session.consent \in agreed
      /\ session.consent = ConsentOf(held.presented, session.consent.request)
  BY <1>1 DEF PlanInv, HeldIsPresented, SessionIsAboutHeld, ConfirmationsAreAgreed
<1>3. /\ session.consent.lines
             = ConfirmationLines(held.presented.plan, held.presented.rollback)
      /\ session.consent.machine = held.presented.plan.machine_id
  BY <1>2 DEF ConsentOf, Consent
<1>4. e.epoch = epoch /\ e.sequence = sequence
  BY DEF Envelope
<1>5. /\ s.documents = held.documents
      /\ s.signature = SigningTranscript(Envelope(held.presented, epoch, sequence))
      /\ s.envelope = e
  OBVIOUS
<1>. HIDE DEF e, s
<1>6. \E c \in agreed :
         /\ c.lines = ConfirmationLines(Presented(s.documents).plan,
                                        Presented(s.documents).rollback)
         /\ c.machine = Presented(s.documents).plan.machine_id
         /\ s.signature = SigningTranscript(Envelope(Presented(s.documents), s.envelope.epoch,
                                                     s.envelope.sequence))
  BY <1>2, <1>3, <1>4, <1>5
<1>7. SignedWasShown'
  BY <1>1, <1>6 DEF PlanInv, SignedWasShown
<1>8. HeldIsPresented' /\ SessionIsAboutHeld' /\ WindowIsOfTheSession' /\ ConfirmationsAreAgreed'
  BY <1>1 DEF PlanInv, HeldIsPresented, SessionIsAboutHeld, WindowIsOfTheSession,
              ConfirmationsAreAgreed
<1>. QED  BY <1>7, <1>8 DEF PlanInv

LEMMA PlanInvStep == PlanInv /\ [Next]_vars => PlanInv'
<1>. SUFFICES ASSUME PlanInv, [Next]_vars PROVE PlanInv'
  OBVIOUS
<1>. USE DEF PlanInv, HeldIsPresented, SessionIsAboutHeld, WindowIsOfTheSession,
             ConfirmationsAreAgreed, SignedWasShown
<1>1. ASSUME NEW paste \in Pastes, PasteServiceDefinition(paste) PROVE PlanInv'
  BY <1>1 DEF PasteServiceDefinition
<1>2. ASSUME NEW draft \in Drafts, ReviewServiceDefinition(draft) PROVE PlanInv'
  BY <1>2 DEF ReviewServiceDefinition
<1>3. ASSUME NEW entry \in Served, FreezeServiceDefinition(entry) PROVE PlanInv'
  BY <1>3 DEF FreezeServiceDefinition
<1>4. ASSUME NEW one \in Served, NEW other \in Served, ReadServiceDefinitions({one, other})
      PROVE  PlanInv'
  BY <1>4 DEF ReadServiceDefinitions
<1>5. CASE CancelPlanConsent
  BY <1>5 DEF CancelPlanConsent
<1>6. CASE Lapse
  BY <1>6 DEF Lapse
<1>7. CASE UNCHANGED vars
  BY <1>7 DEF vars
<1>. QED  BY <1>1, <1>2, <1>3, <1>4, <1>5, <1>6, <1>7, ReadPlanPairStep, OpenPlanConsentStep,
             AnswerWindowStep, PlanConsentStatusStep, SubmitPlanDecisionStep DEF Next

LEMMA PlanInvHolds == Spec => []PlanInv
BY PlanInvInit, PlanInvStep, PTL DEF Spec

(* Whatever pair replaced which, the bytes that are signed are those of an
   envelope naming the documents that travel with it, and the human confirmed a
   window that displayed those documents (publication_plan.rs sign, lib.rs
   submit_plan_decision), for every pair a Controller may serve. *)
THEOREM SignedIsAlwaysShown == Spec => []SignedWasShown
<1>1. PlanInv => SignedWasShown
  BY DEF PlanInv
<1>. QED  BY <1>1, PlanInvHolds, PTL

-----------------------------------------------------------------------------
(* The definitions.                                                        *)

(* A document as a form gives it: its lists are lists, its bytes a count. *)
IsForm(d) ==
    /\ d.volumes \in Seq(Seq(STRING)) /\ d.tmpfs \in Seq(Seq(STRING))
    /\ d.environment \in Seq(Seq(STRING)) /\ d.secret_keys \in Seq(STRING)
    /\ EncodedBytes(d) \in Nat

(* No refusal but the last is the one of the size. *)
NamesNoSize(refusals) == \A r \in refusals : r.why # "DocumentTooLarge"

LEMMA RefusalIs ==
    \A field, entry, why : Refusal(field, entry, why).why = why
BY DEF Refusal

LEMMA OverlapIsMutual == \A one, other : Overlap(one, other) => Overlap(other, one)
BY DEF Overlap

LEMMA TooLongIs ==
    ASSUME NEW field, NEW list, Len(list) \in Nat, NEW bound \in Nat
    PROVE  /\ TooLong(field, list, bound) = {} <=> Len(list) <= bound
           /\ NamesNoSize(TooLong(field, list, bound))
<1>1. CASE Len(list) > bound
  <2>1. TooLong(field, list, bound) = {Refusal(field, WholeField, "ListTooLong")}
    BY <1>1 DEF TooLong
  <2>2. NamesNoSize({Refusal(field, WholeField, "ListTooLong")})
    BY RefusalIs DEF NamesNoSize
  <2>. QED  BY <1>1, <2>1, <2>2
<1>2. CASE Len(list) <= bound
  <2>1. TooLong(field, list, bound) = {}
    BY <1>2 DEF TooLong
  <2>. QED  BY <1>2, <2>1 DEF NamesNoSize
<1>. QED  BY <1>1, <1>2

LEMMA HeadMeansTheContract ==
    ASSUME NEW d
    PROVE  /\ HeadRefusals(d) = {}
                 <=> /\ d.schema_version = 1
                     /\ CanonicalDefinitionSlug(d.slug)
                     /\ CanonicalImageRepository(d.image_repository)
                     /\ d.container_port \in 1..MaxContainerPort
           /\ NamesNoSize(HeadRefusals(d))
<1>. DEFINE schema == {Refusal("schema_version", WholeField, "UnknownSchemaVersion")
                          : x \in {1} \ {d.schema_version}}
            slug == IF ~CanonicalServiceSlug(d.slug)
                    THEN {Refusal("slug", WholeField, "SlugGrammar")}
                    ELSE IF d.slug \in ReservedSlugs
                         THEN {Refusal("slug", WholeField, "SlugReserved")} ELSE {}
            image == IF CanonicalImageRepository(d.image_repository) THEN {}
                     ELSE {Refusal("image_repository", WholeField,
                                   IF NamesOneImage(d.image_repository)
                                   THEN "ImageRepositoryPinned" ELSE "ImageRepositoryGrammar")}
            port == IF d.container_port \in 1..MaxContainerPort THEN {}
                    ELSE {Refusal("container_port", WholeField, "ContainerPortRange")}
<1>1. HeadRefusals(d) = schema \union slug \union image \union port
  BY DEF HeadRefusals
<1>2. (schema = {} <=> d.schema_version = 1) /\ NamesNoSize(schema)
  BY RefusalIs DEF NamesNoSize
<1>3. (slug = {} <=> CanonicalDefinitionSlug(d.slug)) /\ NamesNoSize(slug)
  BY RefusalIs DEF NamesNoSize, CanonicalDefinitionSlug
<1>4. (image = {} <=> CanonicalImageRepository(d.image_repository)) /\ NamesNoSize(image)
  BY RefusalIs DEF NamesNoSize
<1>5. (port = {} <=> d.container_port \in 1..MaxContainerPort) /\ NamesNoSize(port)
  BY RefusalIs DEF NamesNoSize
<1>. HIDE DEF schema, slug, image, port
<1>6. NamesNoSize(schema \union slug \union image \union port)
  BY <1>2, <1>3, <1>4, <1>5 DEF NamesNoSize
<1>7. schema \union slug \union image \union port = {}
         <=> schema = {} /\ slug = {} /\ image = {} /\ port = {}
  OBVIOUS
<1>. QED  BY <1>1, <1>2, <1>3, <1>4, <1>5, <1>6, <1>7

(* Every path reads and no two overlap, exactly when no entry is refused: the
   contract compares each pair once, the refusals an entry with those before. *)
LEMMA MountsMeanTheContract ==
    ASSUME NEW d, IsForm(d)
    PROVE  /\ MountRefusals(d) = {} <=> HoldsTheMounts(d)
           /\ NamesNoSize(MountRefusals(d))
<1>. DEFINE M == Mounts(d)
            read == {i \in DOMAIN M : CanonicalContainerPath(M[i])}
            late == {k \in read : \E j \in read : j < k /\ Overlap(M[k], M[j])}
            volumes == TooLong("volumes", d.volumes, MaxVolumes)
            tmpfs == TooLong("tmpfs", d.tmpfs, MaxTmpfs)
            grammar == {Refusal(MountAt(d, i)[1], MountAt(d, i)[2], "ContainerPathGrammar")
                           : i \in DOMAIN M \ read}
            overlap == {Refusal(MountAt(d, i)[1], MountAt(d, i)[2], "MountsOverlap") : i \in late}
<1>1. MountRefusals(d) = volumes \union tmpfs \union grammar \union overlap
  BY DEF MountRefusals
<1>a. /\ Len(d.volumes) \in Nat /\ Len(d.tmpfs) \in Nat
      /\ MaxVolumes \in Nat /\ MaxTmpfs \in Nat
  BY DEF IsForm, MaxVolumes, MaxTmpfs
<1>2. (volumes = {} <=> Len(d.volumes) <= MaxVolumes) /\ NamesNoSize(volumes)
  BY <1>a, TooLongIs, Zenon
<1>3. (tmpfs = {} <=> Len(d.tmpfs) <= MaxTmpfs) /\ NamesNoSize(tmpfs)
  BY <1>a, TooLongIs, Zenon
<1>4. M \in Seq(Seq(STRING))
  BY DEF IsForm, Mounts
<1>5. DOMAIN M \subseteq Nat
  BY <1>4
<1>6. (grammar = {} <=> \A i \in DOMAIN M : CanonicalContainerPath(M[i])) /\ NamesNoSize(grammar)
  <2>. HIDE DEF M
  <2>1. grammar = {} <=> DOMAIN M \ read = {}
    OBVIOUS
  <2>2. DOMAIN M \ read = {} <=> \A i \in DOMAIN M : CanonicalContainerPath(M[i])
    OBVIOUS
  <2>3. NamesNoSize(grammar)
    BY RefusalIs DEF NamesNoSize
  <2>. QED  BY <2>1, <2>2, <2>3
<1>7. (overlap = {} <=> late = {}) /\ NamesNoSize(overlap)
  <2>. HIDE DEF late
  <2>. QED  BY RefusalIs DEF NamesNoSize
<1>8. ASSUME \A i \in DOMAIN M : CanonicalContainerPath(M[i])
      PROVE  late = {} <=> \A i, j \in DOMAIN M : i < j => ~Overlap(M[i], M[j])
  <2>. HIDE DEF M
  <2>1. read = DOMAIN M
    BY <1>8
  <2>. QED  BY <2>1, OverlapIsMutual
<1>9. HoldsTheMounts(d) <=> /\ Len(d.volumes) <= MaxVolumes /\ Len(d.tmpfs) <= MaxTmpfs
                            /\ \A i \in DOMAIN M : CanonicalContainerPath(M[i])
                            /\ \A i, j \in DOMAIN M : i < j => ~Overlap(M[i], M[j])
  BY DEF HoldsTheMounts
<1>. HIDE DEF M, read, late, volumes, tmpfs, grammar, overlap
<1>10. MountRefusals(d) = {} <=> volumes = {} /\ tmpfs = {} /\ grammar = {} /\ overlap = {}
  BY <1>1
<1>11. NamesNoSize(MountRefusals(d))
  BY <1>1, <1>2, <1>3, <1>6, <1>7 DEF NamesNoSize
<1>. QED  BY <1>2, <1>3, <1>6, <1>7, <1>8, <1>9, <1>10, <1>11

(* What one declaration, a line or a secret, is refused for. *)
LEMMA KeyMeansTheContract ==
    ASSUME NEW d, IsForm(d), NEW i \in DOMAIN DeclaredKeys(d)
    PROVE  LET n == Len(d.environment)
               shaped == {k \in DOMAIN DeclaredKeys(d) : k > n \/ Len(d.environment[k]) = 2}
           IN /\ KeyRefusals(d, i) = {}
                    <=> /\ i \in shaped
                        /\ CanonicalKey(DeclaredKeys(d)[i])
                        /\ \A j \in shaped : j < i => DeclaredKeys(d)[j] # DeclaredKeys(d)[i]
                        /\ i <= n => CanonicalValue(d.environment[i][2])
              /\ NamesNoSize(KeyRefusals(d, i))
<1>. DEFINE n == Len(d.environment)
            key == DeclaredKeys(d)[i]
            place == IF i <= n THEN <<"environment", i>> ELSE <<"secret_keys", i - n>>
            shaped == {k \in DOMAIN DeclaredKeys(d) : k > n \/ Len(d.environment[k]) = 2}
            earlier == \E j \in shaped : j < i /\ DeclaredKeys(d)[j] = key
            ofShape == {Refusal(place[1], place[2], "EnvironmentLineShape")}
            ofKey == IF ~CanonicalKey(key) THEN {Refusal(place[1], place[2], "KeyGrammar")}
                     ELSE IF earlier THEN {Refusal(place[1], place[2], "KeyAlreadyDeclared")}
                     ELSE {}
            ofValue == IF i <= n /\ ~CanonicalValue(d.environment[i][2])
                       THEN {Refusal(place[1], place[2], "ValueGrammar")} ELSE {}
<1>1. KeyRefusals(d, i) = IF i \notin shaped THEN ofShape ELSE ofKey \union ofValue
  BY DEF KeyRefusals
<1>2. ofShape # {} /\ NamesNoSize(ofShape)
  BY RefusalIs DEF NamesNoSize
<1>3. (ofKey = {} <=> CanonicalKey(key) /\ ~earlier) /\ NamesNoSize(ofKey)
  <2>. HIDE DEF key, place, earlier
  <2>. QED  BY RefusalIs DEF NamesNoSize
<1>4. (ofValue = {} <=> (i <= n => CanonicalValue(d.environment[i][2]))) /\ NamesNoSize(ofValue)
  <2>. HIDE DEF n, place
  <2>. QED  BY RefusalIs DEF NamesNoSize
<1>5. earlier <=> ~(\A j \in shaped : j < i => DeclaredKeys(d)[j] # DeclaredKeys(d)[i])
  <2>. HIDE DEF shaped
  <2>. QED  OBVIOUS
<1>. HIDE DEF ofShape, ofKey, ofValue, place, earlier
<1>6. NamesNoSize(KeyRefusals(d, i))
  BY <1>1, <1>2, <1>3, <1>4 DEF NamesNoSize
<1>7. KeyRefusals(d, i) = {} <=> i \in shaped /\ ofKey = {} /\ ofValue = {}
  BY <1>1, <1>2
<1>. QED  BY <1>3, <1>4, <1>5, <1>6, <1>7

(* Every line has its two halves, every key and value reads and no key is
   declared twice, exactly when no declaration is refused. *)
LEMMA EnvironmentMeansTheContract ==
    ASSUME NEW d, IsForm(d)
    PROVE  /\ EnvironmentRefusals(d) = {} <=> HoldsTheEnvironment(d)
           /\ NamesNoSize(EnvironmentRefusals(d))
<1>. DEFINE n == Len(d.environment)
            D == DeclaredKeys(d)
            shaped == {k \in DOMAIN D : k > n \/ Len(d.environment[k]) = 2}
            lines == TooLong("environment", d.environment, MaxEnvironmentLines)
            secrets == TooLong("secret_keys", d.secret_keys, MaxSecretKeys)
            keys == UNION {KeyRefusals(d, i) : i \in DOMAIN D}
<1>1. EnvironmentRefusals(d) = lines \union secrets \union keys
  BY DEF EnvironmentRefusals
<1>2. /\ n \in Nat /\ Len(d.secret_keys) \in Nat
      /\ MaxEnvironmentLines \in Nat /\ MaxSecretKeys \in Nat
  BY DEF IsForm, MaxEnvironmentLines, MaxSecretKeys
<1>3. (lines = {} <=> n <= MaxEnvironmentLines) /\ NamesNoSize(lines)
  BY <1>2, TooLongIs, Zenon
<1>4. (secrets = {} <=> Len(d.secret_keys) <= MaxSecretKeys) /\ NamesNoSize(secrets)
  BY <1>2, TooLongIs, Zenon
<1>5. /\ DOMAIN D = 1..(n + Len(d.secret_keys))
      /\ DOMAIN d.environment = 1..n /\ DOMAIN d.environment \subseteq DOMAIN D
  <2>1. d.environment \in Seq(Seq(STRING)) /\ d.secret_keys \in Seq(STRING)
    BY DEF IsForm
  <2>2. DOMAIN d.environment = 1..n
    BY <2>1
  <2>. DEFINE firsts == [i \in DOMAIN d.environment |-> d.environment[i][1]]
  <2>3. firsts \in Seq({firsts[i] : i \in 1..n}) /\ Len(firsts) = n
    BY <1>2, <2>2
  <2>4. D = firsts \o d.secret_keys
    BY DEF DeclaredKeys
  <2>. HIDE DEF firsts, D, n
  <2>5. PICK S : S = {firsts[i] : i \in 1..n} \union STRING
    OBVIOUS
  <2>6. firsts \in Seq(S) /\ d.secret_keys \in Seq(S)
    BY <2>1, <2>3, <2>5
  <2>7. DOMAIN D = 1..(n + Len(d.secret_keys))
    BY <2>3, <2>4, <2>6
  <2>. QED  BY <1>2, <2>2, <2>7
<1>6. keys = {} <=> \A i \in DOMAIN D : KeyRefusals(d, i) = {}
  <2>. HIDE DEF D
  <2>. QED  OBVIOUS
<1>7. NamesNoSize(keys)
  BY KeyMeansTheContract DEF NamesNoSize
<1>8. \A i \in DOMAIN D :
         KeyRefusals(d, i) = {}
            <=> /\ i \in shaped
                /\ CanonicalKey(D[i])
                /\ \A j \in shaped : j < i => D[j] # D[i]
                /\ i <= n => CanonicalValue(d.environment[i][2])
  BY KeyMeansTheContract
<1>9. HoldsTheEnvironment(d)
         <=> /\ n <= MaxEnvironmentLines /\ Len(d.secret_keys) <= MaxSecretKeys
             /\ \A i \in DOMAIN d.environment :
                   Len(d.environment[i]) = 2 /\ CanonicalValue(d.environment[i][2])
             /\ \A i \in DOMAIN D : CanonicalKey(D[i])
             /\ \A i, j \in DOMAIN D : i < j => D[i] # D[j]
  BY DEF HoldsTheEnvironment
<1>10. \A i \in DOMAIN D : i \in shaped <=> (i <= n => Len(d.environment[i]) = 2)
  <2>. HIDE DEF D, n
  <2>. QED  BY <1>2, <1>5
<1>11. \A i \in DOMAIN D : i \in DOMAIN d.environment <=> i <= n
  <2>. HIDE DEF D, n
  <2>. QED  BY <1>2, <1>5
<1>. HIDE DEF n, D, shaped, lines, secrets, keys
<1>12. EnvironmentRefusals(d) = {} <=> lines = {} /\ secrets = {} /\ keys = {}
  BY <1>1
<1>13. NamesNoSize(EnvironmentRefusals(d))
  BY <1>1, <1>3, <1>4, <1>7 DEF NamesNoSize
<1>14. shaped \subseteq DOMAIN D
  BY DEF shaped
<1>15. ASSUME keys = {} PROVE HoldsTheEnvironment(d) <=> lines = {} /\ secrets = {}
  <2>1. \A i \in DOMAIN D : /\ i \in shaped /\ CanonicalKey(D[i])
                            /\ \A j \in shaped : j < i => D[j] # D[i]
                            /\ i <= n => CanonicalValue(d.environment[i][2])
    BY <1>6, <1>8, <1>15
  <2>2. \A i \in DOMAIN d.environment :
           Len(d.environment[i]) = 2 /\ CanonicalValue(d.environment[i][2])
    BY <1>5, <1>10, <1>11, <2>1
  <2>3. \A i, j \in DOMAIN D : i < j => D[i] # D[j]
    BY <2>1
  <2>. QED  BY <1>3, <1>4, <1>9, <2>1, <2>2, <2>3
<1>16. ASSUME HoldsTheEnvironment(d) PROVE keys = {}
  <2>1. \A i \in DOMAIN D : i \in shaped /\ (i <= n => CanonicalValue(d.environment[i][2]))
    BY <1>9, <1>10, <1>11, <1>16
  <2>2. \A i \in DOMAIN D : KeyRefusals(d, i) = {}
    BY <1>8, <1>9, <1>14, <1>16, <2>1
  <2>. QED  BY <1>6, <2>2
<1>17. HoldsTheEnvironment(d) => lines = {} /\ secrets = {}
  BY <1>3, <1>4, <1>9
<1>. QED  BY <1>12, <1>13, <1>15, <1>16, <1>17

LEMMA ReviewIsTheContract ==
    ASSUME NEW d, IsForm(d)
    PROVE  /\ (Refusals(d) = {}) <=> Encodes(d)
           /\ (\E r \in Refusals(d) : r.why = "DocumentTooLarge")
                 => EncodedBytes(d) > MaxDefinitionBytes
<1>. DEFINE named == HeadRefusals(d) \union MountRefusals(d) \union EnvironmentRefusals(d)
            size == {Refusal("document", WholeField, "DocumentTooLarge")}
<1>1. Refusals(d) = IF named = {} /\ ~Encodes(d) THEN size ELSE named
  BY DEF Refusals
<1>2. named = {} <=> HoldsTheContract(d)
  BY HeadMeansTheContract, MountsMeanTheContract, EnvironmentMeansTheContract
     DEF HoldsTheContract
<1>3. NamesNoSize(named)
  BY HeadMeansTheContract, MountsMeanTheContract, EnvironmentMeansTheContract DEF NamesNoSize
<1>4. size # {}
  OBVIOUS
<1>. HIDE DEF named, size
<1>5. Refusals(d) = {} <=> Encodes(d)
  BY <1>1, <1>2, <1>4 DEF Encodes
<1>6. ASSUME \E r \in Refusals(d) : r.why = "DocumentTooLarge"
      PROVE  EncodedBytes(d) > MaxDefinitionBytes
  <2>1. named = {} /\ ~Encodes(d)
    BY <1>1, <1>3, <1>6 DEF NamesNoSize
  <2>2. ~(EncodedBytes(d) <= MaxDefinitionBytes)
    BY <1>2, <2>1 DEF Encodes
  <2>. QED  BY <2>2 DEF IsForm, MaxDefinitionBytes
<1>. QED  BY <1>5, <1>6

(* A review is of a document of the form. *)
ReviewIsOfAForm ==
    review # None => \E draft \in Drafts : LET d == Document(draft)
                                           IN /\ review.document = d
                                              /\ review.refusals = Refusals(d)

LEMMA ReviewInit == Init => ReviewIsOfAForm
BY DEF Init, ReviewIsOfAForm

LEMMA ReviewStep == ReviewIsOfAForm /\ [Next]_vars => ReviewIsOfAForm'
<1>. SUFFICES ASSUME ReviewIsOfAForm, [Next]_vars PROVE ReviewIsOfAForm'
  OBVIOUS
<1>1. ASSUME NEW draft \in Drafts, ReviewServiceDefinition(draft) PROVE ReviewIsOfAForm'
  BY <1>1 DEF ReviewServiceDefinition, ReviewIsOfAForm
<1>2. CASE UNCHANGED review
  BY <1>2 DEF ReviewIsOfAForm
<1>. QED
  BY <1>1, <1>2 DEF Next, vars, PasteServiceDefinition, FreezeServiceDefinition,
     ReadServiceDefinitions, ReadPlanPair, OpenPlanConsent, AnswerWindow, PlanConsentStatus,
     CancelPlanConsent, Lapse, SubmitPlanDecision

(* A review names no fault exactly when the mirror encodes the document, and
   blames its size only when its size is the fault (service_definition.rs,
   refusals against holds_the_contract), whatever the form holds. *)
THEOREM RefusalsAreAlwaysTheContract == Spec => []RefusalsAreTheContract
<1>1. ReviewIsOfAForm => RefusalsAreTheContract
  <2>. SUFFICES ASSUME ReviewIsOfAForm, review # None
                PROVE  /\ (review.refusals = {}) = Encodes(review.document)
                       /\ (\E r \in review.refusals : r.why = "DocumentTooLarge")
                             => EncodedBytes(review.document) > MaxDefinitionBytes
    BY DEF RefusalsAreTheContract
  <2>1. PICK draft \in Drafts : /\ review.document = Document(draft)
                                /\ review.refusals = Refusals(Document(draft))
    BY DEF ReviewIsOfAForm
  <2>2. IsForm(Document(draft))
    BY DraftsAreForms DEF IsForm
  <2>3. Encodes(Document(draft)) \in BOOLEAN
    BY DEF Encodes
  <2>. QED  BY <2>1, <2>2, <2>3, ReviewIsTheContract
<1>2. Spec => []ReviewIsOfAForm
  BY ReviewInit, ReviewStep, PTL DEF Spec
<1>. QED  BY <1>1, <1>2, PTL

-----------------------------------------------------------------------------
(***************************************************************************)
(* What the text of a window tells. The lines of a group name every field  *)
(* of the group, an image by the text its reference is written as; the     *)
(* opening lines name the machine and the operation, which is of one       *)
(* schema; and the transcript of a document, with that of what undoes it,  *)
(* is made of those fields.                                                *)
(***************************************************************************)

\* A list is one of its own elements.
IsList(s) == s \in Seq({s[i] : i \in DOMAIN s})

LEMMA Listed ==
    ASSUME NEW T, NEW s \in Seq(T)
    PROVE  IsList(s)
BY DEF IsList

\* One field of two documents reads the same: a reference is the text it is
\* written as.
SameField(a, b, field) ==
    IF field = "image_reference" THEN Joined(a.image_reference, "/") = Joined(b.image_reference, "/")
    ELSE a[field] = b[field]

SamePort(p, q) == ToString(p) = ToString(q) => p = q

\* Two lines that are the same carry the same value.
LEMMA SayingTells == ASSUME NEW text, NEW u, NEW v, Saying(text, u) = Saying(text, v) PROVE u = v
<1>1. Saying(text, u).value = u /\ Saying(text, v).value = v
  BY DEF Saying, Line
<1>. QED  BY <1>1, Zenon

LEMMA CountingTells ==
    ASSUME NEW text, NEW p, NEW q, SamePort(p, q), Counting(text, p) = Counting(text, q)
    PROVE  p = q
BY SayingTells DEF Counting, SamePort

LEMMA FingerprintTells ==
    ASSUME NEW text, NEW u, NEW v, Fingerprint(text, u) = Fingerprint(text, v) PROVE u = v
<1>1. Fingerprint(text, u).value = u /\ Fingerprint(text, v).value = v
  BY DEF Fingerprint, Line
<1>. QED  BY <1>1, Zenon

LEMMA ServiceNameTells ==
    ASSUME NEW u, NEW v, ServiceNameLine(u) = ServiceNameLine(v) PROVE u = v
<1>1. ServiceNameLine(u).value = u /\ ServiceNameLine(v).value = v
  BY DEF ServiceNameLine, Saying, Line
<1>. QED  BY <1>1, Zenon

LEMMA LineTells ==
    ASSUME NEW texts, NEW u, NEW v, NEW columns, Line(texts, u, columns) = Line(texts, v, columns)
    PROVE  u = v
<1>1. Line(texts, u, columns).value = u /\ Line(texts, v, columns).value = v
  BY DEF Line
<1>. QED  BY <1>1, Zenon

\* The line of an origin, or the one that says there is none.
OriginLine(d) ==
    IF d.origin_host = "" THEN Fixed("no_origin") ELSE Saying("carried_origin", d.origin_host)

LEMMA OriginTells ==
    ASSUME NEW a, NEW b, OriginLine(a) = OriginLine(b) PROVE a.origin_host = b.origin_host
<1>1. /\ Fixed("no_origin").texts = <<"no_origin">>
      /\ Saying("carried_origin", a.origin_host).texts = <<"carried_origin">>
      /\ Saying("carried_origin", b.origin_host).texts = <<"carried_origin">>
  BY DEF Fixed, Saying, Line
<1>2. <<"no_origin">> # <<"carried_origin">>
  OBVIOUS
<1>3. (a.origin_host = "") <=> (b.origin_host = "")
  BY <1>1, <1>2, Zenon DEF OriginLine
<1>. QED  BY <1>3, SayingTells, Zenon DEF OriginLine

\* The lines of each group, and the fields they tell.
LEMMA OciProbeReads ==
    ASSUME NEW a, NEW b, SamePort(a.local_port, b.local_port)
    PROVE  /\ IsList(OciProbeLines(a))
           /\ OciProbeLines(a) = OciProbeLines(b)
                 => \A field \in OciProbeFields : SameField(a, b, field)
<1>. DEFINE T == {Saying("image", Joined(a.image_reference, "/")),
                   Fingerprint("image_digest", a.image_digest),
                   Counting("local_port", a.local_port)}
<1>1. OciProbeLines(a) \in Seq(T)
  BY DEF OciProbeLines, ImageLines
<1>2. ASSUME OciProbeLines(a) = OciProbeLines(b)
      PROVE  \A field \in OciProbeFields : SameField(a, b, field)
  <2>1. /\ Saying("image", Joined(a.image_reference, "/"))
           = Saying("image", Joined(b.image_reference, "/"))
        /\ Fingerprint("image_digest", a.image_digest) = Fingerprint("image_digest", b.image_digest)
        /\ Counting("local_port", a.local_port) = Counting("local_port", b.local_port)
    BY <1>2 DEF OciProbeLines, ImageLines
  <2>. QED  BY <2>1, SayingTells, FingerprintTells, CountingTells DEF SameField, OciProbeFields
<1>. QED  BY <1>1, <1>2, Listed, Zenon

LEMMA WebServiceReads ==
    ASSUME NEW a, NEW b, SamePort(a.local_port, b.local_port)
    PROVE  /\ IsList(WebServiceLines(a))
           /\ WebServiceLines(a) = WebServiceLines(b)
                 => \A field \in WebServiceFields : SameField(a, b, field)
<1>. DEFINE T == {ServiceNameLine(a.service_profile),
                   Saying("image", Joined(a.image_reference, "/")),
                   Fingerprint("image_digest", a.image_digest),
                   Counting("local_port", a.local_port)}
<1>1. WebServiceLines(a) \in Seq(T)
  BY DEF WebServiceLines, ImageLines
<1>2. ASSUME WebServiceLines(a) = WebServiceLines(b)
      PROVE  \A field \in WebServiceFields : SameField(a, b, field)
  <2>1. /\ ServiceNameLine(a.service_profile) = ServiceNameLine(b.service_profile)
        /\ Saying("image", Joined(a.image_reference, "/"))
           = Saying("image", Joined(b.image_reference, "/"))
        /\ Fingerprint("image_digest", a.image_digest) = Fingerprint("image_digest", b.image_digest)
        /\ Counting("local_port", a.local_port) = Counting("local_port", b.local_port)
    BY <1>2 DEF WebServiceLines, ImageLines
  <2>. QED  BY <2>1, ServiceNameTells, SayingTells, FingerprintTells, CountingTells
            DEF SameField, WebServiceFields
<1>. QED  BY <1>1, <1>2, Listed, Zenon

LEMMA EntrypointReads ==
    ASSUME NEW a, NEW b
    PROVE  /\ IsList(EntrypointLines(a))
           /\ EntrypointLines(a) = EntrypointLines(b)
                 => \A field \in EntrypointFields : SameField(a, b, field)
<1>. DEFINE T == {Saying("image", Joined(a.image_reference, "/")),
                   Fingerprint("image_digest", a.image_digest), Fixed("public_ports"),
                   Fixed("sysctl")}
<1>1. EntrypointLines(a) \in Seq(T)
  BY DEF EntrypointLines, ImageLines
<1>2. ASSUME EntrypointLines(a) = EntrypointLines(b)
      PROVE  \A field \in EntrypointFields : SameField(a, b, field)
  <2>1. /\ Saying("image", Joined(a.image_reference, "/"))
           = Saying("image", Joined(b.image_reference, "/"))
        /\ Fingerprint("image_digest", a.image_digest) = Fingerprint("image_digest", b.image_digest)
    BY <1>2 DEF EntrypointLines, ImageLines
  <2>. QED  BY <2>1, SayingTells, FingerprintTells DEF SameField, EntrypointFields
<1>. QED  BY <1>1, <1>2, Listed, Zenon

LEMMA RouteReads ==
    ASSUME NEW a, NEW b, SamePort(a.backend_port, b.backend_port)
    PROVE  /\ IsList(RouteLines(a))
           /\ RouteLines(a) = RouteLines(b)
                 => \A field \in RouteFields : SameField(a, b, field)
<1>. DEFINE T == {Saying("published", a.route_host), Counting("backend", a.backend_port),
                   Fixed("opener_policy"), Fixed("embedder_policy")}
<1>1. RouteLines(a) \in Seq(T)
  BY DEF RouteLines
<1>2. ASSUME RouteLines(a) = RouteLines(b)
      PROVE  \A field \in RouteFields : SameField(a, b, field)
  <2>1. /\ Saying("published", a.route_host) = Saying("published", b.route_host)
        /\ Counting("backend", a.backend_port) = Counting("backend", b.backend_port)
    BY <1>2 DEF RouteLines
  <2>. QED  BY <2>1, SayingTells, CountingTells DEF SameField, RouteFields
<1>. QED  BY <1>1, <1>2, Listed, Zenon

LEMMA PrivateServiceReads ==
    ASSUME NEW a, NEW b, SamePort(a.local_port, b.local_port)
    PROVE  /\ IsList(PrivateServiceLines(a))
           /\ PrivateServiceLines(a) = PrivateServiceLines(b)
                 => \A field \in PrivateServiceFields : SameField(a, b, field)
<1>. DEFINE T == {ServiceNameLine(a.service_profile),
                   Saying("image", Joined(a.image_reference, "/")),
                   Fingerprint("image_digest", a.image_digest),
                   Counting("local_port", a.local_port), Saying("origin", a.origin_host),
                   Fixed("volume"), Fixed("signups"), Fixed("invitations"),
                   Fixed("password_hint"), Saying("domain", a.origin_host), Fixed("egress")}
<1>1. PrivateServiceLines(a) \in Seq(T)
  BY DEF PrivateServiceLines, ImageLines
<1>2. ASSUME PrivateServiceLines(a) = PrivateServiceLines(b)
      PROVE  \A field \in PrivateServiceFields : SameField(a, b, field)
  <2>1. /\ ServiceNameLine(a.service_profile) = ServiceNameLine(b.service_profile)
        /\ Saying("image", Joined(a.image_reference, "/"))
           = Saying("image", Joined(b.image_reference, "/"))
        /\ Fingerprint("image_digest", a.image_digest) = Fingerprint("image_digest", b.image_digest)
        /\ Counting("local_port", a.local_port) = Counting("local_port", b.local_port)
        /\ Saying("origin", a.origin_host) = Saying("origin", b.origin_host)
    BY <1>2 DEF PrivateServiceLines, ImageLines
  <2>. QED  BY <2>1, ServiceNameTells, SayingTells, FingerprintTells, CountingTells
            DEF SameField, PrivateServiceFields
<1>. QED  BY <1>1, <1>2, Listed, Zenon

LEMMA LinkRouteReads ==
    ASSUME NEW a, NEW b, SamePort(a.backend_port, b.backend_port)
    PROVE  /\ IsList(LinkRouteLines(a))
           /\ LinkRouteLines(a) = LinkRouteLines(b)
                 => \A field \in LinkRouteFields : SameField(a, b, field)
<1>. DEFINE T == {Saying("published", a.route_host), Counting("link_backend", a.backend_port),
                   Fixed("outage")}
<1>1. LinkRouteLines(a) \in Seq(T)
  BY DEF LinkRouteLines
<1>2. ASSUME LinkRouteLines(a) = LinkRouteLines(b)
      PROVE  \A field \in LinkRouteFields : SameField(a, b, field)
  <2>1. /\ Saying("published", a.route_host) = Saying("published", b.route_host)
        /\ Counting("link_backend", a.backend_port) = Counting("link_backend", b.backend_port)
    BY <1>2 DEF LinkRouteLines
  <2>. QED  BY <2>1, SayingTells, CountingTells DEF SameField, LinkRouteFields
<1>. QED  BY <1>1, <1>2, Listed, Zenon

LEMMA SnapshotReads ==
    ASSUME NEW a, NEW b
    PROVE  /\ IsList(SnapshotLines(a))
           /\ SnapshotLines(a) = SnapshotLines(b)
                 => \A field \in SnapshotFields : SameField(a, b, field)
<1>. DEFINE T == {ServiceNameLine(a.service_profile), Saying("slot", a.snapshot_slot),
                   Fixed(IF a.operation = "snapshot_service" THEN "immutable" ELSE "recreated")}
<1>1. SnapshotLines(a) \in Seq(T)
  BY DEF SnapshotLines
<1>2. ASSUME SnapshotLines(a) = SnapshotLines(b)
      PROVE  \A field \in SnapshotFields : SameField(a, b, field)
  <2>1. /\ ServiceNameLine(a.service_profile) = ServiceNameLine(b.service_profile)
        /\ Saying("slot", a.snapshot_slot) = Saying("slot", b.snapshot_slot)
    BY <1>2 DEF SnapshotLines
  <2>. QED  BY <2>1, ServiceNameTells, SayingTells DEF SameField, SnapshotFields
<1>. QED  BY <1>1, <1>2, Listed, Zenon

LEMMA RestoreReads ==
    ASSUME NEW a, NEW b
    PROVE  /\ IsList(RestoreLines(a))
           /\ RestoreLines(a) = RestoreLines(b)
                 => \A field \in RestoreFields : SameField(a, b, field)
<1>. DEFINE T == {ServiceNameLine(a.service_profile), Saying("restored", a.snapshot_slot),
                   Fixed("return")}
<1>1. RestoreLines(a) \in Seq(T)
  BY DEF RestoreLines
<1>2. ASSUME RestoreLines(a) = RestoreLines(b)
      PROVE  \A field \in RestoreFields : SameField(a, b, field)
  <2>1. /\ ServiceNameLine(a.service_profile) = ServiceNameLine(b.service_profile)
        /\ Saying("restored", a.snapshot_slot) = Saying("restored", b.snapshot_slot)
    BY <1>2 DEF RestoreLines
  <2>. QED  BY <2>1, ServiceNameTells, SayingTells DEF SameField, RestoreFields
<1>. QED  BY <1>1, <1>2, Listed, Zenon

LEMMA UserServiceReads ==
    ASSUME NEW a, NEW b, SamePort(a.local_port, b.local_port)
    PROVE  /\ IsList(UserServiceLines(a))
           /\ UserServiceLines(a) = UserServiceLines(b)
                 => \A field \in UserServiceFields : SameField(a, b, field)
<1>. DEFINE T == {Saying("defined", a.definition_slug),
                   Fingerprint("revision", a.definition_digest),
                   Saying("image", Joined(a.image_reference, "/")),
                   Fingerprint("image_digest", a.image_digest),
                   Counting("local_port", a.local_port), OriginLine(a), Fixed("decides")}
<1>0. /\ UserServiceLines(a)
           = <<Saying("defined", a.definition_slug), Fingerprint("revision", a.definition_digest)>>
             \o ImageLines(a) \o <<Counting("local_port", a.local_port), OriginLine(a), Fixed("decides")>>
      /\ UserServiceLines(b)
           = <<Saying("defined", b.definition_slug), Fingerprint("revision", b.definition_digest)>>
             \o ImageLines(b) \o <<Counting("local_port", b.local_port), OriginLine(b), Fixed("decides")>>
  BY Zenon DEF UserServiceLines, OriginLine
<1>1. UserServiceLines(a) \in Seq(T)
  BY <1>0 DEF ImageLines
<1>2. ASSUME UserServiceLines(a) = UserServiceLines(b)
      PROVE  \A field \in UserServiceFields : SameField(a, b, field)
  <2>1. /\ Saying("defined", a.definition_slug) = Saying("defined", b.definition_slug)
        /\ Fingerprint("revision", a.definition_digest)
           = Fingerprint("revision", b.definition_digest)
        /\ Saying("image", Joined(a.image_reference, "/"))
           = Saying("image", Joined(b.image_reference, "/"))
        /\ Fingerprint("image_digest", a.image_digest) = Fingerprint("image_digest", b.image_digest)
        /\ Counting("local_port", a.local_port) = Counting("local_port", b.local_port)
        /\ OriginLine(a) = OriginLine(b)
    BY <1>0, <1>2 DEF ImageLines
  <2>. QED  BY <2>1, SayingTells, FingerprintTells, CountingTells, OriginTells
            DEF SameField, UserServiceFields
<1>. QED  BY <1>1, <1>2, Listed, Zenon

LEMMA LinkReads ==
    ASSUME NEW a, NEW b
    PROVE  /\ IsList(LinkLines(a))
           /\ LinkLines(a) = LinkLines(b)
                 => \A field \in LinkFields : SameField(a, b, field)
<1>. DEFINE T == {Line(<<"role", a.link_role>>, "", 0), Line(<<"tunnel">>, a.link_role, 0),
                   Fixed(IF a.link_role = "listener" THEN "listen" ELSE "keepalive"),
                   Fixed("keys")}
<1>1. LinkLines(a) \in Seq(T)
  BY DEF LinkLines
<1>2. ASSUME LinkLines(a) = LinkLines(b)
      PROVE  \A field \in LinkFields : SameField(a, b, field)
  <2>1. /\ Line(<<"tunnel">>, a.link_role, 0) = Line(<<"tunnel">>, b.link_role, 0)
    BY <1>2 DEF LinkLines
  <2>. QED  BY <2>1, LineTells DEF SameField, LinkFields
<1>. QED  BY <1>1, <1>2, Listed, Zenon

LEMMA ListenerPeerReads ==
    ASSUME NEW a, NEW b, SamePort(a.service_port, b.service_port)
    PROVE  /\ IsList(ListenerPeerLines(a))
           /\ ListenerPeerLines(a) = ListenerPeerLines(b)
                 => \A field \in ListenerPeerFields : SameField(a, b, field)
<1>. DEFINE T == {Line(<<"peer">>, a.peer_public_key, PeerKeyColumns),
                   Counting("service_port", a.service_port),
                   Counting("flow_to", a.service_port), Fixed("table")}
<1>1. ListenerPeerLines(a) \in Seq(T)
  BY DEF ListenerPeerLines
<1>2. ASSUME ListenerPeerLines(a) = ListenerPeerLines(b)
      PROVE  \A field \in ListenerPeerFields : SameField(a, b, field)
  <2>1. /\ Line(<<"peer">>, a.peer_public_key, PeerKeyColumns)
           = Line(<<"peer">>, b.peer_public_key, PeerKeyColumns)
        /\ Counting("service_port", a.service_port) = Counting("service_port", b.service_port)
        /\ Counting("flow_to", a.service_port) = Counting("flow_to", b.service_port)
    BY <1>2 DEF ListenerPeerLines
  <2>. QED  BY <2>1, CountingTells, LineTells DEF SameField, ListenerPeerFields
<1>. QED  BY <1>1, <1>2, Listed, Zenon

LEMMA InitiatorPeerReads ==
    ASSUME NEW a, NEW b, SamePort(a.service_port, b.service_port)
    PROVE  /\ IsList(InitiatorPeerLines(a))
           /\ InitiatorPeerLines(a) = InitiatorPeerLines(b)
                 => \A field \in InitiatorPeerFields : SameField(a, b, field)
<1>. DEFINE T == {Line(<<"peer">>, a.peer_public_key, PeerKeyColumns),
                   Saying("endpoint", a.peer_endpoint_host),
                   Counting("service_port", a.service_port), Fixed("flow_from"), Fixed("table")}
<1>1. InitiatorPeerLines(a) \in Seq(T)
  BY DEF InitiatorPeerLines
<1>2. ASSUME InitiatorPeerLines(a) = InitiatorPeerLines(b)
      PROVE  \A field \in InitiatorPeerFields : SameField(a, b, field)
  <2>1. /\ Line(<<"peer">>, a.peer_public_key, PeerKeyColumns)
           = Line(<<"peer">>, b.peer_public_key, PeerKeyColumns)
        /\ Saying("endpoint", a.peer_endpoint_host) = Saying("endpoint", b.peer_endpoint_host)
        /\ Counting("service_port", a.service_port) = Counting("service_port", b.service_port)
    BY <1>2 DEF InitiatorPeerLines
  <2>. QED  BY <2>1, SayingTells, CountingTells, LineTells DEF SameField, InitiatorPeerFields
<1>. QED  BY <1>1, <1>2, Listed, Zenon

(***************************************************************************)
(* A document that was decoded: its operation is of its schema, and it has *)
(* the fields of its group, which hold.                                    *)
(***************************************************************************)
Groups1 == {"OciProbe"}
Groups2 == {"WebService", "Entrypoint", "Route", "PrivateService", "LinkRoute", "Snapshot", "Restore",
            "UserService"}
Groups3 == {"Link", "ListenerPeer", "InitiatorPeer"}

DecodedDocument(d) ==
    /\ \/ d.schema_version = 1 /\ GroupOf(d) \in Groups1
       \/ d.schema_version = 2 /\ GroupOf(d) \in Groups2
       \/ d.schema_version = 3 /\ GroupOf(d) \in Groups3
    /\ d.operation \in DOMAIN GroupsOf(d.schema_version)
    /\ DOMAIN d = HeadFields \union FieldsOf(GroupOf(d))
    /\ GroupHolds(d)

LEMMA GroupsOfSchemas ==
    /\ GroupsOf(1) = GroupV1 /\ GroupsOf(2) = GroupV2 /\ GroupsOf(3) = GroupV3
    /\ \A o \in DOMAIN GroupV1 : GroupV1[o] \in Groups1
    /\ \A o \in DOMAIN GroupV2 : GroupV2[o] \in Groups2
    /\ \A o \in DOMAIN GroupV3 : GroupV3[o] \in Groups3
<1>1. GroupsOf(1) = GroupV1 /\ GroupsOf(2) = GroupV2 /\ GroupsOf(3) = GroupV3
  BY DEF GroupsOf
<1>2. \A o \in DOMAIN GroupV1 : GroupV1[o] \in Groups1
  BY DEF GroupV1, Groups1
<1>3. \A o \in DOMAIN GroupV2 : GroupV2[o] \in Groups2
  BY DEF GroupV2, Groups2
<1>4. \A o \in DOMAIN GroupV3 : GroupV3[o] \in Groups3
  BY DEF GroupV3, Groups3
<1>. QED  BY <1>1, <1>2, <1>3, <1>4

\* An operation is of one schema.
LEMMA SchemasApart ==
    ASSUME NEW m \in {1, 2, 3}, NEW n \in {1, 2, 3}, NEW o, o \in DOMAIN GroupsOf(m), o \in DOMAIN GroupsOf(n)
    PROVE  m = n
<1>1. DOMAIN GroupV1 \intersect DOMAIN GroupV2 = {}
  BY DEF GroupV1, GroupV2
<1>2. DOMAIN GroupV1 \intersect DOMAIN GroupV3 = {}
  BY DEF GroupV1, GroupV3
<1>3. DOMAIN GroupV2 \intersect DOMAIN GroupV3 = {}
  BY DEF GroupV2, GroupV3
<1>. QED  BY <1>1, <1>2, <1>3, GroupsOfSchemas

(***************************************************************************)
(* Two documents that read the same, field by field.                       *)
(***************************************************************************)
SameDocument(a, b) ==
    /\ DOMAIN a = DOMAIN b
    /\ \A field \in DOMAIN a : SameField(a, b, field)

LEMMA HeadReads ==
    ASSUME NEW a, NEW b, DecodedDocument(a), SameDocument(a, b)
    PROVE  /\ a.schema_version = b.schema_version /\ a.infrastructure_id = b.infrastructure_id
           /\ a.machine_id = b.machine_id /\ a.operation = b.operation /\ GroupOf(a) = GroupOf(b)
<1>1. /\ "schema_version" \in DOMAIN a /\ "infrastructure_id" \in DOMAIN a
      /\ "machine_id" \in DOMAIN a /\ "operation" \in DOMAIN a
  BY DEF DecodedDocument, HeadFields
<1>2. /\ SameField(a, b, "schema_version") /\ SameField(a, b, "infrastructure_id")
      /\ SameField(a, b, "machine_id") /\ SameField(a, b, "operation")
  BY <1>1, Zenon DEF SameDocument
<1>3. /\ a.schema_version = b.schema_version /\ a.infrastructure_id = b.infrastructure_id
      /\ a.machine_id = b.machine_id /\ a.operation = b.operation
  BY <1>2 DEF SameField
<1>. QED  BY <1>3 DEF GroupOf

\* What a transcript ends with is made of the fields of the group.
LEMMA SameTails ==
    ASSUME NEW a, NEW b
    PROVE  /\ (\A f \in OciProbeFields : SameField(a, b, f)) => OciProbeTail(a) = OciProbeTail(b)
           /\ (\A f \in WebServiceFields : SameField(a, b, f)) => WebServiceTail(a) = WebServiceTail(b)
           /\ (\A f \in EntrypointFields : SameField(a, b, f)) => EntrypointTail(a) = EntrypointTail(b)
           /\ (\A f \in RouteFields : SameField(a, b, f)) => RouteTail(a) = RouteTail(b)
           /\ (\A f \in PrivateServiceFields : SameField(a, b, f))
                 => PrivateServiceTail(a) = PrivateServiceTail(b)
           /\ (\A f \in LinkRouteFields : SameField(a, b, f)) => LinkRouteTail(a) = LinkRouteTail(b)
           /\ (\A f \in SnapshotFields : SameField(a, b, f)) => SnapshotTail(a) = SnapshotTail(b)
           /\ (\A f \in RestoreFields : SameField(a, b, f)) => RestoreTail(a) = RestoreTail(b)
           /\ (\A f \in UserServiceFields : SameField(a, b, f)) => UserServiceTail(a) = UserServiceTail(b)
           /\ (\A f \in LinkFields : SameField(a, b, f)) => LinkTail(a) = LinkTail(b)
           /\ (\A f \in ListenerPeerFields : SameField(a, b, f)) => ListenerPeerTail(a) = ListenerPeerTail(b)
           /\ (\A f \in InitiatorPeerFields : SameField(a, b, f))
                 => InitiatorPeerTail(a) = InitiatorPeerTail(b)
<1>1. (\A f \in OciProbeFields : SameField(a, b, f)) => OciProbeTail(a) = OciProbeTail(b)
  BY DEF OciProbeFields, OciProbeTail, Repository, SameField
<1>2. (\A f \in WebServiceFields : SameField(a, b, f)) => WebServiceTail(a) = WebServiceTail(b)
  BY DEF WebServiceFields, WebServiceTail, Repository, SameField
<1>3. (\A f \in EntrypointFields : SameField(a, b, f)) => EntrypointTail(a) = EntrypointTail(b)
  BY DEF EntrypointFields, EntrypointTail, Repository, SameField
<1>4. (\A f \in RouteFields : SameField(a, b, f)) => RouteTail(a) = RouteTail(b)
  BY DEF RouteFields, RouteTail, SameField
<1>5. (\A f \in PrivateServiceFields : SameField(a, b, f)) => PrivateServiceTail(a) = PrivateServiceTail(b)
  BY DEF PrivateServiceFields, PrivateServiceTail, Repository, SameField
<1>6. (\A f \in LinkRouteFields : SameField(a, b, f)) => LinkRouteTail(a) = LinkRouteTail(b)
  BY DEF LinkRouteFields, LinkRouteTail, SameField
<1>7. (\A f \in SnapshotFields : SameField(a, b, f)) => SnapshotTail(a) = SnapshotTail(b)
  BY DEF SnapshotFields, SnapshotTail, SameField
<1>8. (\A f \in RestoreFields : SameField(a, b, f)) => RestoreTail(a) = RestoreTail(b)
  BY DEF RestoreFields, RestoreTail, SameField
<1>9. (\A f \in UserServiceFields : SameField(a, b, f)) => UserServiceTail(a) = UserServiceTail(b)
  BY DEF UserServiceFields, UserServiceTail, Repository, SameField
<1>10. (\A f \in LinkFields : SameField(a, b, f)) => LinkTail(a) = LinkTail(b)
  BY DEF LinkFields, LinkTail, SameField
<1>11. (\A f \in ListenerPeerFields : SameField(a, b, f)) => ListenerPeerTail(a) = ListenerPeerTail(b)
  BY DEF ListenerPeerFields, ListenerPeerTail, SameField
<1>12. (\A f \in InitiatorPeerFields : SameField(a, b, f)) => InitiatorPeerTail(a) = InitiatorPeerTail(b)
  BY DEF InitiatorPeerFields, InitiatorPeerTail, SameField
<1>. QED  BY <1>1, <1>2, <1>3, <1>4, <1>5, <1>6, <1>7, <1>8, <1>9, <1>10, <1>11, <1>12, Zenon

\* The fields of a group are those of a document of the group.
LEMMA FieldsIs ==
    /\ FieldsOf("OciProbe") = OciProbeFields /\ FieldsOf("WebService") = WebServiceFields
    /\ FieldsOf("Entrypoint") = EntrypointFields /\ FieldsOf("Route") = RouteFields
    /\ FieldsOf("PrivateService") = PrivateServiceFields /\ FieldsOf("LinkRoute") = LinkRouteFields
    /\ FieldsOf("Snapshot") = SnapshotFields /\ FieldsOf("Restore") = RestoreFields
    /\ FieldsOf("UserService") = UserServiceFields /\ FieldsOf("Link") = LinkFields
    /\ FieldsOf("ListenerPeer") = ListenerPeerFields /\ FieldsOf("InitiatorPeer") = InitiatorPeerFields
BY DEF FieldsOf

LEMMA SameDigest ==
    ASSUME NEW a, NEW b, DecodedDocument(a), SameDocument(a, b)
    PROVE  Digest(a) = Digest(b)
<1>1. /\ a.schema_version = b.schema_version /\ a.infrastructure_id = b.infrastructure_id
      /\ a.machine_id = b.machine_id /\ a.operation = b.operation /\ GroupOf(a) = GroupOf(b)
  BY HeadReads
<1>2. \A domain : HeadTranscript(domain, a) = HeadTranscript(domain, b)
  BY <1>1 DEF HeadTranscript
<1>3. \A f \in FieldsOf(GroupOf(a)) : SameField(a, b, f)
  BY DEF DecodedDocument, SameDocument
<1>4. CASE a.schema_version = 1 /\ GroupOf(a) \in Groups1
  <2>1. OciProbeTail(a) = OciProbeTail(b)
    BY <1>3, <1>4, FieldsIs, SameTails DEF Groups1
  <2>. QED  BY <1>1, <1>2, <1>4, <2>1 DEF Digest, TranscriptV1, HeadV1
<1>5. CASE a.schema_version = 2 /\ GroupOf(a) \in Groups2
  <2>1. /\ GroupOf(a) = "WebService" => WebServiceTail(a) = WebServiceTail(b)
        /\ GroupOf(a) = "Entrypoint" => EntrypointTail(a) = EntrypointTail(b)
        /\ GroupOf(a) = "Route" => RouteTail(a) = RouteTail(b)
        /\ GroupOf(a) = "PrivateService" => PrivateServiceTail(a) = PrivateServiceTail(b)
        /\ GroupOf(a) = "LinkRoute" => LinkRouteTail(a) = LinkRouteTail(b)
        /\ GroupOf(a) = "Snapshot" => SnapshotTail(a) = SnapshotTail(b)
        /\ GroupOf(a) = "Restore" => RestoreTail(a) = RestoreTail(b)
        /\ GroupOf(a) = "UserService" => UserServiceTail(a) = UserServiceTail(b)
    BY <1>3, FieldsIs, SameTails
  <2>2. TranscriptV2(a) = TranscriptV2(b)
    BY <1>1, <1>2, <1>5, <2>1 DEF TranscriptV2, HeadV2, Groups2
  <2>. QED  BY <1>1, <1>5, <2>2 DEF Digest
<1>6. CASE a.schema_version = 3 /\ GroupOf(a) \in Groups3
  <2>1. /\ GroupOf(a) = "Link" => LinkTail(a) = LinkTail(b)
        /\ GroupOf(a) = "ListenerPeer" => ListenerPeerTail(a) = ListenerPeerTail(b)
        /\ GroupOf(a) = "InitiatorPeer" => InitiatorPeerTail(a) = InitiatorPeerTail(b)
    BY <1>3, FieldsIs, SameTails
  <2>2. TranscriptV3(a) = TranscriptV3(b)
    BY <1>1, <1>2, <1>6, <2>1 DEF TranscriptV3, HeadV3, Groups3
  <2>. QED  BY <1>1, <1>6, <2>2 DEF Digest
<1>. QED  BY <1>4, <1>5, <1>6 DEF DecodedDocument

\* What undoes two documents that read the same reads the same.
LEMMA SameInverse ==
    ASSUME NEW a, NEW b, DecodedDocument(a), SameDocument(a, b)
    PROVE  SameDocument(Inverted(a), Inverted(b))
<1>1. a.schema_version = b.schema_version /\ a.operation = b.operation /\ GroupOf(a) = GroupOf(b)
  BY HeadReads
<1>2. CASE GroupOf(a) = "Restore"
  <2>1. /\ Inverted(a) = [a EXCEPT !.snapshot_slot = ReservedSlot]
        /\ Inverted(b) = [b EXCEPT !.snapshot_slot = ReservedSlot]
    BY <1>1, <1>2 DEF Inverted, RestoreInverted
  <2>. QED  BY <2>1 DEF SameDocument, SameField
<1>3. CASE GroupOf(a) # "Restore"
  <2>1. PICK o : o = InverseOperation(a.schema_version, a.operation)
    OBVIOUS
  <2>2. /\ Inverted(a) = [a EXCEPT !.operation = o] /\ Inverted(b) = [b EXCEPT !.operation = o]
    BY <1>1, <1>3, <2>1 DEF Inverted
  <2>. QED  BY <2>2 DEF SameDocument, SameField
<1>. QED  BY <1>2, <1>3

\* The port of a document that holds is a port.
LEMMA PortsHold ==
    ASSUME NEW d, DecodedDocument(d)
    PROVE  /\ GroupOf(d) \in {"OciProbe", "WebService", "PrivateService", "UserService"} => d.local_port \in Ports
           /\ GroupOf(d) \in {"Route", "LinkRoute"} => d.backend_port \in Ports
           /\ GroupOf(d) \in {"ListenerPeer", "InitiatorPeer"} => d.service_port \in Ports
<1>1. GroupHolds(d)
  BY DEF DecodedDocument
<1>2. /\ GroupOf(d) = "OciProbe" => OciProbeHolds(d)
      /\ GroupOf(d) = "WebService" => WebServiceHolds(d)
      /\ GroupOf(d) = "PrivateService" => PrivateServiceHolds(d)
      /\ GroupOf(d) = "UserService" => UserServiceHolds(d)
      /\ GroupOf(d) = "Route" => RouteHolds(d)
      /\ GroupOf(d) = "LinkRoute" => LinkRouteHolds(d)
      /\ GroupOf(d) = "ListenerPeer" => ListenerPeerHolds(d)
      /\ GroupOf(d) = "InitiatorPeer" => InitiatorPeerHolds(d)
  BY <1>1 DEF GroupHolds
<1>. QED  BY <1>2, Zenon DEF OciProbeHolds, WebServiceHolds, PrivateServiceHolds, UserServiceHolds, RouteHolds,
             LinkRouteHolds, ListenerPeerHolds, InitiatorPeerHolds

(* Two lines, a list, three lines. *)
Between(w, T, m, o, G) ==
    /\ m \in T /\ o \in T /\ G \in Seq(T)
    /\ \E r, p, q \in T : w = <<m, o>> \o G \o <<r, p, q>>

\* Where the lines are.
LEMMA BetweenIs ==
    ASSUME NEW T, NEW m, NEW o, NEW G, NEW w, Between(w, T, m, o, G)
    PROVE  /\ w \in Seq(T) /\ Len(w) = Len(G) + 5 /\ Len(G) \in Nat
           /\ w[1] = m /\ w[2] = o
           /\ \A i \in 1..Len(G) : w[i + 2] = G[i]
BY DEF Between

LEMMA SameList ==
    ASSUME NEW T, NEW G \in Seq(T), NEW H \in Seq(T), Len(G) = Len(H), \A i \in 1..Len(G) : G[i] = H[i]
    PROVE  G = H
OBVIOUS

LEMMA SameBetween ==
    ASSUME NEW T, NEW m, NEW o, NEW G, NEW n, NEW u, NEW H,
           NEW v, NEW w, Between(v, T, m, o, G), Between(w, T, n, u, H),
           SubSeq(v, 1, Len(v) - 2) = SubSeq(w, 1, Len(w) - 2)
    PROVE  m = n /\ o = u /\ G = H
<1>1. /\ v \in Seq(T) /\ Len(v) = Len(G) + 5 /\ Len(G) \in Nat /\ v[1] = m /\ v[2] = o
      /\ \A i \in 1..Len(G) : v[i + 2] = G[i]
  BY BetweenIs
<1>2. /\ w \in Seq(T) /\ Len(w) = Len(H) + 5 /\ Len(H) \in Nat /\ w[1] = n /\ w[2] = u
      /\ \A i \in 1..Len(H) : w[i + 2] = H[i]
  BY BetweenIs
<1>3. PICK k, l : k = Len(v) - 2 /\ l = Len(w) - 2
  OBVIOUS
<1>4. PICK front : front = SubSeq(v, 1, k) /\ front = SubSeq(w, 1, l)
  BY <1>3
<1>5. k \in 0..Len(v) /\ l \in 0..Len(w)
  BY ONLY <1>1, <1>2, <1>3
<1>6. Len(front) = k /\ \A i \in 1..k : front[i] = v[i]
  <2>1. front = SubSeq(v, 1, k)
    BY <1>4
  <2>. QED  BY ONLY <1>1, <1>5, <2>1
<1>7. Len(front) = l /\ \A i \in 1..l : front[i] = w[i]
  <2>1. front = SubSeq(w, 1, l)
    BY <1>4
  <2>. QED  BY ONLY <1>2, <1>5, <2>1
<1>8. Len(G) = Len(H) /\ v[1] = w[1] /\ v[2] = w[2] /\ \A i \in 1..Len(G) : v[i + 2] = w[i + 2]
  <2>1. k = Len(G) + 3 /\ l = Len(H) + 3 /\ k = l /\ Len(G) = Len(H)
    BY ONLY <1>1, <1>2, <1>3, <1>6, <1>7
  <2>2. \A i \in 1..k : v[i] = w[i]
    BY ONLY <1>6, <1>7, <2>1
  <2>. QED  BY ONLY <1>1, <2>1, <2>2
<1>9. Len(G) = Len(H) /\ \A i \in 1..Len(G) : G[i] = H[i]
  BY ONLY <1>1, <1>2, <1>8
<1>10. G \in Seq(T) /\ H \in Seq(T)
  BY DEF Between
<1>. QED  BY <1>1, <1>2, <1>8, <1>9, <1>10, SameList

\* No two ports are written alike, since there are as many numerals as ports.
LEMMA NumeralsTell ==
    ASSUME NEW P, IsFiniteSet(P), NEW f, f = [x \in P |-> ToString(x)],
           Cardinality({ToString(x) : x \in P}) = Cardinality(P),
           NEW p \in P, NEW q \in P, ToString(p) = ToString(q)
    PROVE  p = q
<1>. DEFINE S == {ToString(x) : x \in P}
<1>1. f \in Surjection(P, S)
  BY DEF Surjection
<1>2. f[p] = f[q] /\ Cardinality(S) = Cardinality(P)
  OBVIOUS
<1>. HIDE DEF S
<1>3. f \in Injection(P, S)
  BY <1>1, <1>2, FS_Surjection
<1>. QED  BY ONLY <1>2, <1>3, p \in P, q \in P DEF Injection, IsInjective

LEMMA IntervalIsFinite ==
    ASSUME NEW m \in Nat, NEW n \in Nat, NEW P, P = m..n
    PROVE  IsFiniteSet(P)
BY FS_Interval

LEMMA PortsAreFinite == IsFiniteSet(Ports)
<1>1. MinPlanPort \in Nat /\ MaxPlanPort \in Nat
  BY DEF MinPlanPort, MaxPlanPort
<1>. QED  BY ONLY <1>1, IntervalIsFinite DEF Ports

LEMMA PortsApart ==
    ASSUME NEW p \in Ports, NEW q \in Ports PROVE SamePort(p, q)
<1>1. PICK written : written = [x \in Ports |-> ToString(x)]
  OBVIOUS
<1>2. Cardinality({ToString(x) : x \in Ports}) = Cardinality(Ports)
  BY NumeralsAreApart
<1>3. ToString(p) = ToString(q) => p = q
  BY ONLY p \in Ports, q \in Ports, <1>1, <1>2, PortsAreFinite, NumeralsTell
<1>. QED  BY <1>3 DEF SamePort

\* The ports of two documents of one group.
LEMMA PortsOfTwo ==
    ASSUME NEW a, NEW b, DecodedDocument(a), DecodedDocument(b), GroupOf(a) = GroupOf(b)
    PROVE  /\ GroupOf(a) \in {"OciProbe", "WebService", "PrivateService", "UserService"}
                 => SamePort(a.local_port, b.local_port)
           /\ GroupOf(a) \in {"Route", "LinkRoute"} => SamePort(a.backend_port, b.backend_port)
           /\ GroupOf(a) \in {"ListenerPeer", "InitiatorPeer"} => SamePort(a.service_port, b.service_port)
<1>1. /\ GroupOf(a) \in {"OciProbe", "WebService", "PrivateService", "UserService"}
            => a.local_port \in Ports /\ b.local_port \in Ports
      /\ GroupOf(a) \in {"Route", "LinkRoute"} => a.backend_port \in Ports /\ b.backend_port \in Ports
      /\ GroupOf(a) \in {"ListenerPeer", "InitiatorPeer"} => a.service_port \in Ports /\ b.service_port \in Ports
  BY PortsHold
<1>. QED  BY <1>1, PortsApart, Zenon

\* The lines of a group are a list, and tell every field of the group.
GroupRead(a, b) ==
    /\ IsList(GroupLines(a))
    /\ GroupLines(a) = GroupLines(b)
          => \A field \in FieldsOf(GroupOf(a)) : SameField(a, b, field)

LEMMA GroupReads ==
    ASSUME NEW a, NEW b, DecodedDocument(a), DecodedDocument(b), GroupOf(a) = GroupOf(b)
    PROVE  GroupRead(a, b)
<1>1. CASE GroupOf(a) = "OciProbe"
  <2>1. GroupLines(a) = OciProbeLines(a) /\ GroupLines(b) = OciProbeLines(b)
    BY <1>1 DEF GroupLines
  <2>. QED  BY <1>1, <2>1, PortsOfTwo, OciProbeReads, FieldsIs, Zenon DEF GroupRead
<1>2. CASE GroupOf(a) = "WebService"
  <2>1. GroupLines(a) = WebServiceLines(a) /\ GroupLines(b) = WebServiceLines(b)
    BY <1>2 DEF GroupLines
  <2>. QED  BY <1>2, <2>1, PortsOfTwo, WebServiceReads, FieldsIs, Zenon DEF GroupRead
<1>3. CASE GroupOf(a) = "Entrypoint"
  <2>1. GroupLines(a) = EntrypointLines(a) /\ GroupLines(b) = EntrypointLines(b)
    BY <1>3 DEF GroupLines
  <2>. QED  BY <1>3, <2>1, EntrypointReads, FieldsIs, Zenon DEF GroupRead
<1>4. CASE GroupOf(a) = "Route"
  <2>1. GroupLines(a) = RouteLines(a) /\ GroupLines(b) = RouteLines(b)
    BY <1>4 DEF GroupLines
  <2>. QED  BY <1>4, <2>1, PortsOfTwo, RouteReads, FieldsIs, Zenon DEF GroupRead
<1>5. CASE GroupOf(a) = "PrivateService"
  <2>1. GroupLines(a) = PrivateServiceLines(a) /\ GroupLines(b) = PrivateServiceLines(b)
    BY <1>5 DEF GroupLines
  <2>. QED  BY <1>5, <2>1, PortsOfTwo, PrivateServiceReads, FieldsIs, Zenon DEF GroupRead
<1>6. CASE GroupOf(a) = "LinkRoute"
  <2>1. GroupLines(a) = LinkRouteLines(a) /\ GroupLines(b) = LinkRouteLines(b)
    BY <1>6 DEF GroupLines
  <2>. QED  BY <1>6, <2>1, PortsOfTwo, LinkRouteReads, FieldsIs, Zenon DEF GroupRead
<1>7. CASE GroupOf(a) = "Snapshot"
  <2>1. GroupLines(a) = SnapshotLines(a) /\ GroupLines(b) = SnapshotLines(b)
    BY <1>7 DEF GroupLines
  <2>. QED  BY <1>7, <2>1, SnapshotReads, FieldsIs, Zenon DEF GroupRead
<1>8. CASE GroupOf(a) = "Restore"
  <2>1. GroupLines(a) = RestoreLines(a) /\ GroupLines(b) = RestoreLines(b)
    BY <1>8 DEF GroupLines
  <2>. QED  BY <1>8, <2>1, RestoreReads, FieldsIs, Zenon DEF GroupRead
<1>9. CASE GroupOf(a) = "UserService"
  <2>1. GroupLines(a) = UserServiceLines(a) /\ GroupLines(b) = UserServiceLines(b)
    BY <1>9 DEF GroupLines
  <2>. QED  BY <1>9, <2>1, PortsOfTwo, UserServiceReads, FieldsIs, Zenon DEF GroupRead
<1>10. CASE GroupOf(a) = "Link"
  <2>1. GroupLines(a) = LinkLines(a) /\ GroupLines(b) = LinkLines(b)
    BY <1>10 DEF GroupLines
  <2>. QED  BY <1>10, <2>1, LinkReads, FieldsIs, Zenon DEF GroupRead
<1>11. CASE GroupOf(a) = "ListenerPeer"
  <2>1. GroupLines(a) = ListenerPeerLines(a) /\ GroupLines(b) = ListenerPeerLines(b)
    BY <1>11 DEF GroupLines
  <2>. QED  BY <1>11, <2>1, PortsOfTwo, ListenerPeerReads, FieldsIs, Zenon DEF GroupRead
<1>12. CASE GroupOf(a) = "InitiatorPeer"
  <2>1. GroupLines(a) = InitiatorPeerLines(a) /\ GroupLines(b) = InitiatorPeerLines(b)
    BY <1>12 DEF GroupLines
  <2>. QED  BY <1>12, <2>1, PortsOfTwo, InitiatorPeerReads, FieldsIs, Zenon DEF GroupRead
<1>13. GroupOf(a) \in Groups1 \union Groups2 \union Groups3
  BY DEF DecodedDocument
<1>. QED  BY <1>1, <1>2, <1>3, <1>4, <1>5, <1>6, <1>7, <1>8, <1>9, <1>10, <1>11, <1>12, <1>13
          DEF Groups1, Groups2, Groups3

\* Decoding gives a document that has its group's shape, the origin filled in.
LEMMA DecodedIs ==
    ASSUME NEW json, NEW schema \in {1, 2, 3}, Decoded(schema, json)
    PROVE  DecodedDocument(Defaulted(json))
<1>. DEFINE d == Defaulted(json)
<1>1. /\ HeadFields \subseteq DOMAIN json /\ json.schema_version = schema
      /\ json.operation \in DOMAIN GroupsOf(schema)
      /\ DOMAIN d = HeadFields \union FieldsOf(GroupOf(json)) /\ GroupHolds(d)
  BY DEF Decoded, DeclaredOperation
<1>2. d.schema_version = json.schema_version /\ d.operation = json.operation
  <2>1. "schema_version" \in DOMAIN json /\ "operation" \in DOMAIN json
    BY <1>1 DEF HeadFields
  <2>. QED  BY <2>1 DEF Defaulted
<1>3. GroupOf(d) = GroupOf(json) /\ GroupOf(d) = GroupsOf(schema)[d.operation]
  BY <1>1, <1>2 DEF GroupOf
<1>. HIDE DEF d
<1>4. \/ d.schema_version = 1 /\ GroupOf(d) \in Groups1
      \/ d.schema_version = 2 /\ GroupOf(d) \in Groups2
      \/ d.schema_version = 3 /\ GroupOf(d) \in Groups3
  BY <1>1, <1>2, <1>3, GroupsOfSchemas
<1>5. DecodedDocument(d)
  BY <1>1, <1>2, <1>3, <1>4 DEF DecodedDocument
<1>. QED  BY <1>5 DEF d

LEMMA VerifiedIs ==
    ASSUME NEW view \in VerifiedViews
    PROVE  /\ DecodedDocument(Presented(view).plan) /\ DecodedDocument(Presented(view).rollback)
           /\ Presented(view).rollback = Inverted(Presented(view).plan)
<1>1. Presented(view).plan = Defaulted(view.plan) /\ Presented(view).rollback = Defaulted(view.rollback)
  BY DEF Presented
<1>2. PICK schema \in {1, 2, 3} : Decoded(schema, view.plan) /\ Decoded(schema, view.rollback)
  BY DEF VerifiedViews, Verify, VerifyProbe, VerifyPublication, VerifyLink, VerifiedV1, VerifiedV2, VerifiedV3
<1>3. Inverted(Defaulted(view.plan)) = Defaulted(view.rollback)
  BY DEF VerifiedViews, Verify, VerifyProbe, VerifyPublication, VerifyLink, Undone, IsUndoneBy
<1>. QED  BY <1>1, <1>2, <1>3, DecodedIs

\* The lines that are read tell the whole plan.
Readable(lines) == SubSeq(lines, 1, Len(lines) - 2)

LEMMA PlanReads ==
    ASSUME NEW a, NEW b, NEW undo, NEW redo, DecodedDocument(a), DecodedDocument(b),
           a.infrastructure_id = b.infrastructure_id,
           Readable(ConfirmationLines(a, undo)) = Readable(ConfirmationLines(b, redo))
    PROVE  SameDocument(a, b)
<1>. DEFINE machine(d) == Saying("machine", d.machine_id)
            operation(d) == Line(<<"operation", d.operation>>, "", 0)
            back(d) == Line(<<"rollback", d.operation, GroupOf(d)>>, "", 0)
            close(d, e) == {back(e), Fingerprint("plan_sha256", Digest(d)), Fingerprint("rollback_sha256", Digest(e))}
<1>1. /\ ConfirmationLines(a, undo)
           = <<machine(a), operation(a)>> \o GroupLines(a)
             \o <<back(undo), Fingerprint("plan_sha256", Digest(a)), Fingerprint("rollback_sha256", Digest(undo))>>
      /\ ConfirmationLines(b, redo)
           = <<machine(b), operation(b)>> \o GroupLines(b)
             \o <<back(redo), Fingerprint("plan_sha256", Digest(b)), Fingerprint("rollback_sha256", Digest(redo))>>
  BY Zenon DEF ConfirmationLines, OpeningLines, ClosingLines
<1>2. IsList(GroupLines(a)) /\ IsList(GroupLines(b))
  BY GroupReads DEF GroupRead
<1>3. PICK T : /\ machine(a) \in T /\ operation(a) \in T /\ close(a, undo) \subseteq T
               /\ machine(b) \in T /\ operation(b) \in T /\ close(b, redo) \subseteq T
               /\ GroupLines(a) \in Seq(T) /\ GroupLines(b) \in Seq(T)
  <2>1. PICK A, B : GroupLines(a) \in Seq(A) /\ GroupLines(b) \in Seq(B)
    BY <1>2, Zenon DEF IsList
  <2>. DEFINE T == A \union B \union {machine(a), operation(a), machine(b), operation(b)}
                   \union close(a, undo) \union close(b, redo)
  <2>2. GroupLines(a) \in Seq(T) /\ GroupLines(b) \in Seq(T)
    <3>. HIDE DEF machine, operation, close
    <3>. QED  BY <2>1
  <2>. QED  BY <2>2
<1>4. /\ Between(ConfirmationLines(a, undo), T, machine(a), operation(a), GroupLines(a))
      /\ Between(ConfirmationLines(b, redo), T, machine(b), operation(b), GroupLines(b))
  BY <1>1, <1>3, Zenon DEF Between
<1>5. /\ machine(a) = machine(b) /\ operation(a) = operation(b) /\ GroupLines(a) = GroupLines(b)
  <2>. HIDE DEF machine, operation
  <2>. QED  BY <1>4, SameBetween, Zenon DEF Readable
<1>6. a.machine_id = b.machine_id
  BY <1>5, SayingTells, Zenon
<1>7. a.operation = b.operation
  <2>1. operation(a).texts = <<"operation", a.operation>> /\ operation(b).texts = <<"operation", b.operation>>
    BY DEF Line
  <2>2. <<"operation", a.operation>> = <<"operation", b.operation>>
    BY <1>5, <2>1, Zenon
  <2>. QED  BY ONLY <2>2
<1>8. a.schema_version = b.schema_version /\ GroupOf(a) = GroupOf(b)
  <2>1. a.schema_version = b.schema_version
    BY <1>7, SchemasApart DEF DecodedDocument
  <2>. QED  BY <1>7, <2>1 DEF GroupOf
<1>9. \A field \in FieldsOf(GroupOf(a)) : SameField(a, b, field)
  BY <1>5, <1>8, GroupReads DEF GroupRead
<1>10. \A field \in HeadFields : SameField(a, b, field)
  BY <1>6, <1>7, <1>8 DEF HeadFields, SameField
<1>. QED  BY <1>8, <1>9, <1>10 DEF SameDocument, DecodedDocument

(***************************************************************************)
(* Everything a window shows is a pair that verified, of this              *)
(* infrastructure.                                                         *)
(***************************************************************************)
HeldIsVerified ==
    held # None => \E view \in VerifiedViews : held.presented = Presented(view)

ShownIsVerified ==
    \A c \in shown : \E view \in VerifiedViews :
        Presented(view).plan.infrastructure_id = Own /\ c = ConsentOf(Presented(view), c.request)

VerifiedInv == HeldIsVerified /\ ShownIsVerified

LEMMA VerifiedInvStep == VerifiedInv /\ [Next]_vars => VerifiedInv'
<1>. SUFFICES ASSUME VerifiedInv, [Next]_vars PROVE VerifiedInv'
  OBVIOUS
<1>1. ASSUME NEW view \in Views, ReadPlanPair(view) PROVE VerifiedInv'
  <2>1. view \in VerifiedViews /\ shown' = shown /\ held' = [presented |-> Presented(view), documents |-> view]
    BY <1>1 DEF ReadPlanPair
  <2>2. held'.presented = Presented(view)
    BY <2>1
  <2>. QED  BY <2>1, <2>2, Zenon DEF VerifiedInv, HeldIsVerified, ShownIsVerified
<1>2. CASE OpenPlanConsent
  <2>1. PICK c : /\ c = ConsentOf(held.presented, Cardinality(shown) + 1) /\ shown' = shown \union {c}
                 /\ held # None /\ held' = held /\ held.presented.plan.infrastructure_id = Own
    BY <1>2 DEF OpenPlanConsent
  <2>2. PICK view \in VerifiedViews : held.presented = Presented(view)
    BY <2>1 DEF VerifiedInv, HeldIsVerified
  <2>3. c.request = Cardinality(shown) + 1
    BY <2>1 DEF ConsentOf, Consent
  <2>4. Presented(view).plan.infrastructure_id = Own /\ c = ConsentOf(Presented(view), c.request)
    BY <2>1, <2>2, <2>3, Zenon
  <2>5. ASSUME NEW d \in shown'
        PROVE  \E v \in VerifiedViews :
                  Presented(v).plan.infrastructure_id = Own /\ d = ConsentOf(Presented(v), d.request)
    <3>1. CASE d \in shown
      BY <3>1, Zenon DEF VerifiedInv, ShownIsVerified
    <3>2. CASE d = c
      BY <2>4, <3>2, Zenon
    <3>. QED  BY <2>1, <3>1, <3>2
  <2>. QED  BY <2>1, <2>5, Zenon DEF VerifiedInv, HeldIsVerified, ShownIsVerified
<1>3. CASE UNCHANGED <<held, shown>>
  BY <1>3, Zenon DEF VerifiedInv, HeldIsVerified, ShownIsVerified
<1>. QED
  BY <1>1, <1>2, <1>3 DEF Next, vars, PasteServiceDefinition, ReviewServiceDefinition, FreezeServiceDefinition,
     ReadServiceDefinitions, AnswerWindow, PlanConsentStatus, CancelPlanConsent, Lapse, SubmitPlanDecision

LEMMA VerifiedShowsAll == VerifiedInv => NothingIsUnshown
<1>. SUFFICES ASSUME VerifiedInv, NEW c \in shown, NEW d \in shown, ReadableLines(c) = ReadableLines(d)
              PROVE  c.plan_sha256 = d.plan_sha256 /\ c.rollback_sha256 = d.rollback_sha256
  BY DEF NothingIsUnshown
<1>1. PICK v \in VerifiedViews :
         Presented(v).plan.infrastructure_id = Own /\ c = ConsentOf(Presented(v), c.request)
  BY DEF VerifiedInv, ShownIsVerified
<1>2. PICK w \in VerifiedViews :
         Presented(w).plan.infrastructure_id = Own /\ d = ConsentOf(Presented(w), d.request)
  BY DEF VerifiedInv, ShownIsVerified
<1>. DEFINE a == Presented(v).plan
            b == Presented(w).plan
<1>3. /\ c.lines = ConfirmationLines(a, Presented(v).rollback)
      /\ c.plan_sha256 = Digest(a) /\ c.rollback_sha256 = Digest(Presented(v).rollback)
  BY <1>1 DEF ConsentOf, Consent
<1>4. /\ d.lines = ConfirmationLines(b, Presented(w).rollback)
      /\ d.plan_sha256 = Digest(b) /\ d.rollback_sha256 = Digest(Presented(w).rollback)
  BY <1>2 DEF ConsentOf, Consent
<1>5. /\ DecodedDocument(a) /\ Presented(v).rollback = Inverted(a) /\ DecodedDocument(Presented(v).rollback)
      /\ DecodedDocument(b) /\ Presented(w).rollback = Inverted(b)
  BY VerifiedIs
<1>6. Readable(c.lines) = Readable(d.lines) /\ a.infrastructure_id = b.infrastructure_id
  BY <1>1, <1>2, Zenon DEF ReadableLines, Readable
<1>7. SameDocument(a, b)
  BY <1>3, <1>4, <1>5, <1>6, PlanReads, Zenon
<1>8. SameDocument(Inverted(a), Inverted(b))
  BY <1>5, <1>7, SameInverse
<1>. QED  BY <1>3, <1>4, <1>5, <1>7, <1>8, SameDigest, Zenon

\* Two windows that read the same, the fingerprints apart, are about the same two
\* documents: no field of a plan, nor of what undoes it, is signed without being
\* displayed (publication_plan.rs, confirmation_lines; link_plan.rs; probe_plan.rs).
THEOREM NothingIsEverUnshown == Spec => []NothingIsUnshown
<1>1. Init => VerifiedInv
  BY DEF Init, VerifiedInv, HeldIsVerified, ShownIsVerified
<1>. QED  BY <1>1, VerifiedInvStep, VerifiedShowsAll, PTL DEF Spec
=============================================================================
