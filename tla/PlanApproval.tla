---------------------------- MODULE PlanApproval ----------------------------
(***************************************************************************)
(* From the form to the signature, in the App: a draft is reviewed and a   *)
(* definition frozen; a pair of plans is read from the Controller and      *)
(* verified; a window shows it, and only what it showed is signed. The     *)
(* Controller is a carrier: it may serve any documents under any digests,  *)
(* and another pair each time it is asked.                                 *)
(*                                                                         *)
(* AppSessions models the same commands from the side of the processes and *)
(* of the time they have; here a session simply lapses, and what matters   *)
(* is which documents each step is about.                                  *)
(***************************************************************************)
EXTENDS PlanConfirmation, DefinitionPaste

CONSTANTS
    None,
    Own,             \* the infrastructure this App is associated with
    Views,           \* the pairs the Controller may serve
    Drafts,          \* what the form may hold
    Pastes,          \* what may be pasted into it
    Served,          \* the definitions the Controller may list
    MaxRequests,     \* bound: windows opened over a behaviour
    MaxAccepted      \* bound: definitions the App accepted over a behaviour

ASSUME PlanApprovalAssumption ==
    Own \in Infrastructures /\ MaxRequests \in Nat /\ MaxAccepted \in Nat

VARIABLES
    pasted,    \* what the last paste answered
    review,    \* what the last review answered
    accepted,  \* the frozen definitions the App accepted, each with its digest
    held,      \* plan_pair: the verified pair and its documents
    session,   \* plan_consent: the consent, and what was answered
    window,    \* the native window: its consent, and what it wrote
    shown,     \* every consent a window displayed
    agreed,    \* every consent the human confirmed
    signed     \* every approval that was signed, with the documents beside it

vars == <<pasted, review, accepted, held, session, window, shown, agreed, signed>>

Init ==
    /\ pasted = None /\ review = None /\ accepted = {} /\ held = None /\ session = None /\ window = None
    /\ shown = {} /\ agreed = {} /\ signed = {}

-----------------------------------------------------------------------------
(* Definitions. A paste, the form and the plans share no state, so as a    *)
(* bound a behaviour explores one of them.                                 *)

Document(draft) == [field \in DefinitionFields |-> IF field = "schema_version" THEN 1 ELSE draft[field]]

\* The form gives its four lists as lists of texts, and the bytes of a document
\* are a count.
ASSUME DraftsAreForms ==
    \A draft \in Drafts :
        /\ Document(draft).volumes \in Seq(Seq(STRING))
        /\ Document(draft).tmpfs \in Seq(Seq(STRING))
        /\ Document(draft).environment \in Seq(Seq(STRING))
        /\ Document(draft).secret_keys \in Seq(STRING)
        /\ EncodedBytes(Document(draft)) \in Nat

NoPlan == held = None /\ shown = {}
NoForm == review = None /\ accepted = {}
PasteOnly == NoForm /\ NoPlan
FormOnly == pasted = None /\ NoPlan
PlansOnly == pasted = None /\ NoForm

\* parse_service_definition_paste: it prefills, and changes nothing else.
PasteServiceDefinition(paste) ==
    /\ PasteOnly
    /\ pasted' = ParseServiceDefinitionPaste(paste)
    /\ UNCHANGED <<review, accepted, held, session, window, shown, agreed, signed>>

ReviewServiceDefinition(draft) ==
    /\ FormOnly
    /\ review' = [document |-> Document(draft), refusals |-> Refusals(Document(draft)),
                  lines |-> IF Encodes(Document(draft)) THEN DefinitionLines(Document(draft)) ELSE <<>>]
    /\ UNCHANGED <<pasted, accepted, held, session, window, shown, agreed, signed>>

\* One entry of a listing, or the answer to a freeze: the slug is the document's.
AcceptsEntry(entry) ==
    Displayable(entry.document, entry.digest) /\ entry.slug = entry.document.slug

\* freeze_service_definition: what comes back is what went out.
FreezeServiceDefinition(entry) ==
    /\ FormOnly /\ Cardinality(accepted) < MaxAccepted
    /\ Displayable(entry.document, entry.digest)
    /\ AcceptsEntry(entry)
    /\ accepted' = accepted \union {[document |-> entry.document, digest |-> entry.digest]}
    /\ UNCHANGED <<pasted, review, held, session, window, shown, agreed, signed>>

\* validate_service_definitions, project_service_definitions: the whole listing
\* reads, each digest once, or the whole listing is refused.
ValidListing(entries) ==
    /\ \A e \in entries : AcceptsEntry(e)
    /\ \A e, f \in entries : e.digest = f.digest => e = f

ReadServiceDefinitions(entries) ==
    /\ FormOnly /\ ValidListing(entries)
    /\ accepted' = accepted \union {[document |-> e.document, digest |-> e.digest] : e \in entries}
    /\ Cardinality(accepted') <= MaxAccepted
    /\ UNCHANGED <<pasted, review, held, session, window, shown, agreed, signed>>

-----------------------------------------------------------------------------
(* Plans.                                                                  *)

\* verify of the three presenters: the publication's also refuses a plan that is
\* its own rollback, which only a restoration can be.
Undone(view) == IsUndoneBy(Defaulted(view.plan), Defaulted(view.rollback))
VerifyProbe(view) ==
    /\ view.schema = 1 /\ VerifiedV1(view.plan, view.plan_sha256)
    /\ VerifiedV1(view.rollback, view.rollback_sha256) /\ Undone(view)
VerifyPublication(view) ==
    /\ view.schema = 2 /\ VerifiedV2(view.plan, view.plan_sha256)
    /\ VerifiedV2(view.rollback, view.rollback_sha256) /\ Undone(view)
    /\ Defaulted(view.plan) # Defaulted(view.rollback)
VerifyLink(view) ==
    /\ view.schema = 3 /\ VerifiedV3(view.plan, view.plan_sha256)
    /\ VerifiedV3(view.rollback, view.rollback_sha256) /\ Undone(view)
Verify(view) == VerifyProbe(view) \/ VerifyPublication(view) \/ VerifyLink(view)

\* The pairs that verify, whichever the Controller serves.
VerifiedViews == {view \in Views : view.plan_sha256 # view.rollback_sha256 /\ Verify(view)}
AcceptedEntries == {entry \in Served : AcceptsEntry(entry)}

Presented(view) == [plan |-> Defaulted(view.plan), rollback |-> Defaulted(view.rollback)]

(* Mutant: the session of the pair that was held stays open. *)
ReadPlanPairKeeping(view) ==
    /\ PlansOnly /\ view \in VerifiedViews /\ AcceptedEntries # {}
    /\ held' = [presented |-> Presented(view), documents |-> view]
    /\ UNCHANGED <<pasted, review, accepted, session, window, shown, agreed, signed>>

(***************************************************************************)
(* read_plan_pair: the pair verifies and the listing holds the definition  *)
(* that was asked for. The session that was open is dropped, its window    *)
(* stopped: what it confirmed was another pair. The definition travels     *)
(* beside the pair and is compared with nothing in it.                     *)
(***************************************************************************)
ReadPlanPair(view) ==
    /\ PlansOnly /\ view \in VerifiedViews /\ AcceptedEntries # {}
    /\ held' = [presented |-> Presented(view), documents |-> view]
    /\ session' = None /\ window' = None
    /\ UNCHANGED <<pasted, review, accepted, shown, agreed, signed>>

ConsentOf(pair, request) == Consent(request, pair.plan, pair.rollback)

\* consent: another infrastructure's plan is refused before a window opens.
OpenPlanConsent ==
    /\ held # None /\ session = None /\ window = None
    /\ Cardinality(shown) < MaxRequests
    /\ held.presented.plan.infrastructure_id = Own
    /\ LET c == ConsentOf(held.presented, Cardinality(shown) + 1)
       IN /\ ValidConsent(c)
          /\ session' = [consent |-> c, answered |-> "open"]
          /\ window' = [consent |-> c, outcome |-> None]
          /\ shown' = shown \union {c}
    /\ UNCHANGED <<pasted, review, accepted, held, agreed, signed>>

\* The human, or the window without the human.
AnswerWindow(kind) ==
    /\ window # None /\ window.outcome = None
    /\ window' = [window EXCEPT !.outcome = Outcome(window.consent, kind)]
    /\ agreed' = IF kind = "confirmed" THEN agreed \union {window.consent} ELSE agreed
    /\ UNCHANGED <<pasted, review, accepted, held, session, shown, signed>>

\* confirmed_by: the consent is about the pair that is presented, and the outcome
\* about the consent.
ConfirmedBy(pair, c, o) ==
    /\ c.plan_sha256 = Digest(pair.plan) /\ c.rollback_sha256 = Digest(pair.rollback)
    /\ ConsentConfirms(c, o)

PlanConsentStatus ==
    /\ session # None /\ session.answered = "open"
    /\ window # None /\ window.outcome # None
    /\ session' = [session EXCEPT !.answered =
                     IF ConfirmedBy(held.presented, session.consent, window.outcome)
                     THEN "confirmed" ELSE "refused"]
    /\ window' = None
    /\ UNCHANGED <<pasted, review, accepted, held, shown, agreed, signed>>

\* cancel_plan_consent.
CancelPlanConsent ==
    /\ session # None /\ window # None
    /\ session' = None /\ window' = None
    /\ UNCHANGED <<pasted, review, accepted, held, shown, agreed, signed>>

\* clear_if_expired: the session goes, and a window nobody answered stays.
Lapse ==
    /\ session # None /\ session' = None
    /\ UNCHANGED <<pasted, review, accepted, held, window, shown, agreed, signed>>

-----------------------------------------------------------------------------
(* The signature.                                                          *)

RequiredPrivileges(operation) ==
    IF operation = "diagnose_protocol_read_only" THEN <<"read_local_state">>
    ELSE <<"mutate_local_state", "read_local_state">>

Envelope(pair, epoch, sequence) ==
    [infrastructure |-> Own, machine |-> pair.plan.machine_id, epoch |-> epoch,
     sequence |-> sequence, operation |-> pair.plan.operation,
     plan_sha256 |-> Digest(pair.plan), rollback_sha256 |-> Digest(pair.rollback),
     privileges |-> RequiredPrivileges(pair.plan.operation)]

\* ApprovalEnvelopeV1::validate; the lifetime is the constant one.
ValidEnvelope(e) ==
    /\ e.infrastructure \in Infrastructures /\ CanonicalMachineId(e.machine)
    /\ e.epoch # 0 /\ e.sequence # 0
    /\ e.privileges = RequiredPrivileges(e.operation)

\* signing_transcript: a digest is 32 bytes.
SigningTranscript(e) ==
    <<"your-cloud/approval.v1">> \o AppendField(e.infrastructure) \o AppendField(e.machine)
    \o <<e.epoch, e.sequence>> \o AppendField(e.operation)
    \o <<32, e.plan_sha256, 32, e.rollback_sha256>> \o AppendList(e.privileges)

(***************************************************************************)
(* sign: the documents in hand verify again as the pair that is presented. *)
(* An error returns before the session is closed.                          *)
(***************************************************************************)
Ours(pair) == pair.plan.infrastructure_id = Own
SignsProbe(pair, view) == VerifyProbe(view) /\ Presented(view) = pair /\ Ours(pair)
SignsPublication(pair, view) == VerifyPublication(view) /\ Presented(view) = pair /\ Ours(pair)
SignsLink(pair, view) == VerifyLink(view) /\ Presented(view) = pair /\ Ours(pair)
Signs(pair, view) ==
    SignsProbe(pair, view) \/ SignsPublication(pair, view) \/ SignsLink(pair, view)

SubmitPlanDecision(epoch, sequence) ==
    /\ session # None /\ session.answered = "confirmed"
    /\ Signs(held.presented, held.documents)
    /\ LET e == Envelope(held.presented, epoch, sequence)
       IN /\ ValidEnvelope(e)
          /\ signed' = signed \union {[envelope |-> e, signature |-> SigningTranscript(e),
                                       documents |-> held.documents]}
    /\ session' = None
    /\ UNCHANGED <<pasted, review, accepted, held, window, shown, agreed>>

Next ==
    \/ \E paste \in Pastes : PasteServiceDefinition(paste)
    \/ \E draft \in Drafts : ReviewServiceDefinition(draft)
    \/ \E entry \in Served : FreezeServiceDefinition(entry)
    \/ \E e, f \in Served : ReadServiceDefinitions({e, f})
    \/ \E view \in Views : ReadPlanPair(view)
    \/ OpenPlanConsent
    \/ \E kind \in Outcomes : AnswerWindow(kind)
    \/ PlanConsentStatus \/ CancelPlanConsent \/ Lapse
    \/ \E epoch, sequence \in 0..1 : SubmitPlanDecision(epoch, sequence)

Spec == Init /\ [][Next]_vars

-----------------------------------------------------------------------------
(* Properties.                                                             *)

\* Whatever pair replaced which, the bytes that are signed are those of an
\* envelope that names the documents travelling with it, and a window the human
\* confirmed displayed those documents (publication_plan.rs, sign; lib.rs,
\* submit_plan_decision).
SignedWasShown ==
    \A s \in signed :
        LET pair == Presented(s.documents)
        IN \E c \in agreed :
             /\ c.lines = ConfirmationLines(pair.plan, pair.rollback)
             /\ c.machine = pair.plan.machine_id
             /\ s.signature = SigningTranscript(Envelope(pair, s.envelope.epoch, s.envelope.sequence))

\* Two windows that read the same, the fingerprints apart, are about the same two
\* documents: no field of a plan is signed without being displayed
\* (publication_plan.rs, confirmation_lines; link_plan.rs; probe_plan.rs).
ReadableLines(c) == SubSeq(c.lines, 1, Len(c.lines) - 2)
NothingIsUnshown ==
    \A c, d \in shown :
        ReadableLines(c) = ReadableLines(d)
            => c.plan_sha256 = d.plan_sha256 /\ c.rollback_sha256 = d.rollback_sha256

\* Every pair that verifies for this infrastructure makes a frame the window
\* accepts: no field a plan may hold is too wide for the lines, the bytes or the
\* folded display (approval_consent.rs, valid_confirmation_lines).
EveryPlanCanBeShown ==
    held # None /\ held.presented.plan.infrastructure_id = Own
        => ValidConsent(ConsentOf(held.presented, 1))

\* A review names no fault exactly when the mirror encodes the document, and blames
\* its size only when its size is the fault (service_definition.rs, refusals
\* against holds_the_contract).
RefusalsAreTheContract ==
    review # None =>
        /\ (review.refusals = {}) = Encodes(review.document)
        /\ (\E r \in review.refusals : r.why = "DocumentTooLarge")
              => EncodedBytes(review.document) > MaxDefinitionBytes

\* Two panels that read the same, the fingerprint apart, are about the same
\* definition: what is frozen holds nothing the panel did not show
\* (service_definition.rs, confirmation_lines).
Fingerprints == {<<"revision_to_freeze">>, <<"definition_sha256">>}
PanelText(lines) ==
    [i \in DOMAIN lines |-> <<lines[i].texts, IF lines[i].texts \in Fingerprints THEN ""
                                             ELSE lines[i].value>>]
PanelShowsTheDefinition ==
    review # None /\ review.lines # <<>> =>
        \A a \in accepted :
            PanelText(DefinitionLines(a.document)) = PanelText(review.lines)
                => a.document = review.document

\* What a paste prefills has the shapes the form has: it is never refused for an
\* image that is still pinned or for an environment line without a value, and the
\* slug it suggests is refused only where there is nothing to suggest, or where the
\* name is one the product owns, which is refused as one a human typed would be (app
\* service_definition.rs, repository_of and suggested_slug, against the mirror's
\* grammars and its four reserved names).
PastesReadBack ==
    pasted # None /\ pasted.source # "unrecognised" =>
        \A r \in Refusals(Document(pasted.draft)) :
            /\ r.why \notin {"ImageRepositoryPinned", "EnvironmentLineShape"}
            /\ r.field = "slug" => pasted.draft.slug \in {""} \union ReservedSlugs

\* One digest, one definition: what is frozen, listed and approved under a
\* fingerprint is one document (service_definition.rs, raw_transcript).
OneDefinitionPerDigest ==
    \A a, b \in accepted : a.digest = b.digest => a.document = b.document
=============================================================================
