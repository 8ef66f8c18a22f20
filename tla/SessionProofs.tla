---------------------------- MODULE SessionProofs ----------------------------
(***************************************************************************)
(* What AppSessions guarantees for any number of sessions, pairs and       *)
(* targets and any clock: one helper process at a time, a bootstrap shown  *)
(* as verified was proved, and no approval is signed that was not          *)
(* confirmed in its own window.                                            *)
(***************************************************************************)
EXTENDS AppSessions, TLAPS

IsUp(p) == p.phase \in Alive

(***************************************************************************)
(* What a process's own history says, at instant n: whoever answered late  *)
(* is past the deadline, and the frames that count repeat the answer.      *)
(***************************************************************************)
Honest(p, n) ==
    /\ IsUp(p) => p.kind \in Kinds
    /\ IsUp(p) /\ p.phase # "written" => p.frame = "none"
    /\ p.late => n >= p.deadline
    /\ p.frame # "none" => p.kind \in Kinds
    /\ p.kind = "bootstrap" /\ p.frame = "verified" =>
           p.answer = "verified" /\ p.lease = "active" /\ ~p.late
    /\ p.kind = "approval" /\ p.frame = "confirmed" => p.answer = "confirmed"

(***************************************************************************)
(* The supervisor s over the processes p, with f the next identifier: a    *)
(* process that is up is the active one, or the one being reaped, or one   *)
(* whose end was given up, after which nothing is started again.           *)
(***************************************************************************)
Supervised(s, p, f) ==
    /\ s \in SupervisorType /\ p \in [Requests -> ProcessType]
    /\ s.active # NoRequest => s.cleanup = NoRequest
    /\ s.cleanup = NoRequest => s.outcome = "none"
    /\ s.unproven => s.active = NoRequest /\ s.cleanup = NoRequest
    /\ s.outcome = "reaped" => ~IsUp(p[s.cleanup])
    /\ \A r \in Requests : IsUp(p[r]) => r \in {s.active, s.cleanup} \/ s.unproven
    /\ \A r, q \in Requests : IsUp(p[r]) /\ IsUp(p[q]) => r = q
    /\ s.active < f /\ s.cleanup < f

(* Nothing writes a process that left and that the supervisor let go of. *)
Settled(s, p, r) == p[r].phase = "exited" /\ r \notin {s.active, s.cleanup}

(* The bootstrap session b, and the plan consent c while the pair held is k
   and the approvals signed are g. *)
BootIsHonest(b, s, p, f) ==
    b # None =>
        /\ b.rid < f
        /\ b.concluded = "awaiting" /\ p[b.rid].kind = "bootstrap" =>
               p[b.rid].subject = b.target
        /\ b.concluded = "verified" =>
               /\ Settled(s, p, b.rid)
               /\ p[b.rid].answer = "verified" /\ p[b.rid].lease = "active"
               /\ ~p[b.rid].late /\ p[b.rid].subject = b.target

ConsentIsHonest(c, s, p, f, k, g) ==
    c # None =>
        /\ c.rid < f /\ c.pair = k /\ g[c.rid] = 0
        /\ c.answer = "confirmed" =>
               /\ Settled(s, p, c.rid)
               /\ p[c.rid].kind = "approval" /\ p[c.rid].answer = "confirmed"
               /\ p[c.rid].subject = k /\ ~p[c.rid].late
               /\ c.expires <= p[c.rid].deadline + AuthorityTime

SessionInv ==
    /\ TypeOK
    /\ \A r \in Requests : Honest(procs[r], now)
    /\ Supervised(sup, procs, fresh)
    /\ BootIsHonest(boot, sup, procs, fresh)
    /\ ConsentIsHonest(consent, sup, procs, fresh, pair, signed)
    /\ \A r \in Requests : r >= fresh => signed[r] = 0

-----------------------------------------------------------------------------
(* What the operations write: a process record and the table of them.      *)

Table == [Requests -> ProcessType]

(* Field by field, what a process record may hold. *)
LEMMA ProcessFields ==
    ASSUME NEW p \in ProcessType
    PROVE  /\ p.kind \in Kinds \union {"none"} /\ p.phase \in Alive \union {"none", "exited"}
           /\ p.deadline \in Nat /\ p.stdin \in BOOLEAN /\ p.lease \in {"active", "cancelled"}
           /\ p.subject \in Nat /\ p.answer \in Answers \union {"none"} /\ p.late \in BOOLEAN
           /\ p.scope \in Scopes /\ p.frame \in Answers \union {"none"} /\ p.code \in Codes
BY DEF ProcessType

LEMMA UnspawnedIsTyped ==
    /\ Unspawned \in ProcessType /\ Gone \in ProcessType
    /\ Gone.phase = "exited" /\ Gone.kind = "none" /\ Gone.frame = "none" /\ Gone.late = FALSE
    /\ Unspawned.phase = "none" /\ Unspawned.kind = "none" /\ Unspawned.frame = "none"
    /\ Unspawned.late = FALSE
<1>1. Unspawned \in ProcessType
  BY DEF ProcessType, Unspawned, Kinds, Alive, Answers, Scopes, Codes
<1>2. Gone = [Unspawned EXCEPT !.phase = "exited", !.code = "failure"]
  BY DEF Gone
<1>3. "exited" \in Alive \union {"none", "exited"} /\ "failure" \in Codes
  BY DEF Codes
<1>4. Gone \in ProcessType
  BY <1>1, <1>2, <1>3 DEF ProcessType
<1> QED
  BY <1>1, <1>4 DEF Gone, Unspawned

(* Ended, Closed and Heard write one process and leave the others. *)
LEMMA EndedAt ==
    ASSUME NEW p \in Table, NEW r \in Requests
    PROVE  /\ Ended(p, r) \in Table
           /\ Ended(p, r)[r] = Gone
           /\ \A q \in Requests : q # r => Ended(p, r)[q] = p[q]
BY UnspawnedIsTyped DEF Ended, Table

LEMMA ClosedAt ==
    ASSUME NEW p \in Table, NEW r \in Requests
    PROVE  /\ Closed(p, r) \in Table
           /\ Closed(p, r)[r] = [p[r] EXCEPT !.stdin = FALSE]
           /\ \A q \in Requests : q # r => Closed(p, r)[q] = p[q]
<1>1. p[r] \in ProcessType
  BY DEF Table
<1>2. [p[r] EXCEPT !.stdin = FALSE] \in ProcessType
  BY <1>1 DEF ProcessType
<1> QED
  BY <1>2 DEF Closed, Table

LEMMA HeardAt ==
    ASSUME NEW p \in Table, NEW r \in Requests
    PROVE  LET x == Heard(p, r)[r]
           IN /\ Heard(p, r) \in Table
              /\ x = [p[r] EXCEPT !.stdin = FALSE, !.frame = "none", !.code = "none", !.scope = "none"]
              /\ \A q \in Requests : q # r => Heard(p, r)[q] = p[q]
<1> DEFINE x == [p[r] EXCEPT !.stdin = FALSE, !.frame = "none", !.code = "none", !.scope = "none"]
<1>1. p[r] \in ProcessType
  BY DEF Table
<1>2. "none" \in Codes /\ "none" \in Scopes
  BY DEF Codes, Scopes
<1>3. x \in ProcessType
  BY <1>1, <1>2 DEF ProcessType
<1>4. Heard(p, r) = [p EXCEPT ![r] = x]
  BY DEF Heard, Table
<1> QED
  BY <1>3, <1>4 DEF Table

-----------------------------------------------------------------------------
(***************************************************************************)
(* The supervisor's operations.  Each takes a sound state to a sound one,  *)
(* and leaves alone whatever is settled.                                   *)
(***************************************************************************)
Sound(s, p, f, n) == Supervised(s, p, f) /\ \A r \in Requests : Honest(p[r], n)

KeepsOne(s, p, t, q, r) ==
    /\ Settled(s, p, r) => Settled(t, q, r) /\ q[r] = p[r]
    /\ q[r].kind # "none" => q[r].kind = p[r].kind /\ q[r].subject = p[r].subject

Keeps(s, p, t, q) == \A r \in Requests : KeepsOne(s, p, t, q, r)

LEMMA SupervisorFields ==
    ASSUME NEW s \in SupervisorType
    PROVE  /\ s.active \in Requests \union {NoRequest} /\ s.cleanup \in Requests \union {NoRequest}
           /\ s.outcome \in {"none", "reaped", "unproven"} /\ s.unproven \in BOOLEAN
           /\ NoRequest = 0 /\ NoRequest \notin Requests
           /\ s.active \in Nat /\ s.cleanup \in Nat
<1>1. s.active \in Requests \union {NoRequest} /\ s.cleanup \in Requests \union {NoRequest}
  BY DEF SupervisorType
<1>2. /\ NoRequest = 0 /\ NoRequest \notin Requests
      /\ \A x \in Requests \union {NoRequest} : x \in Nat
  BY TimeAssumption DEF NoRequest, Requests
<1>3. s.active \in Nat /\ s.cleanup \in Nat
  BY <1>1, <1>2
<1>4. s.outcome \in {"none", "reaped", "unproven"} /\ s.unproven \in BOOLEAN
  BY DEF SupervisorType
<1> QED
  BY <1>1, <1>2, <1>3, <1>4

LEMMA KeepsIsTransitive ==
    ASSUME NEW s, NEW p, NEW t, NEW q, NEW u, NEW o, Keeps(s, p, t, q), Keeps(t, q, u, o)
    PROVE  Keeps(s, p, u, o)
BY DEF Keeps, KeepsOne

(* reconcile_pending_cleanup. *)
LEMMA ReconciledHolds ==
    ASSUME NEW s, NEW p, NEW f, NEW n, Sound(s, p, f, n), f \in Nat \ {0}
    PROVE  /\ Sound(Reconciled(s), p, f, n)
           /\ Keeps(s, p, Reconciled(s), p)
           /\ Reconciled(s).active = s.active
<1> DEFINE t == Reconciled(s)
<1>1. s \in SupervisorType /\ p \in Table
  BY DEF Sound, Supervised, Table
<1>2. CASE ~(s.cleanup # NoRequest /\ s.outcome # "none")
  BY <1>2 DEF Reconciled, Keeps, KeepsOne
<1>3. CASE s.cleanup # NoRequest /\ s.outcome # "none"
  <2>1. /\ t.cleanup = NoRequest /\ t.outcome = "none" /\ t.active = s.active
        /\ t.unproven = (s.unproven \/ s.outcome = "unproven")
    BY <1>1, <1>3 DEF Reconciled, SupervisorType
  <2>2. t \in SupervisorType
    <3>1. (s.unproven \/ s.outcome = "unproven") \in BOOLEAN
      OBVIOUS
    <3>2. "none" \in {"none", "reaped", "unproven"}
      OBVIOUS
    <3> QED
      BY <1>1, <1>3, <3>1, <3>2 DEF Reconciled, SupervisorType
  <2>3. s.active = NoRequest
    BY <1>3 DEF Sound, Supervised
  <2>4. \A r \in Requests : IsUp(p[r]) => t.unproven
    BY <1>1, <1>3, <2>1, <2>3, SupervisorFields DEF Sound, Supervised
  <2>5. Supervised(t, p, f)
    BY <1>1, <2>1, <2>2, <2>3, <2>4, SupervisorFields DEF Sound, Supervised
  <2> QED
    BY <1>1, <2>1, <2>5, SupervisorFields DEF Sound, Keeps, KeepsOne, Settled
<1> QED
  BY <1>2, <1>3

(* stop_bounded, of the active child: both ends of it. *)
LEMMA StoppedHolds ==
    ASSUME NEW s, NEW p, NEW f, NEW n, Sound(s, p, f, n), f \in Nat \ {0},
           s.active # NoRequest, NEW status, NEW o \in Stopped(s, p, s.active, status)
    PROVE  /\ Sound(o.sup, o.procs, f, n)
           /\ Keeps(s, p, o.sup, o.procs)
           /\ o.sup.active = NoRequest /\ ~o.sup.unproven
           /\ o.status \in {status, "unavailable"}
<1> DEFINE r == s.active
           t == o.sup
           q == o.procs
<1>1. /\ s \in SupervisorType /\ p \in Table /\ r \in Requests
      /\ s.cleanup = NoRequest /\ s.outcome = "none" /\ ~s.unproven /\ r < f
  BY SupervisorFields DEF Sound, Supervised, Table
<1>2. CASE o = Result([s EXCEPT !.active = NoRequest], Ended(p, r), status)
  <2>1. /\ t \in SupervisorType /\ t.active = NoRequest /\ t.cleanup = NoRequest
        /\ t.outcome = "none" /\ t.unproven = FALSE /\ q = Ended(p, r) /\ o.status = status
    BY <1>1, <1>2 DEF Result, SupervisorType
  <2>2. q \in Table /\ q[r] = Gone /\ \A x \in Requests : x # r => q[x] = p[x]
    BY <1>1, <2>1, EndedAt
  <2>3. ~IsUp(q[r]) /\ Honest(q[r], n) /\ q[r].kind = "none"
    BY <2>2, UnspawnedIsTyped DEF IsUp, Honest, Alive
  <2>4. \A x \in Requests : ~IsUp(q[x])
    BY <1>1, <2>2, <2>3, SupervisorFields DEF Sound, Supervised
  <2>5. Sound(t, q, f, n)
    BY <1>1, <2>1, <2>2, <2>3, <2>4, SupervisorFields DEF Sound, Supervised, Table
  <2>6. Keeps(s, p, t, q)
    BY <2>1, <2>2, <2>3, SupervisorFields, <1>1 DEF Keeps, KeepsOne, Settled
  <2> QED
    BY <2>1, <2>5, <2>6
<1>3. CASE o = Result(Deferred(s, r), Closed(p, r), "unavailable")
  <2>1. /\ t \in SupervisorType /\ t.active = NoRequest /\ t.cleanup = r
        /\ t.outcome = "none" /\ t.unproven = FALSE /\ q = Closed(p, r) /\ o.status = "unavailable"
    BY <1>1, <1>3 DEF Result, SupervisorType, Deferred
  <2>2. /\ q \in Table /\ q[r] = [p[r] EXCEPT !.stdin = FALSE]
        /\ \A x \in Requests : x # r => q[x] = p[x]
    BY <1>1, <2>1, ClosedAt
  <2>3. /\ q[r].phase = p[r].phase /\ q[r].kind = p[r].kind /\ q[r].late = p[r].late
        /\ q[r].deadline = p[r].deadline /\ q[r].frame = p[r].frame /\ q[r].answer = p[r].answer
        /\ q[r].lease = p[r].lease /\ q[r].subject = p[r].subject
    BY <1>1, <2>2 DEF Table, ProcessType
  <2>4. Honest(q[r], n) /\ (IsUp(q[r]) <=> IsUp(p[r]))
    BY <1>1, <2>3 DEF IsUp, Honest, Sound
  <2>5. \A x \in Requests : IsUp(q[x]) <=> IsUp(p[x])
    BY <2>2, <2>4
  <2>6. Supervised(t, q, f)
    BY <1>1, <2>1, <2>2, <2>5, SupervisorFields DEF Sound, Supervised, Table
  <2>7. Sound(t, q, f, n)
    BY <2>6, <2>2, <2>4 DEF Sound
  <2>8. Keeps(s, p, t, q)
    BY ZenonT(60), <1>1, <2>1, <2>2, <2>3, SupervisorFields DEF Keeps, KeepsOne, Settled
  <2> QED
    BY <2>1, <2>7, <2>8
<1> QED
  BY <1>2, <1>3 DEF Stopped

(* stop_active: when it succeeds, no process is up. *)
LEMMA StopHolds ==
    ASSUME NEW st, NEW s, NEW p, NEW f, NEW n, st.sup = s, st.procs = p,
           Sound(s, p, f, n), f \in Nat \ {0}, NEW o \in StopActive(st)
    PROVE  /\ Sound(o.sup, o.procs, f, n)
           /\ Keeps(s, p, o.sup, o.procs)
<1> DEFINE t == Reconciled(s)
<1>1. Sound(t, p, f, n) /\ Keeps(s, p, t, p)
  BY ReconciledHolds
<1>2. CASE t.cleanup # NoRequest \/ t.unproven
  <2>1. o = Result(t, p, "unavailable")
    BY <1>2 DEF StopActive
  <2> QED
    BY <1>1, <2>1 DEF Result
<1>3. CASE ~(t.cleanup # NoRequest \/ t.unproven) /\ t.active = NoRequest
  <2>1. o = Result(t, p, "ok")
    BY <1>3 DEF StopActive
  <2> QED
    BY <1>1, <2>1 DEF Result
<1>4. CASE ~(t.cleanup # NoRequest \/ t.unproven) /\ t.active # NoRequest
  <2>1. o \in Stopped(t, p, t.active, "ok")
    BY <1>4 DEF StopActive
  <2>2. Sound(o.sup, o.procs, f, n) /\ Keeps(t, p, o.sup, o.procs)
    BY <1>1, <1>4, <2>1, StoppedHolds
  <2> QED
    BY <1>1, <2>2, KeepsIsTransitive
<1> QED
  BY <1>2, <1>3, <1>4

(* NativeHelperSupervisor::cancel. *)
LEMMA CancelHolds ==
    ASSUME NEW st, NEW s, NEW p, NEW f, NEW n, st.sup = s, st.procs = p,
           Sound(s, p, f, n), f \in Nat \ {0}, NEW r, NEW o \in CancelHelper(st, r)
    PROVE  /\ Sound(o.sup, o.procs, f, n)
           /\ Keeps(s, p, o.sup, o.procs)
<1>1. CASE s.active # r
  BY <1>1 DEF CancelHelper, Result, Keeps, KeepsOne
<1>2. CASE s.active = r
  <2>1. o \in StopActive(st)
    BY <1>2 DEF CancelHelper
  <2> QED
    BY <2>1, StopHolds
<1> QED
  BY <1>1, <1>2

(***************************************************************************)
(* start_with_policy, for the next identifier: the helper it reports is    *)
(* the one it was asked for, and every process but that one is as it was.  *)
(***************************************************************************)
LEMMA StartHolds ==
    ASSUME NEW st, NEW s, NEW p, NEW f \in Requests, NEW n, st.sup = s, st.procs = p,
           Sound(s, p, f, n), NEW kind \in Kinds, NEW subject \in Nat, NEW deadline \in Nat,
           NEW o \in StartHelper(st, f, kind, subject, deadline)
    PROVE  /\ Sound(o.sup, o.procs, f + 1, n)
           /\ \A r \in Requests : r < f => KeepsOne(s, p, o.sup, o.procs, r)
           /\ o.status = "ok" => o.procs[f] = Spawned(kind, subject, deadline)
<1>w. PICK w : w = Spawned(kind, subject, deadline)
  OBVIOUS
<1> DEFINE t == Reconciled(s)
           q == [p EXCEPT ![f] = w]
           Starts == /\ Sound(o.sup, o.procs, f + 1, n)
                     /\ \A r \in Requests : r < f =>
                            /\ o.procs[r] = p[r]
                            /\ r \notin {s.active, s.cleanup} => r \notin {o.sup.active, o.sup.cleanup}
                     /\ o.status = "ok" => o.procs[f] = Spawned(kind, subject, deadline)
<1>0. f \in Nat \ {0} /\ \A r \in Requests : r \in Nat \ {0}
  BY DEF Requests
<1>1. Sound(t, p, f, n) /\ Keeps(s, p, t, p)
  BY ReconciledHolds, <1>0
<1>2. t \in SupervisorType /\ p \in Table
  BY <1>1 DEF Sound, Supervised, Table
<1>3. \A r \in Requests : r \notin {s.active, s.cleanup} => r \notin {t.active, t.cleanup}
  BY SupervisorFields, <1>1, <1>2, ReconciledHolds, <1>0 DEF Reconciled, Sound, Supervised, SupervisorType
<1>4. \A u : Supervised(u, p, f) => Supervised(u, p, f + 1)
  <2> SUFFICES ASSUME NEW u, Supervised(u, p, f) PROVE Supervised(u, p, f + 1)
    OBVIOUS
  <2>1. u.active < f + 1 /\ u.cleanup < f + 1
    BY <1>0, SupervisorFields DEF Supervised
  <2> QED
    BY <2>1 DEF Supervised
<1>5. Sound(t, p, f + 1, n)
  BY <1>1, <1>4 DEF Sound
<1>6. ASSUME NEW status, o = Result(t, p, status), status # "ok"
      PROVE  Starts
  BY <1>3, <1>5, <1>6 DEF Result
<1>7. ASSUME ~t.unproven, t.active = NoRequest, t.cleanup = NoRequest
      PROVE  Starts
  <2>1. /\ w \in ProcessType /\ w.phase = "spawned" /\ w.kind = kind
        /\ w.frame = "none" /\ w.late = FALSE
    <3>1. "spawned" \in Alive \union {"none", "exited"}
      BY DEF Alive
    <3>2. w \in ProcessType
      BY <1>w, <3>1, UnspawnedIsTyped DEF Spawned, ProcessType
    <3> QED
      BY <1>w, <3>2 DEF Spawned, Unspawned
  <2>2. Honest(w, n) /\ IsUp(w)
    BY <2>1 DEF Honest, IsUp, Alive
  <2>3. q \in Table /\ q[f] = w /\ \A r \in Requests : r # f => q[r] = p[r]
    BY <1>2, <2>1 DEF Table
  <2>4. \A r \in Requests : ~IsUp(p[r])
    BY <1>1, <1>2, <1>7, SupervisorFields DEF Sound, Supervised
  <2>5. t.outcome = "none"
    BY <1>1, <1>7 DEF Sound, Supervised
  <2>6. CASE o = Result([t EXCEPT !.active = f], q, "ok")
    <3>1. /\ o.sup \in SupervisorType /\ o.sup.active = f /\ o.sup.cleanup = NoRequest
          /\ o.sup.outcome = "none" /\ ~o.sup.unproven /\ o.procs = q
      BY <1>2, <1>7, <2>5, <2>6 DEF Result, SupervisorType
    <3>2. Supervised(o.sup, o.procs, f + 1)
      <4>1. o.sup.active < f + 1 /\ o.sup.cleanup < f + 1 /\ o.sup.active # NoRequest
        BY <1>0, <3>1, SupervisorFields
      <4>2. \A r \in Requests : IsUp(o.procs[r]) => r = f
        BY <2>3, <2>4, <3>1
      <4> QED
        BY <2>3, <3>1, <4>1, <4>2 DEF Supervised, Table
    <3>3. Sound(o.sup, o.procs, f + 1, n)
      BY <1>1, <2>2, <2>3, <3>1, <3>2 DEF Sound
    <3> QED
      BY <1>0, <1>w, <2>3, <3>1, <3>3, SupervisorFields
  <2>7. CASE o = Result(t, Ended(q, f), "unavailable")
    <3>1. /\ o.sup = t /\ o.procs \in Table /\ o.procs[f] = Gone /\ o.status # "ok"
          /\ \A r \in Requests : r # f => o.procs[r] = p[r]
      BY <2>3, <2>7, EndedAt DEF Result
    <3>2. ~IsUp(o.procs[f]) /\ Honest(o.procs[f], n)
      BY <3>1, UnspawnedIsTyped DEF IsUp, Honest, Alive
    <3>3. \A r \in Requests : ~IsUp(o.procs[r])
      BY <2>4, <3>1, <3>2
    <3>4. Supervised(o.sup, o.procs, f + 1)
      BY <1>5, <1>7, <2>5, <3>1, <3>3 DEF Sound, Supervised, Table
    <3>5. Sound(o.sup, o.procs, f + 1, n)
      BY <1>1, <3>1, <3>2, <3>4 DEF Sound
    <3> QED
      <4>1. \A r \in Requests : r < f => r # f
        BY <1>0
      <4> QED
        BY <1>3, <3>1, <3>5, <4>1
  <2>8. CASE o = Result(Deferred(t, f), Closed(q, f), "unavailable")
    <3>1. /\ o.procs \in Table /\ o.procs[f] = [w EXCEPT !.stdin = FALSE] /\ o.status # "ok"
          /\ \A r \in Requests : r # f => o.procs[r] = p[r]
      <4>1. o.procs = Closed(q, f) /\ o.status = "unavailable"
        BY <2>8 DEF Result
      <4>2. /\ Closed(q, f) \in Table /\ Closed(q, f)[f] = [q[f] EXCEPT !.stdin = FALSE]
            /\ \A r \in Requests : r # f => Closed(q, f)[r] = q[r]
        BY <2>3, ClosedAt
      <4> QED
        BY <2>3, <4>1, <4>2
    <3>2. /\ o.sup \in SupervisorType /\ o.sup.active = NoRequest /\ o.sup.cleanup = f
          /\ o.sup.outcome = "none" /\ ~o.sup.unproven
      BY <1>2, <1>7, <2>5, <2>8 DEF Result, Deferred, SupervisorType
    <3>3. /\ o.procs[f].phase = "spawned" /\ o.procs[f].kind = kind
          /\ o.procs[f].frame = "none" /\ o.procs[f].late = FALSE
      BY <2>1, <3>1 DEF ProcessType
    <3>4. Honest(o.procs[f], n) /\ IsUp(o.procs[f])
      BY <3>3 DEF Honest, IsUp, Alive
    <3>5. Supervised(o.sup, o.procs, f + 1)
      BY <1>0, <2>4, <3>1, <3>2, <3>4, SupervisorFields DEF Supervised, Table
    <3>6. Sound(o.sup, o.procs, f + 1, n)
      BY <1>1, <3>1, <3>4, <3>5 DEF Sound
    <3> QED
      BY <1>0, <3>1, <3>2, <3>6, SupervisorFields
  <2>9. CASE o = Result(t, p, "unavailable")
    BY <2>9, <1>6
  <2> QED
    BY <1>w, <1>7, <2>6, <2>7, <2>8, <2>9 DEF StartHelper
<1>8. ASSUME ~(~t.unproven /\ t.active = NoRequest /\ t.cleanup = NoRequest)
      PROVE  Starts
  <2>1. o = Result(t, p, "unavailable") \/ o = Result(t, p, "busy")
    BY <1>8 DEF StartHelper
  <2> QED
    BY <2>1, <1>6
<1>9. Starts
  BY <1>7, <1>8
<1> QED
  BY <1>9, Zenon DEF KeepsOne, Settled

(* What is heard of a process that left: its record, without the frame. *)
LEMMA HeardHolds ==
    ASSUME NEW s, NEW p, NEW f, NEW n, Sound(s, p, f, n), f \in Nat \ {0},
           NEW r \in Requests, s.active = r, p[r].phase = "exited",
           NEW t, t = [s EXCEPT !.active = NoRequest], NEW q, q = Heard(p, r)
    PROVE  /\ Sound(t, q, f, n)
           /\ Keeps(s, p, t, q)
           /\ Settled(t, q, r)
           /\ q[r].kind = p[r].kind /\ q[r].answer = p[r].answer /\ q[r].lease = p[r].lease
           /\ q[r].late = p[r].late /\ q[r].subject = p[r].subject /\ q[r].deadline = p[r].deadline
<1>1. /\ s \in SupervisorType /\ p \in Table /\ r \in Nat /\ s.active # NoRequest
      /\ s.cleanup = NoRequest /\ s.outcome = "none" /\ ~s.unproven /\ r < f
  BY SupervisorFields DEF Sound, Supervised, Table
<1>2. /\ t \in SupervisorType /\ t.active = NoRequest /\ t.cleanup = NoRequest
      /\ t.outcome = "none" /\ ~t.unproven
  BY <1>1 DEF SupervisorType
<1>3. /\ q \in Table
      /\ q[r] = [p[r] EXCEPT !.stdin = FALSE, !.frame = "none", !.code = "none", !.scope = "none"]
      /\ \A x \in Requests : x # r => q[x] = p[x]
  BY ZenonT(60), <1>1, HeardAt
<1>4. /\ q[r].kind = p[r].kind /\ q[r].answer = p[r].answer /\ q[r].lease = p[r].lease
      /\ q[r].late = p[r].late /\ q[r].subject = p[r].subject /\ q[r].deadline = p[r].deadline
      /\ q[r].phase = "exited" /\ q[r].frame = "none"
  BY <1>1, <1>3 DEF Table, ProcessType
<1>5. Honest(q[r], n) /\ ~IsUp(q[r])
  BY <1>4 DEF Honest, IsUp, Sound, Alive
<1>6. \A x \in Requests : ~IsUp(q[x])
  BY <1>1, <1>3, <1>5, SupervisorFields DEF Sound, Supervised
<1>7. Sound(t, q, f, n)
  BY <1>1, <1>2, <1>3, <1>5, <1>6, SupervisorFields DEF Sound, Supervised, Table
<1>8. Keeps(s, p, t, q) /\ Settled(t, q, r)
  BY ZenonT(60), <1>1, <1>2, <1>3, <1>4, SupervisorFields DEF Keeps, KeepsOne, Settled
<1> QED
  BY <1>4, <1>7, <1>8

HeardStatus == {"verified", "judged", "cancelled", "gaveup", "decided"}

(***************************************************************************)
(* poll.  An answer is taken from the active child, before its deadline,   *)
(* once it left, and the verdict is the one its frame and its code carry.  *)
(***************************************************************************)
LEMMA PollHolds ==
    ASSUME NEW st, NEW s, NEW p, NEW f, st.sup = s, st.procs = p,
           Sound(s, p, f, now), f \in Nat \ {0}, NEW r \in Requests, NEW o \in PollHelper(st, r)
    PROVE  /\ Sound(o.sup, o.procs, f, now)
           /\ Keeps(s, p, o.sup, o.procs)
           /\ o.status \in HeardStatus =>
                 /\ Settled(o.sup, o.procs, r)
                 /\ ~(now >= p[r].deadline)
                 /\ o.procs[r].kind = p[r].kind /\ o.procs[r].answer = p[r].answer
                 /\ o.procs[r].lease = p[r].lease /\ o.procs[r].late = p[r].late
                 /\ o.procs[r].subject = p[r].subject /\ o.procs[r].deadline = p[r].deadline
           /\ o.status = "verified" => p[r].kind = "bootstrap" /\ p[r].frame = "verified"
           /\ o.status = "decided" => p[r].kind = "approval"
<1>0. NoRequest \notin Requests
  BY SupervisorFields DEF Sound, Supervised
<1>1. CASE s.active # r
  <2>1. o = Result(s, p, "refused")
    BY <1>1 DEF PollHelper
  <2> QED
    BY <2>1 DEF Result, Keeps, KeepsOne, HeardStatus
<1>2. ASSUME s.active = r, NEW status \in {"expired", "unavailable"}, o \in Stopped(s, p, r, status)
      PROVE  /\ Sound(o.sup, o.procs, f, now)
             /\ Keeps(s, p, o.sup, o.procs)
             /\ o.status \notin HeardStatus
  <2>1. /\ Sound(o.sup, o.procs, f, now)
        /\ Keeps(s, p, o.sup, o.procs)
        /\ o.status \in {status, "unavailable"}
    BY <1>0, <1>2, StoppedHolds
  <2> QED
    BY <2>1 DEF HeardStatus
<1>3. CASE s.active = r /\ now >= p[r].deadline
  <2>1. o \in Stopped(s, p, r, "expired")
    BY <1>3 DEF PollHelper
  <2> QED
    BY <1>2, <1>3, <2>1 DEF HeardStatus
<1>4. CASE s.active = r /\ ~(now >= p[r].deadline)
  <2>1. CASE o \in Stopped(s, p, r, "unavailable")
    BY <1>2, <1>4, <2>1 DEF HeardStatus
  <2>2. CASE o = Result(s, p, "running")
    BY <2>2 DEF Result, Keeps, KeepsOne, HeardStatus
  <2>3. ASSUME p[r].phase = "exited", NEW verdict \in Completed(p[r]),
               o = Result([s EXCEPT !.active = NoRequest],
                          IF verdict = "refused" THEN Ended(p, r) ELSE Heard(p, r), verdict)
        PROVE  /\ Sound(o.sup, o.procs, f, now)
               /\ Keeps(s, p, o.sup, o.procs)
               /\ o.status \in HeardStatus =>
                     /\ Settled(o.sup, o.procs, r)
                     /\ o.procs[r].kind = p[r].kind /\ o.procs[r].answer = p[r].answer
                     /\ o.procs[r].lease = p[r].lease /\ o.procs[r].late = p[r].late
                     /\ o.procs[r].subject = p[r].subject /\ o.procs[r].deadline = p[r].deadline
               /\ o.status = "verified" => p[r].kind = "bootstrap" /\ p[r].frame = "verified"
               /\ o.status = "decided" => p[r].kind = "approval"
    <3>1. CASE verdict = "refused"
      <4>1. o = Result([s EXCEPT !.active = NoRequest], Ended(p, r), "refused")
        BY <2>3, <3>1
      <4>2. o \in Stopped(s, p, s.active, "refused")
        BY <1>4, <4>1 DEF Stopped
      <4>3. Sound(o.sup, o.procs, f, now) /\ Keeps(s, p, o.sup, o.procs)
        BY <1>0, <1>4, <4>2, StoppedHolds
      <4> QED
        BY <4>1, <4>3 DEF Result, HeardStatus
    <3>2. CASE verdict # "refused"
      <4>1. o.sup = [s EXCEPT !.active = NoRequest] /\ o.procs = Heard(p, r) /\ o.status = verdict
        BY <2>3, <3>2 DEF Result
      <4>2. p[r] \in ProcessType /\ Honest(p[r], now)
        BY DEF Sound, Supervised
      <4>3. p[r].frame # "none" /\ p[r].kind \in Kinds
        BY <2>3, <3>2, <4>2 DEF Completed, Honest
      <4>4. verdict = "verified" => p[r].kind = "bootstrap" /\ p[r].frame = "verified"
        BY <2>3, <3>2, <4>3 DEF Completed, Kinds
      <4>5. verdict = "decided" => p[r].kind = "approval"
        BY <2>3, <3>2, <4>2, <4>3, ProcessFields
        DEF Completed, Kinds, Answers, BootstrapAnswers, ApprovalAnswers
      <4> QED
        BY <1>4, <2>3, <4>1, <4>4, <4>5, HeardHolds
    <3> QED
      BY <3>1, <3>2
  <2>4. o \in Stopped(s, p, r, "unavailable") \union
              IF p[r].phase # "exited" THEN {Result(s, p, "running")}
              ELSE { Result([s EXCEPT !.active = NoRequest],
                            IF verdict = "refused" THEN Ended(p, r) ELSE Heard(p, r), verdict)
                     : verdict \in Completed(p[r]) }
    BY <1>4 DEF PollHelper
  <2> QED
    BY <1>4, <2>1, <2>2, <2>3, <2>4
<1> QED
  BY <1>1, <1>3, <1>4

-----------------------------------------------------------------------------
(* The process's own steps.                                                *)

(* x is what one step of the process makes of p, at instant n. *)
Moved(p, x, n) ==
    /\ x \in ProcessType /\ Honest(x, n)
    /\ IsUp(p) /\ p.phase # "exited"
    /\ x.kind # "none" => x.kind = p.kind /\ x.subject = p.subject

LEMMA MovedHolds ==
    ASSUME NEW s, NEW p, NEW f, NEW n, Sound(s, p, f, n), NEW r \in Requests,
           NEW x, Moved(p[r], x, n), NEW q, q = [p EXCEPT ![r] = x]
    PROVE  Sound(s, q, f, n) /\ Keeps(s, p, s, q)
<1>1. p \in Table
  BY DEF Sound, Supervised, Table
<1>2. q \in Table /\ q[r] = x /\ \A y \in Requests : y # r => q[y] = p[y]
  BY <1>1 DEF Table, Moved
<1>3. \A y \in Requests : IsUp(q[y]) => IsUp(p[y])
  BY <1>2 DEF Moved
<1>4. s.outcome = "reaped" => s.cleanup \in Requests
  BY SupervisorFields DEF Sound, Supervised
<1>5. Supervised(s, q, f)
  BY <1>2, <1>3, <1>4 DEF Sound, Supervised, Table
<1>6. Sound(s, q, f, n)
  BY <1>2, <1>5 DEF Sound, Moved
<1>7. Keeps(s, p, s, q)
  BY <1>2 DEF Keeps, KeepsOne, Settled, Moved
<1> QED
  BY <1>6, <1>7

LEMMA GoneMoves ==
    ASSUME NEW p, NEW n, IsUp(p)
    PROVE  Moved(p, Gone, n)
<1>1. p.phase # "exited"
  BY DEF IsUp, Alive
<1> QED
  BY <1>1, UnspawnedIsTyped DEF Moved, Honest, IsUp, Alive

LEMMA ProbeFields ==
    ASSUME NEW p \in ProcessType, NEW n, Honest(p, n), p.frame = "none",
           NEW x, x = Probe(p)
    PROVE  /\ x \in ProcessType /\ Honest(x, n) /\ x.kind = p.kind /\ x.subject = p.subject
           /\ x.phase = p.phase /\ x.deadline = p.deadline /\ x.late = p.late
           /\ x.answer = p.answer /\ x.frame = p.frame
<1>1. /\ x \in ProcessType /\ x.kind = p.kind /\ x.subject = p.subject
      /\ x.phase = p.phase /\ x.deadline = p.deadline /\ x.late = p.late
      /\ x.answer = p.answer /\ x.frame = p.frame
  BY DEF Probe, ProcessType
<1> QED
  BY <1>1 DEF Honest, IsUp

LEMMA AssistantMoves ==
    ASSUME NEW r \in Requests, procs \in Table, now \in Nat, Honest(procs[r], now),
           AssistantStep(r)
    PROVE  \E x : Moved(procs[r], x, now) /\ procs' = [procs EXCEPT ![r] = x] /\ now' = now
<1>p. PICK p : p = procs[r]
  OBVIOUS
<1>0. p \in ProcessType /\ Honest(p, now) /\ p.deadline \in Nat
  BY <1>p, ProcessFields DEF Table
<1>g. ASSUME IsUp(p) PROVE Moved(p, Gone, now)
  BY <1>g, GoneMoves
<1>1. CASE PrologueFails(r)
  BY <1>1, <1>p, <1>g DEF PrologueFails, Set, IsUp, Alive
<1>2. CASE EnterSession(r)
  <2>1. PICK q : q = Probe(p)
    OBVIOUS
  <2>2. p.phase = "spawned" /\ IsUp(p) /\ p.frame = "none" /\ p.kind \in Kinds
    BY <1>2, <1>0, <1>p DEF EnterSession, IsUp, Alive, Honest
  <2>3. /\ q \in ProcessType /\ Honest(q, now) /\ q.kind = p.kind /\ q.subject = p.subject
        /\ q.deadline = p.deadline /\ q.frame = p.frame /\ q.late = p.late
    BY <2>1, <2>2, <1>0, ProbeFields
  <2>4. CASE now >= q.deadline
    <3>1. PICK x : x = [q EXCEPT !.phase = "written", !.frame = "expired"]
      OBVIOUS
    <3>2. "written" \in Alive /\ "expired" \in Answers
      BY DEF Alive, Answers, BootstrapAnswers
    <3>3. /\ x \in ProcessType /\ x.phase = "written" /\ x.frame = "expired" /\ x.kind = q.kind
          /\ x.subject = q.subject /\ x.deadline = q.deadline /\ x.late = q.late
      BY <2>3, <3>1, <3>2 DEF ProcessType
    <3>4. Moved(p, x, now)
      BY <2>2, <2>3, <3>3 DEF Moved, Honest, IsUp
    <3> QED
      BY <1>2, <1>p, <2>1, <2>4, <3>1, <3>4 DEF EnterSession, Set
  <2>5. CASE ~(now >= q.deadline)
    <3>1. PICK x : x = [q EXCEPT !.phase = "serving"]
      OBVIOUS
    <3>2. "serving" \in Alive
      BY DEF Alive
    <3>3. /\ x \in ProcessType /\ x.phase = "serving" /\ x.frame = q.frame /\ x.kind = q.kind
          /\ x.subject = q.subject /\ x.deadline = q.deadline /\ x.late = q.late
      BY <2>3, <3>1, <3>2 DEF ProcessType
    <3>4. Moved(p, x, now)
      BY <2>2, <2>3, <3>3 DEF Moved, Honest, IsUp
    <3> QED
      BY <1>2, <1>p, <2>1, <2>5, <3>1, <3>4 DEF EnterSession, Set
  <2> QED
    BY <2>4, <2>5
<1>3. CASE ProbeLease(r)
  <2>1. PICK x : x = Probe(p)
    OBVIOUS
  <2>2. p.phase = "serving" /\ IsUp(p) /\ p.frame = "none"
    BY <1>3, <1>0, <1>p DEF ProbeLease, IsUp, Alive, Honest
  <2>3. Moved(p, x, now)
    BY <2>1, <2>2, <1>0, ProbeFields DEF Moved
  <2> QED
    BY <1>3, <1>p, <2>1, <2>3 DEF ProbeLease, Set
<1>4. CASE AnswerBootstrap(r)
  <2>1. p.phase = "serving" /\ IsUp(p) /\ p.frame = "none" /\ p.kind = "bootstrap"
    BY <1>4, <1>0, <1>p DEF AnswerBootstrap, IsUp, Alive, Honest
  <2>2. PICK answer \in BootstrapAnswers, scope \in Scopes :
           procs' = [procs EXCEPT ![r] = [p EXCEPT !.phase = "answered", !.answer = answer,
                                                    !.late = now >= p.deadline, !.scope = scope]]
    BY <1>4, <1>p DEF AnswerBootstrap, Set
  <2>3. PICK x : x = [p EXCEPT !.phase = "answered", !.answer = answer,
                               !.late = now >= p.deadline, !.scope = scope]
    OBVIOUS
  <2>4. "answered" \in Alive /\ answer \in Answers /\ (now >= p.deadline) \in BOOLEAN
    BY DEF Alive, Answers
  <2>5. x \in ProcessType
    BY <1>0, <2>3, <2>4 DEF ProcessType
  <2>6. /\ x.phase = "answered" /\ x.frame = p.frame /\ x.kind = p.kind
        /\ x.subject = p.subject /\ x.deadline = p.deadline /\ x.late = (now >= p.deadline)
    BY <1>0, <2>3 DEF ProcessType
  <2>7. Moved(p, x, now)
    BY <2>1, <2>5, <2>6 DEF Moved, Honest, IsUp, Kinds
  <2> QED
    BY <1>4, <1>p, <2>2, <2>3, <2>7 DEF AnswerBootstrap
<1>5. CASE ResolveBootstrap(r)
  <2>1. p.phase = "answered" /\ IsUp(p) /\ p.frame = "none" /\ p.kind = "bootstrap"
    BY <1>5, <1>0, <1>p DEF ResolveBootstrap, IsUp, Alive, Honest
  <2>2. PICK q : q = Probe(p)
    OBVIOUS
  <2>3. /\ q \in ProcessType /\ Honest(q, now) /\ q.kind = p.kind /\ q.subject = p.subject
        /\ q.deadline = p.deadline /\ q.frame = p.frame /\ q.late = p.late
    BY <2>1, <2>2, <1>0, ProbeFields
  <2> DEFINE terminal == CASE now >= q.deadline -> "expired"
                           [] now < q.deadline /\ q.lease = "cancelled" -> "cancelled"
                           [] OTHER -> q.answer
             scope == IF terminal \in {"verified", "refused"} THEN q.scope ELSE "none"
  <2>4. CASE procs' = [procs EXCEPT ![r] = [q EXCEPT !.phase = "written", !.frame = terminal,
                                                      !.scope = scope]]
    <3>1. terminal \in Answers \union {"none"} /\ scope \in Scopes
      BY <2>3, ProcessFields DEF Answers, BootstrapAnswers, Scopes
    <3>2. terminal = "verified" => q.answer = "verified" /\ q.lease = "active" /\ ~(now >= q.deadline)
      BY <2>3, ProcessFields
    <3> HIDE DEF terminal, scope
    <3>3. PICK x : x = [q EXCEPT !.phase = "written", !.frame = terminal, !.scope = scope]
      OBVIOUS
    <3>4. "written" \in Alive
      BY DEF Alive
    <3>5. x \in ProcessType
      BY <2>3, <3>1, <3>3, <3>4 DEF ProcessType
    <3>6. /\ x.phase = "written" /\ x.frame = terminal /\ x.kind = q.kind
          /\ x.subject = q.subject /\ x.deadline = q.deadline /\ x.late = q.late
          /\ x.answer = q.answer /\ x.lease = q.lease
      BY <2>3, <3>3 DEF ProcessType
    <3>7. Honest(x, now)
      BY <2>1, <2>3, <3>2, <3>6 DEF Honest, IsUp, Kinds
    <3>8. Moved(p, x, now)
      BY <2>1, <2>3, <3>5, <3>6, <3>7 DEF Moved
    <3> QED
      BY <1>5, <1>p, <2>4, <3>3, <3>8 DEF ResolveBootstrap
  <2>5. CASE procs' = [procs EXCEPT ![r] = Gone]
    BY <1>5, <1>p, <1>g, <2>1, <2>5 DEF ResolveBootstrap
  <2> QED
    BY <1>5, <1>p, <2>2, <2>4, <2>5 DEF ResolveBootstrap, Set
<1>6. CASE AnswerApproval(r)
  <2>1. p.phase = "serving" /\ IsUp(p) /\ p.frame = "none" /\ p.kind = "approval"
    BY <1>6, <1>0, <1>p DEF AnswerApproval, IsUp, Alive, Honest
  <2>2. PICK answer \in ApprovalAnswers :
           \/ procs' = [procs EXCEPT ![r] = [p EXCEPT !.phase = "written", !.frame = answer,
                                               !.answer = answer, !.late = now >= p.deadline]]
           \/ procs' = [procs EXCEPT ![r] = Gone]
    BY <1>6, <1>p DEF AnswerApproval, Set
  <2>3. PICK x : x = [p EXCEPT !.phase = "written", !.frame = answer,
                               !.answer = answer, !.late = now >= p.deadline]
    OBVIOUS
  <2>4. "written" \in Alive /\ answer \in Answers /\ (now >= p.deadline) \in BOOLEAN
    BY DEF Alive, Answers
  <2>5. x \in ProcessType
    BY <1>0, <2>3, <2>4 DEF ProcessType
  <2>6. /\ x.phase = "written" /\ x.frame = answer /\ x.kind = p.kind /\ x.answer = answer
        /\ x.subject = p.subject /\ x.deadline = p.deadline /\ x.late = (now >= p.deadline)
    BY <1>0, <2>3 DEF ProcessType
  <2>7. Moved(p, x, now)
    BY <2>1, <2>5, <2>6 DEF Moved, Honest, IsUp, Kinds
  <2> QED
    BY <1>6, <1>p, <1>g, <2>1, <2>2, <2>3, <2>7 DEF AnswerApproval
<1>7. ASSUME NEW code \in Codes, IsUp(p),
             procs' = [procs EXCEPT ![r] = [p EXCEPT !.phase = "exited", !.code = code]]
      PROVE  \E x : Moved(p, x, now) /\ procs' = [procs EXCEPT ![r] = x]
  <2>1. PICK x : x = [p EXCEPT !.phase = "exited", !.code = code]
    OBVIOUS
  <2>2. x \in ProcessType
    BY <1>0, <1>7, <2>1 DEF ProcessType
  <2>3. /\ x.phase = "exited" /\ x.kind = p.kind /\ x.subject = p.subject /\ x.late = p.late
        /\ x.frame = p.frame /\ x.answer = p.answer /\ x.lease = p.lease /\ x.deadline = p.deadline
    BY <1>0, <2>1 DEF ProcessType
  <2>4. Moved(p, x, now)
    BY <1>0, <1>7, <2>2, <2>3 DEF Moved, Honest, IsUp, Alive
  <2> QED
    BY <1>7, <2>1, <2>4
<1>8. CASE Exit(r)
  <2>1. ExitCode(p.frame) \in Codes /\ IsUp(p)
    BY <1>8, <1>0, <1>p, ProcessFields DEF Exit, IsUp, Alive, ExitCode, Codes
  <2> QED
    BY <1>7, <1>8, <1>p, <2>1 DEF Exit, Set
<1>9. CASE WatchdogForces(r)
  <2>1. "watchdog" \in Codes /\ IsUp(p)
    BY <1>9, <1>p DEF WatchdogForces, IsAlive, IsUp, Codes
  <2> QED
    BY <1>7, <1>9, <1>p, <2>1 DEF WatchdogForces, Set
<1> QED
  BY <1>1, <1>2, <1>3, <1>4, <1>5, <1>6, <1>8, <1>9 DEF AssistantStep

-----------------------------------------------------------------------------
(* The two sessions of the App.                                            *)

LEMMA BootKept ==
    ASSUME NEW b \in BootType, NEW s, NEW p, NEW f \in Nat, BootIsHonest(b, s, p, f),
           NEW t, NEW q, NEW g \in Nat, g >= f,
           \A r \in Requests : r < f => KeepsOne(s, p, t, q, r)
    PROVE  BootIsHonest(b, t, q, g)
<1> SUFFICES ASSUME b # None PROVE BootIsHonest(b, t, q, g)
  BY DEF BootIsHonest
<1>1. b.rid \in Requests /\ b.rid \in Nat /\ b.rid < f /\ b.rid < g
  BY DEF BootType, BootIsHonest, Requests
<1>2. KeepsOne(s, p, t, q, b.rid)
  BY <1>1
<1> QED
  BY <1>1, <1>2 DEF BootIsHonest, KeepsOne

LEMMA ConsentKept ==
    ASSUME NEW c \in ConsentType, NEW s, NEW p, NEW f \in Nat, NEW k, NEW h,
           ConsentIsHonest(c, s, p, f, k, h),
           NEW t, NEW q, NEW g \in Nat, g >= f,
           \A r \in Requests : r < f => KeepsOne(s, p, t, q, r)
    PROVE  ConsentIsHonest(c, t, q, g, k, h)
<1> SUFFICES ASSUME c # None PROVE ConsentIsHonest(c, t, q, g, k, h)
  BY DEF ConsentIsHonest
<1>1. c.rid \in Requests /\ c.rid \in Nat /\ c.rid < f /\ c.rid < g
  BY DEF ConsentType, ConsentIsHonest, Requests
<1>2. KeepsOne(s, p, t, q, c.rid)
  BY <1>1
<1>3. c.answer = "confirmed" => q[c.rid] = p[c.rid] /\ Settled(t, q, c.rid)
  BY <1>2 DEF ConsentIsHonest, KeepsOne
<1> QED
  BY <1>1, <1>3 DEF ConsentIsHonest

(* The types of what the supervisor does not hold. *)
AppTypeOK ==
    /\ now \in 0..MaxTime
    /\ vault \in {"locked", "unlocked"}
    /\ fresh \in 1..(MaxRequests + 1)
    /\ boot \in BootType
    /\ narrow \in Targets \union {0}
    /\ closed \in BOOLEAN
    /\ pair \in 0..MaxPairs
    /\ consent \in ConsentType
    /\ signed \in [Requests -> Nat]

(* SessionInv, as its parts are kept. *)
LEMMA SessionParts ==
    SessionInv <=>
        /\ AppTypeOK
        /\ Sound(sup, procs, fresh, now)
        /\ BootIsHonest(boot, sup, procs, fresh)
        /\ ConsentIsHonest(consent, sup, procs, fresh, pair, signed)
        /\ \A r \in Requests : r >= fresh => signed[r] = 0
BY DEF SessionInv, TypeOK, AppTypeOK, AssistantTypeOK, Sound, Supervised

LEMMA SessionPartsNext ==
    ASSUME AppTypeOK', Sound(sup', procs', fresh', now'),
           BootIsHonest(boot', sup', procs', fresh'),
           ConsentIsHonest(consent', sup', procs', fresh', pair', signed'),
           \A r \in Requests : r >= fresh' => signed'[r] = 0
    PROVE  SessionInv'
BY DEF SessionInv, TypeOK, AppTypeOK, AssistantTypeOK, Sound, Supervised

LEMMA Numbers ==
    ASSUME SessionInv
    PROVE  /\ now \in Nat /\ fresh \in Nat \ {0} /\ pair \in Nat
           /\ \A r \in Requests : r \in Nat \ {0}
           /\ Lifetime \in Nat /\ AuthorityTime \in Nat /\ NoRequest \notin Requests
           /\ None = [rid |-> 0] /\ None.rid = 0
BY TimeAssumption, SessionsAssumption DEF SessionInv, TypeOK, AssistantTypeOK, Requests, NoRequest, None

(* A step of the supervisor or of a process that leaves both sessions alone. *)
LEMMA SessionsUntouched ==
    ASSUME SessionInv, Sound(sup', procs', fresh', now'), Keeps(sup, procs, sup', procs'),
           now' \in 0..MaxTime, UNCHANGED appVars
    PROVE  SessionInv'
<1>1. /\ BootIsHonest(boot, sup, procs, fresh) /\ boot \in BootType
      /\ ConsentIsHonest(consent, sup, procs, fresh, pair, signed) /\ consent \in ConsentType
      /\ fresh \in Nat /\ \A r \in Requests : r < fresh => KeepsOne(sup, procs, sup', procs', r)
  BY Numbers DEF SessionInv, TypeOK, Keeps
<1>2. /\ boot' = boot /\ consent' = consent /\ fresh' = fresh /\ pair' = pair /\ signed' = signed
      /\ vault' = vault /\ narrow' = narrow /\ closed' = closed
  BY DEF appVars
<1>3. BootIsHonest(boot, sup', procs', fresh)
  BY <1>1, BootKept
<1>4. ConsentIsHonest(consent, sup', procs', fresh, pair, signed)
  BY <1>1, ConsentKept
<1>5. AppTypeOK'
  BY <1>2 DEF SessionInv, TypeOK, AssistantTypeOK, AppTypeOK
<1>6. \A r \in Requests : r >= fresh' => signed'[r] = 0
  BY <1>2 DEF SessionInv
<1> QED
  BY <1>2, <1>3, <1>4, <1>5, <1>6, SessionPartsNext

LEMMA AssistantKeeps ==
    ASSUME SessionInv, Assistant
    PROVE  SessionInv'
<1>1. PICK r \in Requests : AssistantStep(r)
  BY DEF Assistant
<1>2. UNCHANGED <<sup, appVars>> /\ fresh' = fresh
  BY DEF Assistant, appVars
<1>3. /\ procs \in Table /\ now \in Nat /\ Honest(procs[r], now) /\ now \in 0..MaxTime
      /\ Sound(sup, procs, fresh, now)
  BY Numbers, SessionParts DEF SessionInv, TypeOK, AssistantTypeOK, Table
<1>4. PICK x : Moved(procs[r], x, now) /\ procs' = [procs EXCEPT ![r] = x] /\ now' = now
  BY <1>1, <1>3, AssistantMoves
<1>5. Sound(sup, procs', fresh, now) /\ Keeps(sup, procs, sup, procs')
  BY <1>3, <1>4, MovedHolds
<1> QED
  BY <1>2, <1>3, <1>4, <1>5, SessionsUntouched

LEMMA ReaperKeeps ==
    ASSUME SessionInv, Reaper
    PROVE  SessionInv'
<1> DEFINE r == sup.cleanup
<1>1. /\ r # NoRequest /\ sup.outcome = "none" /\ now' = now
      /\ UNCHANGED appVars /\ fresh' = fresh
  BY DEF Reaper, Reap, appVars
<1>2. /\ Sound(sup, procs, fresh, now) /\ sup \in SupervisorType /\ procs \in Table
      /\ now \in 0..MaxTime /\ fresh \in Nat \ {0}
  BY SessionParts, Numbers DEF SessionInv, TypeOK, AssistantTypeOK, Table
<1>3. r \in Requests /\ sup.active = NoRequest /\ ~sup.unproven /\ r < fresh
  BY <1>1, <1>2, SupervisorFields DEF Sound, Supervised
<1>4. CASE procs' = Ended(procs, r) /\ sup' = [sup EXCEPT !.outcome = "reaped"]
  <2>1. /\ sup' \in SupervisorType /\ sup'.active = NoRequest /\ sup'.cleanup = r
        /\ sup'.outcome = "reaped" /\ ~sup'.unproven
    BY <1>2, <1>3, <1>4 DEF SupervisorType
  <2>2. procs' \in Table /\ procs'[r] = Gone /\ \A x \in Requests : x # r => procs'[x] = procs[x]
    BY <1>2, <1>3, <1>4, EndedAt
  <2>3. ~IsUp(procs'[r]) /\ Honest(procs'[r], now) /\ procs'[r].kind = "none"
    BY <2>2, UnspawnedIsTyped DEF IsUp, Honest, Alive
  <2>4. \A x \in Requests : ~IsUp(procs'[x])
    BY <1>2, <1>3, <2>2, <2>3, SupervisorFields DEF Sound, Supervised
  <2>5. Sound(sup', procs', fresh', now')
    BY <1>1, <1>2, <1>3, <2>1, <2>2, <2>3, <2>4, SupervisorFields DEF Sound, Supervised, Table
  <2>6. Keeps(sup, procs, sup', procs')
    BY <1>3, <2>1, <2>2, <2>3 DEF Keeps, KeepsOne, Settled
  <2> QED
    BY <1>1, <1>2, <2>5, <2>6, SessionsUntouched
<1>5. CASE sup' = [sup EXCEPT !.outcome = "unproven"] /\ procs' = procs
  <2>1. /\ sup' \in SupervisorType /\ sup'.active = NoRequest /\ sup'.cleanup = r
        /\ sup'.outcome = "unproven" /\ ~sup'.unproven
    BY <1>2, <1>3, <1>5 DEF SupervisorType
  <2>2. Sound(sup', procs', fresh', now')
    BY <1>1, <1>2, <1>3, <1>5, <2>1 DEF Sound, Supervised, Table
  <2>3. Keeps(sup, procs, sup', procs')
    BY <1>3, <1>5, <2>1 DEF Keeps, KeepsOne, Settled
  <2> QED
    BY <1>1, <1>2, <2>2, <2>3, SessionsUntouched
<1> QED
  BY <1>4, <1>5 DEF Reaper, Reap

LEMMA ClockKeeps ==
    ASSUME SessionInv, Clock
    PROVE  SessionInv'
<1>1. /\ now \in Nat /\ now' = now + 1 /\ now' \in 0..MaxTime /\ procs' = procs /\ sup' = sup
      /\ UNCHANGED appVars /\ fresh' = fresh
  BY Numbers, TimeAssumption DEF Clock, Tick, SessionInv, TypeOK, AssistantTypeOK, appVars
<1>2. \A p \in ProcessType : Honest(p, now) => Honest(p, now + 1)
  BY <1>1, ProcessFields DEF Honest
<1>3. Sound(sup', procs', fresh', now')
  BY <1>1, <1>2 DEF Sound, SessionInv, Supervised
<1>4. Keeps(sup, procs, sup', procs')
  BY <1>1 DEF Keeps, KeepsOne
<1> QED
  BY <1>1, <1>3, <1>4, SessionsUntouched

-----------------------------------------------------------------------------
(* The commands.                                                           *)

(* What stopping the helper, whatever comes of it, leaves of the invariant. *)
LEMMA StopFromHere ==
    ASSUME SessionInv, NEW o \in StopActive(Here), Became(o)
    PROVE  Sound(sup', procs', fresh, now) /\ Keeps(sup, procs, sup', procs')
<1>1. Sound(sup, procs, fresh, now) /\ Here.sup = sup /\ Here.procs = procs /\ fresh \in Nat \ {0}
  BY SessionParts, Numbers DEF Here
<1>2. Sound(o.sup, o.procs, fresh, now) /\ Keeps(sup, procs, o.sup, o.procs)
  BY <1>1, StopHolds
<1> QED
  BY <1>2 DEF Became

(* The consent is left alone while the supervisor moves. *)
LEMMA ConsentUntouched ==
    ASSUME SessionInv, consent' = consent, pair' = pair, signed' = signed, fresh' \in Nat,
           fresh' >= fresh,
           \A r \in Requests : r < fresh => KeepsOne(sup, procs, sup', procs', r)
    PROVE  /\ ConsentIsHonest(consent', sup', procs', fresh', pair', signed')
           /\ \A r \in Requests : r >= fresh' => signed'[r] = 0
<1>1. /\ ConsentIsHonest(consent, sup, procs, fresh, pair, signed) /\ consent \in ConsentType
      /\ fresh \in Nat /\ \A r \in Requests : r \in Nat
      /\ \A r \in Requests : r >= fresh => signed[r] = 0
  BY Numbers DEF SessionInv, TypeOK
<1>2. ConsentIsHonest(consent, sup', procs', fresh', pair, signed)
  BY <1>1, ConsentKept
<1> QED
  BY <1>1, <1>2

LEMMA BootUntouched ==
    ASSUME SessionInv, boot' = boot, fresh' \in Nat, fresh' >= fresh,
           \A r \in Requests : r < fresh => KeepsOne(sup, procs, sup', procs', r)
    PROVE  BootIsHonest(boot', sup', procs', fresh')
<1>1. /\ BootIsHonest(boot, sup, procs, fresh) /\ boot \in BootType /\ fresh \in Nat
  BY Numbers DEF SessionInv, TypeOK
<1> QED
  BY <1>1, BootKept

(* lock_app, close and every command that ends the bootstrap by a stop. *)
LEMMA StopEndsBoot ==
    ASSUME SessionInv, AppTypeOK', NEW o \in StopActive(Here), Became(o),
           boot' = None, UNCHANGED <<now, fresh, pair, consent, signed>>
    PROVE  SessionInv'
<1>1. Sound(sup', procs', fresh, now) /\ Keeps(sup, procs, sup', procs') /\ fresh \in Nat
  BY StopFromHere, Numbers
<1>2. BootIsHonest(boot', sup', procs', fresh')
  BY DEF BootIsHonest
<1>3. /\ ConsentIsHonest(consent', sup', procs', fresh', pair', signed')
      /\ \A r \in Requests : r >= fresh' => signed'[r] = 0
  BY <1>1, ConsentUntouched DEF Keeps
<1> QED
  BY <1>1, <1>2, <1>3, SessionPartsNext

LEMMA LockKeeps ==
    ASSUME SessionInv, LockApp \/ CloseWindow
    PROVE  SessionInv'
<1>1. boot' = None /\ UNCHANGED <<now, fresh, narrow, pair, consent, signed>>
  BY DEF LockApp, CloseWindow
<1>2. None \in BootType
  BY DEF BootType
<1>3. AppTypeOK'
  BY <1>1, <1>2 DEF LockApp, CloseWindow, SessionInv, TypeOK, AssistantTypeOK, AppTypeOK
<1>4. PICK o \in StopActive(Here) : Became(o)
  BY DEF LockApp, CloseWindow
<1> QED
  BY <1>1, <1>3, <1>4, StopEndsBoot

LEMMA UnlockKeeps ==
    ASSUME SessionInv, Unlock
    PROVE  SessionInv'
<1>1. AppTypeOK'
  BY DEF Unlock, SessionInv, TypeOK, AssistantTypeOK, AppTypeOK
<1> QED
  BY <1>1, SessionPartsNext, SessionParts DEF Unlock

(* start_bootstrap. *)
LEMMA StartBootstrapKeeps ==
    ASSUME SessionInv, NEW t \in Targets, NEW a \in Actions, StartBootstrap(t, a)
    PROVE  SessionInv'
<1> DEFINE taken == [rid |-> fresh, target |-> t, action |-> a, expires |-> now + Lifetime,
                     concluded |-> "awaiting"]
<1>0. /\ Sound(sup, procs, fresh, now) /\ fresh \in Nat \ {0} /\ now \in Nat /\ Lifetime \in Nat
      /\ None \in BootType /\ boot \in BootType /\ t \in Nat
  BY SessionParts, Numbers, SessionsAssumption DEF SessionInv, TypeOK, BootType
<1>1. /\ UNCHANGED <<now, vault, closed, pair, consent, signed>>
      /\ fresh \in Requests
  BY DEF StartBootstrap, RoomForSession
<1>2. CASE /\ boot' = Swept(boot) /\ narrow' = 0 /\ UNCHANGED <<fresh, sup, procs>>
  <2>1. boot' \in {boot, None}
    BY <1>2 DEF Swept
  <2>2. AppTypeOK'
    BY <1>0, <1>1, <1>2, <2>1 DEF SessionInv, TypeOK, AssistantTypeOK, AppTypeOK
  <2>3. BootIsHonest(boot', sup', procs', fresh')
    BY <1>2, <2>1 DEF SessionInv, BootIsHonest
  <2>4. /\ Sound(sup', procs', fresh', now')
        /\ ConsentIsHonest(consent', sup', procs', fresh', pair', signed')
        /\ \A r \in Requests : r >= fresh' => signed'[r] = 0
    BY <1>0, <1>1, <1>2 DEF SessionInv
  <2> QED
    BY <2>2, <2>3, <2>4, SessionPartsNext
<1>3. ASSUME fresh' = fresh + 1, narrow' = narrow, boot' \in BootType,
             Sound(sup', procs', fresh', now),
             \A r \in Requests : r < fresh => KeepsOne(sup, procs, sup', procs', r),
             BootIsHonest(boot', sup', procs', fresh')
      PROVE  SessionInv'
  <2>1. fresh' \in 1..(MaxRequests + 1) /\ fresh' \in Nat /\ fresh' >= fresh
    BY <1>0, <1>1, <1>3, TimeAssumption DEF Requests
  <2>2. AppTypeOK'
    BY <1>1, <1>3, <2>1 DEF SessionInv, TypeOK, AssistantTypeOK, AppTypeOK
  <2>3. /\ ConsentIsHonest(consent', sup', procs', fresh', pair', signed')
        /\ \A r \in Requests : r >= fresh' => signed'[r] = 0
    BY <1>1, <1>3, <2>1, ConsentUntouched
  <2> QED
    BY <1>1, <1>3, <2>2, <2>3, SessionPartsNext
<1>4. ASSUME fresh' = fresh + 1, narrow' = narrow,
             NEW stop \in StopActive(Here), stop.status # "ok", Became(stop), boot' = None
      PROVE  SessionInv'
  <2>1. Sound(sup', procs', fresh, now) /\ Keeps(sup, procs, sup', procs')
    BY <1>4, StopFromHere
  <2>2. Sound(sup', procs', fresh', now)
    BY <1>0, <1>4, <2>1, SupervisorFields DEF Sound, Supervised
  <2> QED
    BY <1>0, <1>3, <1>4, <2>1, <2>2 DEF Keeps, BootIsHonest
<1>5. ASSUME fresh' = fresh + 1, narrow' = narrow,
             NEW stop \in StopActive(Here), stop.status = "ok",
             NEW run \in StartHelper(stop, fresh, "bootstrap", t, now + Lifetime),
             Became(run), boot' = IF run.status = "ok" THEN taken ELSE None
      PROVE  SessionInv'
  <2>1. Sound(stop.sup, stop.procs, fresh, now) /\ Keeps(sup, procs, stop.sup, stop.procs)
    <3>1. Here.sup = sup /\ Here.procs = procs
      BY DEF Here
    <3> QED
      BY <1>0, <1>5, <3>1, StopHolds
  <2>2. now + Lifetime \in Nat /\ "bootstrap" \in Kinds
    BY <1>0 DEF Kinds
  <2>3. /\ Sound(run.sup, run.procs, fresh + 1, now)
        /\ \A r \in Requests : r < fresh => KeepsOne(stop.sup, stop.procs, run.sup, run.procs, r)
        /\ run.status = "ok" => run.procs[fresh] = Spawned("bootstrap", t, now + Lifetime)
    BY <1>0, <1>1, <1>5, <2>1, <2>2, StartHolds
  <2>4. sup' = run.sup /\ procs' = run.procs
    BY <1>5 DEF Became
  <2>5. \A r \in Requests : r < fresh => KeepsOne(sup, procs, sup', procs', r)
    BY <2>1, <2>3, <2>4, Zenon DEF Keeps, KeepsOne
  <2>6. taken \in BootType /\ taken # None
    BY <1>0, <1>1, <2>2 DEF BootType, None, NoRequest
  <2>7. BootIsHonest(boot', sup', procs', fresh')
    <3>1. CASE run.status # "ok"
      BY <1>5, <3>1 DEF BootIsHonest
    <3>2. CASE run.status = "ok"
      <4>1. procs'[fresh].subject = t
        BY <2>3, <2>4, <3>2 DEF Spawned, Unspawned
      <4> QED
        BY <1>0, <1>5, <3>2, <4>1 DEF BootIsHonest
    <3> QED
      BY <3>1, <3>2
  <2> QED
    BY <1>0, <1>3, <1>5, <2>3, <2>4, <2>5, <2>6, <2>7
<1> QED
  BY <1>2, <1>4, <1>5 DEF StartBootstrap

(* bootstrap_status. *)
LEMMA BootstrapStatusKeeps ==
    ASSUME SessionInv, NEW r \in Requests, BootstrapStatus(r)
    PROVE  SessionInv'
<1>0. /\ Sound(sup, procs, fresh, now) /\ fresh \in Nat \ {0} /\ Here.sup = sup /\ Here.procs = procs
      /\ None \in BootType /\ boot \in BootType /\ BootIsHonest(boot, sup, procs, fresh)
      /\ \A x \in Requests : Honest(procs[x], now)
  BY SessionParts, Numbers DEF SessionInv, TypeOK, BootType, Here
<1>1. UNCHANGED <<now, vault, fresh, closed, pair, consent, signed>>
  BY DEF BootstrapStatus
<1>2. CASE Lapsed(boot) /\ boot' = None /\ (\E stop \in StopActive(Here) : Became(stop))
           /\ UNCHANGED narrow
  <2>1. AppTypeOK'
    BY <1>0, <1>1, <1>2 DEF SessionInv, TypeOK, AssistantTypeOK, AppTypeOK
  <2> QED
    BY <1>1, <1>2, <2>1, StopEndsBoot
<1>3. ASSUME boot.rid = r, Waiting(boot), NEW poll \in PollHelper(Here, r),
             \/ /\ poll.status = "running"
                /\ Became(poll) /\ UNCHANGED <<boot, narrow>>
             \/ /\ poll.status \in DOMAIN Conclusions
                /\ Became(poll)
                /\ narrow' = Retained(procs[r].scope, boot.target)
                /\ boot' = [boot EXCEPT !.concluded = Conclusions[poll.status]]
             \/ /\ poll.status \in {"refused", "expired", "unavailable", "decided"}
                /\ \E stop \in StopActive(poll) : Became(stop)
                /\ boot' = None /\ UNCHANGED narrow
      PROVE  SessionInv'
  <2>1. /\ Sound(poll.sup, poll.procs, fresh, now)
        /\ Keeps(sup, procs, poll.sup, poll.procs)
        /\ poll.status \in HeardStatus =>
              /\ Settled(poll.sup, poll.procs, r)
              /\ ~(now >= procs[r].deadline)
              /\ poll.procs[r].kind = procs[r].kind /\ poll.procs[r].answer = procs[r].answer
              /\ poll.procs[r].lease = procs[r].lease /\ poll.procs[r].late = procs[r].late
              /\ poll.procs[r].subject = procs[r].subject
        /\ poll.status = "verified" => procs[r].kind = "bootstrap" /\ procs[r].frame = "verified"
    BY <1>0, <1>3, PollHolds
  <2>2. /\ boot # None /\ boot.rid < fresh /\ boot.target \in Targets /\ boot.concluded = "awaiting"
        /\ boot \in [rid : Requests, target : Targets, action : Actions, expires : Nat,
                     concluded : Outcomes \union {"awaiting"}]
        /\ procs[r].kind = "bootstrap" => procs[r].subject = boot.target
    BY <1>0, <1>3 DEF Waiting, BootType, BootIsHonest
  <2>3. ASSUME Sound(sup', procs', fresh, now), Keeps(sup, procs, sup', procs'),
               boot' \in BootType, narrow' \in Targets \union {0},
               BootIsHonest(boot', sup', procs', fresh)
        PROVE  SessionInv'
    <3>1. AppTypeOK'
      BY <1>1, <2>3 DEF SessionInv, TypeOK, AssistantTypeOK, AppTypeOK
    <3>2. /\ ConsentIsHonest(consent', sup', procs', fresh', pair', signed')
          /\ \A x \in Requests : x >= fresh' => signed'[x] = 0
      BY <1>0, <1>1, <2>3, ConsentUntouched DEF Keeps
    <3> QED
      BY <1>1, <2>3, <3>1, <3>2, SessionPartsNext
  <2>4. CASE poll.status = "running" /\ Became(poll) /\ UNCHANGED <<boot, narrow>>
    <3>1. Sound(sup', procs', fresh, now) /\ Keeps(sup, procs, sup', procs')
      BY <2>1, <2>4 DEF Became
    <3>2. BootIsHonest(boot', sup', procs', fresh')
      BY <1>0, <1>1, <2>4, <3>1, BootUntouched DEF Keeps
    <3> QED
      BY <1>0, <1>1, <2>3, <2>4, <3>1, <3>2 DEF SessionInv, TypeOK
  <2>5. CASE /\ poll.status \in DOMAIN Conclusions
             /\ Became(poll)
             /\ narrow' = Retained(procs[r].scope, boot.target)
             /\ boot' = [boot EXCEPT !.concluded = Conclusions[poll.status]]
    <3>1. Sound(sup', procs', fresh, now) /\ Keeps(sup, procs, sup', procs') /\ procs' = poll.procs
          /\ sup' = poll.sup
      BY <2>1, <2>5 DEF Became
    <3>2. /\ poll.status \in {"verified", "judged", "cancelled", "gaveup"}
          /\ Conclusions[poll.status] \in Outcomes
          /\ Conclusions[poll.status] = "verified" => poll.status = "verified"
      BY <2>5 DEF Conclusions, Outcomes
    <3>3. narrow' \in Targets \union {0}
      <4>1. narrow \in Targets \union {0}
        BY DEF SessionInv, TypeOK
      <4> QED
        BY <2>2, <2>5, <4>1 DEF Retained
    <3>4. /\ boot' \in BootType /\ boot'.rid = r /\ boot'.target = boot.target
          /\ boot'.concluded = Conclusions[poll.status]
      BY <1>3, <2>2, <2>5, <3>2 DEF BootType
    <3>5. poll.status \in HeardStatus /\ Conclusions[poll.status] # "awaiting"
      BY <3>2 DEF HeardStatus, Outcomes
    <3>6. poll.status = "verified" =>
             /\ procs[r].answer = "verified" /\ procs[r].lease = "active" /\ ~procs[r].late
             /\ procs[r].subject = boot.target
      BY <1>0, <2>1, <2>2 DEF Honest
    <3>7. BootIsHonest(boot', sup', procs', fresh)
      BY <1>3, <2>1, <2>2, <3>1, <3>2, <3>4, <3>5, <3>6 DEF BootIsHonest
    <3> QED
      BY <2>3, <3>1, <3>3, <3>4, <3>7
  <2>6. CASE /\ \E stop \in StopActive(poll) : Became(stop)
             /\ boot' = None /\ UNCHANGED narrow
    <3>1. PICK stop \in StopActive(poll) : Became(stop)
      BY <2>6
    <3>2. Sound(stop.sup, stop.procs, fresh, now) /\ Keeps(poll.sup, poll.procs, stop.sup, stop.procs)
      BY <1>0, <2>1, <3>1, StopHolds
    <3>3. Sound(sup', procs', fresh, now) /\ Keeps(sup, procs, sup', procs')
      BY <2>1, <3>1, <3>2, KeepsIsTransitive DEF Became
    <3> QED
      BY <1>0, <2>3, <2>6, <3>3 DEF BootIsHonest, SessionInv, TypeOK
  <2> QED
    BY <1>3, <2>4, <2>5, <2>6
<1> QED
  BY <1>2, <1>3 DEF BootstrapStatus

(* cancel_bootstrap. *)
LEMMA CancelBootstrapKeeps ==
    ASSUME SessionInv, NEW r \in Requests, CancelBootstrap(r)
    PROVE  SessionInv'
<1>0. /\ Sound(sup, procs, fresh, now) /\ fresh \in Nat \ {0} /\ Here.sup = sup /\ Here.procs = procs
      /\ None \in BootType /\ boot \in BootType
  BY SessionParts, Numbers DEF SessionInv, TypeOK, BootType, Here
<1>1. UNCHANGED <<now, vault, fresh, narrow, closed, pair, consent, signed>> /\ boot' \in {None, boot}
  BY DEF CancelBootstrap
<1>2. AppTypeOK'
  BY <1>0, <1>1 DEF SessionInv, TypeOK, AssistantTypeOK, AppTypeOK
<1>3. Sound(sup', procs', fresh, now) /\ Keeps(sup, procs, sup', procs')
  <2>1. CASE \E stop \in StopActive(Here) : Became(stop)
    BY <2>1, StopFromHere
  <2>2. CASE UNCHANGED <<sup, procs>>
    BY <1>0, <2>2 DEF Keeps, KeepsOne
  <2>3. ASSUME NEW stop \in CancelHelper(Here, r), Became(stop)
        PROVE  Sound(sup', procs', fresh, now) /\ Keeps(sup, procs, sup', procs')
    BY <1>0, <2>3, CancelHolds DEF Became
  <2> QED
    BY <2>1, <2>2, <2>3 DEF CancelBootstrap
<1>4. BootIsHonest(boot', sup', procs', fresh')
  <2>1. CASE boot' = None
    BY <2>1 DEF BootIsHonest
  <2>2. CASE boot' = boot
    BY <1>0, <1>1, <1>3, <2>2, BootUntouched DEF Keeps
  <2> QED
    BY <1>1, <2>1, <2>2
<1>5. /\ ConsentIsHonest(consent', sup', procs', fresh', pair', signed')
      /\ \A x \in Requests : x >= fresh' => signed'[x] = 0
  BY <1>0, <1>1, <1>3, ConsentUntouched DEF Keeps
<1> QED
  BY <1>1, <1>2, <1>3, <1>4, <1>5, SessionPartsNext

-----------------------------------------------------------------------------
(* The plan pair and its consent.                                          *)

(* What is left to show of a command that leaves the bootstrap alone. *)
LEMMA ConsentStep ==
    ASSUME SessionInv, Sound(sup', procs', fresh, now), Keeps(sup, procs, sup', procs'),
           UNCHANGED <<now, vault, fresh, boot, narrow, closed>>,
           consent' \in ConsentType, pair' \in 0..MaxPairs, signed' \in [Requests -> Nat],
           ConsentIsHonest(consent', sup', procs', fresh, pair', signed'),
           \A r \in Requests : r >= fresh => signed'[r] = 0
    PROVE  SessionInv'
<1>1. AppTypeOK'
  BY DEF SessionInv, TypeOK, AssistantTypeOK, AppTypeOK
<1>2. BootIsHonest(boot', sup', procs', fresh')
  BY Numbers, BootUntouched DEF Keeps
<1> QED
  BY <1>1, <1>2, SessionPartsNext

(* read_plan_pair. *)
LEMMA ReadPlanPairKeeps ==
    ASSUME SessionInv, ReadPlanPair
    PROVE  SessionInv'
<1>1. PICK o \in StopActive(Here) : Became(o)
  BY DEF ReadPlanPair
<1>2. Sound(sup', procs', fresh, now) /\ Keeps(sup, procs, sup', procs')
  BY <1>1, StopFromHere
<1>3. /\ UNCHANGED <<now, vault, fresh, boot, narrow, closed, signed>>
      /\ consent' = None /\ pair' = pair + 1 /\ pair < MaxPairs
  BY DEF ReadPlanPair
<1>4. pair' \in 0..MaxPairs /\ consent' \in ConsentType
  BY <1>3, SessionsAssumption DEF SessionInv, TypeOK, ConsentType
<1>5. /\ signed' \in [Requests -> Nat] /\ \A r \in Requests : r >= fresh => signed'[r] = 0
  BY <1>3 DEF SessionInv, TypeOK
<1>6. ConsentIsHonest(consent', sup', procs', fresh, pair', signed')
  BY <1>3 DEF ConsentIsHonest
<1> QED
  BY <1>2, <1>3, <1>4, <1>5, <1>6, ConsentStep

(* open_plan_consent. *)
LEMMA OpenPlanConsentKeeps ==
    ASSUME SessionInv, OpenPlanConsent
    PROVE  SessionInv'
<1> DEFINE taken == [rid |-> fresh, pair |-> pair, expires |-> now + Lifetime, answer |-> "open"]
<1>0. /\ Sound(sup, procs, fresh, now) /\ fresh \in Nat \ {0} /\ now \in Nat /\ Lifetime \in Nat
      /\ Here.sup = sup /\ Here.procs = procs /\ pair \in Nat /\ None \in ConsentType
      /\ signed \in [Requests -> Nat] /\ \A r \in Requests : r \in Nat
  BY SessionParts, Numbers DEF SessionInv, TypeOK, Here, ConsentType
<1>1. /\ UNCHANGED <<now, vault, boot, narrow, closed, pair, signed>>
      /\ fresh \in Requests /\ fresh' = fresh + 1 /\ pair # 0
  BY DEF OpenPlanConsent, RoomForSession
<1>2. PICK run \in StartHelper(Here, fresh, "approval", pair, now + Lifetime) :
         Became(run) /\ consent' = IF run.status = "ok" THEN taken ELSE None
  BY DEF OpenPlanConsent
<1>3. now + Lifetime \in Nat /\ "approval" \in Kinds
  BY <1>0 DEF Kinds
<1>4. /\ Sound(run.sup, run.procs, fresh + 1, now)
      /\ \A r \in Requests : r < fresh => KeepsOne(sup, procs, run.sup, run.procs, r)
  BY <1>0, <1>1, <1>2, <1>3, StartHolds
<1>5. sup' = run.sup /\ procs' = run.procs
  BY <1>2 DEF Became
<1>6. fresh' \in 1..(MaxRequests + 1) /\ fresh' \in Nat /\ fresh' >= fresh
  BY <1>0, <1>1, TimeAssumption DEF Requests
<1>7. pair \in 1..MaxPairs
  BY <1>1, SessionsAssumption DEF SessionInv, TypeOK
<1>8. consent' \in ConsentType
  BY <1>0, <1>1, <1>2, <1>3, <1>7 DEF ConsentType
<1>9. AppTypeOK'
  BY <1>1, <1>6, <1>8 DEF SessionInv, TypeOK, AssistantTypeOK, AppTypeOK
<1>10. BootIsHonest(boot', sup', procs', fresh')
  BY <1>1, <1>4, <1>5, <1>6, BootUntouched
<1>11. signed[fresh] = 0 /\ \A r \in Requests : r >= fresh' => signed'[r] = 0
  BY <1>0, <1>1, <1>6 DEF SessionInv
<1>12. ConsentIsHonest(consent', sup', procs', fresh', pair', signed')
  BY <1>0, <1>1, <1>2, <1>11 DEF ConsentIsHonest
<1> QED
  BY <1>1, <1>4, <1>5, <1>9, <1>10, <1>11, <1>12, SessionPartsNext

(* plan_consent_status: a confirmation is taken from the window's own frame. *)
LEMMA PlanConsentStatusKeeps ==
    ASSUME SessionInv, NEW r \in Requests, PlanConsentStatus(r)
    PROVE  SessionInv'
<1>0. /\ Sound(sup, procs, fresh, now) /\ fresh \in Nat \ {0} /\ now \in Nat
      /\ Here.sup = sup /\ Here.procs = procs /\ consent \in ConsentType /\ None \in ConsentType
      /\ signed \in [Requests -> Nat] /\ AuthorityTime \in Nat /\ pair \in 0..MaxPairs
      /\ \A x \in Requests : Honest(procs[x], now)
      /\ \A x \in Requests : x >= fresh => signed[x] = 0
      /\ procs \in [Requests -> ProcessType]
      /\ ConsentIsHonest(consent, sup, procs, fresh, pair, signed)
  BY SessionParts, Numbers DEF SessionInv, TypeOK, AssistantTypeOK, Here, ConsentType
<1>1. UNCHANGED <<now, vault, fresh, boot, narrow, closed, pair, signed>>
  BY DEF PlanConsentStatus
<1>2. ASSUME Sound(sup', procs', fresh, now), Keeps(sup, procs, sup', procs'),
             consent' \in ConsentType,
             ConsentIsHonest(consent', sup', procs', fresh, pair, signed)
      PROVE  SessionInv'
  BY <1>0, <1>1, <1>2, ConsentStep
<1>3. CASE consent' = None /\ UNCHANGED <<sup, procs>>
  BY <1>0, <1>2, <1>3 DEF Keeps, KeepsOne, ConsentIsHonest
<1>4. ASSUME consent # None, consent.rid = r, consent.answer = "open",
             NEW poll \in PollHelper(Here, r),
             \/ poll.status = "running" /\ Became(poll) /\ UNCHANGED consent
             \/ /\ poll.status = "decided" /\ Became(poll)
                /\ consent' = Answered(consent, procs[r])
             \/ /\ poll.status \notin {"running", "decided"}
                /\ \E stop \in StopActive(poll) : Became(stop)
                /\ consent' = None
      PROVE  SessionInv'
  <2>1. /\ Sound(poll.sup, poll.procs, fresh, now)
        /\ Keeps(sup, procs, poll.sup, poll.procs)
        /\ poll.status \in HeardStatus =>
              /\ Settled(poll.sup, poll.procs, r)
              /\ ~(now >= procs[r].deadline)
              /\ poll.procs[r].kind = procs[r].kind /\ poll.procs[r].answer = procs[r].answer
              /\ poll.procs[r].late = procs[r].late
              /\ poll.procs[r].subject = procs[r].subject
              /\ poll.procs[r].deadline = procs[r].deadline
        /\ poll.status = "decided" => procs[r].kind = "approval"
    BY <1>0, PollHolds
  <2>2. CASE poll.status = "running" /\ Became(poll) /\ UNCHANGED consent
    <3>1. Sound(sup', procs', fresh, now) /\ Keeps(sup, procs, sup', procs')
      BY <2>1, <2>2 DEF Became
    <3>2. ConsentIsHonest(consent', sup', procs', fresh', pair', signed')
      BY <1>0, <1>1, <2>2, <3>1, ConsentUntouched DEF Keeps
    <3> QED
      BY <1>0, <1>1, <1>2, <2>2, <3>1, <3>2
  <2>3. CASE poll.status = "decided" /\ Became(poll) /\ consent' = Answered(consent, procs[r])
    <3> DEFINE yes == /\ procs[r].frame = "confirmed" /\ procs[r].subject = consent.pair
                      /\ consent.pair = pair
    <3>1. /\ Sound(sup', procs', fresh, now) /\ Keeps(sup, procs, sup', procs')
          /\ procs' = poll.procs /\ sup' = poll.sup /\ poll.status \in HeardStatus
      BY <2>1, <2>3 DEF Became, HeardStatus
    <3>2. consent \in [rid : Requests, pair : 1..MaxPairs, expires : Nat,
                       answer : {"open", "confirmed", "refused"}]
      BY <1>0, <1>4 DEF ConsentType
    <3>3. consent' = [consent EXCEPT !.answer = IF yes THEN "confirmed" ELSE "refused",
                                     !.expires = IF yes THEN now + AuthorityTime ELSE @]
      BY <2>3 DEF Answered
    <3>4. /\ consent' \in [rid : Requests, pair : 1..MaxPairs, expires : Nat,
                           answer : {"open", "confirmed", "refused"}]
          /\ consent'.rid = r /\ consent'.pair = consent.pair
          /\ consent'.answer = "confirmed" => yes /\ consent'.expires = now + AuthorityTime
      <4> HIDE DEF yes
      <4>1. CASE yes
        <5>1. consent' = [consent EXCEPT !.answer = "confirmed", !.expires = now + AuthorityTime]
          BY <3>3, <4>1
        <5>2. now + AuthorityTime \in Nat
          BY <1>0
        <5> QED
          BY <1>4, <3>2, <4>1, <5>1, <5>2
      <4>2. CASE ~yes
        <5>1. consent' = [consent EXCEPT !.answer = "refused", !.expires = consent.expires]
          BY <3>3, <4>2
        <5> QED
          BY <1>4, <3>2, <5>1
      <4> QED
        BY <4>1, <4>2
    <3>5. procs[r].deadline \in Nat /\ procs[r].late \in BOOLEAN
      BY <1>0, ProcessFields
    <3>6. /\ procs[r].kind = "approval" /\ ~procs[r].late
          /\ now + AuthorityTime <= procs[r].deadline + AuthorityTime
      BY <1>0, <2>1, <2>3, <3>1, <3>5 DEF Honest
    <3>7. yes => procs[r].answer = "confirmed" /\ procs[r].subject = pair
      BY <1>0, <3>6 DEF Honest
    <3>8. ConsentIsHonest(consent', sup', procs', fresh, pair, signed)
      <4>1. consent.rid < fresh /\ consent.pair = pair /\ signed[r] = 0
        BY <1>0, <1>4 DEF ConsentIsHonest
      <4> QED
        BY <1>4, <2>1, <3>1, <3>4, <3>6, <3>7, <4>1 DEF ConsentIsHonest
    <3> QED
      BY <1>2, <3>1, <3>4, <3>8 DEF ConsentType
  <2>4. CASE (\E stop \in StopActive(poll) : Became(stop)) /\ consent' = None
    <3>1. PICK stop \in StopActive(poll) : Became(stop)
      BY <2>4
    <3>2. Sound(stop.sup, stop.procs, fresh, now) /\ Keeps(poll.sup, poll.procs, stop.sup, stop.procs)
      BY <1>0, <2>1, <3>1, StopHolds
    <3>3. Sound(sup', procs', fresh, now) /\ Keeps(sup, procs, sup', procs')
      BY <2>1, <3>1, <3>2, KeepsIsTransitive DEF Became
    <3> QED
      BY <1>0, <1>2, <2>4, <3>3 DEF ConsentIsHonest
  <2> QED
    BY <1>4, <2>2, <2>3, <2>4
<1> QED
  BY <1>3, <1>4 DEF PlanConsentStatus

(* cancel_plan_consent. *)
LEMMA CancelPlanConsentKeeps ==
    ASSUME SessionInv, NEW r \in Requests, CancelPlanConsent(r)
    PROVE  SessionInv'
<1>0. /\ Sound(sup, procs, fresh, now) /\ fresh \in Nat \ {0} /\ Here.sup = sup /\ Here.procs = procs
      /\ consent \in ConsentType /\ None \in ConsentType
      /\ signed \in [Requests -> Nat] /\ pair \in 0..MaxPairs
      /\ \A x \in Requests : x >= fresh => signed[x] = 0
  BY SessionParts, Numbers DEF SessionInv, TypeOK, Here, ConsentType
<1>1. /\ UNCHANGED <<now, vault, fresh, boot, narrow, closed, pair, signed>>
      /\ consent' \in {None, consent}
  BY DEF CancelPlanConsent
<1>2. Sound(sup', procs', fresh, now) /\ Keeps(sup, procs, sup', procs')
  <2>1. CASE UNCHANGED <<sup, procs>>
    BY <1>0, <2>1 DEF Keeps, KeepsOne
  <2>2. ASSUME NEW stop \in CancelHelper(Here, r), Became(stop)
        PROVE  Sound(sup', procs', fresh, now) /\ Keeps(sup, procs, sup', procs')
    BY <1>0, <2>2, CancelHolds DEF Became
  <2> QED
    BY <2>1, <2>2 DEF CancelPlanConsent
<1>3. ConsentIsHonest(consent', sup', procs', fresh', pair', signed')
  <2>1. CASE consent' = None
    BY <2>1 DEF ConsentIsHonest
  <2>2. CASE consent' = consent
    BY <1>0, <1>1, <1>2, <2>2, ConsentUntouched DEF Keeps
  <2> QED
    BY <1>1, <2>1, <2>2
<1> QED
  BY <1>0, <1>1, <1>2, <1>3, ConsentStep

(***************************************************************************)
(* submit_plan_decision.  The one step that signs: what it signs was       *)
(* confirmed in the window of its own request.                             *)
(***************************************************************************)
LEMMA SubmitSigns ==
    ASSUME SessionInv, NEW r \in Requests, SubmitPlanDecision(r), signed' # signed
    PROVE  /\ signed' = [signed EXCEPT ![r] = @ + 1] /\ signed[r] = 0
           /\ procs[r].kind = "approval" /\ procs[r].answer = "confirmed"
           /\ procs[r].subject = pair /\ ~procs[r].late
           /\ now < procs[r].deadline + AuthorityTime
<1>1. /\ Confirmed(Swept(consent), r)
      /\ signed' = [signed EXCEPT ![r] = @ + 1]
  BY DEF SubmitPlanDecision
<1>2. /\ consent # None /\ consent.rid = r /\ consent.answer = "confirmed"
      /\ ~(now >= consent.expires)
  BY <1>1 DEF Confirmed, Swept, Lapsed
<1>3. /\ consent.expires \in Nat /\ procs[r].deadline \in Nat /\ now \in Nat /\ AuthorityTime \in Nat
  BY <1>2, Numbers, ProcessFields DEF SessionInv, TypeOK, ConsentType, AssistantTypeOK
<1>4. ConsentIsHonest(consent, sup, procs, fresh, pair, signed)
  BY DEF SessionInv
<1>5. /\ signed[r] = 0 /\ procs[r].kind = "approval" /\ procs[r].answer = "confirmed"
      /\ procs[r].subject = pair /\ ~procs[r].late
      /\ consent.expires <= procs[r].deadline + AuthorityTime
  BY <1>2, <1>4 DEF ConsentIsHonest
<1>6. now < procs[r].deadline + AuthorityTime
  BY <1>2, <1>3, <1>5
<1> QED
  BY <1>1, <1>5, <1>6

LEMMA SubmitKeeps ==
    ASSUME SessionInv, NEW r \in Requests, r < fresh, SubmitPlanDecision(r)
    PROVE  SessionInv'
<1>1. /\ UNCHANGED <<procs, now, sup, vault, fresh, boot, narrow, closed, pair>>
      /\ consent' = None
      /\ signed' = signed \/ signed' = [signed EXCEPT ![r] = @ + 1]
  BY DEF SubmitPlanDecision
<1>2. /\ signed \in [Requests -> Nat] /\ fresh \in Nat /\ r \in Nat
      /\ \A x \in Requests : x >= fresh => signed[x] = 0
      /\ pair \in 0..MaxPairs /\ Sound(sup, procs, fresh, now)
  BY SessionParts, Numbers DEF SessionInv, TypeOK
<1>3. signed' \in [Requests -> Nat] /\ \A x \in Requests : x >= fresh => signed'[x] = 0
  BY <1>1, <1>2
<1>4. /\ consent' \in ConsentType /\ ConsentIsHonest(consent', sup', procs', fresh, pair', signed')
      /\ Keeps(sup, procs, sup', procs') /\ Sound(sup', procs', fresh, now)
  BY <1>1, <1>2 DEF ConsentType, ConsentIsHonest, Keeps, KeepsOne
<1> QED
  BY <1>1, <1>2, <1>3, <1>4, ConsentStep

LEMMA CommandKeeps ==
    ASSUME SessionInv, Command
    PROVE  SessionInv'
<1>1. \A r \in Issued : r \in Requests /\ r < fresh
  BY TimeAssumption DEF Issued, Requests, SessionInv, TypeOK
<1>2. CASE \E t \in Targets, a \in Actions : StartBootstrap(t, a)
  BY <1>2, StartBootstrapKeeps
<1>3. ASSUME NEW r \in Issued,
             \/ BootstrapStatus(r) \/ CancelBootstrap(r)
             \/ PlanConsentStatus(r) \/ CancelPlanConsent(r) \/ SubmitPlanDecision(r)
      PROVE  SessionInv'
  BY <1>1, <1>3, BootstrapStatusKeeps, CancelBootstrapKeeps, PlanConsentStatusKeeps,
     CancelPlanConsentKeeps, SubmitKeeps
<1>4. CASE LockApp \/ Unlock \/ CloseWindow \/ ReadPlanPair \/ OpenPlanConsent
  BY <1>4, LockKeeps, UnlockKeeps, ReadPlanPairKeeps, OpenPlanConsentKeeps
<1> QED
  BY <1>2, <1>3, <1>4 DEF Command

LEMMA SessionStep ==
    ASSUME SessionInv, [Next]_vars
    PROVE  SessionInv'
<1>1. CASE UNCHANGED vars
  <2>1. UNCHANGED <<procs, now, sup, vault, fresh, boot, narrow, closed, pair, consent, signed>>
    BY <1>1 DEF vars, appVars
  <2>2. AppTypeOK'
    BY <2>1 DEF SessionInv, TypeOK, AssistantTypeOK, AppTypeOK
  <2> QED
    BY <2>1, <2>2, SessionParts, SessionPartsNext
<1> QED
  BY <1>1, AssistantKeeps, ReaperKeeps, ClockKeeps, CommandKeeps DEF Next

LEMMA SessionInit ==
    ASSUME Init
    PROVE  SessionInv
<1>1. /\ procs = [r \in Requests |-> Unspawned] /\ now = 0
      /\ sup = [active |-> NoRequest, cleanup |-> NoRequest, outcome |-> "none", unproven |-> FALSE]
      /\ vault = "unlocked" /\ fresh = 1 /\ boot = None /\ narrow = 0 /\ closed = FALSE
      /\ pair = 0 /\ consent = None /\ signed = [r \in Requests |-> 0]
  BY DEF Init, AssistantInit, SupervisorInit
<1>2. AppTypeOK
  <2>1. now \in 0..MaxTime /\ fresh \in 1..(MaxRequests + 1) /\ pair \in 0..MaxPairs
    BY <1>1, TimeAssumption, SessionsAssumption
  <2>2. boot \in BootType /\ consent \in ConsentType /\ signed \in [Requests -> Nat]
    BY <1>1 DEF BootType, ConsentType
  <2> QED
    BY <1>1, <2>1, <2>2 DEF AppTypeOK
<1>3. sup \in SupervisorType
  BY <1>1 DEF SupervisorType
<1>4. procs \in Table /\ \A r \in Requests : procs[r] = Unspawned
  BY <1>1, UnspawnedIsTyped DEF Table
<1>5. \A r \in Requests : ~IsUp(procs[r]) /\ Honest(procs[r], now)
  BY <1>4, UnspawnedIsTyped DEF IsUp, Honest, Alive
<1>6. sup.active = 0 /\ sup.cleanup = 0 /\ sup.outcome = "none" /\ ~sup.unproven /\ NoRequest = 0
  BY <1>1 DEF NoRequest
<1>7. Supervised(sup, procs, fresh)
  BY <1>1, <1>3, <1>4, <1>5, <1>6 DEF Supervised, Table
<1> QED
  BY <1>1, <1>2, <1>5, <1>7, SessionParts DEF Sound, BootIsHonest, ConsentIsHonest

(* The inductive invariant holds of every behaviour of the App. *)
THEOREM SessionsAreSound == Spec => []SessionInv
BY SessionInit, SessionStep, PTL DEF Spec

(* The sessions, the supervisor and the process table hold what the code may
   put there, whatever the WebView calls and whenever (lib.rs, native_helper.rs). *)
THEOREM SessionsAreTyped == Spec => []TypeOK
<1>1. SessionInv => TypeOK
  BY DEF SessionInv
<1> QED
  BY <1>1, SessionsAreSound, PTL

(* No two helper processes are alive together: the next one is spawned only
   once the end of the last is proved (native_helper.rs, start_with_policy). *)
THEOREM OneHelperAlways == Spec => []OneHelperAlive
<1>1. SessionInv => OneHelperAlive
  BY DEF SessionInv, Supervised, OneHelperAlive, IsAlive, IsUp
<1> QED
  BY <1>1, SessionsAreSound, PTL

(* A bootstrap shown as verified proved its access in time, under a lease that
   held, and on the target the session names (native_helper.rs poll,
   bootstrap.rs). *)
THEOREM VerifiedIsAlwaysProved == Spec => []VerifiedIsProved
<1>1. SessionInv => VerifiedIsProved
  BY DEF SessionInv, BootIsHonest, VerifiedIsProved, Settled
<1> QED
  BY <1>1, SessionsAreSound, PTL

(* Nothing is signed that the human did not confirm, in the window of that
   very request, on the pair that is signed, once and in time, for any number
   of sessions and pairs (plan_consent.rs answer and confirmed,
   publication_plan.rs). *)
THEOREM SignedWasAlwaysConfirmed == Spec => SignedWasConfirmed
<1> DEFINE Signs == \A r \in Requests : signed'[r] > signed[r] =>
                       /\ signed[r] = 0
                       /\ procs[r].kind = "approval"
                       /\ procs[r].answer = "confirmed"
                       /\ procs[r].subject = pair
                       /\ ~procs[r].late
                       /\ now < procs[r].deadline + AuthorityTime
<1>1. ASSUME SessionInv, [Next]_vars
      PROVE  [Signs]_vars
  <2> SUFFICES ASSUME NEW r \in Requests, signed'[r] > signed[r], signed' # signed
               PROVE  /\ signed[r] = 0
                      /\ procs[r].kind = "approval"
                      /\ procs[r].answer = "confirmed"
                      /\ procs[r].subject = pair
                      /\ ~procs[r].late
                      /\ now < procs[r].deadline + AuthorityTime
    BY <1>1 DEF SessionInv, TypeOK
  <2>1. \A x \in Issued : x \in Requests
    BY <1>1, TimeAssumption DEF Issued, Requests, SessionInv, TypeOK
  <2>2. PICK x \in Requests : SubmitPlanDecision(x)
    BY <1>1, <2>1
    DEF Next, vars, appVars, Assistant, Reaper, Clock, Command, StartBootstrap, BootstrapStatus,
        CancelBootstrap, PlanConsentStatus, CancelPlanConsent, LockApp, Unlock, CloseWindow,
        ReadPlanPair, OpenPlanConsent
  <2>3. signed' = [signed EXCEPT ![x] = @ + 1] /\ signed \in [Requests -> Nat]
    BY <1>1, <2>2, SubmitSigns DEF SessionInv, TypeOK
  <2>4. r = x
    BY <2>3
  <2> QED
    BY <1>1, <2>2, <2>4, SubmitSigns
<1> QED
  BY <1>1, SessionsAreSound, PTL DEF Spec, SignedWasConfirmed
=============================================================================
