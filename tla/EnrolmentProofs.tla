--------------------------- MODULE EnrolmentProofs ---------------------------
(***************************************************************************)
(* Proofs about the enrolment of a machine, for every machine a run may    *)
(* find, every perimeter it may be given, every account, rule and report   *)
(* it may meet and any number of runs.                                     *)
(*                                                                         *)
(* EnrolmentInv is the invariant: what the run has judged is still what    *)
(* the judgements were given (Judgements), no role was started before the  *)
(* new path was verified (NothingEarly), and the ledger accounts for the   *)
(* difference between what the run found and what is there (LedgerTells).  *)
(***************************************************************************)
EXTENDS Enrolment, TLAPS, NaturalsInduction, WellFoundedInduction

(* The least element of a set of numbers. *)
LEMMA LeastExists ==
    ASSUME NEW S, S \subseteq Nat, S # {}
    PROVE  \E i \in S : \A j \in S : i <= j
<1>1. PICK i \in S : \A j \in S : ~(<<j, i>> \in OpToRel(<, Nat))
  BY NatLessThanWellFounded, WFMin, Zenon
<1>2. \A j \in S : ~(j < i)
  BY <1>1 DEF OpToRel
<1>. QED  BY <1>2

(* Induction, on the set of the numbers a statement holds of. *)
LEMMA SetInduction ==
    ASSUME NEW S, 0 \in S, \A n \in Nat : n \in S => n + 1 \in S
    PROVE  \A n \in Nat : n \in S
<1>. DEFINE out == {n \in Nat : n \notin S}
<1>. SUFFICES ASSUME out # {} PROVE FALSE
  OBVIOUS
<1>1. PICK m \in out : \A j \in out : m <= j
  BY LeastExists, out \subseteq Nat
<1>2. m # 0 /\ m \in Nat
  OBVIOUS
<1>3. m - 1 \in Nat /\ m - 1 \notin out
  BY <1>1, <1>2
<1>. QED  BY <1>2, <1>3, (m - 1) + 1 = m

(* A judgement is "ok" only when none of its checks failed. *)
LEMMA OkRefusesNothing ==
    ASSUME NEW checks, DOMAIN checks \subseteq Nat,
           \A i \in DOMAIN checks : checks[i][1] => checks[i][2] # "ok",
           FirstRefusal(checks) = "ok"
    PROVE  \A i \in DOMAIN checks : ~checks[i][1]
<1>. DEFINE failing == {i \in DOMAIN checks : checks[i][1]}
            first == CHOOSE i \in failing : \A j \in failing : i <= j
<1>. SUFFICES ASSUME failing # {} PROVE FALSE
  BY Zenon
<1>1. failing \subseteq Nat
  OBVIOUS
<1>2. first \in failing
  BY <1>1, LeastExists, Zenon
<1>3. checks[first][2] = "ok"
  BY Zenon DEF FirstRefusal
<1>. QED  BY <1>2, <1>3, Zenon

-----------------------------------------------------------------------------
(* What the judgements of the steps establish.                             *)

(* A judgement of a head and then of each element of a list refuses none. *)
LEMMA EachIsOk ==
    ASSUME NEW T, NEW head \in Seq(T), NEW n \in Nat, NEW judged,
           \A i \in DOMAIN head : head[i][1] => head[i][2] # "ok",
           FirstRefusal(head \o [i \in 1..n |-> <<judged[i] # "ok", judged[i]>>]) = "ok"
    PROVE  /\ \A i \in DOMAIN head : ~head[i][1]
           /\ \A i \in 1..n : judged[i] = "ok"
<1>. DEFINE pair(i) == <<judged[i] # "ok", judged[i]>>
            tail == [i \in 1..n |-> pair(i)]
            U == T \union {pair(i) : i \in 1..n}
            checks == head \o tail
<1>1. tail \in Seq(U) /\ head \in Seq(U) /\ Len(tail) = n
  <2>1. tail \in [1..n -> U]
    OBVIOUS
  <2>. QED  BY <2>1
<1>2. \A i \in 1..n : tail[i] = pair(i)
  OBVIOUS
<1>a. FirstRefusal(checks) = "ok"
  OBVIOUS
<1>3. ASSUME NEW i \in 1..n PROVE pair(i)[1] = (judged[i] # "ok") /\ pair(i)[2] = judged[i]
  OBVIOUS
<1>. HIDE DEF tail, U, pair
<1>4. /\ DOMAIN checks \subseteq Nat
      /\ \A i \in DOMAIN head : i \in DOMAIN checks /\ checks[i] = head[i]
      /\ \A i \in 1..n : Len(head) + i \in DOMAIN checks /\ checks[Len(head) + i] = tail[i]
      /\ \A i \in DOMAIN checks :
            i \in DOMAIN head \/ (\E j \in 1..n : i = Len(head) + j)
  <2>1. Len(checks) = Len(head) + n /\ DOMAIN checks = 1..Len(checks) /\ Len(head) \in Nat
    BY <1>1
  <2>2. ASSUME NEW i \in DOMAIN checks, i \notin DOMAIN head
        PROVE  \E j \in 1..n : i = Len(head) + j
    <3>1. i - Len(head) \in 1..n
      BY <1>1, <2>1, <2>2
    <3>. QED  BY <3>1, <2>1, i = Len(head) + (i - Len(head))
  <2>3. /\ \A i \in DOMAIN head : i \in DOMAIN checks /\ checks[i] = head[i]
        /\ \A i \in 1..n : Len(head) + i \in DOMAIN checks /\ checks[Len(head) + i] = tail[i]
    BY <1>1, <2>1
  <2>. QED  BY <2>1, <2>2, <2>3
<1>. HIDE DEF checks
<1>5. ASSUME NEW i \in DOMAIN checks PROVE checks[i][1] => checks[i][2] # "ok"
  <2>1. CASE i \in DOMAIN head
    <3>1. checks[i] = head[i]
      BY <1>4, <2>1, Zenon
    <3>. QED  BY <3>1, <2>1, Zenon
  <2>2. CASE \E j \in 1..n : i = Len(head) + j
    <3>1. PICK j \in 1..n : i = Len(head) + j
      BY <2>2
    <3>2. checks[i] = pair(j)
      BY <1>2, <1>4, <3>1
    <3>. QED  BY ZenonT(60), <1>3, <3>2
  <2>. QED  BY <1>4, <2>1, <2>2
<1>b. DOMAIN checks \subseteq Nat
  BY <1>4
<1>6. PICK c : c = checks
  OBVIOUS
<1>7. DOMAIN c \subseteq Nat /\ FirstRefusal(c) = "ok"
  BY <1>a, <1>b, <1>6
<1>8. \A i \in DOMAIN c : c[i][1] => c[i][2] # "ok"
  BY <1>5, <1>6, Zenon
<1>9. \A i \in DOMAIN c : ~c[i][1]
  BY ONLY <1>7, <1>8, OkRefusesNothing
<1>10. ASSUME NEW i \in 1..n PROVE judged[i] = "ok"
  <2>1. Len(head) + i \in DOMAIN c /\ c[Len(head) + i] = pair(i)
    BY <1>2, <1>4, <1>6
  <2>2. ~pair(i)[1]
    BY <1>9, <2>1, Zenon
  <2>. QED  BY <1>3, <2>2
<1>11. ASSUME NEW i \in DOMAIN head PROVE ~head[i][1]
  <2>1. i \in DOMAIN c /\ c[i] = head[i]
    BY <1>4, <1>6
  <2>. QED  BY <1>9, <2>1, Zenon
<1>. QED  BY <1>10, <1>11

(* The account that was accepted is locked, without a group, and not root. *)
LEMMA AccountOk ==
    ASSUME NEW a, JudgeAccount(a) = "ok"
    PROVE  a.uid # 0 /\ a.password = "locked" /\ a.groups = {}
<1>. DEFINE checks == << <<a.name = "role", "SharesARoleAccount">>,
                    <<a.name # "auxiliary", "NotTheAuxiliaryAccount">>,
                    <<a.uid = 0 \/ a.gid = 0, "IsRoot">>,
                    <<a.uid > 999, "NotASystemAccount">>,
                    <<a.shell # "/bin/sh", "ShellIsNotTheFixedOne">>,
                    <<a.home # "/nonexistent", "HomeIsNotTheAbsentOne">>,
                    <<a.password = "hash", "PasswordSet">>,
                    <<a.password = "empty", "NoPasswordRequired">>,
                    <<a.password # "locked", "NotLocked">>,
                    <<a.groups # {}, "SupplementaryGroup">> >>
<1>1. FirstRefusal(checks) = "ok"
  BY Zenon DEF JudgeAccount
<1>2. DOMAIN checks = 1..10
  OBVIOUS
<1>3. ASSUME NEW i \in 1..10 PROVE checks[i][2] # "ok"
  OBVIOUS
<1>4. \A i \in 1..10 : ~checks[i][1]
  <2>. HIDE DEF checks
  <2>. QED  BY <1>1, <1>2, <1>3, OkRefusesNothing
<1>5. ~checks[3][1] /\ ~checks[9][1] /\ ~checks[10][1]
  <2>. HIDE DEF checks
  <2>. QED  BY <1>4
<1>. QED  BY <1>5

(* A node that was accepted is root's, and no group and no one else writes it. *)
LEMMA NodeOk ==
    ASSUME NEW p, NEW account, JudgeOne(p, account) = "ok"
    PROVE  p.uid = 0 /\ "group" \notin p.mode /\ "world" \notin p.mode
<1>. DEFINE canonical == Canonical(p.path)
            checks == << <<~canonical, "NotCanonical">>,
                    <<"setid" \in p.mode, "SetUserOrGroup">>,
                    <<p.uid = account.uid /\ "owner" \in p.mode, "WritableByTheAccount">>,
                    <<p.gid = account.gid /\ "group" \in p.mode, "WritableByTheAccount">>,
                    <<"world" \in p.mode, "WorldWritable">>,
                    <<p.uid # 0, "NotRootOwned">>,
                    <<"group" \in p.mode, "GroupWritable">> >>
<1>1. FirstRefusal(checks) = "ok"
  BY Zenon DEF JudgeOne
<1>. HIDE DEF canonical
<1>2. DOMAIN checks = 1..7
  OBVIOUS
<1>3. ASSUME NEW i \in 1..7 PROVE checks[i][2] # "ok"
  OBVIOUS
<1>4. \A i \in 1..7 : ~checks[i][1]
  <2>. HIDE DEF checks
  <2>. QED  BY <1>1, <1>2, <1>3, OkRefusesNothing
<1>5. ~checks[5][1] /\ ~checks[6][1] /\ ~checks[7][1]
  <2>. HIDE DEF checks
  <2>. QED  BY <1>4
<1>. QED  BY <1>5

(* The whole chain is: the account can write nothing on it. *)
LEMMA CustodyOk ==
    ASSUME NEW chain, IsList(chain), NEW account, account.uid # 0,
           JudgeCustody(chain, account) = "ok"
    PROVE  \A i \in DOMAIN chain : ~MayWrite(account, chain[i])
<1>. DEFINE n == Len(chain)
            rooted == chain[1].path # <<>>
            parents == \E i \in 1..(n - 1) : ~IsChildOf(chain[i].path, chain[i + 1].path)
            kinds == \E i \in 1..(n - 1) : chain[i].kind # "directory"
            file == chain[n].kind # "file"
            head == << <<rooted, "NotRootedAtSlash">>, <<parents, "NotTheParentChain">>,
                       <<kinds, "NotADirectory">>, <<file, "NotAFile">> >>
            judged == [i \in 1..n |-> JudgeOne(chain[i], account)]
<1>1. n \in Nat /\ DOMAIN chain = 1..n
  BY DEF IsList
<1>2. n # 0 /\ FirstRefusal(head \o [i \in 1..n |-> <<JudgeOne(chain[i], account) # "ok",
                                                      JudgeOne(chain[i], account)>>]) = "ok"
  BY Zenon DEF JudgeCustody
<1>3. [i \in 1..n |-> <<JudgeOne(chain[i], account) # "ok", JudgeOne(chain[i], account)>>]
      = [i \in 1..n |-> <<judged[i] # "ok", judged[i]>>]
  BY Zenon
<1>4. FirstRefusal(head \o [i \in 1..n |-> <<judged[i] # "ok", judged[i]>>]) = "ok"
  BY <1>2, <1>3, Zenon
<1>. HIDE DEF n, rooted, parents, kinds, file
<1>5. DOMAIN head = 1..4 /\ \A i \in DOMAIN head : head[i][2] # "ok"
  OBVIOUS
<1>6. head \in Seq({head[i] : i \in DOMAIN head})
  OBVIOUS
<1>7. \A i \in 1..n : judged[i] = "ok"
  <2>. HIDE DEF head, judged
  <2>. QED  BY <1>1, <1>4, <1>5, <1>6, EachIsOk
<1>8. ASSUME NEW i \in DOMAIN chain PROVE ~MayWrite(account, chain[i])
  <2>1. JudgeOne(chain[i], account) = "ok"
    BY <1>1, <1>7
  <2>. QED  BY <2>1, NodeOk DEF MayWrite
<1>. QED  BY <1>8

(* A line that was accepted is forced into the approved command. *)
LEMMA LineOk ==
    ASSUME NEW line, JudgeLine(line) = "ok"
    PROVE  line.command = "approve" /\ "restrict" \in line.options
<1>. DEFINE unknown == \E o \in line.options : o \notin RequiredOptions
            missing == \E o \in RequiredOptions : o \notin line.options
            checks == << <<line.shape = "unfinished", "Malformed">>,
                    <<line.options = {} /\ line.command = "none", "NoOptions">>,
                    <<unknown, "UnknownOption">>,
                    <<line.command = "none", "NoForcedCommand">>,
                    <<line.command = "clients", "ForcedCommandCarriesTheClientCommand">>,
                    <<line.command # "approve", "ForcedCommandNotExact">>,
                    <<missing, "MissingRestriction">>,
                    <<line.algorithm # "ssh-ed25519", "UnsupportedAlgorithm">>,
                    <<line.key = "garbled", "Malformed">> >>
<1>1. FirstRefusal(checks) = "ok"
  BY Zenon DEF JudgeLine
<1>. HIDE DEF unknown, missing
<1>2. DOMAIN checks = 1..9
  OBVIOUS
<1>3. ASSUME NEW i \in 1..9 PROVE checks[i][2] # "ok"
  OBVIOUS
<1>4. \A i \in 1..9 : ~checks[i][1]
  <2>. HIDE DEF checks
  <2>. QED  BY <1>1, <1>2, <1>3, OkRefusesNothing
<1>5. ~checks[6][1] /\ ~checks[7][1]
  <2>. HIDE DEF checks
  <2>. QED  BY <1>4
<1>6. line.command = "approve" /\ ~missing
  BY <1>5
<1>. QED  BY <1>6 DEF missing, RequiredOptions

(* A key file that was accepted has one line, and it is such a line. *)
LEMMA EntryOk ==
    ASSUME NEW m, IsList(m.lines), JudgeEntry(m.lines) = "ok"
    PROVE  ForcedIntoApprove(m)
<1>1. Len(m.lines) \in Nat /\ DOMAIN m.lines = 1..Len(m.lines)
  BY DEF IsList
<1>2. Len(m.lines) # 0 /\ ~(Len(m.lines) > 1) /\ JudgeLine(m.lines[1]) = "ok"
  BY DEF JudgeEntry
<1>3. DOMAIN m.lines = {1}
  BY <1>1, <1>2
<1>. QED  BY <1>2, <1>3, LineOk DEF ForcedIntoApprove

(* A specification that was accepted elevates the approved command alone. *)
LEMMA SpecificationOk ==
    ASSUME NEW s, JudgeSpecification(s) = "ok"
    PROVE  s.command = "approve" /\ "SETENV" \notin s.tags
<1>. DEFINE odd == s.tags \ {"NOPASSWD", "NOEXEC"} # {}
            wide == s.command \in {"ALL", "wildcard"}
            checks == << <<s.account = "group", "GroupRule">>,
                    <<s.account # "auxiliary", "NotTheAuxiliaryAccount">>,
                    <<s.host # "ALL", "HostIsNotAll">>,
                    <<s.runas = "none", "RunAsNotDeclared">>,
                    <<s.runas # "root", "RunAsIsNotRoot">>,
                    <<"SETENV" \in s.tags, "SetenvGranted">>,
                    <<odd, "UnknownTag">>,
                    <<"NOPASSWD" \notin s.tags, "PasswordRequired">>,
                    <<s.command = "none", "Malformed">>,
                    <<wide, "WildcardCommand">>,
                    <<s.command # "approve", "CommandNotExact">> >>
<1>1. FirstRefusal(checks) = "ok"
  BY Zenon DEF JudgeSpecification
<1>. HIDE DEF odd, wide
<1>2. DOMAIN checks = 1..11
  OBVIOUS
<1>3. ASSUME NEW i \in 1..11 PROVE checks[i][2] # "ok"
  OBVIOUS
<1>4. \A i \in 1..11 : ~checks[i][1]
  <2>. HIDE DEF checks
  <2>. QED  BY <1>1, <1>2, <1>3, OkRefusesNothing
<1>5. ~checks[6][1] /\ ~checks[11][1]
  <2>. HIDE DEF checks
  <2>. QED  BY <1>4
<1>. QED  BY <1>5

(* And so does the rule that was accepted, and no setting that it writes in
   one word opens the environment of the command. *)
LEMMA RuleOk ==
    ASSUME NEW m, IsList(m.rule[1].specifications), JudgeRule(m.rule[1]) = "ok"
    PROVE  ElevatesOnlyApprove(m)
<1>1. PICK file : file = m.rule[1]
  OBVIOUS
<1>2. IsList(file.specifications) /\ JudgeRule(file) = "ok"
  BY <1>1
<1>. DEFINE s == file.specifications
            n == Len(s)
            read == ReadSettings(file)
            kept == Preserving \intersect read # {}
            missing == RequiredDefaults \ read # {}
            head == << <<file.large, "TooLarge">>,
                    <<"include" \in file.others, "IncludeDirective">>,
                    <<"alias" \in file.others, "AliasDefinition">>,
                    <<Len(file.specifications) = 0, "Empty">>,
                    <<Len(file.specifications) > 1, "SeveralRules">>,
                    <<"setenv" \in read, "SetenvGranted">>,
                    <<kept, "EnvironmentPreserved">>,
                    <<missing, "MissingDefault">> >>
            judged == [i \in 1..n |-> JudgeSpecification(s[i])]
<1>3. n \in Nat /\ DOMAIN s = 1..n
  BY <1>2 DEF IsList
<1>4. FirstRefusal(head \o [i \in DOMAIN s |-> <<JudgeSpecification(s[i]) # "ok",
                                                 JudgeSpecification(s[i])>>]) = "ok"
  BY <1>2, Zenon DEF JudgeRule
<1>5. [i \in DOMAIN s |-> <<JudgeSpecification(s[i]) # "ok", JudgeSpecification(s[i])>>]
      = [i \in 1..n |-> <<judged[i] # "ok", judged[i]>>]
  BY <1>3, Zenon
<1>6. FirstRefusal(head \o [i \in 1..n |-> <<judged[i] # "ok", judged[i]>>]) = "ok"
  BY <1>4, <1>5, Zenon
<1>. HIDE DEF kept, missing
<1>7. DOMAIN head = 1..8 /\ \A i \in DOMAIN head : head[i][2] # "ok"
  OBVIOUS
<1>8. head \in Seq({head[i] : i \in DOMAIN head})
  OBVIOUS
<1>9. (\A i \in 1..n : judged[i] = "ok") /\ ~head[6][1] /\ ~head[7][1]
  <2>. HIDE DEF head, judged, n, s
  <2>1. (\A i \in 1..n : judged[i] = "ok") /\ (\A i \in DOMAIN head : ~head[i][1])
    <3>1. \A i \in DOMAIN head : head[i][1] => head[i][2] # "ok"
      BY <1>7, Zenon
    <3>2. n \in Nat
      BY <1>3
    <3>. QED  BY ONLY <3>1, <3>2, <1>6, <1>8, EachIsOk
  <2>. QED  BY <2>1, <1>7
<1>10. "setenv" \notin read /\ ~kept
  BY <1>9
<1>11. ASSUME NEW d \in file.defaults, Len(d.words) = 1
       PROVE  d.words[1] \notin Preserving \union {"setenv"}
  <2>1. d.words[1] \in read
    BY <1>11 DEF ReadSettings
  <2>. QED  BY <1>10, <2>1, Zenon DEF kept
<1>12. ASSUME NEW i \in DOMAIN s PROVE s[i].command = "approve" /\ "SETENV" \notin s[i].tags
  BY <1>3, <1>9, SpecificationOk
<1>. QED  BY <1>1, <1>11, <1>12 DEF ElevatesOnlyApprove

(* The sheet that was accepted carries the key that was pinned. *)
LEMMA EndpointOk ==
    ASSUME NEW sheets, NEW key, JudgeEndpoint(Subject, sheets, key) = "ok"
    PROVE  sheets[1].key = key
<1>. DEFINE fields == JudgeFields(Subject, sheets[1])
            checks == << <<~sheets[1].whole, "Malformed">>, <<fields # "ok", fields>>,
                         <<sheets[1].key # key, "HostKeyChanged">> >>
<1>1. FirstRefusal(checks) = "ok"
  BY Zenon DEF JudgeEndpoint
<1>. HIDE DEF fields
<1>2. DOMAIN checks = 1..3
  OBVIOUS
<1>3. ASSUME NEW i \in 1..3 PROVE checks[i][1] => checks[i][2] # "ok"
  <2>1. checks[2][1] = (fields # "ok") /\ checks[2][2] = fields
    OBVIOUS
  <2>2. \A j \in {1, 3} : checks[j][2] # "ok"
    OBVIOUS
  <2>3. i = 2 \/ i \in {1, 3}
    OBVIOUS
  <2>. HIDE DEF checks
  <2>. QED  BY <2>1, <2>2, <2>3, Zenon
<1>4. ~checks[3][1]
  <2>. HIDE DEF checks
  <2>. QED  BY <1>1, <1>2, <1>3, OkRefusesNothing
<1>. QED  BY <1>4

(* The path that was verified is the path of this machine. *)
LEMMA PathOk ==
    ASSUME NEW enrolled, NEW report, VerifyPath(enrolled, Subject, report) = "ok"
    PROVE  report.machine = Subject
<1>. DEFINE admitted == Admits(enrolled, Subject, report.print)
            checks == << <<report.machine # Subject, "AnotherMachine">>,
                    <<admitted # "ok", admitted>>,
                    <<report.changed, "AuxiliaryReportedAMutation">>,
                    <<report.operation # "diagnose", "NotTheDiagnosticOperation">>,
                    <<report.sequence = 0, "NothingConsumed">> >>
<1>1. FirstRefusal(checks) = "ok"
  BY Zenon DEF VerifyPath
<1>. HIDE DEF admitted
<1>2. DOMAIN checks = 1..5
  OBVIOUS
<1>3. ASSUME NEW i \in 1..5 PROVE checks[i][1] => checks[i][2] # "ok"
  <2>1. checks[2][1] = (admitted # "ok") /\ checks[2][2] = admitted
    OBVIOUS
  <2>2. \A j \in {1, 3, 4, 5} : checks[j][2] # "ok"
    OBVIOUS
  <2>3. i = 2 \/ i \in {1, 3, 4, 5}
    OBVIOUS
  <2>. HIDE DEF checks
  <2>. QED  BY <2>1, <2>2, <2>3, Zenon
<1>4. ~checks[1][1]
  <2>. HIDE DEF checks
  <2>. QED  BY <1>1, <1>2, <1>3, OkRefusesNothing
<1>. QED  BY <1>4

(* Only the Agent and the Relay are started by an enrolment. *)
LEMMA StartedRole ==
    ASSUME NEW role \in Role, NEW verified, NEW roles,
           Activate(Subject, verified, roles, role) = "ok"
    PROVE  role \in {"agent", "relay"}
<1>. DEFINE checks == << <<verified # Subject, "VerifiedAnotherMachine">>,
                    <<role = "auxiliary", "AuxiliaryIsNeverAService">>,
                    <<role = "controller", "ControllerIsNotActivatedByAnEnrolment">>,
                    <<role \notin roles, "RoleNotApproved">> >>
<1>1. FirstRefusal(checks) = "ok"
  BY Zenon DEF Activate
<1>2. DOMAIN checks = 1..4
  OBVIOUS
<1>3. ASSUME NEW i \in 1..4 PROVE checks[i][2] # "ok"
  OBVIOUS
<1>4. ~checks[2][1] /\ ~checks[3][1]
  <2>. HIDE DEF checks
  <2>. QED  BY <1>1, <1>2, <1>3, OkRefusesNothing
<1>. QED  BY <1>4 DEF Role

-----------------------------------------------------------------------------
(* The invariant.                                                          *)

MachineParts == Parts \union {"chain"}

WholeMachine(m) ==
    m = [p \in MachineParts |-> m[p]] /\ IsList(m.chain) /\ IsList(m.lines)

LedgerEntry == [item : Parts, provenance : {"created", "found", "unknown"}]

EnrolmentTyped ==
    /\ WholeMachine(machine)
    /\ before = [p \in MachineParts |-> before[p]]
    /\ ledger \in Seq(LedgerEntry)
    /\ run = [phase |-> run.phase, at |-> run.at, enrolled |-> run.enrolled,
              verified |-> run.verified, roles |-> run.roles]
    /\ run.phase \in {"none", "running", "stopped", "enrolled", "undone"}
    /\ run.at \in 0..10
    /\ run.phase = "enrolled" => run.at = 10

Going == run.phase \in {"running", "enrolled"}

\* What was judged is what is there, as long as the run goes on.
Judgements ==
    Going =>
        /\ run.at > 2 => JudgeAccount(machine.account[1]) = "ok"
        /\ run.at > 5 => IsList(machine.rule[1].specifications) /\ JudgeRule(machine.rule[1]) = "ok"
        /\ run.at > 6 => /\ JudgeEntry(machine.lines) = "ok"
                         /\ JudgeCustody(machine.chain, machine.account[1]) = "ok"
        /\ run.at > 7 => JudgeEndpoint(Subject, machine.sheets, PinnedKey) = "ok"
        /\ run.at > 8 => run.verified = Subject

\* No role is started before the new path was verified.
NothingEarly ==
    Going /\ run.at <= 8 =>
        \A role \in {"agent", "relay"} : before[role] = <<>> => machine[role] = <<>>

Noted(part, provenances) ==
    \E i \in DOMAIN ledger : ledger[i].item = part /\ ledger[i].provenance \in provenances

\* What is there now is what was found, or the ledger says so.
LedgerTells ==
    /\ \A part \in Parts : before[part] # <<>> => machine[part] # <<>>
    /\ \A i \in DOMAIN ledger : ledger[i].provenance = "created" => before[ledger[i].item] = <<>>
    /\ \A part \in Parts :
          before[part] = <<>> /\ machine[part] # <<>> => Noted(part, {"created", "unknown"})

EnrolmentInv ==
    EnrolmentTyped /\ Judgements /\ NothingEarly /\ LedgerTells /\ UndoneIsHonest

-----------------------------------------------------------------------------
(* The parts a step writes, what it leaves there and what the ledger lists. *)

\* The parts the steps write, in the order of the steps.
PartsWritten == <<"artifact", "account", "anchor", "replay", "rule", "lines", "sheets">>

LEMMA StepPart ==
    ASSUME NEW i \in Written
    PROVE  PartOf(EnrolmentSteps[i]) = PartsWritten[i] /\ PartsWritten[i] \in Parts \ {"agent", "relay"}
<1>1. i \in {1, 2, 3, 4, 5, 6, 7}
  BY DEF Written
<1>2. PartOf(EnrolmentSteps[i]) = PartsWritten[i]
  BY <1>1 DEF PartOf, EnrolmentSteps, PartsWritten
<1>3. PartsWritten[i] \in Parts \ {"agent", "relay"}
  BY <1>1 DEF PartsWritten, Parts
<1>. QED  BY <1>2, <1>3

LEMMA ListsConcat ==
    ASSUME NEW s, IsList(s), NEW e
    PROVE  IsList(s \o <<e>>) /\ IsList(<<e>>) /\ s \o <<e>> # <<>> /\ <<e>> # <<>>
<1>. DEFINE T == {s[i] : i \in DOMAIN s} \union {e}
            t == s \o <<e>>
<1>1. s \in Seq(T) /\ <<e>> \in Seq(T)
  BY DEF IsList
<1>2. t \in Seq(T) /\ t # <<>> /\ <<e>> # <<>>
  BY <1>1
<1>3. ASSUME NEW u \in Seq(T) PROVE IsList(u)
  BY DEF IsList
<1>. QED  BY <1>1, <1>2, <1>3

(* A sheet can be written for the key that was pinned and for another one. *)
LEMMA EndpointIsWritten ==
    ASSUME NEW key \in {PinnedKey, "other"}
    PROVE  RenderEndpoint(Subject, "host", 22, key) # <<>>
<1>. DEFINE s == SheetOf(Subject, "host", 22, key)
            checks == << <<s.machine # Subject, "ForeignMachine">>,
                    <<s.account # "auxiliary", "UnexpectedAccount">>,
                    <<s.host = "unusable", "UnusableHost">>,
                    <<s.port = 0 \/ s.port > MaxPort, "UnusablePort">>,
                    <<s.key = "unusable", "UnusableHostKey">> >>
<1>1. s.machine = Subject /\ s.account = "auxiliary" /\ s.host = "host" /\ s.port = 22 /\ s.key = key
  BY DEF SheetOf
<1>2. key # "unusable"
  BY EnrolmentAssumption
<1>. HIDE DEF s
<1>3. DOMAIN checks = 1..5
  OBVIOUS
<1>4. ASSUME NEW i \in 1..5 PROVE ~checks[i][1]
  <2>1. /\ ~(s.machine # Subject) /\ ~(s.account # "auxiliary") /\ ~(s.host = "unusable")
        /\ ~(s.port = 0 \/ s.port > MaxPort) /\ ~(s.key = "unusable")
    BY <1>1, <1>2 DEF MaxPort
  <2>2. ~checks[1][1] /\ ~checks[2][1] /\ ~checks[3][1] /\ ~checks[4][1] /\ ~checks[5][1]
    BY <2>1
  <2>3. i = 1 \/ i = 2 \/ i = 3 \/ i = 4 \/ i = 5
    OBVIOUS
  <2>. HIDE DEF checks
  <2>. QED  BY <2>2, <2>3, Zenon
<1>5. FirstRefusal(checks) = "ok"
  <2>. HIDE DEF checks
  <2>1. {i \in DOMAIN checks : checks[i][1]} = {}
    BY <1>3, <1>4
  <2>. QED  BY <2>1 DEF FirstRefusal
<1>6. JudgeFields(Subject, s) = "ok"
  BY <1>5, Zenon DEF JudgeFields
<1>7. RenderEndpoint(Subject, "host", 22, key) = <<s>>
  BY <1>6, Zenon DEF RenderEndpoint, s
<1>. QED  BY <1>7

(* A step leaves something where it found something, and lists for lists. *)
LEMMA LeavesSomething ==
    ASSUME NEW i \in Written, NEW old, i = 6 => IsList(old),
           NEW v \in Leaves(EnrolmentSteps[i], old)
    PROVE  /\ old # <<>> => v # <<>>
           /\ i = 6 => IsList(v)
           /\ i = 5 => IsList(v[1].specifications)
<1>1. CASE i = 2
  <2>1. EnrolmentSteps[i] = "CreateAccount"
    BY <1>1 DEF EnrolmentSteps
  <2>2. v \in (IF old = <<>> THEN {<<a>> : a \in Accounts} ELSE {old})
    BY <2>1 DEF Leaves
  <2>. QED  BY <1>1, <2>2
<1>2. CASE i = 5
  <2>1. EnrolmentSteps[i] = "InstallElevationRule"
    BY <1>2 DEF EnrolmentSteps
  <2>2. v \in {<<r>> : r \in OtherRules \union {RenderRule}}
    BY <2>1 DEF Leaves
  <2>3. PICK r \in OtherRules \union {RenderRule} : v = <<r>>
    BY <2>2
  <2>4. PICK s : RenderRule.specifications = <<s>>
    BY DEF RenderRule
  <2>5. IsList(RenderRule.specifications)
    <3>1. IsList(<<>>)
      BY DEF IsList
    <3>. QED  BY <2>4, <3>1, ListsConcat
  <2>6. IsList(r.specifications)
    BY <2>3, <2>5, EnrolmentAssumption
  <2>7. v # <<>> /\ v[1] = r
    BY <2>3
  <2>. QED  BY <1>2, <2>6, <2>7
<1>3. CASE i = 6
  <2>1. EnrolmentSteps[i] = "ActivateForcedKey"
    BY <1>3 DEF EnrolmentSteps
  <2>2. PICK e : RenderEntry("ssh-ed25519", "key") = <<e>>
    BY DEF RenderEntry
  <2>3. v \in {<<e>>, old \o <<e>>}
    BY <2>1, <2>2 DEF Leaves
  <2>4. IsList(<<e>>) /\ <<e>> # <<>> /\ IsList(old \o <<e>>) /\ old \o <<e>> # <<>>
    BY <1>3, ListsConcat
  <2>5. v # <<>> /\ IsList(v)
    BY <2>3, <2>4, Zenon
  <2>. QED  BY <1>3, <2>5
<1>4. CASE i = 7
  <2>1. EnrolmentSteps[i] = "WriteCommandEndpoint"
    BY <1>4 DEF EnrolmentSteps
  <2>2. v \in {old} \union {RenderEndpoint(Subject, "host", 22, k) : k \in {PinnedKey, "other"}}
    BY <2>1 DEF Leaves
  <2>. QED  BY <1>4, <2>2, EndpointIsWritten
<1>5. CASE i \in {1, 3, 4}
  <2>1. EnrolmentSteps[i] \in {"InstallArtifact", "InstallApprovalAnchor", "InstallReplayState"}
    BY <1>5 DEF EnrolmentSteps
  <2>2. v = <<"present">>
    BY <2>1 DEF Leaves
  <2>. QED  BY <1>5, <2>2
<1>. QED  BY <1>1, <1>2, <1>3, <1>4, <1>5 DEF Written

(* One part of the machine is written. *)
LEMMA WriteIs ==
    ASSUME NEW m, WholeMachine(m), NEW p \in Parts, NEW v, p = "lines" => IsList(v)
    PROVE  /\ WholeMachine([m EXCEPT ![p] = v])
           /\ [m EXCEPT ![p] = v][p] = v
           /\ \A q \in MachineParts \ {p} : [m EXCEPT ![p] = v][q] = m[q]
<1>1. PICK n : n = [m EXCEPT ![p] = v]
  OBVIOUS
<1>2. m = [q \in MachineParts |-> m[q]] /\ p \in MachineParts /\ p # "chain"
  BY DEF WholeMachine, MachineParts, Parts
<1>3. /\ n = [q \in MachineParts |-> n[q]]
      /\ n[p] = v
      /\ \A q \in MachineParts \ {p} : n[q] = m[q]
  BY <1>1, <1>2
<1>4. n["chain"] = m["chain"] /\ n["lines"] = IF p = "lines" THEN v ELSE m["lines"]
  BY <1>2, <1>3 DEF MachineParts, Parts
<1>5. WholeMachine(n)
  BY <1>3, <1>4 DEF WholeMachine
<1>. QED  BY <1>1, <1>3, <1>5

ItemsOf(s) == {s[i] : i \in DOMAIN s}
CreatedUpTo(l, m) == {p \in Parts : \E i \in 1..m : l[i].item = p /\ l[i].provenance = "created"}
TakenOf(entry) == IF entry.provenance = "created" THEN <<entry.item>> ELSE <<>>

(* The removals are put together one entry after the other. *)
LEMMA UnwindFolds ==
    ASSUME NEW l, Len(l) \in Nat
    PROVE  \E g : /\ g[0] = <<>>
                  /\ \A i \in 1..Len(l) : g[i] = TakenOf(l[i]) \o g[i - 1]
                  /\ Unwind(l).removals = g[Len(l)]
<1>. DEFINE IsFold(g, m) ==
                g = [i \in 0..m |-> IF i = 0 THEN <<>>
                                    ELSE (IF l[i].provenance = "created" THEN <<l[i].item>> ELSE <<>>)
                                         \o g[i - 1]]
            S == {m \in Nat : \E g : IsFold(g, m)}
<1>1. 0 \in S
  <2>1. IsFold([i \in 0..0 |-> <<>>], 0)
    OBVIOUS
  <2>. QED  BY <2>1
<1>2. ASSUME NEW m \in Nat, m \in S PROVE m + 1 \in S
  <2>1. PICK g : IsFold(g, m)
    BY <1>2
  <2>. DEFINE part(i) == (IF l[i].provenance = "created" THEN <<l[i].item>> ELSE <<>>)
  <2>. HIDE DEF part
  <2>2. PICK h : h = [i \in 0..(m + 1) |-> IF i <= m THEN g[i] ELSE part(m + 1) \o g[m]]
    OBVIOUS
  <2>3. ASSUME NEW i \in 0..(m + 1)
        PROVE  h[i] = IF i = 0 THEN <<>> ELSE part(i) \o h[i - 1]
    <3>0. g = [j \in 0..m |-> IF j = 0 THEN <<>> ELSE part(j) \o g[j - 1]]
      BY <2>1 DEF part
    <3>1. CASE i = 0
      BY <3>0, <2>2, <3>1
    <3>2. CASE i # 0 /\ i <= m
      <4>1. i - 1 \in 0..m /\ i \in 0..m
        BY <3>2
      <4>2. g[i] = part(i) \o g[i - 1]
        BY <3>0, <3>2, <4>1
      <4>3. h[i] = g[i] /\ h[i - 1] = g[i - 1]
        BY <2>2, <3>2, <4>1
      <4>. QED  BY <4>2, <4>3, <3>2
    <3>3. CASE i = m + 1
      BY <2>2, <3>3
    <3>. QED  BY <3>1, <3>2, <3>3
  <2>4. h = [i \in 0..(m + 1) |-> IF i = 0 THEN <<>> ELSE part(i) \o h[i - 1]]
    BY <2>2, <2>3
  <2>5. IsFold(h, m + 1)
    BY <2>4 DEF part
  <2>. HIDE DEF IsFold
  <2>. QED  BY <2>5
<1>3. Len(l) \in S
  <2>. HIDE DEF S
  <2>. QED  BY <1>1, <1>2, SetInduction
<1>4. PICK g : g = CHOOSE h : IsFold(h, Len(l))
  OBVIOUS
<1>5. IsFold(g, Len(l))
  BY <1>3, <1>4
<1>6. Unwind(l).removals = g[Len(l)]
  BY <1>4 DEF Unwind
<1>7. /\ g[0] = <<>>
      /\ \A i \in 1..Len(l) : g[i] = TakenOf(l[i]) \o g[i - 1]
  BY <1>5 DEF TakenOf
<1>. QED  BY <1>6, <1>7

(* A list with an item before it has its items and that one. *)
LEMMA ItemsOfConcat ==
    ASSUME NEW s \in Seq(Parts), NEW e \in Parts
    PROVE  <<e>> \o s \in Seq(Parts) /\ ItemsOf(<<e>> \o s) = {e} \union ItemsOf(s)
<1>1. PICK t : t = <<e>> \o s
  OBVIOUS
<1>2. /\ t \in Seq(Parts)
      /\ DOMAIN t = 1..(Len(s) + 1) /\ t[1] = e /\ \A j \in 1..Len(s) : t[j + 1] = s[j]
      /\ DOMAIN s = 1..Len(s) /\ Len(s) \in Nat
  BY <1>1
<1>3. ASSUME NEW j \in DOMAIN t PROVE t[j] \in {e} \union ItemsOf(s)
  <2>1. j = 1 \/ (j - 1 \in 1..Len(s) /\ j = (j - 1) + 1)
    BY <1>2
  <2>. QED  BY <1>2, <2>1 DEF ItemsOf
<1>4. ASSUME NEW k \in DOMAIN s PROVE s[k] \in ItemsOf(t)
  <2>1. k + 1 \in DOMAIN t /\ t[k + 1] = s[k]
    BY <1>2
  <2>. QED  BY <2>1 DEF ItemsOf
<1>5. e \in ItemsOf(t)
  BY <1>2, 1 \in DOMAIN t DEF ItemsOf
<1>6. ItemsOf(t) = {e} \union ItemsOf(s)
  BY <1>3, <1>4, <1>5 DEF ItemsOf
<1>. QED  BY <1>1, <1>2, <1>6

(* The items an unwinding lists are the created ones. *)
LEMMA UnwindIs ==
    ASSUME NEW l \in Seq(LedgerEntry)
    PROVE  ItemsOf(Unwind(l).removals) = CreatedUpTo(l, Len(l))
<1>0. Len(l) \in Nat /\ DOMAIN l = 1..Len(l)
  OBVIOUS
<1>1. PICK g : /\ g[0] = <<>>
               /\ \A i \in 1..Len(l) : g[i] = TakenOf(l[i]) \o g[i - 1]
               /\ Unwind(l).removals = g[Len(l)]
  BY <1>0, UnwindFolds
<1>. DEFINE S == {m \in Nat : m <= Len(l) =>
                    g[m] \in Seq(Parts) /\ ItemsOf(g[m]) = CreatedUpTo(l, m)}
<1>2. 0 \in S
  <2>1. g[0] \in Seq(Parts) /\ ItemsOf(g[0]) = {}
    BY <1>1 DEF ItemsOf
  <2>2. CreatedUpTo(l, 0) = {}
    BY DEF CreatedUpTo
  <2>. QED  BY <2>1, <2>2
<1>3. ASSUME NEW m \in Nat, m \in S PROVE m + 1 \in S
  <2>. SUFFICES ASSUME m + 1 <= Len(l)
                PROVE g[m + 1] \in Seq(Parts) /\ ItemsOf(g[m + 1]) = CreatedUpTo(l, m + 1)
    OBVIOUS
  <2>1. PICK old : old = g[m]
    OBVIOUS
  <2>2. old \in Seq(Parts) /\ ItemsOf(old) = CreatedUpTo(l, m)
    BY <1>0, <1>3, <2>1
  <2>3. l[m + 1] \in LedgerEntry /\ m + 1 \in 1..Len(l)
    BY <1>0
  <2>4. l[m + 1].item \in Parts
    BY <2>3 DEF LedgerEntry
  <2>5. g[m + 1] = TakenOf(l[m + 1]) \o old
    BY <1>1, <2>1, <2>3, (m + 1) - 1 = m
  <2>6. CreatedUpTo(l, m + 1) = CreatedUpTo(l, m) \union
                {p \in Parts : l[m + 1].item = p /\ l[m + 1].provenance = "created"}
    <3>1. \A i : i \in 1..(m + 1) <=> i \in 1..m \/ i = m + 1
      OBVIOUS
    <3>. QED  BY <3>1, Zenon DEF CreatedUpTo
  <2>7. CASE l[m + 1].provenance = "created"
    <3>1. g[m + 1] = <<l[m + 1].item>> \o old
      BY <2>5, <2>7 DEF TakenOf
    <3>2. CreatedUpTo(l, m + 1) = {l[m + 1].item} \union CreatedUpTo(l, m)
      BY <2>4, <2>6, <2>7
    <3>. QED  BY <2>2, <2>4, <3>1, <3>2, ItemsOfConcat
  <2>8. CASE l[m + 1].provenance # "created"
    <3>1. g[m + 1] = <<>> \o old
      BY <2>5, <2>8 DEF TakenOf
    <3>2. g[m + 1] = old
      BY <2>2, <3>1
    <3>3. CreatedUpTo(l, m + 1) = CreatedUpTo(l, m)
      BY <2>6, <2>8
    <3>. QED  BY <2>2, <3>2, <3>3
  <2>. QED  BY <2>7, <2>8
<1>4. Len(l) \in S
  <2>. HIDE DEF S
  <2>. QED  BY <1>0, <1>2, <1>3, SetInduction
<1>. QED  BY <1>0, <1>1, <1>4

-----------------------------------------------------------------------------
(* The steps of a run.                                                     *)

(* A write: a part that was there is still there, and the ledger notes a   *)
(* part that was not.                                                      *)
WritesPart(part, v, provenance) ==
    /\ part \in Parts
    /\ machine' = [machine EXCEPT ![part] = v]
    /\ machine[part] # <<>> => v # <<>>
    /\ part = "lines" => IsList(v)
    /\ ledger' = Append(ledger, Entry(part, provenance))
    /\ provenance \in {"created", "found", "unknown"}
    /\ provenance = "created" => machine[part] = <<>>
    /\ machine[part] = <<>> => provenance # "found"
    /\ before' = before

(* A step writes its own part. *)
LEMMA StepWrites ==
    ASSUME EnrolmentTyped, TakeStep \/ Cut
    PROVE  \E v, provenance : WritesPart(Part, v, provenance)
<1>1. run.at \in Written
  BY DEF TakeStep, Cut
<1>2. Part = PartsWritten[run.at] /\ Part \in Parts
  BY <1>1, StepPart DEF Part, Step
<1>3. Part = "lines" <=> run.at = 6
  BY <1>1, <1>2 DEF PartsWritten, Written
<1>4. run.at = 6 => IsList(machine[Part])
  BY <1>3 DEF EnrolmentTyped, WholeMachine
<1>5. CASE TakeStep
  <2>1. PICK v \in Leaves(Step, machine[Part]) : machine' = [machine EXCEPT ![Part] = v]
    BY <1>5 DEF TakeStep
  <2>2. (machine[Part] # <<>> => v # <<>>) /\ (run.at = 6 => IsList(v))
    BY <1>1, <1>4, <2>1, LeavesSomething DEF Step
  <2>3. /\ Provenance(Part) \in {"created", "found", "unknown"}
        /\ Provenance(Part) = "created" <=> machine[Part] = <<>>
        /\ Provenance(Part) = "found" <=> machine[Part] # <<>>
    BY DEF Provenance
  <2>4. WritesPart(Part, v, Provenance(Part))
    BY <1>2, <1>3, <1>5, <2>1, <2>2, <2>3, Zenon DEF TakeStep, WritesPart
  <2>. QED  BY <2>4
<1>6. CASE Cut
  <2>1. PICK v \in Leaves(Step, machine[Part]) \union {machine[Part]} :
                machine' = [machine EXCEPT ![Part] = v]
    BY <1>6 DEF Cut
  <2>2. (machine[Part] # <<>> => v # <<>>) /\ (run.at = 6 => IsList(v))
    <3>1. CASE v = machine[Part]
      BY <1>4, <3>1
    <3>2. CASE v \in Leaves(Step, machine[Part])
      BY <1>1, <1>4, <3>2, LeavesSomething DEF Step
    <3>. QED  BY <2>1, <3>1, <3>2
  <2>3. "unknown" \in {"created", "found", "unknown"} /\ "unknown" # "created" /\ "unknown" # "found"
    OBVIOUS
  <2>4. WritesPart(Part, v, "unknown")
    BY <1>2, <1>3, <1>6, <2>1, <2>2, <2>3, Zenon DEF Cut, WritesPart
  <2>. QED  BY <2>4
<1>. QED  BY <1>5, <1>6

(* A role that is started is written too. *)
LEMMA RoleWrites ==
    ASSUME EnrolmentTyped, NEW role \in Role, ActivateRole(role) \/ CutActivation(role)
    PROVE  \/ UNCHANGED <<before, machine, ledger>>
           \/ role \in {"agent", "relay"} /\ \E v, provenance : WritesPart(role, v, provenance)
<1>0. {"agent", "relay"} \subseteq Parts \ {"lines"}
  BY DEF Parts
<1>1. CASE ActivateRole(role) /\ Activate(Subject, run.verified, run.roles, role) = "ok"
  <2>1. role \in {"agent", "relay"}
    BY <1>1, StartedRole
  <2>2. <<"started">> # <<>> /\ role \in Parts /\ role # "lines"
    BY <1>0, <2>1
  <2>3. WritesPart(role, <<"started">>, "created")
    BY <1>1, <2>2 DEF ActivateRole, WritesPart
  <2>. QED  BY <2>1, <2>3
<1>2. CASE ActivateRole(role) /\ Activate(Subject, run.verified, run.roles, role) # "ok"
  BY <1>2 DEF ActivateRole
<1>3. CASE CutActivation(role)
  <2>1. role \in {"agent", "relay"}
    BY <1>3, StartedRole DEF CutActivation
  <2>2. <<"started">> # <<>> /\ role \in Parts /\ role # "lines"
    BY <1>0, <2>1
  <2>3. PICK v \in {machine[role], <<"started">>} : machine' = [machine EXCEPT ![role] = v]
    <3>1. machine = [machine EXCEPT ![role] = machine[role]]
      BY DEF EnrolmentTyped, WholeMachine
    <3>. QED  BY <1>3, <3>1 DEF CutActivation
  <2>4. WritesPart(role, v, "unknown")
    BY <1>3, <2>2, <2>3 DEF CutActivation, WritesPart
  <2>. QED  BY <2>1, <2>4
<1>. QED  BY <1>1, <1>2, <1>3

(* The ledger with an entry more. *)
LEMMA NotedMore ==
    ASSUME ledger \in Seq(LedgerEntry), NEW part \in Parts,
           NEW provenance \in {"created", "found", "unknown"}
    PROVE  LET longer == Append(ledger, Entry(part, provenance))
           IN /\ longer \in Seq(LedgerEntry)
              /\ DOMAIN longer = DOMAIN ledger \union {Len(ledger) + 1}
              /\ \A i \in DOMAIN ledger : longer[i] = ledger[i]
              /\ longer[Len(ledger) + 1].item = part
              /\ longer[Len(ledger) + 1].provenance = provenance
<1>1. PICK e : e = Entry(part, provenance)
  OBVIOUS
<1>2. e \in LedgerEntry /\ e.item = part /\ e.provenance = provenance
  BY <1>1 DEF Entry, LedgerEntry
<1>3. PICK longer : longer = Append(ledger, e)
  OBVIOUS
<1>4. /\ longer \in Seq(LedgerEntry)
      /\ DOMAIN longer = DOMAIN ledger \union {Len(ledger) + 1}
      /\ \A i \in DOMAIN ledger : longer[i] = ledger[i]
      /\ longer[Len(ledger) + 1] = e
  BY <1>2, <1>3
<1>. QED  BY <1>1, <1>2, <1>3, <1>4

(* After a write, the parts are whole and the ledger tells. *)
LEMMA WriteIsTold ==
    ASSUME EnrolmentTyped, LedgerTells, NEW part, NEW v, NEW provenance,
           WritesPart(part, v, provenance)
    PROVE  /\ WholeMachine(machine') /\ before' = before
           /\ ledger' \in Seq(LedgerEntry)
           /\ machine'[part] = v
           /\ \A q \in MachineParts \ {part} : machine'[q] = machine[q]
           /\ LedgerTells'
<1>1. /\ part \in Parts /\ before' = before
      /\ machine[part] # <<>> => v # <<>>
      /\ provenance \in {"created", "found", "unknown"}
      /\ provenance = "created" => machine[part] = <<>>
      /\ machine[part] = <<>> => provenance # "found"
  BY DEF WritesPart
<1>2. /\ WholeMachine(machine') /\ machine'[part] = v
      /\ \A q \in MachineParts \ {part} : machine'[q] = machine[q]
  <2>1. WholeMachine(machine) /\ (part = "lines" => IsList(v))
    BY DEF WritesPart, EnrolmentTyped
  <2>2. machine' = [machine EXCEPT ![part] = v]
    BY DEF WritesPart
  <2>3. /\ WholeMachine([machine EXCEPT ![part] = v])
        /\ [machine EXCEPT ![part] = v][part] = v
        /\ \A q \in MachineParts \ {part} : [machine EXCEPT ![part] = v][q] = machine[q]
    BY ONLY <1>1, <2>1, WriteIs
  <2>. QED  BY <2>2, <2>3, Zenon
<1>3. /\ ledger' \in Seq(LedgerEntry)
      /\ DOMAIN ledger' = DOMAIN ledger \union {Len(ledger) + 1}
      /\ \A i \in DOMAIN ledger : ledger'[i] = ledger[i]
      /\ ledger'[Len(ledger) + 1].item = part
      /\ ledger'[Len(ledger) + 1].provenance = provenance
  BY <1>1, NotedMore DEF WritesPart, EnrolmentTyped
<1>4. \A q \in Parts : q # part => machine'[q] = machine[q]
  BY <1>2 DEF MachineParts
<1>5. ASSUME NEW q \in Parts, before[q] # <<>> PROVE machine'[q] # <<>>
  BY <1>1, <1>2, <1>4, <1>5 DEF LedgerTells
<1>6. ASSUME NEW i \in DOMAIN ledger', ledger'[i].provenance = "created"
      PROVE  before[ledger'[i].item] = <<>>
  <2>1. CASE i \in DOMAIN ledger
    BY <1>3, <1>6, <2>1 DEF LedgerTells
  <2>2. CASE i = Len(ledger) + 1
    BY <1>1, <1>3, <1>6, <2>2 DEF LedgerTells
  <2>. QED  BY <1>3, <2>1, <2>2
<1>7. ASSUME NEW q \in Parts, before[q] = <<>>, machine'[q] # <<>>
      PROVE  \E i \in DOMAIN ledger' : /\ ledger'[i].item = q
                                       /\ ledger'[i].provenance \in {"created", "unknown"}
  <2>1. CASE machine[q] # <<>>
    <3>1. PICK i \in DOMAIN ledger : ledger[i].item = q /\ ledger[i].provenance \in {"created", "unknown"}
      BY <1>7, <2>1 DEF LedgerTells, Noted
    <3>. QED  BY <1>3, <3>1
  <2>2. CASE machine[q] = <<>>
    <3>1. q = part
      BY <1>4, <1>7, <2>2
    <3>. QED  BY <1>1, <1>3, <2>2, <3>1
  <2>. QED  BY <2>1, <2>2
<1>8. LedgerTells'
  BY <1>1, <1>5, <1>6, <1>7 DEF LedgerTells, Noted
<1>. QED  BY <1>1, <1>2, <1>3, <1>8

(* The forced key is judged with the chain of its file. *)
LEMMA ForcedKeyOk ==
    ASSUME NEW m, Judged("ActivateForcedKey", m) = "ok"
    PROVE  JudgeEntry(m.lines) = "ok" /\ JudgeCustody(m.chain, m.account[1]) = "ok"
<1>. DEFINE entry == JudgeEntry(m.lines)
            custody == JudgeCustody(m.chain, m.account[1])
            checks == << <<entry # "ok", entry>>, <<custody # "ok", custody>> >>
<1>1. FirstRefusal(checks) = "ok"
  BY DEF Judged
<1>. HIDE DEF entry, custody
<1>2. /\ checks[1][1] = (entry # "ok") /\ checks[1][2] = entry
      /\ checks[2][1] = (custody # "ok") /\ checks[2][2] = custody
      /\ DOMAIN checks = {1, 2}
  OBVIOUS
<1>3. DOMAIN checks \subseteq Nat
  BY <1>2
<1>4. \A i \in DOMAIN checks : checks[i][1] => checks[i][2] # "ok"
  <2>. HIDE DEF checks
  <2>. QED  BY <1>2, Zenon
<1>5. \A i \in DOMAIN checks : ~checks[i][1]
  <2>. HIDE DEF checks
  <2>. QED  BY ONLY <1>1, <1>3, <1>4, OkRefusesNothing
<1>6. entry = "ok" /\ custody = "ok"
  <2>. HIDE DEF checks
  <2>. QED  BY <1>2, <1>5, Zenon
<1>. QED  BY <1>6 DEF entry, custody

LEMMA EnrolmentInvInit == Init => EnrolmentInv
<1>. SUFFICES ASSUME Init PROVE EnrolmentInv
  OBVIOUS
<1>1. WholeMachine(machine) /\ before = [p \in MachineParts |-> before[p]]
  BY EnrolmentAssumption DEF Init, WholeMachine, MachineParts
<1>2. ledger \in Seq(LedgerEntry) /\ DOMAIN ledger = {}
  BY DEF Init
<1>3. EnrolmentTyped
  BY <1>1, <1>2 DEF Init, EnrolmentTyped, NoRun
<1>4. Judgements /\ NothingEarly /\ UndoneIsHonest
  BY DEF Init, NoRun, Judgements, NothingEarly, Going, UndoneIsHonest
<1>5. LedgerTells
  BY <1>2 DEF Init, LedgerTells
<1>. QED  BY <1>3, <1>4, <1>5 DEF EnrolmentInv

(* A run that was authorised starts at its first step. *)
LEMMA EnrolKeeps ==
    ASSUME EnrolmentInv, NEW p \in Perimeters, Enrol(p)
    PROVE  EnrolmentInv'
<1>1. EnrolmentTyped
  BY DEF EnrolmentInv
<1>2. machine' = machine /\ before' = machine /\ ledger' = <<>>
  BY DEF Enrol
<1>3. \/ run' = run /\ run.phase = "none"
      \/ run' = [phase |-> "running", at |-> 1, enrolled |-> p.declared, verified |-> "nobody",
                 roles |-> {p.placements[i].role : i \in DOMAIN p.placements}]
  BY DEF Enrol
<1>4. PICK roles : roles = {p.placements[i].role : i \in DOMAIN p.placements}
  OBVIOUS
<1>5. ledger' \in Seq(LedgerEntry) /\ DOMAIN ledger' = {}
  BY <1>2
<1>6. EnrolmentTyped'
  <2>1. WholeMachine(machine)' /\ before' = [q \in MachineParts |-> before'[q]]
    BY <1>1, <1>2 DEF EnrolmentTyped, WholeMachine
  <2>2. CASE run' = run
    BY <1>1, <1>5, <2>1, <2>2 DEF EnrolmentTyped
  <2>3. CASE run' # run
    BY <1>3, <1>4, <1>5, <2>1, <2>3 DEF EnrolmentTyped
  <2>. QED  BY <2>2, <2>3
<1>7. (run'.phase = "none" \/ run'.at = 1) /\ run'.phase # "undone"
  BY <1>3, <1>4
<1>8. Judgements'
  BY <1>7 DEF Judgements, Going
<1>9. NothingEarly' /\ UndoneIsHonest'
  BY <1>2, <1>7 DEF NothingEarly, UndoneIsHonest
<1>10. LedgerTells'
  BY <1>2, <1>5 DEF LedgerTells
<1>. QED  BY <1>6, <1>8, <1>9, <1>10 DEF EnrolmentInv

(* A step: what it left is judged before the run goes on, and what was     *)
(* judged before it is not written again.                                  *)
LEMMA TakeStepKeeps ==
    ASSUME EnrolmentInv, TakeStep
    PROVE  EnrolmentInv'
<1>1. EnrolmentTyped /\ Judgements /\ NothingEarly /\ LedgerTells
  BY DEF EnrolmentInv
<1>2. PICK v, provenance : WritesPart(Part, v, provenance)
  BY <1>1, StepWrites
<1>3. /\ WholeMachine(machine') /\ before' = before
      /\ ledger' \in Seq(LedgerEntry)
      /\ \A q \in MachineParts \ {Part} : machine'[q] = machine[q]
      /\ LedgerTells'
  BY <1>1, <1>2, WriteIsTold
<1>4. run.at \in Written /\ run.phase = "running"
  BY DEF TakeStep
<1>5. Part = PartsWritten[run.at] /\ Part \in Parts \ {"agent", "relay"}
  BY <1>4, StepPart DEF Part, Step
<1>6. \/ run' = [run EXCEPT !.at = @ + 1] /\ Judged(Step, machine') = "ok"
      \/ run' = [run EXCEPT !.phase = "stopped"]
  BY DEF TakeStep
<1>7. /\ \/ run'.phase = "running" /\ run'.at = run.at + 1 /\ Judged(Step, machine') = "ok"
         \/ run'.phase = "stopped" /\ run'.at = run.at
      /\ run' = [phase |-> run'.phase, at |-> run'.at, enrolled |-> run'.enrolled,
                 verified |-> run'.verified, roles |-> run'.roles]
  <2>1. run = [phase |-> run.phase, at |-> run.at, enrolled |-> run.enrolled,
               verified |-> run.verified, roles |-> run.roles]
    BY <1>1 DEF EnrolmentTyped
  <2>2. CASE run' = [run EXCEPT !.at = @ + 1] /\ Judged(Step, machine') = "ok"
    BY <1>4, <2>1, <2>2
  <2>3. CASE run' = [run EXCEPT !.phase = "stopped"]
    BY <2>1, <2>3
  <2>. QED  BY <1>6, <2>2, <2>3
<1>8. EnrolmentTyped'
  BY <1>1, <1>3, <1>4, <1>7 DEF EnrolmentTyped, Written
<1>9. NothingEarly'
  <2>1. machine'["agent"] = machine["agent"] /\ machine'["relay"] = machine["relay"]
    BY <1>3, <1>5 DEF MachineParts, Parts
  <2>. QED  BY <1>1, <1>3, <1>4, <2>1 DEF NothingEarly, Going, Written
<1>10. ASSUME run'.phase = "running" PROVE Judgements'
  <2>1. run'.at = run.at + 1 /\ Judged(Step, machine') = "ok" /\ run.at \in 1..7
    BY <1>4, <1>7, <1>10 DEF Written
  <2>2. /\ run.at > 2 => machine'["account"] = machine["account"]
        /\ run.at > 5 => machine'["rule"] = machine["rule"]
        /\ run.at > 6 => machine'["lines"] = machine["lines"]
        /\ machine'["chain"] = machine["chain"]
    BY <1>3, <1>5, <2>1 DEF MachineParts, Parts, PartsWritten
  <2>3. run'.at > 2 => JudgeAccount(machine'["account"][1]) = "ok"
    <3>1. CASE run.at = 2
      BY <2>1, <3>1 DEF Judged, Step, EnrolmentSteps
    <3>2. CASE run.at > 2
      BY <1>1, <1>4, <2>2, <3>2 DEF Judgements, Going
    <3>. QED  BY <2>1, <3>1, <3>2
  <2>4. run'.at > 5 => /\ IsList(machine'["rule"][1].specifications)
                       /\ JudgeRule(machine'["rule"][1]) = "ok"
    <3>1. CASE run.at = 5
      <4>1. JudgeRule(machine'["rule"][1]) = "ok"
        BY <2>1, <3>1 DEF Judged, Step, EnrolmentSteps
      <4>2. PICK w \in Leaves(Step, machine[Part]) : machine' = [machine EXCEPT ![Part] = w]
        BY DEF TakeStep
      <4>3. Part = "rule" /\ machine'["rule"] = w
        <5>1. Part = "rule"
          BY <1>5, <3>1 DEF PartsWritten
        <5>2. "rule" \in DOMAIN machine
          BY <1>1 DEF EnrolmentTyped, WholeMachine, MachineParts, Parts
        <5>. QED  BY <4>2, <5>1, <5>2
      <4>4. IsList(w[1].specifications)
        <5>1. w \in Leaves(EnrolmentSteps[run.at], machine[Part])
          BY <4>2, Zenon DEF Step
        <5>2. run.at = 6 => IsList(machine[Part])
          BY <3>1
        <5>. QED  BY ONLY <1>4, <3>1, <5>1, <5>2, LeavesSomething
      <4>. QED  BY <4>1, <4>3, <4>4
    <3>2. CASE run.at > 5
      BY <1>1, <1>4, <2>2, <3>2 DEF Judgements, Going
    <3>. QED  BY <2>1, <3>1, <3>2
  <2>5. run'.at > 6 => /\ JudgeEntry(machine'["lines"]) = "ok"
                       /\ JudgeCustody(machine'["chain"], machine'["account"][1]) = "ok"
    <3>1. CASE run.at = 6
      <4>1. Judged("ActivateForcedKey", machine') = "ok"
        BY <2>1, <3>1 DEF Step, EnrolmentSteps
      <4>2. \A m : Judged("ActivateForcedKey", m) = "ok" =>
                JudgeEntry(m.lines) = "ok" /\ JudgeCustody(m.chain, m.account[1]) = "ok"
        BY ForcedKeyOk, Zenon
      <4>. QED  BY <4>1, <4>2, Zenon
    <3>2. CASE run.at > 6
      BY <1>1, <1>4, <2>1, <2>2, <3>2 DEF Judgements, Going
    <3>. QED  BY <2>1, <3>1, <3>2
  <2>6. run'.at > 7 => JudgeEndpoint(Subject, machine'["sheets"], PinnedKey) = "ok"
    <3>1. CASE run.at = 7
      BY <2>1, <3>1 DEF Judged, Step, EnrolmentSteps
    <3>. QED  BY <2>1, <3>1
  <2>7. ~(run'.at > 8)
    BY <2>1
  <2>. QED  BY <2>3, <2>4, <2>5, <2>6, <2>7 DEF Judgements
<1>11. ASSUME run'.phase = "stopped" PROVE Judgements'
  BY <1>11 DEF Judgements, Going
<1>12. UndoneIsHonest'
  BY <1>7 DEF UndoneIsHonest
<1>. QED  BY <1>3, <1>7, <1>8, <1>9, <1>10, <1>11, <1>12 DEF EnrolmentInv

(* A run that is cut judges nothing more. *)
LEMMA CutKeeps ==
    ASSUME EnrolmentInv, Cut
    PROVE  EnrolmentInv'
<1>1. EnrolmentTyped /\ LedgerTells
  BY DEF EnrolmentInv
<1>2. PICK v, provenance : WritesPart(Part, v, provenance)
  BY <1>1, StepWrites
<1>3. /\ WholeMachine(machine') /\ before' = before
      /\ ledger' \in Seq(LedgerEntry)
      /\ LedgerTells'
  BY <1>1, <1>2, WriteIsTold
<1>4. /\ run'.phase = "stopped" /\ run'.at = run.at
      /\ run' = [phase |-> run'.phase, at |-> run'.at, enrolled |-> run'.enrolled,
                 verified |-> run'.verified, roles |-> run'.roles]
  BY <1>1 DEF EnrolmentTyped, Cut
<1>5. EnrolmentTyped'
  BY <1>1, <1>3, <1>4 DEF EnrolmentTyped
<1>. QED  BY <1>3, <1>4, <1>5
          DEF EnrolmentInv, Judgements, NothingEarly, Going, UndoneIsHonest

(* The new path: a run goes on to its roles for this machine alone. *)
LEMMA VerifyKeeps ==
    ASSUME EnrolmentInv, NEW report \in Reports, VerifyNewPath(report)
    PROVE  EnrolmentInv'
<1>1. EnrolmentTyped /\ Judgements /\ LedgerTells
  BY DEF EnrolmentInv
<1>2. UNCHANGED <<before, machine, ledger>> /\ run.phase = "running" /\ run.at = 8
  BY DEF VerifyNewPath, Verifying
<1>3. /\ run'.phase = "stopped" \/ (run'.phase = "running" /\ run'.at = 9 /\ run'.verified = Subject)
      /\ run' = [phase |-> run'.phase, at |-> run'.at, enrolled |-> run'.enrolled,
                 verified |-> run'.verified, roles |-> run'.roles]
      /\ run'.at \in {8, 9}
  <2>1. run = [phase |-> run.phase, at |-> run.at, enrolled |-> run.enrolled,
               verified |-> run.verified, roles |-> run.roles]
    BY <1>1 DEF EnrolmentTyped
  <2>2. CASE VerifyPath(run.enrolled, Subject, report) = "ok"
    <3>1. report.machine = Subject
      BY <2>2, PathOk
    <3>. QED  BY <1>2, <2>1, <2>2, <3>1 DEF VerifyNewPath, Activating
  <2>3. CASE VerifyPath(run.enrolled, Subject, report) # "ok"
    BY <1>2, <2>1, <2>3 DEF VerifyNewPath
  <2>. QED  BY <2>2, <2>3
<1>4. EnrolmentTyped'
  BY <1>1, <1>2, <1>3 DEF EnrolmentTyped, WholeMachine
<1>5. Judgements'
  BY <1>1, <1>2, <1>3 DEF Judgements, Going
<1>6. NothingEarly' /\ UndoneIsHonest'
  BY <1>3 DEF NothingEarly, Going, UndoneIsHonest
<1>7. LedgerTells'
  BY <1>1, <1>2 DEF LedgerTells, Noted
<1>. QED  BY <1>4, <1>5, <1>6, <1>7 DEF EnrolmentInv

(* A role is started where the path was verified, and nothing that was     *)
(* judged is written.                                                      *)
LEMMA RoleKeeps ==
    ASSUME EnrolmentInv, NEW role \in Role, ActivateRole(role) \/ CutActivation(role)
    PROVE  EnrolmentInv'
<1>1. EnrolmentTyped /\ Judgements /\ LedgerTells
  BY DEF EnrolmentInv
<1>2. run.phase = "running" /\ run.at = 9
  BY DEF ActivateRole, CutActivation, Activating
<1>3. /\ run'.phase \in {"running", "stopped"} /\ run'.at = 9 /\ run'.verified = run.verified
      /\ run' = [phase |-> run'.phase, at |-> run'.at, enrolled |-> run'.enrolled,
                 verified |-> run'.verified, roles |-> run'.roles]
  BY <1>1, <1>2 DEF EnrolmentTyped, ActivateRole, CutActivation
<1>4. /\ WholeMachine(machine') /\ before' = before
      /\ ledger' \in Seq(LedgerEntry)
      /\ \A q \in MachineParts \ {"agent", "relay"} : machine'[q] = machine[q]
      /\ LedgerTells'
  <2>1. CASE UNCHANGED <<before, machine, ledger>>
    BY <1>1, <2>1 DEF EnrolmentTyped, LedgerTells, Noted
  <2>2. CASE role \in {"agent", "relay"} /\ \E v, provenance : WritesPart(role, v, provenance)
    BY <1>1, <2>2, WriteIsTold
  <2>. QED  BY <1>1, <2>1, <2>2, RoleWrites
<1>5. EnrolmentTyped'
  BY <1>1, <1>3, <1>4 DEF EnrolmentTyped
<1>6. Judgements'
  <2>1. \A q \in {"account", "rule", "lines", "chain", "sheets"} : machine'[q] = machine[q]
    BY <1>4 DEF MachineParts, Parts
  <2>. QED  BY <1>1, <1>2, <1>3, <2>1 DEF Judgements, Going
<1>7. NothingEarly' /\ UndoneIsHonest'
  BY <1>3 DEF NothingEarly, UndoneIsHonest
<1>. QED  BY <1>4, <1>5, <1>6, <1>7 DEF EnrolmentInv

(* The end of a run changes its phase alone. *)
LEMMA EndKeeps ==
    ASSUME EnrolmentInv, RolesActivated \/ DestroyTemporaryState \/ Leave
    PROVE  EnrolmentInv'
<1>1. EnrolmentTyped /\ Judgements /\ LedgerTells
  BY DEF EnrolmentInv
<1>2. UNCHANGED <<before, machine, ledger>>
  BY DEF RolesActivated, DestroyTemporaryState, Leave
<1>3. /\ \/ run'.phase = "none"
         \/ /\ run.phase = "running" /\ run.at \in {9, 10} /\ run'.at = 10
            /\ run'.phase \in {"running", "enrolled"} /\ run'.verified = run.verified
      /\ run'.at \in {0, 10}
      /\ run' = [phase |-> run'.phase, at |-> run'.at, enrolled |-> run'.enrolled,
                 verified |-> run'.verified, roles |-> run'.roles]
  BY <1>1 DEF EnrolmentTyped, RolesActivated, DestroyTemporaryState, Leave, NoRun,
              Activating, Destroying
<1>4. EnrolmentTyped'
  BY <1>1, <1>2, <1>3 DEF EnrolmentTyped, WholeMachine
<1>5. Judgements'
  BY <1>1, <1>2, <1>3 DEF Judgements, Going
<1>6. NothingEarly' /\ UndoneIsHonest'
  BY <1>3 DEF NothingEarly, Going, UndoneIsHonest
<1>7. LedgerTells'
  BY <1>1, <1>2 DEF LedgerTells, Noted
<1>. QED  BY <1>4, <1>5, <1>6, <1>7 DEF EnrolmentInv

(* The undoing takes away what the run created, and that alone. *)
LEMMA UndoKeeps ==
    ASSUME EnrolmentInv, Undo
    PROVE  EnrolmentInv'
<1>1. EnrolmentTyped /\ LedgerTells
  BY DEF EnrolmentInv
<1>. DEFINE gone == ItemsOf(Unwind(ledger).removals)
<1>2. gone = {p \in Parts : \E i \in DOMAIN ledger :
                                ledger[i].item = p /\ ledger[i].provenance = "created"}
  <2>1. gone = CreatedUpTo(ledger, Len(ledger)) /\ DOMAIN ledger = 1..Len(ledger)
    BY <1>1, UnwindIs DEF EnrolmentTyped
  <2>. QED  BY <2>1, Zenon DEF CreatedUpTo
<1>3. machine' = [p \in DOMAIN machine |-> IF p \in gone THEN <<>> ELSE machine[p]]
  BY Zenon DEF Undo, ItemsOf
<1>. HIDE DEF gone
<1>4. UNCHANGED <<before, ledger>>
  BY DEF Undo
<1>5. /\ run'.phase = "undone" /\ run'.at = run.at
      /\ run' = [phase |-> run'.phase, at |-> run'.at, enrolled |-> run'.enrolled,
                 verified |-> run'.verified, roles |-> run'.roles]
  BY <1>1 DEF EnrolmentTyped, Undo
<1>6. DOMAIN machine = MachineParts /\ gone \subseteq Parts /\ "chain" \notin Parts
  BY <1>1, <1>2 DEF EnrolmentTyped, WholeMachine, Parts
<1>7. \A p \in MachineParts : machine'[p] = IF p \in gone THEN <<>> ELSE machine[p]
  BY <1>3, <1>6
<1>8. WholeMachine(machine')
  <2>1. machine' = [p \in MachineParts |-> machine'[p]]
    BY <1>3, <1>6
  <2>2. machine'["chain"] = machine["chain"]
    BY <1>6, <1>7 DEF MachineParts
  <2>3. IsList(<<>>)
    BY DEF IsList
  <2>4. machine'["lines"] = <<>> \/ machine'["lines"] = machine["lines"]
    BY <1>7 DEF MachineParts, Parts
  <2>. QED  BY <1>1, <2>1, <2>2, <2>3, <2>4 DEF EnrolmentTyped, WholeMachine
<1>9. EnrolmentTyped'
  BY <1>1, <1>4, <1>5, <1>8 DEF EnrolmentTyped
<1>10. ASSUME NEW p \in Parts, before[p] # <<>> PROVE machine'[p] # <<>>
  <2>1. p \notin gone
    BY <1>1, <1>2, <1>10 DEF LedgerTells
  <2>. QED  BY <1>1, <1>7, <1>10, <2>1 DEF LedgerTells, MachineParts
<1>11. ASSUME NEW p \in Parts, before[p] = <<>>, machine'[p] # <<>>
       PROVE  \E i \in DOMAIN ledger : ledger[i].item = p /\ ledger[i].provenance = "unknown"
  <2>1. p \notin gone /\ machine[p] # <<>>
    BY <1>7, <1>11 DEF MachineParts
  <2>2. PICK i \in DOMAIN ledger : /\ ledger[i].item = p
                                   /\ ledger[i].provenance \in {"created", "unknown"}
    BY <1>1, <1>11, <2>1 DEF LedgerTells, Noted
  <2>3. ledger[i].provenance # "created"
    BY <1>2, <2>1, <2>2
  <2>. QED  BY <2>2, <2>3
<1>12. LedgerTells'
  <2>1. \A i \in DOMAIN ledger : ledger[i].provenance = "created" => before[ledger[i].item] = <<>>
    BY <1>1 DEF LedgerTells
  <2>2. ASSUME NEW p \in Parts, before[p] = <<>>, machine'[p] # <<>>
        PROVE  Noted(p, {"created", "unknown"})
    BY <1>11, <2>2 DEF Noted
  <2>. QED  BY <1>4, <1>10, <2>1, <2>2 DEF LedgerTells, Noted
<1>13. UndoneIsHonest'
  <2>1. ASSUME NEW p \in Parts, before[p] = <<>>, machine'[p] # <<>>
        PROVE  \E i \in DOMAIN ledger : ledger[i] = Entry(p, "unknown")
    <3>1. PICK i \in DOMAIN ledger : ledger[i].item = p /\ ledger[i].provenance = "unknown"
      BY <1>11, <2>1
    <3>2. ledger[i] \in LedgerEntry
      BY <1>1 DEF EnrolmentTyped
    <3>. QED  BY <3>1, <3>2 DEF LedgerEntry, Entry
  <2>. QED  BY <1>4, <1>10, <2>1 DEF UndoneIsHonest
<1>14. Judgements' /\ NothingEarly'
  BY <1>5 DEF Judgements, NothingEarly, Going
<1>. QED  BY <1>9, <1>12, <1>13, <1>14 DEF EnrolmentInv

LEMMA EnrolmentInvStep == EnrolmentInv /\ [Next]_vars => EnrolmentInv'
<1>. SUFFICES ASSUME EnrolmentInv, [Next]_vars PROVE EnrolmentInv'
  OBVIOUS
<1>1. ASSUME NEW p \in Perimeters, Enrol(p) PROVE EnrolmentInv'
  BY <1>1, EnrolKeeps
<1>2. CASE TakeStep
  BY <1>2, TakeStepKeeps
<1>3. CASE Cut
  BY <1>3, CutKeeps
<1>4. ASSUME NEW r \in Reports, VerifyNewPath(r) PROVE EnrolmentInv'
  BY <1>4, VerifyKeeps
<1>5. ASSUME NEW role \in Role, ActivateRole(role) \/ CutActivation(role) PROVE EnrolmentInv'
  BY <1>5, RoleKeeps
<1>6. CASE RolesActivated \/ DestroyTemporaryState \/ Leave
  BY <1>6, EndKeeps
<1>7. CASE Undo
  BY <1>7, UndoKeeps
<1>8. CASE UNCHANGED vars
  BY <1>8 DEF vars, EnrolmentInv, EnrolmentTyped, WholeMachine, Judgements, NothingEarly,
              LedgerTells, Noted, Going, UndoneIsHonest
<1>. QED  BY <1>1, <1>2, <1>3, <1>4, <1>5, <1>6, <1>7, <1>8 DEF Next

LEMMA EnrolmentInvHolds == Spec => []EnrolmentInv
<1>. QED  BY EnrolmentInvInit, EnrolmentInvStep, PTL DEF Spec

(* A role that a run started runs on a machine the run bounded: the new    *)
(* path was verified for this machine, the technical account can write     *)
(* nothing on the way to its own key file, holds no password and no group, *)
(* reaches root through the approved command only, in an environment that  *)
(* no one-word setting opens, and every key that opens it is forced into   *)
(* that command, whatever the run found there and whatever each step left  *)
(* (plan.rs STEPS, verify and activate, custody.rs, entry.rs,              *)
(* elevation_rule.rs, account.rs).                                         *)
THEOREM StartedIsAlwaysBounded == Spec => []StartedIsBounded
<1>1. EnrolmentInv => StartedIsBounded
  <2>. SUFFICES ASSUME EnrolmentInv, Going,
                       NEW role \in {"agent", "relay"}, machine[role] # <<>>, before[role] = <<>>
                PROVE  /\ run.verified = Subject
                       /\ \A i \in DOMAIN machine.chain : ~MayWrite(machine.account[1], machine.chain[i])
                       /\ machine.account[1].password = "locked" /\ machine.account[1].groups = {}
                       /\ ElevatesOnlyApprove(machine)
                       /\ ForcedIntoApprove(machine)
                       /\ machine.sheets[1].key = PinnedKey
    BY DEF StartedIsBounded, Started, Going
  <2>1. EnrolmentTyped /\ Judgements /\ NothingEarly
    BY DEF EnrolmentInv
  <2>2. run.at > 8 /\ run.at \in 0..10
    BY <2>1 DEF NothingEarly, EnrolmentTyped
  <2>3. /\ JudgeAccount(machine.account[1]) = "ok"
        /\ IsList(machine.rule[1].specifications) /\ JudgeRule(machine.rule[1]) = "ok"
        /\ JudgeEntry(machine.lines) = "ok"
        /\ JudgeCustody(machine.chain, machine.account[1]) = "ok"
        /\ JudgeEndpoint(Subject, machine.sheets, PinnedKey) = "ok"
        /\ run.verified = Subject
    BY <2>1, <2>2 DEF Judgements
  <2>4. IsList(machine.chain) /\ IsList(machine.lines)
    BY <2>1 DEF EnrolmentTyped, WholeMachine
  <2>5. /\ machine.account[1].uid # 0
        /\ machine.account[1].password = "locked" /\ machine.account[1].groups = {}
    BY <2>3, AccountOk
  <2>6. \A i \in DOMAIN machine.chain : ~MayWrite(machine.account[1], machine.chain[i])
    BY <2>3, <2>4, <2>5, CustodyOk
  <2>7. ElevatesOnlyApprove(machine)
    BY <2>3, RuleOk
  <2>8. ForcedIntoApprove(machine)
    BY <2>3, <2>4, EntryOk
  <2>9. machine.sheets[1].key = PinnedKey
    BY <2>3, EndpointOk
  <2>. QED  BY <2>3, <2>5, <2>6, <2>7, <2>8, <2>9
<1>. QED  BY <1>1, EnrolmentInvHolds, PTL

(* An undone run removed nothing that it found, and what it leaves behind  *)
(* is named in its ledger: with nothing named, the machine holds the parts *)
(* it held (rollback.rs unwind, plan.rs STEPS).                            *)
THEOREM UndoneIsAlwaysHonest == Spec => []UndoneIsHonest
<1>1. EnrolmentInv => UndoneIsHonest
  BY DEF EnrolmentInv
<1>. QED  BY <1>1, EnrolmentInvHolds, PTL
=============================================================================
