--------------------------- MODULE InstallProofs ---------------------------
(***************************************************************************)
(* Proofs about the session of the assistant and the installation in it,   *)
(* for every set of addresses, resolutions and states the target may have  *)
(* been found in.                                                          *)
(*                                                                         *)
(* AccessInv is the session's invariant: what may be dialled, what was     *)
(* proved, where the sequence is and what it has spent. SequenceInv is the *)
(* sequence's: the operations of the plan are numbered 0..17, and before   *)
(* number n the items written, recorded or waiting, and read to be right   *)
(* are those the three tables WrittenAt, NotedAt and EstablishedAt give.   *)
(* The tables are derived below from the plan's own definitions.           *)
(***************************************************************************)
EXTENDS InstallSequence, TLAPS, NaturalsInduction, WellFoundedInduction

(* The least element of a set of numbers. *)
LEMMA LeastExists ==
    ASSUME NEW S, S \subseteq Nat, S # {}
    PROVE  \E i \in S : \A j \in S : i <= j
<1>1. PICK i \in S : \A j \in S : ~(<<j, i>> \in OpToRel(<, Nat))
  BY NatLessThanWellFounded, WFMin, Zenon
<1>2. \A j \in S : ~(j < i)
  BY <1>1 DEF OpToRel
<1>. QED  BY <1>2

(* Induction, on the set of the numbers a statement holds of. *)
LEMMA SetInduction ==
    ASSUME NEW S, 0 \in S, \A n \in Nat : n \in S => n + 1 \in S
    PROVE  \A n \in Nat : n \in S
<1>. DEFINE out == {n \in Nat : n \notin S}
<1>. SUFFICES ASSUME out # {} PROVE FALSE
  OBVIOUS
<1>1. PICK m \in out : \A j \in out : m <= j
  BY LeastExists, out \subseteq Nat
<1>2. m # 0 /\ m \in Nat
  OBVIOUS
<1>3. m - 1 \in Nat /\ m - 1 \notin out
  BY <1>1, <1>2
<1>. QED  BY <1>2, <1>3, (m - 1) + 1 = m

(* A judgement is "ok" only when none of its checks failed. *)
LEMMA OkRefusesNothing ==
    ASSUME NEW checks, DOMAIN checks \subseteq Nat,
           \A i \in DOMAIN checks : checks[i][1] => checks[i][2] # "ok",
           FirstRefusal(checks) = "ok"
    PROVE  \A i \in DOMAIN checks : ~checks[i][1]
<1>. DEFINE failing == {i \in DOMAIN checks : checks[i][1]}
            first == CHOOSE i \in failing : \A j \in failing : i <= j
<1>. SUFFICES ASSUME failing # {} PROVE FALSE
  BY Zenon
<1>1. failing \subseteq Nat
  OBVIOUS
<1>2. first \in failing
  BY <1>1, LeastExists, Zenon
<1>3. checks[first][2] = "ok"
  BY Zenon DEF FirstRefusal
<1>. QED  BY <1>2, <1>3, Zenon

(* A list that holds the one and then the other is their concatenation. *)
LEMMA ConcatIs ==
    ASSUME NEW T, NEW s \in Seq(T), NEW t \in Seq(T), NEW r \in Seq(T),
           Len(r) = Len(s) + Len(t),
           \A i \in 1..Len(r) : r[i] = IF i <= Len(s) THEN s[i] ELSE t[i - Len(s)]
    PROVE  s \o t = r
OBVIOUS

(* Concatenations of short lists, written out. *)
LEMMA Joined ==
    /\ \A a, b, c : <<>> \o <<a, b>> \o <<c>> = <<a, b, c>>
    /\ \A a, b, c, d : <<a, b, c>> \o <<d>> \o <<>> = <<a, b, c, d>>
    /\ \A a, b, c, d : <<a, b, c, d>> \o <<>> \o <<>> = <<a, b, c, d>>
    /\ \A a : <<>> \o <<a>> \o <<>> = <<a>>
    /\ \A a, b : <<>> \o <<a>> \o <<b>> = <<a, b>>
    /\ <<>> \o <<>> \o <<>> = <<>>
<1>1. \A T : \A s \in Seq(T) : s \o <<>> = s /\ <<>> \o s = s
  OBVIOUS
<1>2. ASSUME NEW a, NEW b, NEW c PROVE <<>> \o <<a, b>> \o <<c>> = <<a, b, c>>
  <2>. DEFINE T == {a, b, c}
  <2>1. <<a, b>> \in Seq(T) /\ <<c>> \in Seq(T) /\ <<a, b, c>> \in Seq(T)
    OBVIOUS
  <2>2. <<a, b>> \o <<c>> = <<a, b, c>>
    <3>1. PICK s : s = <<a, b>>
      OBVIOUS
    <3>2. PICK t : t = <<c>>
      OBVIOUS
    <3>3. PICK r : r = <<a, b, c>>
      OBVIOUS
    <3>4. Len(s) = 2 /\ Len(t) = 1 /\ Len(r) = 3
      BY <3>1, <3>2, <3>3
    <3>5. \A i \in 1..3 : r[i] = IF i <= 2 THEN s[i] ELSE t[i - 2]
      BY <3>1, <3>2, <3>3
    <3>6. s \in Seq(T) /\ t \in Seq(T) /\ r \in Seq(T)
      BY <2>1, <3>1, <3>2, <3>3
    <3>7. \A i \in 1..Len(r) : r[i] = IF i <= Len(s) THEN s[i] ELSE t[i - Len(s)]
      BY <3>4, <3>5
    <3>8. Len(r) = Len(s) + Len(t)
      BY <3>4
    <3>9. s \o t = r
      BY <3>6, <3>7, <3>8, ConcatIs, Zenon
    <3>. QED  BY <3>1, <3>2, <3>3, <3>9
  <2>. QED  BY <1>1, <2>1, <2>2
<1>3. ASSUME NEW a, NEW b, NEW c, NEW d PROVE <<a, b, c>> \o <<d>> \o <<>> = <<a, b, c, d>>
  <2>. DEFINE T == {a, b, c, d}
  <2>1. <<a, b, c>> \in Seq(T) /\ <<d>> \in Seq(T) /\ <<a, b, c, d>> \in Seq(T)
    OBVIOUS
  <2>2. <<a, b, c>> \o <<d>> = <<a, b, c, d>>
    <3>1. PICK s : s = <<a, b, c>>
      OBVIOUS
    <3>2. PICK t : t = <<d>>
      OBVIOUS
    <3>3. PICK r : r = <<a, b, c, d>>
      OBVIOUS
    <3>4. Len(s) = 3 /\ Len(t) = 1 /\ Len(r) = 4
      BY <3>1, <3>2, <3>3
    <3>5. \A i \in 1..4 : r[i] = IF i <= 3 THEN s[i] ELSE t[i - 3]
      BY <3>1, <3>2, <3>3
    <3>6. s \in Seq(T) /\ t \in Seq(T) /\ r \in Seq(T)
      BY <2>1, <3>1, <3>2, <3>3
    <3>7. \A i \in 1..Len(r) : r[i] = IF i <= Len(s) THEN s[i] ELSE t[i - Len(s)]
      BY <3>4, <3>5
    <3>8. Len(r) = Len(s) + Len(t)
      BY <3>4
    <3>9. s \o t = r
      BY <3>6, <3>7, <3>8, ConcatIs, Zenon
    <3>. QED  BY <3>1, <3>2, <3>3, <3>9
  <2>. QED  BY <1>1, <2>1, <2>2
<1>4. ASSUME NEW a, NEW b, NEW c, NEW d PROVE <<a, b, c, d>> \o <<>> \o <<>> = <<a, b, c, d>>
  <2>1. <<a, b, c, d>> \in Seq({a, b, c, d})
    OBVIOUS
  <2>. QED  BY <1>1, <2>1
<1>5. ASSUME NEW a PROVE <<>> \o <<a>> \o <<>> = <<a>>
  <2>1. <<a>> \in Seq({a})
    OBVIOUS
  <2>. QED  BY <1>1, <2>1
<1>6. ASSUME NEW a, NEW b PROVE <<>> \o <<a>> \o <<b>> = <<a, b>>
  <2>. DEFINE T == {a, b}
  <2>1. <<a>> \in Seq(T) /\ <<b>> \in Seq(T) /\ <<a, b>> \in Seq(T)
    OBVIOUS
  <2>2. <<a>> \o <<b>> = <<a, b>>
    <3>1. PICK s : s = <<a>>
      OBVIOUS
    <3>2. PICK t : t = <<b>>
      OBVIOUS
    <3>3. PICK r : r = <<a, b>>
      OBVIOUS
    <3>4. Len(s) = 1 /\ Len(t) = 1 /\ Len(r) = 2
      BY <3>1, <3>2, <3>3
    <3>5. \A i \in 1..2 : r[i] = IF i <= 1 THEN s[i] ELSE t[i - 1]
      BY <3>1, <3>2, <3>3
    <3>6. s \in Seq(T) /\ t \in Seq(T) /\ r \in Seq(T)
      BY <2>1, <3>1, <3>2, <3>3
    <3>7. \A i \in 1..Len(r) : r[i] = IF i <= Len(s) THEN s[i] ELSE t[i - Len(s)]
      BY <3>4, <3>5
    <3>8. Len(r) = Len(s) + Len(t)
      BY <3>4
    <3>9. s \o t = r
      BY <3>6, <3>7, <3>8, ConcatIs, Zenon
    <3>. QED  BY <3>1, <3>2, <3>3, <3>9
  <2>. QED  BY <1>1, <2>1, <2>2
<1>7. <<>> \o <<>> \o <<>> = <<>>
  BY <1>1, <<>> \in Seq({})
<1>. QED  BY <1>2, <1>3, <1>4, <1>5, <1>6, <1>7

(* The channels of each step, in order. *)
LEMMA Programs ==
    /\ Program("TransferBundle") = <<"mkdir", "put-bundle", "size", "digest">>
    /\ Program("InstallPackage") = <<"dpkg", "reload", "package">>
    /\ Program("WriteMachineConfiguration") =
          <<"put-configuration", "size", "digest", "place-configuration">>
    /\ Program("CreateState") = <<"create-state">>
    /\ Program("InstallCredentialSources") = <<"create-sources">>
    /\ Program("InitialiseController") = <<"controller-init">>
    /\ Program("MintReaderIdentity") = <<"mint-reader", "nodes">>
    /\ Program("ActivateController") = <<"enable-unit", "unit">>
    /\ Program("AssociateApp") = <<>>
    /\ Program("Preflight") = <<>>
<1>1. Program("TransferBundle") = <<"mkdir", "put-bundle", "size", "digest">>
  <2>1. /\ Deposits("TransferBundle") = <<"mkdir", "put-bundle", "size", "digest">>
        /\ Acts("TransferBundle") = <<>> /\ ConstatFor("TransferBundle") = <<>>
    BY DEF Deposits, Acts, ConstatFor
  <2>2. <<"mkdir", "put-bundle", "size", "digest">> \o <<>> \o <<>> = <<"mkdir", "put-bundle", "size", "digest">>
    BY Joined
  <2>. QED  BY <2>1, <2>2, Zenon DEF Program
<1>2. Program("InstallPackage") = <<"dpkg", "reload", "package">>
  <2>1. /\ Deposits("InstallPackage") = <<>> /\ Acts("InstallPackage") = <<"dpkg", "reload">>
        /\ ConstatFor("InstallPackage") = <<"package">>
    BY DEF Deposits, Acts, ConstatFor
  <2>. QED  BY ZenonT(60), <2>1, Joined DEF Program
<1>3. Program("WriteMachineConfiguration") = <<"put-configuration", "size", "digest", "place-configuration">>
  <2>1. /\ Deposits("WriteMachineConfiguration") = <<"put-configuration", "size", "digest">>
        /\ Acts("WriteMachineConfiguration") = <<"place-configuration">>
        /\ ConstatFor("WriteMachineConfiguration") = <<>>
    BY DEF Deposits, Acts, ConstatFor
  <2>2. \A a, b, c, d : <<a, b, c>> \o <<d>> \o <<>> = <<a, b, c, d>>
    BY Joined
  <2>3. <<"put-configuration", "size", "digest">> \o <<"place-configuration">> \o <<>>
          = <<"put-configuration", "size", "digest", "place-configuration">>
    BY ONLY <2>2
  <2>. QED  BY <2>1, <2>3, Zenon DEF Program
<1>4. Program("CreateState") = <<"create-state">>
  <2>1. /\ Deposits("CreateState") = <<>> /\ Acts("CreateState") = <<"create-state">>
        /\ ConstatFor("CreateState") = <<>>
    BY DEF Deposits, Acts, ConstatFor
  <2>. QED  BY <2>1, Joined DEF Program
<1>5. Program("InstallCredentialSources") = <<"create-sources">>
  <2>1. /\ Deposits("InstallCredentialSources") = <<>>
        /\ Acts("InstallCredentialSources") = <<"create-sources">>
        /\ ConstatFor("InstallCredentialSources") = <<>>
    BY DEF Deposits, Acts, ConstatFor
  <2>. QED  BY <2>1, Joined DEF Program
<1>6. Program("InitialiseController") = <<"controller-init">>
  <2>1. /\ Deposits("InitialiseController") = <<>>
        /\ Acts("InitialiseController") = <<"controller-init">>
        /\ ConstatFor("InitialiseController") = <<>>
    BY DEF Deposits, Acts, ConstatFor
  <2>. QED  BY <2>1, Joined DEF Program
<1>7. Program("MintReaderIdentity") = <<"mint-reader", "nodes">>
  <2>1. /\ Deposits("MintReaderIdentity") = <<>>
        /\ Acts("MintReaderIdentity") = <<"mint-reader">>
        /\ ConstatFor("MintReaderIdentity") = <<"nodes">>
    BY DEF Deposits, Acts, ConstatFor
  <2>. QED  BY <2>1, Joined DEF Program
<1>8. Program("ActivateController") = <<"enable-unit", "unit">>
  <2>1. /\ Deposits("ActivateController") = <<>>
        /\ Acts("ActivateController") = <<"enable-unit">>
        /\ ConstatFor("ActivateController") = <<"unit">>
    BY DEF Deposits, Acts, ConstatFor
  <2>. QED  BY <2>1, Joined DEF Program
<1>9. Program("AssociateApp") = <<>>
  <2>1. /\ Deposits("AssociateApp") = <<>> /\ Acts("AssociateApp") = <<>>
        /\ ConstatFor("AssociateApp") = <<>>
    BY DEF Deposits, Acts, ConstatFor
  <2>. QED  BY <2>1, Joined DEF Program
<1>10. Program("Preflight") = <<>>
  <2>1. Deposits("Preflight") = <<>> /\ Acts("Preflight") = <<>> /\ ConstatFor("Preflight") = <<>>
    BY DEF Deposits, Acts, ConstatFor
  <2>. QED  BY <2>1, Joined DEF Program
<1>. QED  BY <1>1, <1>2, <1>3, <1>4, <1>5, <1>6, <1>7, <1>8, <1>9, <1>10

(* A running sum is there, and SumOver is its last value. *)
LEMMA SumOverIs ==
    ASSUME NEW f, NEW n \in Nat
    PROVE  \E g : /\ g[0] = 0
                  /\ \A i \in 1..n : g[i] = g[i - 1] + f[i]
                  /\ SumOver(f, n) = g[n]
<1>. DEFINE IsTotal(g, m) == g = [i \in 0..m |-> IF i = 0 THEN 0 ELSE g[i - 1] + f[i]]
            S == {m \in Nat : \E g : IsTotal(g, m)}
<1>1. 0 \in S
  <2>1. IsTotal([i \in 0..0 |-> 0], 0)
    OBVIOUS
  <2>. QED  BY <2>1
<1>2. ASSUME NEW m \in Nat, m \in S PROVE m + 1 \in S
  <2>1. PICK g : IsTotal(g, m)
    BY <1>2
  <2>2. PICK h : h = [i \in 0..(m + 1) |-> IF i <= m THEN g[i] ELSE g[m] + f[m + 1]]
    OBVIOUS
  <2>3. ASSUME NEW i \in 0..(m + 1)
        PROVE  h[i] = IF i = 0 THEN 0 ELSE h[i - 1] + f[i]
    <3>1. CASE i = 0
      BY <2>1, <2>2, <3>1
    <3>2. CASE i # 0 /\ i <= m
      <4>1. i - 1 \in 0..m /\ i \in 0..m
        BY <3>2
      <4>2. g[i] = g[i - 1] + f[i]
        BY <2>1, <3>2, <4>1
      <4>3. h[i] = g[i] /\ h[i - 1] = g[i - 1]
        BY <2>2, <3>2, <4>1
      <4>. QED  BY <4>2, <4>3, <3>2
    <3>3. CASE i = m + 1
      BY <2>2, <3>3
    <3>. QED  BY <3>1, <3>2, <3>3
  <2>4. IsTotal(h, m + 1)
    BY <2>2, <2>3
  <2>. QED  BY <2>4
<1>3. n \in S
  <2>. HIDE DEF S
  <2>. QED  BY <1>1, <1>2, SetInduction
<1>4. PICK g : g = CHOOSE h : IsTotal(h, n)
  OBVIOUS
<1>5. IsTotal(g, n)
  BY <1>3, <1>4
<1>6. SumOver(f, n) = g[n]
  BY <1>4 DEF SumOver
<1>7. g[0] = 0 /\ \A i \in 1..n : g[i] = g[i - 1] + f[i]
  BY <1>5
<1>. QED  BY <1>6, <1>7

(* What is planned for each of the two scopes. *)
LEMMA Plans ==
    /\ AuthorizedStepsFor(<<"install", "activate">>) = Steps
    /\ AuthorizedStepsFor(<<"audit">>) = <<>>
<1>1. AuthorizedStepsFor(<<"install", "activate">>) = Steps
  BY DEF AuthorizedStepsFor
<1>2. <<"audit">> # <<"install", "activate">>
  <2>1. Len(<<"audit">>) = 1 /\ Len(<<"install", "activate">>) = 2
    OBVIOUS
  <2>. QED  BY <2>1
<1>3. AuthorizedSteps("audit") = <<>>
  BY DEF AuthorizedSteps
<1>. QED  BY <1>1, <1>2, <1>3 DEF AuthorizedStepsFor

(* Eighteen channels for the steps, and the budget around them. *)
LEMMA Budgets ==
    /\ ChannelBudget(<<"install", "activate">>) = 26
    /\ ChannelBudget(<<"audit">>) = 0
<1>1. ChannelBudget(<<"audit">>) = 0
  <2>. DEFINE f == [i \in 1..0 |-> ChannelsFor((<<>>)[i])]
  <2>1. Len(<<>>) = 0
    OBVIOUS
  <2>2. SumOver(f, 0) = 0
    BY SumOverIs
  <2>3. SumOver([i \in 1..Len(<<>>) |-> ChannelsFor((<<>>)[i])], Len(<<>>)) = 0
    BY <2>1, <2>2
  <2>. QED  BY <2>3, Plans DEF ChannelBudget
<1>2. ChannelBudget(<<"install", "activate">>) = 26
  <2>1. PICK f : f = [i \in 1..10 |-> ChannelsFor(Steps[i])]
    OBVIOUS
  <2>2. Len(Steps) = 10
    BY DEF Steps
  <2>3. /\ f[1] = 4 /\ f[2] = 3 /\ f[3] = 4 /\ f[4] = 1 /\ f[5] = 1 /\ f[6] = 1
        /\ f[7] = 2 /\ f[8] = 2 /\ f[9] = 0 /\ f[10] = 0
    <3>1. /\ f[1] = ChannelsFor("TransferBundle") /\ f[2] = ChannelsFor("InstallPackage")
          /\ f[3] = ChannelsFor("WriteMachineConfiguration") /\ f[4] = ChannelsFor("CreateState")
          /\ f[5] = ChannelsFor("InstallCredentialSources")
          /\ f[6] = ChannelsFor("InitialiseController")
          /\ f[7] = ChannelsFor("MintReaderIdentity") /\ f[8] = ChannelsFor("ActivateController")
          /\ f[9] = ChannelsFor("AssociateApp") /\ f[10] = ChannelsFor("Preflight")
      BY <2>1 DEF Steps
    <3>. QED  BY <3>1 DEF ChannelsFor
  <2>4. PICK g : /\ g[0] = 0
                 /\ \A i \in 1..10 : g[i] = g[i - 1] + f[i]
                 /\ SumOver(f, 10) = g[10]
    BY SumOverIs
  <2>5. SumOver(f, 10) = 18
    <3>1. g[1] = 4 /\ g[2] = g[1] + f[2] /\ g[3] = g[2] + f[3] /\ g[4] = g[3] + f[4]
      BY <2>3, <2>4
    <3>2. g[5] = g[4] + f[5] /\ g[6] = g[5] + f[6] /\ g[7] = g[6] + f[7] /\ g[8] = g[7] + f[8]
      BY <2>4
    <3>3. g[9] = g[8] + f[9] /\ g[10] = g[9] + f[10]
      BY <2>4
    <3>. QED  BY <2>3, <2>4, <3>1, <3>2, <3>3
  <2>6. SumOver([i \in 1..Len(Steps) |-> ChannelsFor(Steps[i])], Len(Steps)) = 18
    BY <2>1, <2>2, <2>5
  <2>. QED  BY SMTT(30), <2>6, Plans DEF ChannelBudget, MaxExecChannels, ObservationChannels
<1>. QED  BY <1>1, <1>2

-----------------------------------------------------------------------------
(* The judgements the invariants rest on.                                  *)

(* The middle of three lists that follow each other. *)
LEMMA Middle ==
    ASSUME NEW T, NEW a \in Seq(T), NEW b \in Seq(T), NEW c \in Seq(T)
    PROVE  /\ \A i \in DOMAIN (a \o b \o c) : i \in Nat /\ (a \o b \o c)[i] \in T
           /\ \A i \in 1..Len(b) : /\ Len(a) + i \in DOMAIN (a \o b \o c)
                                   /\ (a \o b \o c)[Len(a) + i] = b[i]
<1>1. a \o b \in Seq(T) /\ Len(a \o b) = Len(a) + Len(b)
  OBVIOUS
<1>2. \A i \in 1..Len(b) : (a \o b)[Len(a) + i] = b[i]
  OBVIOUS
<1>3. PICK d : d = a \o b
  OBVIOUS
<1>4. d \o c \in Seq(T) /\ Len(d \o c) = Len(d) + Len(c)
  BY <1>1, <1>3
<1>5. \A i \in 1..Len(d) : (d \o c)[i] = d[i]
  BY <1>1, <1>3
<1>6. ASSUME NEW i \in 1..Len(b)
      PROVE  Len(a) + i \in DOMAIN (d \o c) /\ (d \o c)[Len(a) + i] = b[i]
  <2>1. Len(a) + i \in 1..Len(d)
    BY <1>1, <1>3
  <2>2. Len(a) + i \in DOMAIN (d \o c)
    BY <2>1, <1>4, <1>1, <1>3
  <2>3. (d \o c)[Len(a) + i] = d[Len(a) + i]
    BY <2>1, <1>5
  <2>. QED  BY <2>2, <2>3, <1>2, <1>3
<1>7. \A i \in DOMAIN (d \o c) : i \in Nat /\ (d \o c)[i] \in T
  BY <1>4
<1>. QED  BY <1>3, <1>6, <1>7

(* A target that freezes admitted each of its addresses. *)
LEMMA FreezeOk ==
    ASSUME NEW A, NEW r \in Seq(A), NEW name, NEW local, NEW max,
           Freeze(name, r, local, max) = "ok"
    PROVE  \A i \in DOMAIN r : Admitted(r[i], local) = "ok"
<1>. DEFINE a1 == name # "printable"
            a2 == r = <<>>
            a3 == Cardinality(Frozen(r)) > max
            adm(i) == Admitted(r[i], local)
            one == << <<a1, "Name">>, <<a2, "NoAddress">> >>
            mid == [i \in DOMAIN r |-> <<adm(i) # "ok", adm(i)>>]
            end == << <<a3, "TooManyAddresses">> >>
            T == {<<a1, "Name">>, <<a2, "NoAddress">>, <<a3, "TooManyAddresses">>}
                 \union {<<adm(i) # "ok", adm(i)>> : i \in DOMAIN r}
            checks == one \o mid \o end
<1>1. FirstRefusal(checks) = "ok"
  BY Zenon DEF Freeze
<1>. HIDE DEF a1, a2, a3, adm
<1>2. ASSUME NEW t \in T PROVE t[1] => t[2] # "ok"
  <2>1. CASE t \in {<<adm(i) # "ok", adm(i)>> : i \in DOMAIN r}
    <3>1. PICK i \in DOMAIN r : t = <<adm(i) # "ok", adm(i)>>
      BY <2>1
    <3>2. t[1] = (adm(i) # "ok") /\ t[2] = adm(i)
      BY <3>1
    <3>. QED  BY <3>2
  <2>2. CASE t \in {<<a1, "Name">>, <<a2, "NoAddress">>, <<a3, "TooManyAddresses">>}
    BY <2>2
  <2>. QED  BY <2>1, <2>2
<1>3. one \in Seq(T) /\ end \in Seq(T) /\ Len(one) = 2
  OBVIOUS
<1>4. mid \in Seq(T) /\ Len(mid) = Len(r)
  <2>1. DOMAIN r = 1..Len(r) /\ Len(r) \in Nat
    OBVIOUS
  <2>2. mid \in [1..Len(r) -> T]
    BY <2>1
  <2>. QED  BY <2>1, <2>2
<1>. HIDE DEF T, one, mid, end
<1>5. /\ \A i \in DOMAIN checks : i \in Nat /\ checks[i] \in T
      /\ \A i \in 1..Len(mid) : Len(one) + i \in DOMAIN checks /\ checks[Len(one) + i] = mid[i]
  <2>1. one \in Seq(T) /\ mid \in Seq(T) /\ end \in Seq(T)
    BY <1>3, <1>4
  <2>. QED  BY ONLY <2>1, Middle DEF checks
<1>. HIDE DEF checks
<1>6. DOMAIN checks \subseteq Nat /\ \A i \in DOMAIN checks : checks[i][1] => checks[i][2] # "ok"
  BY <1>2, <1>5
<1>7. \A i \in DOMAIN checks : ~checks[i][1]
  BY <1>1, <1>6, OkRefusesNothing
<1>8. \A i \in DOMAIN r : ~mid[i][1]
  BY <1>4, <1>5, <1>7
<1>9. ASSUME NEW i \in DOMAIN r PROVE adm(i) = "ok"
  BY <1>8 DEF mid
<1>. QED  BY <1>9 DEF adm

(* An admitted address is a unicast one that this machine does not have. *)
LEMMA AdmittedOk ==
    ASSUME NEW a \in Addresses,
           a.class = "broadcast" => a.family # "v6",
           NEW local, \A l \in local : l.host = a.host => Normalise(l) = Normalise(a),
           Admitted(a, local) = "ok"
    PROVE  /\ Normalise(a).class = "unicast" /\ \A l \in local : l.host # Normalise(a).host
<1>1. PICK n : n = Normalise(a)
  OBVIOUS
<1>2. n.class = a.class /\ n.host = a.host /\ n.family = IF a.family = "mapped" THEN "v4" ELSE a.family
  BY <1>1 DEF Normalise, Addresses
<1>. DEFINE a1 == n.class = "unspecified"
            a2 == n.class = "loopback"
            a3 == n.class = "linklocal"
            a4 == n.class = "multicast"
            a5 == n.family = "v4" /\ n.class = "broadcast"
            checks == << <<a1, "Unspecified">>, <<a2, "Loopback">>, <<a3, "LinkLocal">>,
                         <<a4, "Multicast">>, <<a5, "Broadcast">> >>
<1>3. FirstRefusal(checks) = "ok"
  BY <1>1, Zenon DEF Admitted, ReachabilityClass
<1>4. n \notin {Normalise(l) : l \in local}
  BY <1>1, Zenon DEF Admitted
<1>5. ~a1 /\ ~a2 /\ ~a3 /\ ~a4 /\ ~a5
  <2>. HIDE DEF a1, a2, a3, a4, a5
  <2>1. DOMAIN checks = 1..5
    OBVIOUS
  <2>2. \A i \in 1..5 : checks[i][2] # "ok"
    OBVIOUS
  <2>3. \A i \in 1..5 : ~checks[i][1]
    BY <1>3, <2>1, <2>2, OkRefusesNothing
  <2>. QED  BY <2>3
<1>6. n.class = "unicast"
  BY <1>2, <1>5 DEF Addresses
<1>7. \A l \in local : l.host # n.host
  BY <1>1, <1>2, <1>4
<1>. QED  BY <1>1, <1>6, <1>7

(* A policy attested for an installation is wide enough for every command. *)
LEMMA PolicyOk ==
    ASSUME NEW r, AttestPolicy(r, "every") = "ok"
    PROVE  Suffices(r)
<1>. DEFINE entry == r.entries[1]
            a1 == ~RunsAsRoot(entry)
            a2 == ~AuthorisesTheAction(entry)
            a3 == "every" = "every" /\ ~AuthorisesEveryCommand(entry)
            checks == << <<a1, "DivergentCommand">>, <<a2, "DivergentCommand">>, <<a3, "Narrower">> >>
<1>1. FirstRefusal(checks) = "ok"
  BY Zenon DEF AttestPolicy
<1>2. ~a3
  <2>. HIDE DEF a1, a2, a3
  <2>1. DOMAIN checks = 1..3
    OBVIOUS
  <2>2. \A i \in 1..3 : checks[i][2] # "ok"
    OBVIOUS
  <2>. QED  BY <1>1, <2>1, <2>2, OkRefusesNothing
<1>. QED  BY <1>2 DEF Suffices

-----------------------------------------------------------------------------
(* The inductive invariant of the session.                                 *)

EarlyPhases == {"open", "window", "key", "passphrase", "dial", "attest", "authenticate",
                "probe", "list", "ask", "list-again", "elevate", "observe", "judge"}
UnseenPhases == EarlyPhases \ {"observe", "judge"}
ProvenPhases == {"observe", "judge", "drive", "drop"}
ChannelPhases == {"probe", "list", "ask", "list-again", "elevate"} \union ProvenPhases

Installing(s) == s.actions = <<"install", "activate">>
Attestations == [host : BOOLEAN, identity : BOOLEAN, elevated : BOOLEAN]
First == [step |-> 1, op |-> 1]

\* The channels of the eight steps that have some, and those opened before each.
Costs == <<4, 3, 4, 1, 1, 1, 2, 2>>
Before == <<0, 4, 7, 11, 12, 13, 14, 16>>
Positions == {p \in [step : 1..8, op : 1..4] : p.op <= Costs[p.step]}
DoneAt(p) == Before[p.step] + p.op - 1
After(p) == IF p.op < Costs[p.step] THEN [p EXCEPT !.op = @ + 1]
            ELSE [step |-> p.step + 1, op |-> 1]

SessionTyped ==
    /\ pc \in EarlyPhases \union {"drive", "drop", "resolve", "done"}
    /\ scope \in [actions : ApprovedScopes, route : Routes, mode : Modes]
    /\ live \in [open : BOOLEAN, spent : Nat, budget : Nat]
    /\ seen \in [run : 0..3, answered : Nat]
    /\ proved \in Attestations

Dialable(s) == \A a \in s : a.class = "unicast" /\ \A l \in Local : l.host # a.host

\* Nothing is touched before the sequence.
Untouched ==
    /\ pc \in EarlyPhases => /\ target = found /\ at = First /\ readings = <<>>
                             /\ pending = <<>> /\ ledger = <<>> /\ ended = "no"
    /\ pc \in UnseenPhases => seen.run = 0

\* What was proved, and for which scope.
Authorised ==
    /\ pc \in {"list", "ask", "list-again", "elevate"} => scope.route = "administrator"
    /\ pc = "elevate" => (Installing(scope) => policy.suffices)
    /\ pc \in ProvenPhases =>
          proved.elevated /\ policy.suffices /\ Installing(scope) /\ scope.route = "administrator"
    /\ target # found => proved.elevated /\ policy.suffices

\* Where the sequence is, while it runs.
InSequence == pc = "drive" => at \in Positions

\* The channels spent, phase by phase.
InBudget ==
    /\ pc \in ChannelPhases =>
          live.budget = IF Installing(scope) /\ scope.route = "administrator" THEN 26 ELSE 4
    /\ pc = "probe" => live.spent = 0
    /\ pc = "list" => live.spent = 1
    /\ pc \in {"ask", "list-again"} => live.spent = 2
    /\ pc = "elevate" => live.spent <= 3
    /\ pc = "observe" => seen.run < 3 /\ live.spent <= 4 + seen.run
    /\ pc = "judge" => live.spent <= 7
    /\ pc = "drive" => live.spent <= 7 + DoneAt(at)
    /\ pc = "drop" => live.spent <= 25

AccessInv == SessionTyped /\ Dialable(dialled) /\ Untouched /\ Authorised /\ InSequence /\ InBudget

(* The two scopes, apart. *)
LEMMA ScopeInstalls ==
    ASSUME SessionTyped
    PROVE  /\ Installs <=> Installing(scope)
           /\ Installing(scope) => ChannelBudget(scope.actions) = 26 /\ Planned = Steps
           /\ ~Installing(scope) => ChannelBudget(scope.actions) = 0
<1>1. scope.actions = <<"audit">> \/ scope.actions = <<"install", "activate">>
  BY DEF SessionTyped, ApprovedScopes
<1>2. <<"audit">> # <<"install", "activate">>
  <2>1. Len(<<"audit">>) = 1 /\ Len(<<"install", "activate">>) = 2
    OBVIOUS
  <2>. QED  BY <2>1
<1>3. CASE scope.actions = <<"audit">>
  <2>1. ~Installs
    BY <1>3 DEF Installs
  <2>. QED  BY <1>2, <1>3, <2>1, Budgets DEF Installing
<1>4. CASE scope.actions = <<"install", "activate">>
  <2>1. Installs
    BY <1>4 DEF Installs
  <2>. QED  BY <1>4, <2>1, Budgets, Plans DEF Installing, Planned
<1>. QED  BY <1>1, <1>3, <1>4

(* A session that ends before the sequence has touched nothing. *)
LEMMA EarlyEnd ==
    ASSUME AccessInv, pc \in EarlyPhases, NEW o, NEW told, EndWith(o, told),
           Dialable(dialled'), proved' \in Attestations, UNCHANGED <<scope, seen, target, found>>
    PROVE  AccessInv'
<1>1. pc' = "resolve" /\ live' = [live EXCEPT !.open = FALSE]
  BY DEF EndWith
<1>2. SessionTyped'
  BY <1>1 DEF AccessInv, SessionTyped
<1>3. pc' \notin EarlyPhases /\ pc' \notin ChannelPhases /\ pc' \notin UnseenPhases
  BY <1>1 DEF EarlyPhases, ChannelPhases, UnseenPhases, ProvenPhases
<1>4. Untouched'
  BY <1>3 DEF Untouched
<1>5. Authorised'
  BY <1>1, <1>3 DEF Authorised, AccessInv, Untouched, ProvenPhases
<1>6. InSequence' /\ InBudget'
  BY <1>1, <1>3 DEF InSequence, InBudget
<1>. QED  BY <1>2, <1>4, <1>5, <1>6 DEF AccessInv, Dialable

(* The first state. *)
LEMMA AccessInit == Init => AccessInv
<1>. SUFFICES ASSUME Init PROVE AccessInv
  OBVIOUS
<1>1. SessionTyped
  BY DEF Init, SessionTyped, EarlyPhases, Attestations
<1>2. Dialable(dialled)
  BY DEF Init, Dialable
<1>3. Untouched
  BY DEF Init, Untouched, First
<1>4. Authorised
  BY DEF Init, Authorised, ProvenPhases
<1>5. InSequence /\ InBudget
  BY DEF Init, InSequence, InBudget, ChannelPhases, ProvenPhases
<1>. QED  BY <1>1, <1>2, <1>3, <1>4, <1>5 DEF AccessInv

(* A step to a phase before the channels changes nothing the invariant reads. *)
LEMMA EarlyMove ==
    ASSUME AccessInv, pc \in UnseenPhases,
           pc' \in {"window", "key", "passphrase", "dial", "attest", "authenticate"},
           Dialable(dialled'), proved' \in Attestations,
           UNCHANGED <<scope, live, seen, installVars>>
    PROVE  AccessInv'
<1>1. SessionTyped'
  BY DEF AccessInv, SessionTyped, EarlyPhases
<1>2. Untouched'
  BY DEF AccessInv, Untouched, UnseenPhases, EarlyPhases, installVars
<1>3. Authorised'
  BY DEF AccessInv, Authorised, Untouched, UnseenPhases, EarlyPhases, installVars, ProvenPhases
<1>4. InSequence' /\ InBudget'
  BY DEF InSequence, InBudget, ChannelPhases, ProvenPhases
<1>. QED  BY <1>1, <1>2, <1>3, <1>4 DEF AccessInv, Dialable

(* What is frozen may be dialled. *)
LEMMA FrozenIsDialable ==
    ASSUME NEW answers \in Resolutions, NEW name,
           Freeze(name, Collected(answers, MaxAddresses), Local, MaxAddresses) = "ok"
    PROVE  Dialable(Frozen(Collected(answers, MaxAddresses)))
<1>1. answers \in Seq(Addresses)
  BY AddressAssumption
<1>2. ASSUME NEW i \in DOMAIN answers
      PROVE  /\ answers[i].class = "broadcast" => answers[i].family # "v6"
             /\ \A l \in Local : l.host = answers[i].host => Normalise(l) = Normalise(answers[i])
  <2>1. answers[i].class = "broadcast" => answers[i].family # "v6"
    BY AddressAssumption
  <2>2. ASSUME NEW l \in Local, l.host = answers[i].host PROVE Normalise(l) = Normalise(answers[i])
    <3>1. PICK a : a = answers[i]
      OBVIOUS
    <3>2. a \in Addresses /\ l \in Addresses
      BY <1>1, <3>1, AddressAssumption
    <3>3. l.host = a.host /\ l.class = a.class /\ (l.family = "v6" <=> a.family = "v6")
      BY <2>2, <3>1, AddressAssumption
    <3>4. Normalise(l) = Normalise(a)
      BY <3>2, <3>3 DEF Normalise, Addresses
    <3>. QED  BY <3>1, <3>4
  <2>. QED  BY <2>1, <2>2
<1>3. PICK r : r = Collected(answers, MaxAddresses)
  OBVIOUS
<1>4. r \in Seq(Addresses) /\ \A i \in DOMAIN r : i \in DOMAIN answers /\ r[i] = answers[i]
  <2>1. PICK k : k = IF Len(answers) > MaxAddresses THEN MaxAddresses + 1 ELSE Len(answers)
    OBVIOUS
  <2>2. k \in 0..Len(answers)
    BY <1>1, <2>1, SessionAssumption
  <2>3. r = SubSeq(answers, 1, k)
    BY <1>3, <2>1 DEF Collected
  <2>. QED  BY <1>1, <2>2, <2>3
<1>5. \A i \in DOMAIN r : Admitted(r[i], Local) = "ok"
  BY <1>3, <1>4, FreezeOk
<1>6. ASSUME NEW i \in DOMAIN r
      PROVE  Normalise(r[i]).class = "unicast" /\ \A l \in Local : l.host # Normalise(r[i]).host
  <2>1. r[i] \in Addresses
    BY <1>4
  <2>. QED  BY <2>1, <1>2, <1>4, <1>5, AdmittedOk
<1>. QED  BY <1>3, <1>6 DEF Dialable, Frozen

(* What is frozen before the window may be dialled. *)
LEMMA PrepareKeeps == AccessInv /\ PrepareAccess => AccessInv'
<1>. SUFFICES ASSUME AccessInv, PrepareAccess PROVE AccessInv'
  OBVIOUS
<1>0. pc = "open" /\ pc \in EarlyPhases /\ pc \in UnseenPhases
  BY DEF PrepareAccess, EarlyPhases, UnseenPhases
<1>1. /\ UNCHANGED <<scope, seen, installVars>> /\ UNCHANGED <<target, found>>
      /\ proved' \in Attestations
  BY DEF PrepareAccess, installVars, AccessInv, SessionTyped
<1>2. PICK name \in {"printable", "other"}, answers \in Resolutions, local \in {{}, Local} :
         LET resolved == Collected(answers, MaxAddresses)
             kept == LocalObserved(local, MaxLocal)
                     /\ Freeze(name, resolved, local, MaxAddresses) = "ok"
         IN \/ ~expired /\ kept
               /\ agent' \in AgentHolds[platform] /\ dialled' = Frozen(resolved)
               /\ IF platform = "windows" /\ scope.route = "administrator" /\ agent' = "none"
                  THEN EndWith("unavailable", NoExports)
                  ELSE pc' = "window" /\ UNCHANGED <<exports, terminal, live, secret>>
            \/ /\ expired \/ ~kept
               /\ EndWith("unavailable", NoExports) /\ UNCHANGED <<dialled, agent>>
  BY Zenon DEF PrepareAccess
<1>. DEFINE resolved == Collected(answers, MaxAddresses)
<1>3. CASE EndWith("unavailable", NoExports) /\ UNCHANGED dialled
  <2>1. Dialable(dialled')
    BY <1>3 DEF AccessInv
  <2>. QED  BY <1>0, <1>1, <1>3, <2>1, EarlyEnd
<1>4. CASE /\ LocalObserved(local, MaxLocal)
           /\ Freeze(name, resolved, local, MaxAddresses) = "ok"
           /\ dialled' = Frozen(resolved)
           /\ \/ EndWith("unavailable", NoExports)
              \/ pc' = "window" /\ UNCHANGED live
  <2>1. local = Local
    BY <1>4 DEF LocalObserved
  <2>2. Dialable(dialled')
    BY <1>4, <2>1, FrozenIsDialable
  <2>3. CASE EndWith("unavailable", NoExports)
    BY <1>0, <1>1, <2>2, <2>3, EarlyEnd
  <2>4. CASE pc' = "window" /\ UNCHANGED live
    BY <1>0, <1>1, <2>2, <2>4, EarlyMove
  <2>. QED  BY <1>4, <2>3, <2>4
<1>. QED  BY <1>2, <1>3, <1>4, Zenon

(* The steps before the session is open. *)
LEMMA OpeningKeeps ==
    AccessInv /\ (AnswerWindow \/ OpenKey \/ UnlockKey \/ Dial \/ AttestHost) => AccessInv'
<1>. SUFFICES ASSUME AccessInv, AnswerWindow \/ OpenKey \/ UnlockKey \/ Dial \/ AttestHost
              PROVE  AccessInv'
  OBVIOUS
<1>1. /\ pc \in {"window", "key", "passphrase", "dial", "attest"}
      /\ UNCHANGED <<scope, seen, dialled, installVars>> /\ proved' \in Attestations
      /\ \/ \E o, told : EndWith(o, told)
         \/ /\ pc' \in {"window", "key", "passphrase", "dial", "attest", "authenticate"}
            /\ UNCHANGED live
  <2>0. proved \in Attestations
    BY DEF AccessInv, SessionTyped
  <2>1. CASE AnswerWindow
    <3>1. pc = "window" /\ UNCHANGED <<scope, seen, dialled, proved, installVars>>
      BY <2>1 DEF AnswerWindow
    <3>2. \/ \E o, told : EndWith(o, told)
          \/ pc' \in {"dial", "key"} /\ UNCHANGED live
      BY <2>1, Zenon DEF AnswerWindow
    <3>. QED  BY <2>0, <3>1, <3>2
  <2>2. CASE OpenKey
    <3>1. pc = "key" /\ UNCHANGED <<scope, seen, dialled, proved, installVars>>
      BY <2>2 DEF OpenKey
    <3>2. \/ \E o, told : EndWith(o, told)
          \/ pc' = "passphrase" /\ UNCHANGED live
      BY <2>2, Zenon DEF OpenKey
    <3>. QED  BY <2>0, <3>1, <3>2
  <2>3. CASE UnlockKey
    <3>1. pc = "passphrase" /\ UNCHANGED <<scope, seen, dialled, proved, installVars>>
      BY <2>3 DEF UnlockKey
    <3>2. \/ \E o, told : EndWith(o, told)
          \/ pc' = "dial" /\ UNCHANGED live
      BY <2>3, Zenon DEF UnlockKey
    <3>. QED  BY <2>0, <3>1, <3>2
  <2>4. CASE Dial
    <3>1. pc = "dial" /\ UNCHANGED <<scope, seen, dialled, proved, installVars>>
      BY <2>4 DEF Dial
    <3>2. \/ \E o, told : EndWith(o, told)
          \/ pc' = "attest" /\ UNCHANGED live
      BY <2>4, Zenon DEF Dial
    <3>. QED  BY <2>0, <3>1, <3>2
  <2>5. CASE AttestHost
    <3>1. pc = "attest" /\ UNCHANGED <<scope, seen, dialled, installVars>>
      BY <2>5 DEF AttestHost
    <3>2. \/ \E o, told : EndWith(o, told)
          \/ pc' = "authenticate" /\ UNCHANGED live
      BY <2>5, Zenon DEF AttestHost
    <3>3. proved' \in Attestations
      <4>1. UNCHANGED proved \/ proved' = [proved EXCEPT !.host = TRUE]
        BY <2>5, Zenon DEF AttestHost
      <4>. QED  BY <2>0, <4>1 DEF Attestations
    <3>. QED  BY <3>1, <3>2, <3>3
  <2>. QED  BY <2>1, <2>2, <2>3, <2>4, <2>5
<1>2. pc \in EarlyPhases /\ pc \in UnseenPhases
  BY <1>1 DEF EarlyPhases, UnseenPhases
<1>3. Dialable(dialled') /\ UNCHANGED <<target, found>>
  BY <1>1 DEF AccessInv, installVars
<1>4. CASE \E o, told : EndWith(o, told)
  <2>1. PICK o, told : EndWith(o, told)
    BY <1>4
  <2>. QED  BY <1>1, <1>2, <1>3, <2>1, EarlyEnd
<1>. QED  BY <1>1, <1>2, <1>3, <1>4, EarlyMove

(* The budget is adopted when the session opens. *)
LEMMA AuthenticateKeeps == AccessInv /\ Authenticate => AccessInv'
<1>. SUFFICES ASSUME AccessInv, Authenticate PROVE AccessInv'
  OBVIOUS
<1>1. /\ pc = "authenticate" /\ pc \in EarlyPhases /\ pc \in UnseenPhases
      /\ UNCHANGED <<scope, seen, dialled, proved, policy, installVars>>
      /\ UNCHANGED <<target, found>> /\ Dialable(dialled') /\ proved \in Attestations
  BY DEF SessionTyped, Authenticate, EarlyPhases, UnseenPhases, installVars, AccessInv
<1>2. CASE EndWith("unavailable", NoExports)
  BY <1>1, <1>2, EarlyEnd
<1>3. CASE ~EndWith("unavailable", NoExports)
  <2>1. /\ pc' = "probe"
        /\ live' = [open |-> TRUE, spent |-> 0,
                    budget |-> IF (IF scope.route = "root" THEN 0
                                   ELSE ChannelBudget(scope.actions)) = 0
                               THEN MaxExecChannels
                               ELSE IF scope.route = "root" THEN 0
                                    ELSE ChannelBudget(scope.actions)]
    BY <1>3, Zenon DEF Authenticate
  <2>2. live'.budget = IF Installing(scope) /\ scope.route = "administrator" THEN 26 ELSE 4
    <3>1. scope.route \in {"administrator", "root"}
      BY SessionAssumption DEF AccessInv, SessionTyped
    <3>. QED  BY <2>1, <3>1, ScopeInstalls DEF AccessInv, MaxExecChannels
  <2>3. live' \in [open : BOOLEAN, spent : Nat, budget : Nat] /\ live'.spent = 0
    BY <2>1, <2>2
  <2>4. SessionTyped'
    BY <1>1, <2>1, <2>3 DEF AccessInv, SessionTyped, EarlyPhases
  <2>5. Untouched'
    BY <1>1, <2>1 DEF AccessInv, Untouched, UnseenPhases, EarlyPhases, installVars
  <2>6. Authorised'
    BY <1>1, <2>1 DEF AccessInv, Authorised, Untouched, installVars, ProvenPhases
  <2>7. InSequence' /\ InBudget'
    BY <1>1, <2>1, <2>2, <2>3 DEF InSequence, InBudget
  <2>. QED  BY <1>1, <2>4, <2>5, <2>6, <2>7 DEF AccessInv, Dialable
<1>. QED  BY <1>2, <1>3

(* A spent channel is one more, and nothing else of the session. *)
LEMMA SpendIs ==
    ASSUME SessionTyped, Spend
    PROVE  /\ live' \in [open : BOOLEAN, spent : Nat, budget : Nat]
           /\ live'.spent = live.spent + 1 /\ live'.budget = live.budget
BY DEF SessionTyped, Spend

(* A channel of the proof that is answered, and spent. *)
LEMMA ProofMove ==
    ASSUME AccessInv, pc \in {"probe", "list", "list-again", "ask"},
           pc' \in {"list", "ask", "list-again", "elevate"}, scope.route = "administrator",
           pc' = "elevate" => (Installing(scope) => policy'.suffices),
           live' \in [open : BOOLEAN, spent : Nat, budget : Nat],
           live'.budget = live.budget,
           pc' = "list" => live'.spent = 1,
           pc' \in {"ask", "list-again"} => live'.spent = 2,
           live'.spent <= 3,
           proved' \in Attestations,
           UNCHANGED <<scope, seen, dialled, installVars>>
    PROVE  AccessInv'
<1>0. pc \in EarlyPhases /\ pc \in UnseenPhases /\ pc' \in UnseenPhases /\ pc' \in EarlyPhases
  BY DEF EarlyPhases, UnseenPhases
<1>3. SessionTyped'
  BY <1>0 DEF AccessInv, SessionTyped
<1>4. Untouched'
  BY <1>0 DEF AccessInv, Untouched, installVars
<1>5. Authorised'
  BY <1>0 DEF AccessInv, Authorised, Untouched, installVars, ProvenPhases
<1>6. InSequence'
  BY DEF InSequence
<1>7. InBudget'
  <2>1. pc \in ChannelPhases
    BY DEF ChannelPhases
  <2>2. live'.budget = IF Installing(scope') /\ scope'.route = "administrator" THEN 26 ELSE 4
    BY <2>1 DEF AccessInv, InBudget
  <2>. QED  BY <2>2 DEF InBudget
<1>. QED  BY <1>3, <1>4, <1>5, <1>6, <1>7 DEF AccessInv, Dialable

(* The identity, and the end of the root route. *)
LEMMA ProbeKeeps == AccessInv /\ Probe => AccessInv'
<1>. SUFFICES ASSUME AccessInv, Probe PROVE AccessInv'
  OBVIOUS
<1>1. /\ pc = "probe" /\ pc \in EarlyPhases
      /\ UNCHANGED <<scope, seen, dialled, installVars>>
      /\ UNCHANGED <<target, found>> /\ Dialable(dialled') /\ proved \in Attestations
  BY DEF SessionTyped, Probe, EarlyPhases, installVars, AccessInv
<1>5. proved' \in Attestations
  <2>1. \/ UNCHANGED proved
        \/ proved' = [proved EXCEPT !.identity = TRUE, !.elevated = scope.route = "root"]
    BY Zenon DEF Probe, ProofFails
  <2>. QED  BY <1>1, <2>1 DEF Attestations
<1>2. \/ \E o, told : EndWith(o, told)
      \/ scope.route = "administrator" /\ Spend /\ pc' = "list"
  BY Zenon DEF Probe, ProofFails
<1>3. CASE \E o, told : EndWith(o, told)
  BY <1>1, <1>3, <1>5, EarlyEnd
<1>4. CASE scope.route = "administrator" /\ Spend /\ pc' = "list"
  <2>1. live.spent = 0
    BY <1>1 DEF AccessInv, InBudget
  <2>2. /\ live' \in [open : BOOLEAN, spent : Nat, budget : Nat]
        /\ live'.spent = 1 /\ live'.budget = live.budget
    BY <1>4, <2>1, SpendIs DEF AccessInv
  <2>. QED  BY <1>1, <1>4, <1>5, <2>2, ProofMove
<1>. QED  BY <1>2, <1>3, <1>4

(* A policy that is attested for an installation is wide enough for it. *)
LEMMA ListKeeps == AccessInv /\ (ListPolicy \/ ListPolicyWithSecret) => AccessInv'
<1>. SUFFICES ASSUME AccessInv, ListPolicy \/ ListPolicyWithSecret PROVE AccessInv'
  OBVIOUS
<1>1. /\ pc \in {"list", "list-again"} /\ pc \in EarlyPhases /\ scope.route = "administrator"
      /\ UNCHANGED <<scope, seen, dialled, installVars>>
      /\ UNCHANGED <<target, found>> /\ Dialable(dialled') /\ proved \in Attestations
  BY DEF SessionTyped, ListPolicy, ListPolicyWithSecret, EarlyPhases, installVars, AccessInv,
     Authorised
<1>8. proved' \in Attestations
  BY <1>1, Zenon DEF ListPolicy, ListPolicyWithSecret, ProofFails, Attests
<1>2. \/ \E o, told : EndWith(o, told)
      \/ \E r : AttestPolicy(r, RequiredScope) = "ok" /\ Attests(r) /\ Spend
      \/ pc = "list" /\ pc' = "ask" /\ Spend
  <2>1. CASE ListPolicy
    BY <2>1, Zenon DEF ListPolicy, ProofFails, Told, ReadPolicy
  <2>2. CASE ListPolicyWithSecret
    <3>1. \A r, err, s : AttestPolicyAfterSecret(r, err, s) = "ok" => AttestPolicy(r, s) = "ok"
      BY Zenon DEF AttestPolicyAfterSecret
    <3>. QED  BY <2>2, <3>1, Zenon DEF ListPolicyWithSecret, ProofFails, Told
  <2>. QED  BY <2>1, <2>2
<1>6. Spend => /\ live' \in [open : BOOLEAN, spent : Nat, budget : Nat]
               /\ live'.spent = live.spent + 1 /\ live'.budget = live.budget
  BY SpendIs DEF AccessInv
<1>7. live.spent = IF pc = "list" THEN 1 ELSE 2
  BY <1>1 DEF AccessInv, InBudget
<1>3. CASE \E o, told : EndWith(o, told)
  BY <1>1, <1>3, <1>8, EarlyEnd
<1>4. CASE \E r : AttestPolicy(r, RequiredScope) = "ok" /\ Attests(r) /\ Spend
  <2>1. PICK r : AttestPolicy(r, RequiredScope) = "ok" /\ Attests(r) /\ Spend
    BY <1>4
  <2>2. pc' = "elevate" /\ policy'.suffices = Suffices(r)
    BY <2>1 DEF Attests
  <2>3. Installing(scope) => Suffices(r)
    BY <2>1, ScopeInstalls, PolicyOk DEF AccessInv, RequiredScope
  <2>4. pc' \notin {"list", "ask", "list-again"}
    BY <2>2
  <2>5. live.spent \in {1, 2} /\ live'.spent = live.spent + 1
    BY <1>6, <1>7, <2>1
  <2>6. live'.spent <= 3
    BY <2>5
  <2>. QED  BY <1>1, <1>6, <1>8, <2>1, <2>2, <2>3, <2>4, <2>6, ProofMove
<1>5. CASE pc = "list" /\ pc' = "ask" /\ Spend
  BY <1>1, <1>5, <1>6, <1>7, <1>8, ProofMove
<1>. QED  BY <1>2, <1>3, <1>4, <1>5

(* The password is asked without a channel. *)
LEMMA AskKeeps == AccessInv /\ AskPassword => AccessInv'
<1>. SUFFICES ASSUME AccessInv, AskPassword PROVE AccessInv'
  OBVIOUS
<1>1. /\ pc = "ask" /\ pc \in EarlyPhases /\ scope.route = "administrator"
      /\ UNCHANGED <<scope, seen, dialled, installVars>>
      /\ UNCHANGED <<target, found>> /\ Dialable(dialled') /\ proved \in Attestations
  BY DEF SessionTyped, AskPassword, EarlyPhases, installVars, AccessInv, Authorised
<1>5. proved' \in Attestations
  BY <1>1 DEF AskPassword
<1>2. \/ \E o, told : EndWith(o, told)
      \/ pc' = "list-again" /\ UNCHANGED live
  BY Zenon DEF AskPassword
<1>3. CASE \E o, told : EndWith(o, told)
  BY <1>1, <1>3, <1>5, EarlyEnd
<1>4. CASE pc' = "list-again" /\ UNCHANGED live
  <2>1. live' \in [open : BOOLEAN, spent : Nat, budget : Nat] /\ live'.spent = 2
    BY <1>1, <1>4 DEF AccessInv, SessionTyped, InBudget
  <2>2. live'.budget = live.budget
    BY <1>4
  <2>3. live'.spent <= 3
    BY <2>1
  <2>. QED  BY <1>1, <1>4, <1>5, <2>1, <2>2, <2>3, ProofMove
<1>. QED  BY <1>2, <1>3, <1>4

(* The elevation is proved before the target is observed. *)
LEMMA ElevateKeeps == AccessInv /\ Elevate => AccessInv'
<1>. SUFFICES ASSUME AccessInv, Elevate PROVE AccessInv'
  OBVIOUS
<1>1. /\ pc = "elevate" /\ pc \in EarlyPhases /\ pc \in UnseenPhases
      /\ scope.route = "administrator" /\ seen.run = 0 /\ live.spent <= 3
      /\ UNCHANGED <<scope, seen, dialled, installVars>>
      /\ UNCHANGED <<target, found>> /\ Dialable(dialled') /\ proved \in Attestations
  BY DEF SessionTyped, Elevate, EarlyPhases, UnseenPhases, installVars, AccessInv, Authorised,
     Untouched, InBudget
<1>5. proved' \in Attestations
  <2>1. UNCHANGED proved \/ proved' = [proved EXCEPT !.elevated = TRUE]
    BY Zenon DEF Elevate, ProofFails
  <2>. QED  BY <1>1, <2>1 DEF Attestations
<1>2. \/ \E o, told : EndWith(o, told)
      \/ /\ Installs /\ Spend /\ pc' = "observe" /\ UNCHANGED policy
         /\ proved' = [proved EXCEPT !.elevated = TRUE]
  BY Zenon DEF Elevate, ProofFails
<1>3. CASE \E o, told : EndWith(o, told)
  BY <1>1, <1>3, <1>5, EarlyEnd
<1>4. CASE /\ Installs /\ Spend /\ pc' = "observe" /\ UNCHANGED policy
           /\ proved' = [proved EXCEPT !.elevated = TRUE]
  <2>1. /\ live' \in [open : BOOLEAN, spent : Nat, budget : Nat]
        /\ live'.spent = live.spent + 1 /\ live'.budget = live.budget
    BY <1>4, SpendIs DEF AccessInv
  <2>2. Installing(scope) /\ policy.suffices
    BY <1>1, <1>4, ScopeInstalls DEF AccessInv, Authorised
  <2>3. proved'.elevated
    BY <1>1, <1>4 DEF Attestations
  <2>4. live'.budget = 26
    BY <1>1, <2>1, <2>2 DEF AccessInv, InBudget, ChannelPhases
  <2>5. SessionTyped'
    BY <1>1, <1>4, <1>5, <2>1 DEF AccessInv, SessionTyped, EarlyPhases
  <2>6. Untouched'
    BY <1>1, <1>4 DEF AccessInv, Untouched, UnseenPhases, installVars
  <2>7. Authorised'
    BY <1>1, <1>4, <2>2, <2>3 DEF Authorised
  <2>8. InSequence' /\ InBudget'
    BY <1>1, <1>4, <2>1, <2>2, <2>4 DEF InSequence, InBudget, AccessInv, SessionTyped
  <2>. QED  BY <1>1, <2>5, <2>6, <2>7, <2>8 DEF AccessInv
<1>. QED  BY <1>2, <1>3, <1>4

(* Three channels at most are spent on the observation. *)
LEMMA ObserveKeeps == AccessInv /\ Observe => AccessInv'
<1>. SUFFICES ASSUME AccessInv, Observe PROVE AccessInv'
  OBVIOUS
<1>1. /\ pc = "observe" /\ seen.run < 3 /\ live.spent <= 4 + seen.run
      /\ pc' = IF seen.run + 1 = 3 THEN "judge" ELSE "observe"
      /\ UNCHANGED <<scope, dialled, proved, policy, installVars>>
      /\ UNCHANGED <<target, found, at, readings, pending, ledger, ended>>
  BY DEF Observe, ObservationChannels, AccessInv, InBudget, installVars
<1>2. /\ live \in [open : BOOLEAN, spent : Nat, budget : Nat]
      /\ seen \in [run : 0..3, answered : Nat]
  BY DEF AccessInv, SessionTyped
<1>3. /\ live' \in [open : BOOLEAN, spent : Nat, budget : Nat]
      /\ live'.spent <= live.spent + 1 /\ live'.budget = live.budget
  <2>1. PICK n : n = IF ChannelOpens THEN live.spent + 1 ELSE live.spent
    OBVIOUS
  <2>2. live' = [live EXCEPT !.spent = n]
    BY <2>1 DEF Observe
  <2>3. n \in Nat /\ n <= live.spent + 1
    BY <1>2, <2>1
  <2>. QED  BY <1>2, <2>2, <2>3
<1>4. seen'.run = seen.run + 1
  BY DEF Observe
<1>5. seen' \in [run : 0..3, answered : Nat]
  <2>1. PICK got \in {0, 1} : seen' = [run |-> seen.run + 1, answered |-> seen.answered + got]
    BY Zenon DEF Observe
  <2>. QED  BY <1>1, <1>2, <2>1
<1>6. pc \in EarlyPhases /\ pc \in ProvenPhases /\ pc \in ChannelPhases
  BY <1>1 DEF EarlyPhases, ProvenPhases, ChannelPhases
<1>7. pc' \in {"observe", "judge"} /\ pc' \notin UnseenPhases
  BY <1>1 DEF UnseenPhases
<1>8. SessionTyped'
  BY <1>1, <1>3, <1>5, <1>7 DEF AccessInv, SessionTyped, EarlyPhases
<1>9. Untouched'
  BY <1>1, <1>6, <1>7 DEF AccessInv, Untouched
<1>10. Authorised'
  BY <1>1, <1>6, <1>7 DEF AccessInv, Authorised
<1>11. InSequence' /\ InBudget'
  <2>1. live'.budget = IF Installing(scope') /\ scope'.route = "administrator" THEN 26 ELSE 4
    BY <1>1, <1>3, <1>6 DEF AccessInv, InBudget
  <2>2. live'.spent <= 4 + seen'.run
    BY <1>1, <1>2, <1>3, <1>4
  <2>3. pc' = "observe" => seen'.run < 3
    BY <1>1, <1>2, <1>4
  <2>4. pc' = "judge" => live'.spent <= 7
    BY <1>1, <1>2, <1>3, <1>4, <2>2
  <2>. QED  BY <1>7, <2>1, <2>2, <2>3, <2>4 DEF InSequence, InBudget
<1>. QED  BY <1>1, <1>8, <1>9, <1>10, <1>11 DEF AccessInv, Dialable

(* The sequence starts at its first operation. *)
LEMMA JudgeKeeps == AccessInv /\ Judge => AccessInv'
<1>. SUFFICES ASSUME AccessInv, Judge PROVE AccessInv'
  OBVIOUS
<1>1. /\ pc = "judge" /\ pc \in EarlyPhases /\ pc \in ProvenPhases /\ pc \in ChannelPhases
      /\ UNCHANGED <<scope, seen, dialled, proved, policy, installVars>>
      /\ UNCHANGED <<target, found, at>> /\ Dialable(dialled') /\ proved' \in Attestations
  BY DEF Judge, EarlyPhases, ProvenPhases, ChannelPhases, installVars, AccessInv, SessionTyped
<1>2. (\E o, told : EndWith(o, told)) \/ (pc' = "drive" /\ UNCHANGED live)
  BY Zenon DEF Judge
<1>3. CASE \E o, told : EndWith(o, told)
  BY <1>1, <1>3, EarlyEnd
<1>4. CASE pc' = "drive" /\ UNCHANGED live
  <2>1. at' = First /\ live.spent <= 7 /\ pc' \in ProvenPhases /\ pc' \notin EarlyPhases
    BY <1>1, <1>4 DEF AccessInv, Untouched, InBudget, ProvenPhases, EarlyPhases
  <2>2. First \in Positions /\ DoneAt(First) = 0
    BY DEF First, Positions, Costs, DoneAt, Before
  <2>3. SessionTyped'
    BY <1>1, <1>4 DEF AccessInv, SessionTyped
  <2>4. Untouched'
    BY <1>4, <2>1 DEF Untouched, UnseenPhases, EarlyPhases
  <2>5. Authorised'
    BY <1>1, <1>4 DEF AccessInv, Authorised
  <2>6. InSequence'
    BY <2>1, <2>2 DEF InSequence
  <2>7. InBudget'
    <3>1. live'.spent <= 7 + DoneAt(at')
      BY <1>4, <2>1, <2>2 DEF AccessInv, SessionTyped
    <3>2. live'.budget = IF Installing(scope') /\ scope'.route = "administrator" THEN 26 ELSE 4
      BY <1>1, <1>4 DEF AccessInv, InBudget
    <3>. QED  BY <1>4, <3>1, <3>2 DEF InBudget
  <2>. QED  BY <1>1, <2>3, <2>4, <2>5, <2>6, <2>7 DEF AccessInv
<1>. QED  BY <1>2, <1>3, <1>4

(* The steps by their place, and how many channels each has. *)
LEMMA StepNames ==
    /\ Len(Steps) = 10
    /\ Steps[1] = "TransferBundle"
    /\ Steps[2] = "InstallPackage"
    /\ Steps[3] = "WriteMachineConfiguration"
    /\ Steps[4] = "CreateState"
    /\ Steps[5] = "InstallCredentialSources"
    /\ Steps[6] = "InitialiseController"
    /\ Steps[7] = "MintReaderIdentity"
    /\ Steps[8] = "ActivateController"
    /\ Steps[9] = "AssociateApp"
    /\ Steps[10] = "Preflight"
BY DEF Steps

(* The lengths of the programs of the steps. *)
LEMMA Lengths ==
    /\ Len(Program("TransferBundle")) = 4 /\ Program("TransferBundle")[1] = "mkdir"
    /\ Program("TransferBundle")[2] = "put-bundle" /\ Program("TransferBundle")[3] = "size"
    /\ Program("TransferBundle")[4] = "digest"
    /\ Len(Program("InstallPackage")) = 3 /\ Program("InstallPackage")[1] = "dpkg"
    /\ Program("InstallPackage")[2] = "reload" /\ Program("InstallPackage")[3] = "package"
    /\ Len(Program("WriteMachineConfiguration")) = 4
    /\ Program("WriteMachineConfiguration")[1] = "put-configuration"
    /\ Program("WriteMachineConfiguration")[2] = "size"
    /\ Program("WriteMachineConfiguration")[3] = "digest"
    /\ Program("WriteMachineConfiguration")[4] = "place-configuration"
    /\ Len(Program("CreateState")) = 1 /\ Program("CreateState")[1] = "create-state"
    /\ Len(Program("InstallCredentialSources")) = 1
    /\ Program("InstallCredentialSources")[1] = "create-sources"
    /\ Len(Program("InitialiseController")) = 1
    /\ Program("InitialiseController")[1] = "controller-init"
    /\ Len(Program("MintReaderIdentity")) = 2 /\ Program("MintReaderIdentity")[1] = "mint-reader"
    /\ Program("MintReaderIdentity")[2] = "nodes"
    /\ Len(Program("ActivateController")) = 2 /\ Program("ActivateController")[1] = "enable-unit"
    /\ Program("ActivateController")[2] = "unit"
    /\ Len(Program("AssociateApp")) = 0
    /\ Len(Program("Preflight")) = 0
<1>1. /\ Len(Program("TransferBundle")) = 4 /\ Program("TransferBundle")[1] = "mkdir"
      /\ Program("TransferBundle")[2] = "put-bundle" /\ Program("TransferBundle")[3] = "size"
      /\ Program("TransferBundle")[4] = "digest"
  <2>1. PICK p : p = <<"mkdir", "put-bundle", "size", "digest">>
    OBVIOUS
  <2>2. Len(p) = 4 /\ p[1] = "mkdir" /\ p[2] = "put-bundle" /\ p[3] = "size" /\ p[4] = "digest"
    BY <2>1
  <2>3. Program("TransferBundle") = p
    BY <2>1, Programs, Zenon
  <2>. QED  BY <2>2, <2>3, Zenon
<1>2. /\ Len(Program("InstallPackage")) = 3 /\ Program("InstallPackage")[1] = "dpkg"
      /\ Program("InstallPackage")[2] = "reload" /\ Program("InstallPackage")[3] = "package"
  <2>1. PICK p : p = <<"dpkg", "reload", "package">>
    OBVIOUS
  <2>2. Len(p) = 3 /\ p[1] = "dpkg" /\ p[2] = "reload" /\ p[3] = "package"
    BY <2>1
  <2>3. Program("InstallPackage") = p
    BY <2>1, Programs, Zenon
  <2>. QED  BY <2>2, <2>3, Zenon
<1>3. /\ Len(Program("WriteMachineConfiguration")) = 4
      /\ Program("WriteMachineConfiguration")[1] = "put-configuration"
      /\ Program("WriteMachineConfiguration")[2] = "size"
      /\ Program("WriteMachineConfiguration")[3] = "digest"
      /\ Program("WriteMachineConfiguration")[4] = "place-configuration"
  <2>1. PICK p : p = <<"put-configuration", "size", "digest", "place-configuration">>
    OBVIOUS
  <2>2. /\ Len(p) = 4 /\ p[1] = "put-configuration" /\ p[2] = "size" /\ p[3] = "digest"
        /\ p[4] = "place-configuration"
    BY <2>1
  <2>3. Program("WriteMachineConfiguration") = p
    BY <2>1, Programs, Zenon
  <2>. QED  BY <2>2, <2>3, Zenon
<1>4. /\ Len(Program("CreateState")) = 1 /\ Program("CreateState")[1] = "create-state"
  <2>1. PICK p : p = <<"create-state">>
    OBVIOUS
  <2>2. Len(p) = 1 /\ p[1] = "create-state"
    BY <2>1
  <2>3. Program("CreateState") = p
    BY <2>1, Programs, Zenon
  <2>. QED  BY <2>2, <2>3, Zenon
<1>5. /\ Len(Program("InstallCredentialSources")) = 1
      /\ Program("InstallCredentialSources")[1] = "create-sources"
  <2>1. PICK p : p = <<"create-sources">>
    OBVIOUS
  <2>2. Len(p) = 1 /\ p[1] = "create-sources"
    BY <2>1
  <2>3. Program("InstallCredentialSources") = p
    BY <2>1, Programs, Zenon
  <2>. QED  BY <2>2, <2>3, Zenon
<1>6. /\ Len(Program("InitialiseController")) = 1
      /\ Program("InitialiseController")[1] = "controller-init"
  <2>1. PICK p : p = <<"controller-init">>
    OBVIOUS
  <2>2. Len(p) = 1 /\ p[1] = "controller-init"
    BY <2>1
  <2>3. Program("InitialiseController") = p
    BY <2>1, Programs, Zenon
  <2>. QED  BY <2>2, <2>3, Zenon
<1>7. /\ Len(Program("MintReaderIdentity")) = 2
      /\ Program("MintReaderIdentity")[1] = "mint-reader"
      /\ Program("MintReaderIdentity")[2] = "nodes"
  <2>1. PICK p : p = <<"mint-reader", "nodes">>
    OBVIOUS
  <2>2. Len(p) = 2 /\ p[1] = "mint-reader" /\ p[2] = "nodes"
    BY <2>1
  <2>3. Program("MintReaderIdentity") = p
    BY <2>1, Programs, Zenon
  <2>. QED  BY <2>2, <2>3, Zenon
<1>8. /\ Len(Program("ActivateController")) = 2
      /\ Program("ActivateController")[1] = "enable-unit"
      /\ Program("ActivateController")[2] = "unit"
  <2>1. PICK p : p = <<"enable-unit", "unit">>
    OBVIOUS
  <2>2. Len(p) = 2 /\ p[1] = "enable-unit" /\ p[2] = "unit"
    BY <2>1
  <2>3. Program("ActivateController") = p
    BY <2>1, Programs, Zenon
  <2>. QED  BY <2>2, <2>3, Zenon
<1>9. /\ Len(Program("AssociateApp")) = 0
  <2>1. PICK p : p = <<>>
    OBVIOUS
  <2>2. Len(p) = 0
    BY <2>1
  <2>3. Program("AssociateApp") = p
    BY <2>1, Programs, Zenon
  <2>. QED  BY <2>2, <2>3, Zenon
<1>10. /\ Len(Program("Preflight")) = 0
  <2>1. PICK p : p = <<>>
    OBVIOUS
  <2>2. Len(p) = 0
    BY <2>1
  <2>3. Program("Preflight") = p
    BY <2>1, Programs, Zenon
  <2>. QED  BY <2>2, <2>3, Zenon
<1>. QED  BY <1>1, <1>2, <1>3, <1>4, <1>5, <1>6, <1>7, <1>8, <1>9, <1>10

(* Inside the sequence: the step, its operations and the position that follows. *)
LEMMA SequenceTable ==
    ASSUME NEW p \in Positions
    PROVE  /\ Len(Program(Steps[p.step])) = Costs[p.step]
           /\ DoneAt(p) \in 0..17
           /\ After(p).step \in 1..9
           /\ After(p).step <= 8 => After(p) \in Positions /\ DoneAt(After(p)) = DoneAt(p) + 1
<1>1. p \in [step : 1..8, op : 1..4] /\ p.op <= Costs[p.step]
  BY DEF Positions
<1>2. p.step \in 1..8 /\ p.op \in 1..4
  BY <1>1
<1>3. Len(Program(Steps[p.step])) = Costs[p.step]
  <2>1. p.step \in {1, 2, 3, 4, 5, 6, 7, 8}
    BY <1>2
  <2>2. /\ Costs[1] = 4 /\ Costs[2] = 3 /\ Costs[3] = 4 /\ Costs[4] = 1
        /\ Costs[5] = 1 /\ Costs[6] = 1 /\ Costs[7] = 2 /\ Costs[8] = 2
    BY DEF Costs
  <2>3. CASE p.step = 1
    BY <2>1, <2>2, <2>3, StepNames, Lengths, Zenon
  <2>4. CASE p.step = 2
    BY <2>1, <2>2, <2>4, StepNames, Lengths, Zenon
  <2>5. CASE p.step = 3
    BY <2>1, <2>2, <2>5, StepNames, Lengths, Zenon
  <2>6. CASE p.step = 4
    BY <2>1, <2>2, <2>6, StepNames, Lengths, Zenon
  <2>7. CASE p.step = 5
    BY <2>1, <2>2, <2>7, StepNames, Lengths, Zenon
  <2>8. CASE p.step = 6
    BY <2>1, <2>2, <2>8, StepNames, Lengths, Zenon
  <2>9. CASE p.step = 7
    BY <2>1, <2>2, <2>9, StepNames, Lengths, Zenon
  <2>10. CASE p.step = 8
    BY <2>1, <2>2, <2>10, StepNames, Lengths, Zenon
  <2>. QED  BY <2>1, <2>3, <2>4, <2>5, <2>6, <2>7, <2>8, <2>9, <2>10
<1>4. Costs \in [1..8 -> 1..4] /\ Before \in [1..8 -> 0..16]
  BY DEF Costs, Before
<1>5. DoneAt(p) \in 0..17
  BY <1>1, <1>2 DEF DoneAt, Before, Costs
<1>6. CASE p.op < Costs[p.step]
  <2>1. PICK q : q = After(p)
    OBVIOUS
  <2>2. q = [p EXCEPT !.op = @ + 1]
    BY <1>6, <2>1 DEF After
  <2>3. q.step = p.step /\ q.op = p.op + 1 /\ q \in [step : 1..8, op : 1..4]
    BY <1>1, <1>2, <1>4, <1>6, <2>2
  <2>4. DoneAt(q) = DoneAt(p) + 1
    BY <1>2, <1>4, <2>3 DEF DoneAt
  <2>. QED  BY <1>2, <1>3, <1>4, <1>5, <1>6, <2>1, <2>3, <2>4 DEF Positions
<1>7. CASE ~(p.op < Costs[p.step])
  <2>1. PICK q : q = After(p)
    OBVIOUS
  <2>2. q = [step |-> p.step + 1, op |-> 1] /\ p.op = Costs[p.step]
    BY <1>1, <1>2, <1>4, <1>7, <2>1 DEF After
  <2>3. q.step = p.step + 1 /\ q.op = 1 /\ q.step \in 1..9
    BY <1>2, <2>2
  <2>4. q.step <= 8 => Before[p.step + 1] = Before[p.step] + Costs[p.step]
    BY <1>2, <2>3 DEF Before, Costs
  <2>5. q.step <= 8 => DoneAt(q) = DoneAt(p) + 1
    BY <1>2, <1>4, <2>2, <2>3, <2>4 DEF DoneAt
  <2>6. q.step <= 8 => q \in Positions
    BY <1>4, <2>2, <2>3 DEF Positions
  <2>. QED  BY <1>3, <1>5, <2>1, <2>3, <2>5, <2>6
<1>. QED  BY <1>6, <1>7

StepAt(p) == Steps[p.step]
OpAt(p) == Program(StepAt(p))[p.op]

(* The operation at each position, its step and its number. *)
LEMMA OpTable ==
    ASSUME NEW p \in Positions
    PROVE
      \/ /\ p.step = 1 /\ p.op = 1 /\ DoneAt(p) = 0
         /\ StepAt(p) = "TransferBundle" /\ OpAt(p) = "mkdir"
      \/ /\ p.step = 1 /\ p.op = 2 /\ DoneAt(p) = 1
         /\ StepAt(p) = "TransferBundle" /\ OpAt(p) = "put-bundle"
      \/ /\ p.step = 1 /\ p.op = 3 /\ DoneAt(p) = 2
         /\ StepAt(p) = "TransferBundle" /\ OpAt(p) = "size"
      \/ /\ p.step = 1 /\ p.op = 4 /\ DoneAt(p) = 3
         /\ StepAt(p) = "TransferBundle" /\ OpAt(p) = "digest"
      \/ /\ p.step = 2 /\ p.op = 1 /\ DoneAt(p) = 4
         /\ StepAt(p) = "InstallPackage" /\ OpAt(p) = "dpkg"
      \/ /\ p.step = 2 /\ p.op = 2 /\ DoneAt(p) = 5
         /\ StepAt(p) = "InstallPackage" /\ OpAt(p) = "reload"
      \/ /\ p.step = 2 /\ p.op = 3 /\ DoneAt(p) = 6
         /\ StepAt(p) = "InstallPackage" /\ OpAt(p) = "package"
      \/ /\ p.step = 3 /\ p.op = 1 /\ DoneAt(p) = 7
         /\ StepAt(p) = "WriteMachineConfiguration" /\ OpAt(p) = "put-configuration"
      \/ /\ p.step = 3 /\ p.op = 2 /\ DoneAt(p) = 8
         /\ StepAt(p) = "WriteMachineConfiguration" /\ OpAt(p) = "size"
      \/ /\ p.step = 3 /\ p.op = 3 /\ DoneAt(p) = 9
         /\ StepAt(p) = "WriteMachineConfiguration" /\ OpAt(p) = "digest"
      \/ /\ p.step = 3 /\ p.op = 4 /\ DoneAt(p) = 10
         /\ StepAt(p) = "WriteMachineConfiguration" /\ OpAt(p) = "place-configuration"
      \/ /\ p.step = 4 /\ p.op = 1 /\ DoneAt(p) = 11
         /\ StepAt(p) = "CreateState" /\ OpAt(p) = "create-state"
      \/ /\ p.step = 5 /\ p.op = 1 /\ DoneAt(p) = 12
         /\ StepAt(p) = "InstallCredentialSources" /\ OpAt(p) = "create-sources"
      \/ /\ p.step = 6 /\ p.op = 1 /\ DoneAt(p) = 13
         /\ StepAt(p) = "InitialiseController" /\ OpAt(p) = "controller-init"
      \/ /\ p.step = 7 /\ p.op = 1 /\ DoneAt(p) = 14
         /\ StepAt(p) = "MintReaderIdentity" /\ OpAt(p) = "mint-reader"
      \/ /\ p.step = 7 /\ p.op = 2 /\ DoneAt(p) = 15
         /\ StepAt(p) = "MintReaderIdentity" /\ OpAt(p) = "nodes"
      \/ /\ p.step = 8 /\ p.op = 1 /\ DoneAt(p) = 16
         /\ StepAt(p) = "ActivateController" /\ OpAt(p) = "enable-unit"
      \/ /\ p.step = 8 /\ p.op = 2 /\ DoneAt(p) = 17
         /\ StepAt(p) = "ActivateController" /\ OpAt(p) = "unit"
<1>1. p.step \in {1, 2, 3, 4, 5, 6, 7, 8} /\ p.op \in {1, 2, 3, 4} /\ p.op <= Costs[p.step]
  BY DEF Positions
<1>2. /\ Costs[1] = 4 /\ Costs[2] = 3 /\ Costs[3] = 4 /\ Costs[4] = 1
      /\ Costs[5] = 1 /\ Costs[6] = 1 /\ Costs[7] = 2 /\ Costs[8] = 2
  BY DEF Costs
<1>3. CASE p.step = 1
  <2>1. p.op \in {1, 2, 3, 4}
    BY <1>1, <1>2, <1>3
  <2>2. StepAt(p) = "TransferBundle"
    BY <1>3, StepNames, Zenon DEF StepAt
  <2>3. /\ p.op = 1 => DoneAt(p) = 0
        /\ p.op = 2 => DoneAt(p) = 1
        /\ p.op = 3 => DoneAt(p) = 2
        /\ p.op = 4 => DoneAt(p) = 3
    BY <1>1, <1>3, <2>1 DEF DoneAt, Before
  <2>. QED  BY <1>3, <2>1, <2>2, <2>3, Lengths, Zenon DEF OpAt
<1>4. CASE p.step = 2
  <2>1. p.op \in {1, 2, 3}
    BY <1>1, <1>2, <1>4
  <2>2. StepAt(p) = "InstallPackage"
    BY <1>4, StepNames, Zenon DEF StepAt
  <2>3. /\ p.op = 1 => DoneAt(p) = 4
        /\ p.op = 2 => DoneAt(p) = 5
        /\ p.op = 3 => DoneAt(p) = 6
    BY <1>1, <1>4, <2>1 DEF DoneAt, Before
  <2>. QED  BY <1>4, <2>1, <2>2, <2>3, Lengths, Zenon DEF OpAt
<1>5. CASE p.step = 3
  <2>1. p.op \in {1, 2, 3, 4}
    BY <1>1, <1>2, <1>5
  <2>2. StepAt(p) = "WriteMachineConfiguration"
    BY <1>5, StepNames, Zenon DEF StepAt
  <2>3. /\ p.op = 1 => DoneAt(p) = 7
        /\ p.op = 2 => DoneAt(p) = 8
        /\ p.op = 3 => DoneAt(p) = 9
        /\ p.op = 4 => DoneAt(p) = 10
    BY <1>1, <1>5, <2>1 DEF DoneAt, Before
  <2>. QED  BY <1>5, <2>1, <2>2, <2>3, Lengths, Zenon DEF OpAt
<1>6. CASE p.step = 4
  <2>1. p.op \in {1}
    BY <1>1, <1>2, <1>6
  <2>2. StepAt(p) = "CreateState"
    BY <1>6, StepNames, Zenon DEF StepAt
  <2>3. /\ p.op = 1 => DoneAt(p) = 11
    BY <1>1, <1>6, <2>1 DEF DoneAt, Before
  <2>. QED  BY <1>6, <2>1, <2>2, <2>3, Lengths, Zenon DEF OpAt
<1>7. CASE p.step = 5
  <2>1. p.op \in {1}
    BY <1>1, <1>2, <1>7
  <2>2. StepAt(p) = "InstallCredentialSources"
    BY <1>7, StepNames, Zenon DEF StepAt
  <2>3. /\ p.op = 1 => DoneAt(p) = 12
    BY <1>1, <1>7, <2>1 DEF DoneAt, Before
  <2>. QED  BY <1>7, <2>1, <2>2, <2>3, Lengths, Zenon DEF OpAt
<1>8. CASE p.step = 6
  <2>1. p.op \in {1}
    BY <1>1, <1>2, <1>8
  <2>2. StepAt(p) = "InitialiseController"
    BY <1>8, StepNames, Zenon DEF StepAt
  <2>3. /\ p.op = 1 => DoneAt(p) = 13
    BY <1>1, <1>8, <2>1 DEF DoneAt, Before
  <2>. QED  BY <1>8, <2>1, <2>2, <2>3, Lengths, Zenon DEF OpAt
<1>9. CASE p.step = 7
  <2>1. p.op \in {1, 2}
    BY <1>1, <1>2, <1>9
  <2>2. StepAt(p) = "MintReaderIdentity"
    BY <1>9, StepNames, Zenon DEF StepAt
  <2>3. /\ p.op = 1 => DoneAt(p) = 14
        /\ p.op = 2 => DoneAt(p) = 15
    BY <1>1, <1>9, <2>1 DEF DoneAt, Before
  <2>. QED  BY <1>9, <2>1, <2>2, <2>3, Lengths, Zenon DEF OpAt
<1>10. CASE p.step = 8
  <2>1. p.op \in {1, 2}
    BY <1>1, <1>2, <1>10
  <2>2. StepAt(p) = "ActivateController"
    BY <1>10, StepNames, Zenon DEF StepAt
  <2>3. /\ p.op = 1 => DoneAt(p) = 16
        /\ p.op = 2 => DoneAt(p) = 17
    BY <1>1, <1>10, <2>1 DEF DoneAt, Before
  <2>. QED  BY <1>10, <2>1, <2>2, <2>3, Lengths, Zenon DEF OpAt
<1>. QED  BY <1>1, <1>3, <1>4, <1>5, <1>6, <1>7, <1>8, <1>9, <1>10, Zenon

(* What the definitions of the sequence are while it runs. *)
LEMMA Driven ==
    ASSUME AccessInv, pc = "drive"
    PROVE  /\ at \in Positions /\ Installing(scope)
           /\ Step = StepAt(at) /\ Op = OpAt(at) /\ NextAt = After(at)
           /\ Finished(After(at)) <=> After(at).step = 9
           /\ ~Finished(at) /\ BudgetHolds
<1>1. at \in Positions /\ Installing(scope) /\ scope.route = "administrator"
  BY DEF AccessInv, InSequence, Authorised, ProvenPhases
<1>2. Planned = Steps /\ ChannelBudget(scope.actions) = 26
  BY <1>1, ScopeInstalls DEF AccessInv
<1>3. Step = StepAt(at) /\ Op = OpAt(at)
  BY <1>2 DEF Step, Op, StepAt, OpAt
<1>4. Len(Program(Step)) = Costs[at.step]
  BY <1>1, <1>3, SequenceTable DEF StepAt
<1>5. NextAt = After(at)
  BY <1>4 DEF NextAt, After
<1>6. \A i \in 1..8 : Program(Steps[i]) # <<>>
  <2>1. ASSUME NEW i \in 1..8 PROVE Len(Program(Steps[i])) \in 1..4
    <3>1. PICK p : p = [step |-> i, op |-> 1]
      OBVIOUS
    <3>2. Costs[i] \in 1..4
      BY DEF Costs
    <3>3. p \in Positions /\ p.step = i
      BY <3>1, <3>2 DEF Positions
    <3>. QED  BY <3>2, <3>3, SequenceTable
  <2>2. ASSUME NEW i \in 1..8, Program(Steps[i]) = <<>> PROVE FALSE
    <3>1. Len(Program(Steps[i])) = 0
      BY <2>2
    <3>2. Len(Program(Steps[i])) \in 1..4
      BY <2>1
    <3>. QED  BY <3>1, <3>2
  <2>. QED  BY <2>2
<1>7. \A i \in 9..10 : Program(Steps[i]) = <<>>
  <2>1. Program(Steps[9]) = <<>> /\ Program(Steps[10]) = <<>>
    BY Programs, StepNames, Zenon
  <2>. QED  BY <2>1
<1>8. ASSUME NEW p, p.step \in 1..9 PROVE Finished(p) <=> p.step = 9
  <2>1. Finished(p) <=> \A i \in p.step..10 : Program(Steps[i]) = <<>>
    BY <1>2, StepNames DEF Finished
  <2>2. CASE p.step = 9
    BY <1>7, <2>1, <2>2
  <2>3. CASE p.step # 9
    <3>1. p.step \in 1..8 /\ p.step \in p.step..10
      BY <1>8, <2>3
    <3>. QED  BY <1>6, <2>1, <2>3, <3>1
  <2>. QED  BY <2>2, <2>3
<1>9. Finished(After(at)) <=> After(at).step = 9
  BY <1>1, <1>8, SequenceTable
<1>10. ~Finished(at)
  <2>1. at.step \in 1..8
    BY <1>1 DEF Positions
  <2>. QED  BY <1>8, <2>1
<1>11. BudgetHolds
  <2>1. live.budget = 26
    BY <1>1 DEF AccessInv, InBudget, ChannelPhases, ProvenPhases
  <2>. QED  BY <1>2, <2>1 DEF BudgetHolds, MayAdoptBudget
<1>. QED  BY <1>1, <1>3, <1>5, <1>9, <1>10, <1>11

(* An operation ends the sequence, or leads to the position that follows. *)
LEMMA DriveMoves ==
    ASSUME AccessInv, Drive
    PROVE  /\ pc = "drive"
           /\ UNCHANGED <<scope, seen, dialled, proved, policy, found>>
           /\ live' \in [open : BOOLEAN, spent : Nat, budget : Nat]
           /\ live'.spent <= live.spent + 1 /\ live'.budget = live.budget
           /\ \/ pc' = "drop"
              \/ pc' = "drive" /\ at' = After(at) /\ After(at).step <= 8
<1>1. pc = "drive"
  BY DEF Drive, Unanswered, MakeStaging, Deposit, MeasureSize, MeasureDigest, Act, Establishes,
         Heard, Driving
<1>2. UNCHANGED <<scope, seen, dialled, proved, policy, found>>
  BY DEF Drive, Unanswered, MakeStaging, Deposit, MeasureSize, MeasureDigest, Act, Establishes,
         Frame
<1>3. live' = live \/ live' = [live EXCEPT !.spent = @ + 1]
  BY Zenon DEF Drive, Unanswered, MakeStaging, Deposit, MeasureSize, MeasureDigest, Act,
     Establishes,
         Heard, Spend
<1>4. live' \in [open : BOOLEAN, spent : Nat, budget : Nat]
      /\ live'.spent <= live.spent + 1 /\ live'.budget = live.budget
  <2>1. live \in [open : BOOLEAN, spent : Nat, budget : Nat]
    BY DEF AccessInv, SessionTyped
  <2>. QED  BY <1>3, <2>1
<1>5. NextAt = After(at) /\ (Finished(After(at)) <=> After(at).step = 9) /\ at \in Positions /\ Op = OpAt(at)
  BY <1>1, Driven
<1>6. After(at).step \in 1..9
  BY <1>5, SequenceTable
<1>7. ASSUME NEW w, NEW l, Continue(w, l)
      PROVE  \/ pc' = "drop"
             \/ pc' = "drive" /\ at' = After(at) /\ After(at).step <= 8
  <2>1. CASE Finished(After(at))
    BY <1>5, <1>7, <2>1 DEF Continue
  <2>2. CASE ~Finished(After(at))
    <3>1. pc' = "drive" /\ at' = After(at)
      BY <1>1, <1>5, <1>7, <2>2 DEF Continue
    <3>. QED  BY <1>5, <1>6, <2>2, <3>1
  <2>. QED  BY <2>1, <2>2
<1>15. \/ pc' = "drop"
       \/ pc' = "drive" /\ at' = After(at) /\ After(at).step <= 8
  <2>1. CASE Deposit \/ MeasureSize
    <3>1. pc' = "drive" /\ at' = After(at)
      BY <1>1, <1>5, <2>1 DEF Deposit, MeasureSize
    <3>2. OpAt(at) \in {"put-bundle", "put-configuration", "size"}
      BY <1>5, <2>1, Zenon DEF Deposit, MeasureSize
    <3>6. at \in Positions
      BY <1>5
    <3>8. \/ at.step = 1 /\ at.op = 2
          \/ at.step = 1 /\ at.op = 3
          \/ at.step = 3 /\ at.op = 1
          \/ at.step = 3 /\ at.op = 2
      BY <3>2, <3>6, OpTable, Zenon
    <3>3. at.step \in {1, 3} /\ at.op \in {1, 2, 3} /\ (at.step = 3 => at.op # 3)
      BY <3>8
    <3>4. at.op < Costs[at.step] /\ at.step \in 1..8
      BY <3>3 DEF Costs
    <3>5. After(at).step = at.step
      BY <1>5, <3>4 DEF After, Positions
    <3>7. at.step <= 8
      BY <3>3
    <3>. QED  BY <3>1, <3>5, <3>7
  <2>2. CASE Unanswered
    BY <2>2, Zenon DEF Unanswered, Stop
  <2>3. CASE MakeStaging
    <3>1. (\E w, l : Continue(w, l)) \/ (\E o, w, l : Stop(o, w, l))
      BY <2>3, Zenon DEF MakeStaging
    <3>2. CASE \E w, l : Continue(w, l)
      BY <1>7, <3>2
    <3>3. CASE \E o, w, l : Stop(o, w, l)
      BY <3>3 DEF Stop
    <3>. QED  BY <3>1, <3>2, <3>3
  <2>4. CASE MeasureDigest
    <3>1. (\E w, l : Continue(w, l)) \/ (\E o, w, l : Stop(o, w, l))
      BY <2>4, Zenon DEF MeasureDigest
    <3>2. CASE \E w, l : Continue(w, l)
      BY <1>7, <3>2
    <3>3. CASE \E o, w, l : Stop(o, w, l)
      BY <3>3 DEF Stop
    <3>. QED  BY <3>1, <3>2, <3>3
  <2>5. CASE Act
    <3>1. (\E w, l : Continue(w, l)) \/ (\E o, w, l : Stop(o, w, l))
      BY <2>5, Zenon DEF Act
    <3>2. CASE \E w, l : Continue(w, l)
      BY <1>7, <3>2
    <3>3. CASE \E o, w, l : Stop(o, w, l)
      BY <3>3 DEF Stop
    <3>. QED  BY <3>1, <3>2, <3>3
  <2>6. CASE Establishes
    <3>1. (\E w, l : Continue(w, l)) \/ (\E o, w, l : Stop(o, w, l))
      BY <2>6, Zenon DEF Establishes
    <3>2. CASE \E w, l : Continue(w, l)
      BY <1>7, <3>2
    <3>3. CASE \E o, w, l : Stop(o, w, l)
      BY <3>3 DEF Stop
    <3>. QED  BY <3>1, <3>2, <3>3
  <2>. QED  BY <2>1, <2>2, <2>3, <2>4, <2>5, <2>6, Zenon DEF Drive
<1>. QED  BY <1>1, <1>2, <1>4, <1>15

(* Each operation of the sequence spends one channel at most. *)
LEMMA DriveKeeps == AccessInv /\ Drive => AccessInv'
<1>. SUFFICES ASSUME AccessInv, Drive PROVE AccessInv'
  OBVIOUS
<1>1. /\ pc = "drive"
      /\ UNCHANGED <<scope, seen, dialled, proved, policy, found>>
      /\ live' \in [open : BOOLEAN, spent : Nat, budget : Nat]
      /\ live'.spent <= live.spent + 1 /\ live'.budget = live.budget
      /\ \/ pc' = "drop"
         \/ pc' = "drive" /\ at' = After(at) /\ After(at).step <= 8
  BY DriveMoves
<1>2. /\ at \in Positions /\ DoneAt(at) \in 0..17
      /\ After(at).step <= 8 => After(at) \in Positions /\ DoneAt(After(at)) = DoneAt(at) + 1
  BY <1>1, SequenceTable DEF AccessInv, InSequence
<1>3. /\ pc \in ProvenPhases /\ pc' \in ProvenPhases /\ pc \in ChannelPhases
      /\ pc' \notin EarlyPhases /\ pc' \notin UnseenPhases
  BY <1>1 DEF EarlyPhases, UnseenPhases, ProvenPhases, ChannelPhases
<1>4. SessionTyped'
  BY <1>1 DEF AccessInv, SessionTyped
<1>5. Untouched'
  BY <1>3 DEF Untouched
<1>6. Authorised'
  BY <1>1, <1>3 DEF AccessInv, Authorised
<1>7. InSequence'
  BY <1>1, <1>2 DEF InSequence
<1>8. InBudget'
  <2>1. live.spent <= 7 + DoneAt(at) /\ live.spent \in Nat
    BY <1>1 DEF AccessInv, InBudget, SessionTyped
  <2>2. live'.budget = IF Installing(scope') /\ scope'.route = "administrator" THEN 26 ELSE 4
    BY <1>1, <1>3 DEF AccessInv, InBudget
  <2>3. live'.spent \in Nat
    BY <1>1
  <2>4. pc' = "drop" => live'.spent <= 25
    BY <1>1, <1>2, <2>1, <2>3
  <2>5. pc' = "drive" => live'.spent <= 7 + DoneAt(at')
    <3>1. ASSUME pc' = "drive" PROVE DoneAt(at') = DoneAt(at) + 1
      BY <1>1, <1>2, <3>1
    <3>. QED  BY <1>1, <1>2, <2>1, <2>3, <3>1
  <2>. QED  BY <1>1, <2>2, <2>4, <2>5 DEF InBudget
<1>. QED  BY <1>1, <1>4, <1>5, <1>6, <1>7, <1>8 DEF AccessInv, Dialable

(* The last channel, and the terminal. *)
LEMMA EndKeeps == AccessInv /\ (DropCredential \/ Resolve) => AccessInv'
<1>. SUFFICES ASSUME AccessInv, DropCredential \/ Resolve PROVE AccessInv'
  OBVIOUS
<1>1. /\ pc' \in {"resolve", "done"}
      /\ UNCHANGED <<scope, seen, dialled, proved, policy, target, found>>
  BY DEF DropCredential, Resolve, installVars
<1>2. live' \in [open : BOOLEAN, spent : Nat, budget : Nat]
  <2>1. live \in [open : BOOLEAN, spent : Nat, budget : Nat]
    BY DEF AccessInv, SessionTyped
  <2>2. CASE DropCredential
    <3>1. PICK n : n = IF ChannelOpens THEN live.spent + 1 ELSE live.spent
      OBVIOUS
    <3>2. n \in Nat
      BY <2>1, <3>1
    <3>3. live' = [live EXCEPT !.spent = n, !.open = FALSE]
      BY <2>2, <3>1 DEF DropCredential
    <3>. QED  BY <2>1, <3>2, <3>3
  <2>3. CASE Resolve
    BY <2>1, <2>3 DEF Resolve
  <2>. QED  BY <2>2, <2>3
<1>3. /\ pc' \notin EarlyPhases /\ pc' \notin UnseenPhases /\ pc' \notin ProvenPhases
      /\ pc' \notin ChannelPhases
  BY <1>1 DEF EarlyPhases, UnseenPhases, ProvenPhases, ChannelPhases
<1>4. SessionTyped'
  BY <1>1, <1>2 DEF AccessInv, SessionTyped
<1>5. Untouched'
  BY <1>3 DEF Untouched
<1>6. Authorised'
  BY <1>1, <1>3 DEF AccessInv, Authorised
<1>7. InSequence' /\ InBudget'
  BY <1>1, <1>3 DEF InSequence, InBudget
<1>. QED  BY <1>1, <1>4, <1>5, <1>6, <1>7 DEF AccessInv, Dialable

(* The deadline, the lease and the key file; and a step that changes nothing. *)
LEMMA BesideKeeps ==
    AccessInv /\ (Expire \/ LoseLease \/ ReplaceKeyFile \/ UNCHANGED vars) => AccessInv'
<1>. SUFFICES ASSUME AccessInv, Expire \/ LoseLease \/ ReplaceKeyFile \/ UNCHANGED vars
              PROVE  AccessInv'
  OBVIOUS
<1>1. UNCHANGED <<pc, scope, live, seen, dialled, proved, policy, target, found, at, readings,
                  pending, ledger, ended>>
  BY DEF Expire, LoseLease, ReplaceKeyFile, vars, sessionVars, installVars
<1>2. SessionTyped'
  BY <1>1 DEF AccessInv, SessionTyped
<1>3. Untouched'
  BY <1>1 DEF AccessInv, Untouched
<1>4. Authorised'
  BY <1>1 DEF AccessInv, Authorised
<1>5. InSequence' /\ InBudget'
  BY <1>1 DEF AccessInv, InSequence, InBudget
<1>. QED  BY <1>1, <1>2, <1>3, <1>4, <1>5 DEF AccessInv, Dialable

(* The session's own invariant: what may be dialled, what was proved, where the *)
(* sequence is and what it has spent of its budget, at every step (lib.rs,      *)
(* serve_personal_access; sequence.rs, run).                                    *)
THEOREM SessionIsInvariant == Spec => []AccessInv
<1>1. Init => AccessInv
  BY AccessInit
<1>2. AccessInv /\ [Next]_vars => AccessInv'
  <2>. SUFFICES ASSUME AccessInv, [Next]_vars PROVE AccessInv'
    OBVIOUS
  <2>1. CASE SessionStep
    BY <2>1, PrepareKeeps, OpeningKeeps, AuthenticateKeeps, ProbeKeeps, ListKeeps, AskKeeps,
       ElevateKeeps, ObserveKeeps, JudgeKeeps, DriveKeeps, EndKeeps, Zenon DEF SessionStep
  <2>2. CASE Expire \/ LoseLease \/ ReplaceKeyFile \/ UNCHANGED vars
    BY <2>2, BesideKeeps
  <2>. QED  BY <2>1, <2>2, Zenon DEF Next
<1>. QED  BY <1>1, <1>2, PTL DEF Spec

(* No session ever reaches an address of the App's own machine, nor one no      *)
(* machine has (target.rs freeze, local_addresses.rs).                          *)
THEOREM NeverDialsItselfEver == Spec => []NeverDialsItself
<1>1. AccessInv => NeverDialsItself
  BY Zenon DEF AccessInv, Dialable, NeverDialsItself
<1>. QED  BY <1>1, SessionIsInvariant, PTL

(* The budget adopted from the plan is never spent before the credential is     *)
(* dropped (acts.rs channel_budget, session.rs run_channel).                    *)
THEOREM BudgetAlwaysSuffices == Spec => []BudgetNeverShort
<1>1. AccessInv => BudgetNeverShort
  <2>. SUFFICES ASSUME AccessInv, pc \in {"probe", "list", "list-again", "elevate", "observe", "drive", "drop"}
                PROVE  live.spent < live.budget
    BY DEF BudgetNeverShort, ChannelOpens
  <2>1. /\ live \in [open : BOOLEAN, spent : Nat, budget : Nat]
        /\ seen \in [run : 0..3, answered : Nat]
    BY DEF AccessInv, SessionTyped
  <2>2. live.budget \in {4, 26} /\ (pc \in ProvenPhases => live.budget = 26)
    BY DEF AccessInv, InBudget, Authorised, ChannelPhases, ProvenPhases
  <2>3. PICK spent, run, done : spent = live.spent /\ run = seen.run /\ done = DoneAt(at)
    OBVIOUS
  <2>4. spent \in Nat /\ run \in 0..3
    BY <2>1, <2>3
  <2>5. pc = "drive" => done \in 0..17
    BY <2>3, SequenceTable DEF AccessInv, InSequence
  <2>6. CASE pc \in {"probe", "list", "list-again", "elevate"}
    <3>1. spent \in {0, 1, 2} \/ spent <= 3
      BY <2>3, <2>6 DEF AccessInv, InBudget
    <3>2. spent < 4 /\ spent < 26
      BY ONLY <2>4, <3>1
    <3>. QED  BY <2>2, <2>3, <3>2
  <2>7. CASE pc \in {"observe", "drive", "drop"}
    <3>1. live.budget = 26
      BY <2>2, <2>7 DEF ProvenPhases
    <3>2. spent <= 4 + run \/ (pc = "drive" /\ spent <= 7 + done) \/ spent <= 25
      BY <2>3, <2>7 DEF AccessInv, InBudget
    <3>3. spent < 26
      BY ONLY <2>4, <2>5, <3>2
    <3>. QED  BY <2>3, <3>1, <3>3
  <2>. QED  BY <2>6, <2>7
<1>. QED  BY <1>1, SessionIsInvariant, PTL

(* The target's system is changed only under a proved elevation and a policy    *)
(* wide enough for every command (elevation.rs, acts.rs ElevatedAct).           *)
THEOREM ChangesAlwaysNeedProof == Spec => []ChangesNeedProof
<1>1. AccessInv => ChangesNeedProof
  BY Zenon DEF AccessInv, Authorised, ChangesNeedProof
<1>. QED  BY <1>1, SessionIsInvariant, PTL

-----------------------------------------------------------------------------
(* The sequence: what each operation writes, notes and establishes. The    *)
(* operations are numbered from 0 in the order of the plan; an item is     *)
(* written by one operation, is recorded or waits to be by the number in   *)
(* NotedAt, and was read to be right by the one in EstablishedAt.          *)

WrittenAt(item) ==
    CASE item = "staging" -> 0 [] item = "bundle" -> 1 [] item = "package" -> 4
      [] item = "staged-configuration" -> 7 [] item = "configuration" -> 10
      [] item = "state" -> 11 [] item = "sources" -> 12 [] item = "authority" -> 13
      [] item = "reader" -> 14 [] OTHER -> 16

NotedAt(item) ==
    CASE item = "staging" -> 1 [] item = "bundle" -> 4 [] item = "package" -> 6
      [] item = "staged-configuration" -> 10 [] item = "configuration" -> 11
      [] item = "state" -> 12 [] item = "sources" -> 13 [] item = "authority" -> 14
      [] item = "reader" -> 15 [] OTHER -> 17

EstablishedAt(item) ==
    CASE item = "staging" -> 1 [] item = "bundle" -> 4 [] item = "package" -> 7
      [] item = "staged-configuration" -> 10 [] item = "authority" -> 14
      [] item \in {"configuration", "state", "sources", "reader"} -> 16
      [] OTHER -> 18

\* The items noted by the operations before a number.
NotesBefore(n) ==
    CASE n = 0 -> 0 [] n \in 1..3 -> 1 [] n \in 4..5 -> 2 [] n \in 6..9 -> 3 [] n = 10 -> 4
      [] n = 11 -> 5 [] n = 12 -> 6 [] n = 13 -> 7 [] n = 14 -> 8 [] n \in 15..16 -> 9
      [] OTHER -> 10

RecordingSteps == {"InstallPackage", "WriteMachineConfiguration", "CreateState",
                   "InstallCredentialSources", "InitialiseController", "MintReaderIdentity",
                   "ActivateController"}
StepItem(step) ==
    CASE step = "InstallPackage" -> "package" [] step = "WriteMachineConfiguration" -> "configuration"
      [] step = "CreateState" -> "state" [] step = "InstallCredentialSources" -> "sources"
      [] step = "InitialiseController" -> "authority" [] step = "MintReaderIdentity" -> "reader"
      [] OTHER -> "unit"

LedgerEntries == [item : Items, provenance : {"created", "unknown"}]
Recorded(l, item) == \E i \in DOMAIN l : l[i].item = item
Awaited(p, item) == \E i \in DOMAIN p : StepItem(p[i]) = item
AllCreated(l) == \A i \in DOMAIN l : l[i].provenance = "created"
TargetStates == [Items -> {"absent", "right", "wrong"}]
Causes == {"none", "AuthenticationRequired", "TerminalRequired", "IncorrectPassword",
           "AmbiguousPolicy"}
Exported == [scope : {"none", "narrow", "suffices"}, ledger : BOOLEAN, cause : Causes]

\* The steps that may be waiting for a reading before a number.
Waits(n) ==
    CASE n = 6 -> {"InstallPackage"}
      [] n \in 11..15 -> {"WriteMachineConfiguration", "CreateState", "InstallCredentialSources",
                          "MintReaderIdentity"}
      [] n = 17 -> {"ActivateController"}
      [] OTHER -> {}

InstallTyped ==
    /\ platform \in Platforms /\ lease \in {"held", "cancelled", "invalid"} /\ expired \in BOOLEAN
    /\ target \in TargetStates /\ found \in TargetStates
    /\ exports \in Exported
    /\ pc = "drive" => ended = "no"

\* What the operations before number n have done to the target t and the records.
Unwritten(t, f, n) == \A item \in Items : n <= WrittenAt(item) => t[item] = f[item]
Noted(l, p, n) == \A item \in Items : NotedAt(item) <= n => Recorded(l, item) \/ Awaited(p, item)
Established(t, n) == \A item \in Items : EstablishedAt(item) <= n => t[item] = "right"
Kept(l, p, n) == /\ l \in Seq(LedgerEntries) /\ p \in Seq(Waits(n))
                 /\ AllCreated(l) /\ Len(l) + Len(p) <= NotesBefore(n)

\* The answers of a deposit, while they come in.
Readings == Seq({"done", "failed", "right", "wrong"})
AnswersSoFar(r, op) == /\ op = "size" => r \in Readings /\ Len(r) = 1
                       /\ op = "digest" => r \in Readings /\ Len(r) = 2

Progress(t, f, l, p, r, n, op) ==
    /\ Unwritten(t, f, n) /\ Noted(l, p, n) /\ Established(t, n) /\ Kept(l, p, n)
    /\ AnswersSoFar(r, op)
InProgress == pc = "drive" => Progress(target, found, ledger, pending, readings, DoneAt(at), OpAt(at))

\* A whole sequence, from its end to the terminal.
WholeIs(t, l) == /\ \A item \in Items : t[item] = "right"
                 /\ AllCreated(l) /\ Len(l) \in 0..16
EndedWhole ==
    /\ ended = "whole" => WholeIs(target, ledger)
    /\ pc = "resolve" /\ ended = "whole" => terminal = "verified"
    /\ pc = "resolve" /\ terminal = "verified" /\ Installing(scope) /\ scope.route = "administrator"
          => ended = "whole" /\ exports.ledger

\* What the sequence changed and did not record belongs to the step that went
\* unanswered.
StepWrites(step) == UNION {Writes(Program(step)[i]) : i \in DOMAIN Program(step)}
Accounted(t, f, l, reason, step) ==
    \A item \in Items : t[item] # f[item] =>
        Recorded(l, item) \/ (reason = "Unanswered" /\ item \in StepWrites(step))
EffectsKept == ended # "no" => Accounted(target, found, ledger, ended, Step)

SequenceInv == InstallTyped /\ InProgress /\ EndedWhole /\ EffectsKept /\ VerifiedIsWhole

\* A list put together from pieces, one after the other.
ConcatOf(g, n, piece) == g[0] = <<>> /\ \A i \in 1..n : g[i] = g[i - 1] \o piece[i]
PiecesIn(piece, n, T) == n \in Nat /\ \A i \in 1..n : piece[i] \in Seq(T)
RecordPieces(steps, among, provenance) ==
    [i \in 1..Len(steps) |-> IF steps[i] \in among THEN RecordStep(steps[i], provenance) ELSE <<>>]
WaiterPieces(steps, covered) ==
    [i \in 1..Len(steps) |-> IF steps[i] \in covered THEN <<>> ELSE <<steps[i]>>]

(* The records are put together one step after the other. *)
LEMMA RecordStepsIs ==
    ASSUME NEW steps, Len(steps) \in Nat, NEW among, NEW provenance
    PROVE  \E g : /\ ConcatOf(g, Len(steps), RecordPieces(steps, among, provenance))
                  /\ RecordSteps(steps, among, provenance) = g[Len(steps)]
<1>. DEFINE IsFold(g, m) ==
                g = [i \in 0..m |->
                        IF i = 0 THEN <<>>
                        ELSE g[i - 1] \o (IF steps[i] \in among THEN RecordStep(steps[i], provenance)
                                          ELSE <<>>)]
            S == {m \in Nat : \E g : IsFold(g, m)}
<1>1. 0 \in S
  <2>1. IsFold([i \in 0..0 |-> <<>>], 0)
    OBVIOUS
  <2>. QED  BY <2>1
<1>2. ASSUME NEW m \in Nat, m \in S PROVE m + 1 \in S
  <2>1. PICK g : IsFold(g, m)
    BY <1>2
  <2>. DEFINE part(i) == (IF steps[i] \in among THEN RecordStep(steps[i], provenance) ELSE <<>>)
  <2>. HIDE DEF part
  <2>2. PICK h : h = [i \in 0..(m + 1) |-> IF i <= m THEN g[i] ELSE g[m] \o part(m + 1)]
    OBVIOUS
  <2>3. ASSUME NEW i \in 0..(m + 1)
        PROVE  h[i] = IF i = 0 THEN <<>> ELSE h[i - 1] \o part(i)
    <3>0. g = [j \in 0..m |-> IF j = 0 THEN <<>> ELSE g[j - 1] \o part(j)]
      BY <2>1 DEF part
    <3>1. CASE i = 0
      BY <3>0, <2>2, <3>1
    <3>2. CASE i # 0 /\ i <= m
      <4>1. i - 1 \in 0..m /\ i \in 0..m
        BY <3>2
      <4>2. g[i] = g[i - 1] \o part(i)
        BY <3>0, <3>2, <4>1
      <4>3. h[i] = g[i] /\ h[i - 1] = g[i - 1]
        BY <2>2, <3>2, <4>1
      <4>. QED  BY <4>2, <4>3, <3>2
    <3>3. CASE i = m + 1
      BY <2>2, <3>3
    <3>. QED  BY <3>1, <3>2, <3>3
  <2>4. h = [i \in 0..(m + 1) |-> IF i = 0 THEN <<>> ELSE h[i - 1] \o part(i)]
    BY <2>2, <2>3
  <2>5. IsFold(h, m + 1)
    BY <2>4 DEF part
  <2>. QED  BY <2>5
<1>3. Len(steps) \in S
  <2>. HIDE DEF S
  <2>. QED  BY <1>1, <1>2, SetInduction
<1>4. PICK g : g = CHOOSE h : IsFold(h, Len(steps))
  OBVIOUS
<1>5. IsFold(g, Len(steps))
  BY <1>3, <1>4
<1>6. RecordSteps(steps, among, provenance) = g[Len(steps)]
  BY <1>4 DEF RecordSteps
<1>7. /\ g[0] = <<>>
      /\ \A i \in 1..Len(steps) :
            g[i] = g[i - 1] \o (IF steps[i] \in among THEN RecordStep(steps[i], provenance) ELSE <<>>)
  BY <1>5
<1>8. ConcatOf(g, Len(steps), RecordPieces(steps, among, provenance))
  BY <1>7 DEF ConcatOf, RecordPieces
<1>. QED  BY <1>6, <1>8

(* And so are the steps that go on waiting. *)
LEMMA StillPendingIs ==
    ASSUME NEW steps, Len(steps) \in Nat, NEW covered
    PROVE  \E g : /\ ConcatOf(g, Len(steps), WaiterPieces(steps, covered))
                  /\ StillPending(steps, covered) = g[Len(steps)]
<1>. DEFINE IsFold(g, m) ==
                g = [i \in 0..m |->
                        IF i = 0 THEN <<>>
                        ELSE g[i - 1] \o (IF steps[i] \in covered THEN <<>> ELSE <<steps[i]>>)]
            S == {m \in Nat : \E g : IsFold(g, m)}
<1>1. 0 \in S
  <2>1. IsFold([i \in 0..0 |-> <<>>], 0)
    OBVIOUS
  <2>. QED  BY <2>1
<1>2. ASSUME NEW m \in Nat, m \in S PROVE m + 1 \in S
  <2>1. PICK g : IsFold(g, m)
    BY <1>2
  <2>. DEFINE part(i) == (IF steps[i] \in covered THEN <<>> ELSE <<steps[i]>>)
  <2>. HIDE DEF part
  <2>2. PICK h : h = [i \in 0..(m + 1) |-> IF i <= m THEN g[i] ELSE g[m] \o part(m + 1)]
    OBVIOUS
  <2>3. ASSUME NEW i \in 0..(m + 1)
        PROVE  h[i] = IF i = 0 THEN <<>> ELSE h[i - 1] \o part(i)
    <3>0. g = [j \in 0..m |-> IF j = 0 THEN <<>> ELSE g[j - 1] \o part(j)]
      BY <2>1 DEF part
    <3>1. CASE i = 0
      BY <3>0, <2>2, <3>1
    <3>2. CASE i # 0 /\ i <= m
      <4>1. i - 1 \in 0..m /\ i \in 0..m
        BY <3>2
      <4>2. g[i] = g[i - 1] \o part(i)
        BY <3>0, <3>2, <4>1
      <4>3. h[i] = g[i] /\ h[i - 1] = g[i - 1]
        BY <2>2, <3>2, <4>1
      <4>. QED  BY <4>2, <4>3, <3>2
    <3>3. CASE i = m + 1
      BY <2>2, <3>3
    <3>. QED  BY <3>1, <3>2, <3>3
  <2>4. h = [i \in 0..(m + 1) |-> IF i = 0 THEN <<>> ELSE h[i - 1] \o part(i)]
    BY <2>2, <2>3
  <2>5. IsFold(h, m + 1)
    BY <2>4 DEF part
  <2>. QED  BY <2>5
<1>3. Len(steps) \in S
  <2>. HIDE DEF S
  <2>. QED  BY <1>1, <1>2, SetInduction
<1>4. PICK g : g = CHOOSE h : IsFold(h, Len(steps))
  OBVIOUS
<1>5. IsFold(g, Len(steps))
  BY <1>3, <1>4
<1>6. StillPending(steps, covered) = g[Len(steps)]
  BY <1>4 DEF StillPending
<1>7. /\ g[0] = <<>>
      /\ \A i \in 1..Len(steps) :
            g[i] = g[i - 1] \o (IF steps[i] \in covered THEN <<>> ELSE <<steps[i]>>)
  BY <1>5
<1>8. ConcatOf(g, Len(steps), WaiterPieces(steps, covered))
  BY <1>7 DEF ConcatOf, WaiterPieces
<1>. QED  BY <1>6, <1>8

(* What a concatenation of lists holds. *)
LEMMA Pieces ==
    ASSUME NEW T, NEW n, NEW piece, NEW g, PiecesIn(piece, n, T), ConcatOf(g, n, piece)
    PROVE  /\ g[n] \in Seq(T)
           /\ \A i \in 1..n : \A k \in DOMAIN piece[i] :
                 \E j \in DOMAIN g[n] : g[n][j] = piece[i][k]
<1>0. /\ n \in Nat /\ \A i \in 1..n : piece[i] \in Seq(T)
      /\ g[0] = <<>> /\ \A i \in 1..n : g[i] = g[i - 1] \o piece[i]
  BY DEF PiecesIn, ConcatOf
<1>. DEFINE HoldsAll(m) == /\ g[m] \in Seq(T)
                         /\ \A i \in 1..m : \A k \in DOMAIN piece[i] :
                               \E j \in DOMAIN g[m] : g[m][j] = piece[i][k]
            S == {m \in Nat : m <= n => HoldsAll(m)}
<1>1. 0 \in S
  <2>1. g[0] \in Seq(T) /\ 1..0 = {}
    BY <1>0
  <2>. QED  BY <2>1
<1>2. ASSUME NEW m \in Nat, m \in S PROVE m + 1 \in S
  <2>. SUFFICES ASSUME m + 1 <= n PROVE HoldsAll(m + 1)
    OBVIOUS
  <2>1. HoldsAll(m) /\ m + 1 \in 1..n
    BY <1>0, <1>2
  <2>9. (m + 1) - 1 = m
    OBVIOUS
  <2>2. g[m + 1] = g[m] \o piece[m + 1] /\ piece[m + 1] \in Seq(T)
    <3>1. g[m + 1] = g[(m + 1) - 1] \o piece[m + 1]
      BY <1>0, <2>1, Zenon
    <3>2. piece[m + 1] \in Seq(T)
      BY <1>0, <2>1, Zenon
    <3>. QED  BY <2>9, <3>1, <3>2, Zenon
  <2>3. PICK a, b, c : a = g[m] /\ b = piece[m + 1] /\ c = g[m + 1]
    OBVIOUS
  <2>4. a \in Seq(T) /\ b \in Seq(T) /\ c = a \o b
    BY <2>1, <2>2, <2>3
  <2>5. c \in Seq(T) /\ Len(c) = Len(a) + Len(b)
    BY <2>4
  <2>6. \A j \in DOMAIN a : j \in DOMAIN c /\ c[j] = a[j]
    BY <2>4
  <2>7. \A k \in DOMAIN b : Len(a) + k \in DOMAIN c /\ c[Len(a) + k] = b[k]
    BY <2>4
  <2>8. ASSUME NEW i \in 1..(m + 1), NEW k \in DOMAIN piece[i]
        PROVE  \E j \in DOMAIN c : c[j] = piece[i][k]
    <3>1. CASE i = m + 1
      BY <2>3, <2>7, <3>1
    <3>2. CASE i \in 1..m
      <4>1. PICK j \in DOMAIN a : a[j] = piece[i][k]
        BY <2>1, <2>3, <3>2
      <4>. QED  BY <2>6, <4>1
    <3>. QED  BY <3>1, <3>2
  <2>. QED  BY <2>3, <2>5, <2>8
<1>3. n \in S
  <2>. HIDE DEF S
  <2>. QED  BY <1>0, <1>1, <1>2, SetInduction
<1>. QED  BY <1>0, <1>3

(* The record of a step that has one. *)
LEMMA StepRecord ==
    ASSUME NEW step \in RecordingSteps, NEW provenance
    PROVE  /\ RecordStep(step, provenance) = <<Entry(StepItem(step), provenance)>>
           /\ StepItem(step) \in Items
BY DEF RecordStep, RecordingSteps, StepItem, Items

(* The records of a list: one for each of its steps that is meant. *)
LEMMA RecordsAre ==
    ASSUME NEW steps \in Seq(RecordingSteps), NEW among, NEW provenance \in {"created", "unknown"}
    PROVE  /\ RecordSteps(steps, among, provenance) \in Seq(LedgerEntries)
           /\ \A i \in DOMAIN RecordSteps(steps, among, provenance) :
                 RecordSteps(steps, among, provenance)[i].provenance = provenance
           /\ \A i \in DOMAIN steps : steps[i] \in among =>
                 Recorded(RecordSteps(steps, among, provenance), StepItem(steps[i]))
<1>. DEFINE T == [item : Items, provenance : {provenance}]
<1>. DEFINE n == Len(steps)
<1>2. n \in Nat /\ DOMAIN steps = 1..n /\ \A i \in 1..n : steps[i] \in RecordingSteps
  OBVIOUS
<1>3. PICK g : /\ ConcatOf(g, n, RecordPieces(steps, among, provenance))
               /\ RecordSteps(steps, among, provenance) = g[n]
  BY <1>2, RecordStepsIs
<1>4. PICK piece : piece = RecordPieces(steps, among, provenance)
  OBVIOUS
<1>5. \A i \in 1..n : piece[i] = IF steps[i] \in among THEN RecordStep(steps[i], provenance) ELSE <<>>
  BY <1>4 DEF RecordPieces
<1>. HIDE DEF n
<1>6. \A i \in 1..n : piece[i] \in Seq(T)
  <2>. SUFFICES ASSUME NEW i \in 1..n PROVE piece[i] \in Seq(T)
    OBVIOUS
  <2>1. CASE steps[i] \in among
    <3>1. piece[i] = <<Entry(StepItem(steps[i]), provenance)>>
      BY <1>2, <1>5, <2>1, StepRecord
    <3>2. Entry(StepItem(steps[i]), provenance) \in T
      BY <1>2, StepRecord DEF Entry
    <3>. QED  BY <3>1, <3>2
  <2>2. CASE steps[i] \notin among
    <3>1. piece[i] = <<>>
      BY <1>5, <2>2, Zenon
    <3>. QED  BY <3>1
  <2>. QED  BY <2>1, <2>2
<1>7. /\ g[n] \in Seq(T)
      /\ \A i \in 1..n : \A k \in DOMAIN piece[i] : \E j \in DOMAIN g[n] : g[n][j] = piece[i][k]
  <2>. HIDE DEF T
  <2>1. PiecesIn(piece, n, T) /\ ConcatOf(g, n, piece)
    BY <1>2, <1>3, <1>4, <1>6 DEF PiecesIn
  <2>. QED  BY <2>1, Pieces
<1>8. g[n] \in Seq(LedgerEntries)
  <2>1. T \subseteq LedgerEntries
    BY DEF LedgerEntries
  <2>. HIDE DEF T
  <2>. QED  BY <1>7, <2>1
<1>9. \A i \in DOMAIN g[n] : g[n][i].provenance = provenance
  <2>1. \A t \in T : t.provenance = provenance
    OBVIOUS
  <2>2. \A i \in DOMAIN g[n] : g[n][i] \in T
    <3>. HIDE DEF T
    <3>. QED  BY <1>7
  <2>. QED  BY <2>1, <2>2, Zenon
<1>10. ASSUME NEW i \in DOMAIN steps, steps[i] \in among PROVE Recorded(g[n], StepItem(steps[i]))
  <2>1. piece[i] = <<Entry(StepItem(steps[i]), provenance)>>
    BY <1>2, <1>5, <1>10, StepRecord
  <2>2. 1 \in DOMAIN piece[i] /\ piece[i][1].item = StepItem(steps[i])
    BY <2>1 DEF Entry
  <2>3. \E j \in DOMAIN g[n] : g[n][j] = piece[i][1]
    BY <1>2, <1>7, <2>2
  <2>. QED  BY <2>2, <2>3 DEF Recorded
<1>. QED  BY <1>3, <1>8, <1>9, <1>10

(* The steps that go on waiting: those of the list that are not covered. *)
LEMMA WaitersAre ==
    ASSUME NEW T, NEW steps \in Seq(T), NEW covered
    PROVE  /\ StillPending(steps, covered) \in Seq(T \ covered)
           /\ \A i \in DOMAIN steps : steps[i] \notin covered =>
                 Awaited(StillPending(steps, covered), StepItem(steps[i]))
<1>. DEFINE n == Len(steps)
<1>2. n \in Nat /\ DOMAIN steps = 1..n /\ \A i \in 1..n : steps[i] \in T
  OBVIOUS
<1>3. PICK g : ConcatOf(g, n, WaiterPieces(steps, covered)) /\ StillPending(steps, covered) = g[n]
  BY <1>2, StillPendingIs
<1>4. PICK piece : piece = WaiterPieces(steps, covered)
  OBVIOUS
<1>5. \A i \in 1..n : piece[i] = IF steps[i] \in covered THEN <<>> ELSE <<steps[i]>>
  BY <1>4 DEF WaiterPieces
<1>. HIDE DEF n
<1>6. \A i \in 1..n : piece[i] \in Seq(T \ covered)
  <2>. SUFFICES ASSUME NEW i \in 1..n PROVE piece[i] \in Seq(T \ covered)
    OBVIOUS
  <2>1. CASE steps[i] \in covered
    <3>1. piece[i] = <<>>
      BY <1>5, <2>1, Zenon
    <3>. QED  BY <3>1
  <2>2. CASE steps[i] \notin covered
    <3>1. piece[i] = <<steps[i]>> /\ steps[i] \in T \ covered
      BY <1>2, <1>5, <2>2, Zenon
    <3>. QED  BY <3>1
  <2>. QED  BY <2>1, <2>2
<1>7. /\ g[n] \in Seq(T \ covered)
      /\ \A i \in 1..n : \A k \in DOMAIN piece[i] : \E j \in DOMAIN g[n] : g[n][j] = piece[i][k]
  <2>1. PiecesIn(piece, n, T \ covered) /\ ConcatOf(g, n, piece)
    BY <1>2, <1>3, <1>4, <1>6 DEF PiecesIn
  <2>. QED  BY <2>1, Pieces
<1>8. ASSUME NEW i \in DOMAIN steps, steps[i] \notin covered PROVE Awaited(g[n], StepItem(steps[i]))
  <2>0. piece[i] = <<steps[i]>>
    BY <1>2, <1>5, <1>8, Zenon
  <2>1. 1 \in DOMAIN piece[i] /\ piece[i][1] = steps[i]
    BY <2>0
  <2>2. \E j \in DOMAIN g[n] : g[n][j] = piece[i][1]
    BY <1>2, <1>7, <2>1
  <2>. QED  BY <2>1, <2>2 DEF Awaited
<1>. QED  BY <1>3, <1>7, <1>8

(* A step is recorded or goes on waiting, never both. *)
LEMMA RecordsAndWaiters ==
    ASSUME NEW steps \in Seq(RecordingSteps), NEW among, NEW provenance \in {"created", "unknown"}
    PROVE  Len(RecordSteps(steps, among, provenance)) + Len(StillPending(steps, among)) = Len(steps)
<1>. DEFINE n == Len(steps)
<1>2. n \in Nat /\ DOMAIN steps = 1..n /\ \A i \in 1..n : steps[i] \in RecordingSteps
  OBVIOUS
<1>3. PICK g : /\ ConcatOf(g, n, RecordPieces(steps, among, provenance))
               /\ RecordSteps(steps, among, provenance) = g[n]
  BY <1>2, RecordStepsIs
<1>4. PICK h : ConcatOf(h, n, WaiterPieces(steps, among)) /\ StillPending(steps, among) = h[n]
  BY <1>2, StillPendingIs
<1>9. /\ g[0] = <<>> /\ h[0] = <<>>
      /\ \A i \in 1..n :
            /\ g[i] = g[i - 1] \o (IF steps[i] \in among THEN RecordStep(steps[i], provenance) ELSE <<>>)
            /\ h[i] = h[i - 1] \o (IF steps[i] \in among THEN <<>> ELSE <<steps[i]>>)
  BY <1>3, <1>4 DEF ConcatOf, RecordPieces, WaiterPieces
<1>. HIDE DEF n
<1>. DEFINE Sums(m) == /\ g[m] \in Seq(LedgerEntries) /\ h[m] \in Seq(RecordingSteps)
                       /\ Len(g[m]) + Len(h[m]) = m
            S == {m \in Nat : m <= n => Sums(m)}
<1>5. 0 \in S
  <2>1. /\ g[0] \in Seq(LedgerEntries) /\ h[0] \in Seq(RecordingSteps) /\ Len(g[0]) = 0
        /\ Len(h[0]) = 0
    BY <1>9
  <2>2. Sums(0)
    BY <2>1
  <2>. HIDE DEF Sums
  <2>. QED  BY <2>2
<1>6. ASSUME NEW m \in Nat, m \in S PROVE m + 1 \in S
  <2>. SUFFICES ASSUME m + 1 <= n PROVE Sums(m + 1)
    <3>. HIDE DEF Sums
    <3>. QED  OBVIOUS
  <2>1. Sums(m) /\ m + 1 \in 1..n /\ (m + 1) - 1 = m
    <3>. HIDE DEF Sums
    <3>. QED  BY <1>2, <1>6
  <2>2. /\ g[m + 1] = g[m] \o (IF steps[m + 1] \in among THEN RecordStep(steps[m + 1], provenance) ELSE <<>>)
        /\ h[m + 1] = h[m] \o (IF steps[m + 1] \in among THEN <<>> ELSE <<steps[m + 1]>>)
    BY <1>9, <2>1, Zenon
  <2>3. PICK a, b, s : a = g[m] /\ b = h[m] /\ s = steps[m + 1]
    OBVIOUS
  <2>4. /\ a \in Seq(LedgerEntries) /\ b \in Seq(RecordingSteps) /\ Len(a) + Len(b) = m
        /\ s \in RecordingSteps
    BY <1>2, <2>1, <2>3
  <2>5. CASE s \in among
    <3>1. PICK e : e = Entry(StepItem(s), provenance)
      OBVIOUS
    <3>2. e \in LedgerEntries
      BY <2>4, <3>1, StepRecord DEF Entry, LedgerEntries
    <3>3. g[m + 1] = a \o <<e>> /\ h[m + 1] = b \o <<>>
      BY <2>2, <2>3, <2>4, <2>5, <3>1, StepRecord
    <3>4. a \o <<e>> \in Seq(LedgerEntries) /\ Len(a \o <<e>>) = Len(a) + 1 /\ b \o <<>> = b
      BY <2>4, <3>2
    <3>5. Len(a) \in Nat /\ Len(b) \in Nat
      BY <2>4
    <3>. QED  BY <2>4, <3>3, <3>4, <3>5
  <2>6. CASE s \notin among
    <3>1. g[m + 1] = a \o <<>> /\ h[m + 1] = b \o <<s>>
      BY <2>2, <2>3, <2>6
    <3>2. b \o <<s>> \in Seq(RecordingSteps) /\ Len(b \o <<s>>) = Len(b) + 1 /\ a \o <<>> = a
      BY <2>4
    <3>3. Len(a) \in Nat /\ Len(b) \in Nat
      BY <2>4
    <3>. QED  BY <2>4, <3>1, <3>2, <3>3
  <2>. QED  BY <2>5, <2>6
<1>7. n \in S
  <2>. HIDE DEF S
  <2>. QED  BY <1>2, <1>5, <1>6, SetInduction
<1>8. Sums(n)
  <2>. HIDE DEF Sums
  <2>. QED  BY <1>2, <1>7
<1>. QED  BY <1>3, <1>4, <1>8 DEF n

-----------------------------------------------------------------------------
(* The numbers of the operations, and what each has to do with the items.  *)

(* The numbers of each item. *)
LEMMA ItemTable ==
    ASSUME NEW item \in Items
    PROVE
      \/ item = "staging" /\ WrittenAt(item) = 0 /\ NotedAt(item) = 1 /\ EstablishedAt(item) = 1
      \/ item = "bundle" /\ WrittenAt(item) = 1 /\ NotedAt(item) = 4 /\ EstablishedAt(item) = 4
      \/ item = "package" /\ WrittenAt(item) = 4 /\ NotedAt(item) = 6 /\ EstablishedAt(item) = 7
      \/ item = "staged-configuration" /\ WrittenAt(item) = 7 /\ NotedAt(item) = 10 /\ EstablishedAt(item) = 10
      \/ item = "configuration" /\ WrittenAt(item) = 10 /\ NotedAt(item) = 11 /\ EstablishedAt(item) = 16
      \/ item = "state" /\ WrittenAt(item) = 11 /\ NotedAt(item) = 12 /\ EstablishedAt(item) = 16
      \/ item = "sources" /\ WrittenAt(item) = 12 /\ NotedAt(item) = 13 /\ EstablishedAt(item) = 16
      \/ item = "authority" /\ WrittenAt(item) = 13 /\ NotedAt(item) = 14 /\ EstablishedAt(item) = 14
      \/ item = "reader" /\ WrittenAt(item) = 14 /\ NotedAt(item) = 15 /\ EstablishedAt(item) = 16
      \/ item = "unit" /\ WrittenAt(item) = 16 /\ NotedAt(item) = 17 /\ EstablishedAt(item) = 18
<1>1. CASE item = "staging"
  BY <1>1 DEF WrittenAt, NotedAt, EstablishedAt
<1>2. CASE item = "bundle"
  BY <1>2 DEF WrittenAt, NotedAt, EstablishedAt
<1>3. CASE item = "package"
  BY <1>3 DEF WrittenAt, NotedAt, EstablishedAt
<1>4. CASE item = "staged-configuration"
  BY <1>4 DEF WrittenAt, NotedAt, EstablishedAt
<1>5. CASE item = "configuration"
  BY <1>5 DEF WrittenAt, NotedAt, EstablishedAt
<1>6. CASE item = "state"
  BY <1>6 DEF WrittenAt, NotedAt, EstablishedAt
<1>7. CASE item = "sources"
  BY <1>7 DEF WrittenAt, NotedAt, EstablishedAt
<1>8. CASE item = "authority"
  BY <1>8 DEF WrittenAt, NotedAt, EstablishedAt
<1>9. CASE item = "reader"
  BY <1>9 DEF WrittenAt, NotedAt, EstablishedAt
<1>10. CASE item = "unit"
  BY <1>10 DEF WrittenAt, NotedAt, EstablishedAt
<1>. QED  BY <1>1, <1>2, <1>3, <1>4, <1>5, <1>6, <1>7, <1>8, <1>9, <1>10, Zenon DEF Items

(* What each operation writes. *)
LEMMA WriteSets ==
    /\ Writes("mkdir") = {"staging"} /\ Writes("put-bundle") = {"bundle"} /\ Writes("size") = {}
    /\ Writes("digest") = {} /\ Writes("dpkg") = {"package"} /\ Writes("reload") = {}
    /\ Writes("package") = {} /\ Writes("put-configuration") = {"staged-configuration"}
    /\ Writes("place-configuration") = {"configuration"} /\ Writes("create-state") = {"state"}
    /\ Writes("create-sources") = {"sources"} /\ Writes("controller-init") = {"authority"}
    /\ Writes("mint-reader") = {"reader"} /\ Writes("nodes") = {}
    /\ Writes("enable-unit") = {"unit"} /\ Writes("unit") = {}
BY DEF Writes

(* An operation writes the items that have its number. *)
LEMMA WritesAt ==
    ASSUME NEW p \in Positions, NEW item \in Items
    PROVE  item \in Writes(OpAt(p)) <=> WrittenAt(item) = DoneAt(p)
BY OpTable, ItemTable, WriteSets

ActNames == {"dpkg", "reload", "place-configuration", "create-state", "create-sources",
             "controller-init", "mint-reader", "enable-unit"}

(* The acts, and the last one of each step. *)
LEMMA ActTable ==
    ASSUME NEW p \in Positions
    PROVE  /\ (\E i \in DOMAIN Acts(StepAt(p)) : Acts(StepAt(p))[i] = OpAt(p)) => OpAt(p) \in ActNames
           /\ OpAt(p) \in ActNames => (LastAct(StepAt(p), OpAt(p)) <=> OpAt(p) # "dpkg")
<1>1. PICK step, op : step = StepAt(p) /\ op = OpAt(p)
  OBVIOUS
<1>2. CASE step = "InstallPackage"
  <2>1. Acts(step) = <<"dpkg", "reload">>
    BY <1>2 DEF Acts
  <2>2. op \in {"dpkg", "reload", "package"}
    BY <1>1, <1>2, OpTable
  <2>3. LastAct(step, op) <=> op = "reload"
    BY <2>1 DEF LastAct
  <2>4. (\E i \in DOMAIN Acts(step) : Acts(step)[i] = op) => op \in {"dpkg", "reload"}
    BY <2>1
  <2>. QED  BY <1>1, <2>2, <2>3, <2>4 DEF ActNames
<1>3. CASE step \in RecordingSteps \ {"InstallPackage"}
  <2>1. PICK act \in ActNames : act # "dpkg" /\ Acts(step) = <<act>>
    BY <1>3 DEF Acts, ActNames, RecordingSteps
  <2>2. op \in ActNames => op = act
    BY <1>1, <1>3, <2>1, OpTable DEF ActNames, RecordingSteps, Acts
  <2>3. LastAct(step, op) <=> op = act
    BY <2>1 DEF LastAct
  <2>4. (\E i \in DOMAIN Acts(step) : Acts(step)[i] = op) => op = act
    BY <2>1
  <2>. QED  BY <1>1, <2>1, <2>2, <2>3, <2>4
<1>4. CASE step = "TransferBundle"
  <2>1. Acts(step) = <<>>
    BY <1>4 DEF Acts
  <2>2. op \notin ActNames
    BY <1>1, <1>4, OpTable DEF ActNames
  <2>3. ~(\E i \in DOMAIN Acts(step) : Acts(step)[i] = op)
    BY <2>1
  <2>. QED  BY <1>1, <2>2, <2>3
<1>5. step \in RecordingSteps \union {"TransferBundle"}
  BY <1>1, OpTable DEF RecordingSteps
<1>. QED  BY <1>2, <1>3, <1>4, <1>5

(* What the operations of a step write is what the step writes. *)
LEMMA StepWriteSets ==
    /\ "staging" \in StepWrites("TransferBundle")
    /\ "bundle" \in StepWrites("TransferBundle")
    /\ "package" \in StepWrites("InstallPackage")
    /\ "staged-configuration" \in StepWrites("WriteMachineConfiguration")
    /\ "configuration" \in StepWrites("WriteMachineConfiguration")
    /\ "state" \in StepWrites("CreateState")
    /\ "sources" \in StepWrites("InstallCredentialSources")
    /\ "authority" \in StepWrites("InitialiseController")
    /\ "reader" \in StepWrites("MintReaderIdentity")
    /\ "unit" \in StepWrites("ActivateController")
<1>1. "staging" \in StepWrites("TransferBundle") /\ "bundle" \in StepWrites("TransferBundle")
  <2>1. Program("TransferBundle") = <<"mkdir", "put-bundle", "size", "digest">>
    BY Programs, Zenon
  <2>. QED  BY <2>1, WriteSets DEF StepWrites
<1>2. "package" \in StepWrites("InstallPackage")
  <2>1. Program("InstallPackage") = <<"dpkg", "reload", "package">>
    BY Programs, Zenon
  <2>. QED  BY <2>1, WriteSets DEF StepWrites
<1>3. /\ "staged-configuration" \in StepWrites("WriteMachineConfiguration")
      /\ "configuration" \in StepWrites("WriteMachineConfiguration")
  <2>1. Program("WriteMachineConfiguration") = <<"put-configuration", "size", "digest", "place-configuration">>
    BY Programs, Zenon
  <2>. QED  BY <2>1, WriteSets DEF StepWrites
<1>4. "state" \in StepWrites("CreateState")
  <2>1. Program("CreateState") = <<"create-state">>
    BY Programs, Zenon
  <2>. QED  BY <2>1, WriteSets DEF StepWrites
<1>5. "sources" \in StepWrites("InstallCredentialSources")
  <2>1. Program("InstallCredentialSources") = <<"create-sources">>
    BY Programs, Zenon
  <2>. QED  BY <2>1, WriteSets DEF StepWrites
<1>6. "authority" \in StepWrites("InitialiseController")
  <2>1. Program("InitialiseController") = <<"controller-init">>
    BY Programs, Zenon
  <2>. QED  BY <2>1, WriteSets DEF StepWrites
<1>7. "reader" \in StepWrites("MintReaderIdentity")
  <2>1. Program("MintReaderIdentity") = <<"mint-reader", "nodes">>
    BY Programs, Zenon
  <2>. QED  BY <2>1, WriteSets DEF StepWrites
<1>8. "unit" \in StepWrites("ActivateController")
  <2>1. Program("ActivateController") = <<"enable-unit", "unit">>
    BY Programs, Zenon
  <2>. QED  BY <2>1, WriteSets DEF StepWrites
<1>. QED  BY <1>1, <1>2, <1>3, <1>4, <1>5, <1>6, <1>7, <1>8

(* What is written and not yet noted belongs to the step under way. *)
LEMMA DueTable ==
    ASSUME NEW p \in Positions, NEW item \in Items,
           WrittenAt(item) <= DoneAt(p), ~(NotedAt(item) <= DoneAt(p))
    PROVE  /\ OpAt(p) \notin {"package", "nodes", "unit"}
           /\ OpAt(p) = "mkdir" => item = "staging"
           /\ OpAt(p) = "digest" => item = Measured(StepAt(p))
           /\ OpAt(p) \in ActNames => item = StepItem(StepAt(p))
           /\ item \in StepWrites(StepAt(p))
<1>1. /\ OpAt(p) \notin {"package", "nodes", "unit"}
      /\ OpAt(p) = "mkdir" => item = "staging"
  BY OpTable, ItemTable
<1>2. OpAt(p) = "digest" => item = Measured(StepAt(p))
  BY OpTable, ItemTable DEF Measured
<1>3. OpAt(p) \in ActNames => item = StepItem(StepAt(p))
  BY OpTable, ItemTable DEF StepItem, ActNames
<1>4. item \in StepWrites(StepAt(p))
  BY OpTable, ItemTable, StepWriteSets
<1>. QED  BY <1>1, <1>2, <1>3, <1>4

(* What an operation that is done has noted, besides what was noted before. *)
LEMMA NoteTable ==
    ASSUME NEW p \in Positions, NEW item \in Items,
           NotedAt(item) <= DoneAt(p) + 1, ~(NotedAt(item) <= DoneAt(p))
    PROVE  \/ OpAt(p) = "mkdir" /\ item = "staging"
           \/ OpAt(p) = "digest" /\ item = Measured(StepAt(p))
           \/ OpAt(p) \in ActNames \ {"dpkg"} /\ item = StepItem(StepAt(p))
BY OpTable, ItemTable DEF StepItem, Measured, ActNames

(* And what it has established. *)
LEMMA EstablishTable ==
    ASSUME NEW p \in Positions, NEW item \in Items,
           EstablishedAt(item) <= DoneAt(p) + 1
    PROVE  \/ EstablishedAt(item) <= DoneAt(p) /\ WrittenAt(item) # DoneAt(p)
           \/ OpAt(p) \in {"mkdir", "controller-init"} /\ item \in Writes(OpAt(p))
           \/ OpAt(p) = "digest" /\ item = Measured(StepAt(p))
           \/ OpAt(p) = "package" /\ item = "package"
           \/ OpAt(p) = "nodes" /\ item \in {"configuration", "state", "sources", "reader"}
           \/ OpAt(p) = "unit" /\ item = "unit"
BY OpTable, ItemTable, WriteSets DEF Measured

(* The entries and the steps that wait, from an operation to the next. *)
LEMMA CountTable ==
    ASSUME NEW p \in Positions
    PROVE  /\ OpAt(p) \in {"mkdir", "digest"} \union (ActNames \ {"dpkg"}) =>
                  NotesBefore(DoneAt(p) + 1) = NotesBefore(DoneAt(p)) + 1
           /\ NotesBefore(DoneAt(p)) <= NotesBefore(DoneAt(p) + 1)
           /\ NotesBefore(DoneAt(p)) \in 0..10 /\ NotesBefore(DoneAt(p) + 1) \in 0..10
           /\ OpAt(p) \notin {"package", "nodes", "unit"} => Waits(DoneAt(p)) \subseteq Waits(DoneAt(p) + 1)
           /\ OpAt(p) \in {"package", "nodes", "unit"} => Waits(DoneAt(p)) \ CoveredBy(OpAt(p)) = {}
           /\ Waits(DoneAt(p)) \subseteq RecordingSteps
           /\ OpAt(p) \in ActNames \ {"dpkg", "controller-init"} => StepAt(p) \in Waits(DoneAt(p) + 1)
           /\ OpAt(p) \in ActNames => StepAt(p) \in RecordingSteps
<1>1. /\ OpAt(p) \in {"mkdir", "digest"} \union (ActNames \ {"dpkg"}) =>
            NotesBefore(DoneAt(p) + 1) = NotesBefore(DoneAt(p)) + 1
      /\ NotesBefore(DoneAt(p)) <= NotesBefore(DoneAt(p) + 1)
      /\ NotesBefore(DoneAt(p)) \in 0..10 /\ NotesBefore(DoneAt(p) + 1) \in 0..10
  BY OpTable DEF ActNames, NotesBefore
<1>2. OpAt(p) \notin {"package", "nodes", "unit"} => Waits(DoneAt(p)) \subseteq Waits(DoneAt(p) + 1)
  BY OpTable DEF Waits
<1>3. OpAt(p) \in {"package", "nodes", "unit"} => Waits(DoneAt(p)) \ CoveredBy(OpAt(p)) = {}
  BY OpTable DEF Waits, CoveredBy
<1>4. Waits(DoneAt(p)) \subseteq RecordingSteps
  BY OpTable DEF Waits, RecordingSteps
<1>5. OpAt(p) \in ActNames \ {"dpkg", "controller-init"} => StepAt(p) \in Waits(DoneAt(p) + 1)
  BY OpTable DEF ActNames, Waits
<1>6. OpAt(p) \in ActNames => StepAt(p) \in RecordingSteps
  BY OpTable DEF ActNames, RecordingSteps
<1>. QED  BY <1>1, <1>2, <1>3, <1>4, <1>5, <1>6

-----------------------------------------------------------------------------
(* One operation of the sequence.                                          *)

(* What a command leaves: only what it is for, and exactly that of a command *)
(* that makes something new.                                                 *)
LEMMA LeftIs ==
    ASSUME target \in TargetStates, NEW op, NEW exit, NEW t \in Left(op, exit)
    PROVE  /\ t \in TargetStates
           /\ \A item \in Items : item \notin Writes(op) => t[item] = target[item]
           /\ op = "mkdir" /\ exit = "failed" => t = target
           /\ exit = "done" /\ Exclusive(op) /\ ~Taken(op) =>
                 \A item \in Items : item \in Writes(op) => t[item] = "right"
<1>1. CASE t = target
  <2>1. exit = "done" /\ Exclusive(op) /\ ~Taken(op) => op # "mkdir" \/ exit # "failed"
    OBVIOUS
  <2>2. ASSUME exit = "done", Exclusive(op), ~Taken(op), NEW item \in Items, item \in Writes(op)
        PROVE  t[item] = "right"
    <3>1. PICK v \in {"right"} : t = [i \in Items |-> IF i \in Writes(op) THEN v ELSE target[i]]
      BY <2>2, Zenon DEF Left
    <3>. QED  BY <2>2, <3>1
  <2>. QED  BY <1>1, <2>2
<1>2. CASE t # target
  <2>1. /\ Writes(op) # {} /\ ~Taken(op) /\ ~(op = "mkdir" /\ exit = "failed")
    BY <1>2 DEF Left
  <2>2. PICK v \in IF exit = "done" /\ Exclusive(op) THEN {"right"} ELSE {"right", "wrong"} :
            t = [i \in Items |-> IF i \in Writes(op) THEN v ELSE target[i]]
    BY <1>2, <2>1 DEF Left
  <2>. QED  BY <2>1, <2>2 DEF TargetStates
<1>. QED  BY <1>1, <1>2

\* A target that differs from another only in what an operation writes.
OnlyWrote(t, u, op) == \A item \in Items : item \notin Writes(op) => t[item] = u[item]

(* What is not written yet is still as it was found. *)
LEMMA StaysUnwritten ==
    ASSUME NEW p \in Positions, NEW t, NEW u, NEW f, Unwritten(u, f, DoneAt(p)),
           OnlyWrote(t, u, OpAt(p))
    PROVE  /\ Unwritten(t, f, DoneAt(p) + 1)
           /\ \A item \in Items : t[item] # f[item] => WrittenAt(item) <= DoneAt(p)
<1>1. ASSUME NEW item \in Items, t[item] # f[item] PROVE WrittenAt(item) <= DoneAt(p)
  <2>1. PICK w, d : w = WrittenAt(item) /\ d = DoneAt(p)
    OBVIOUS
  <2>2. w \in Nat /\ d \in Nat
    BY <2>1, ItemTable, SequenceTable
  <2>3. CASE item \in Writes(OpAt(p))
    BY <2>1, <2>2, <2>3, WritesAt
  <2>4. CASE item \notin Writes(OpAt(p))
    BY <1>1, <2>1, <2>2, <2>4 DEF OnlyWrote, Unwritten
  <2>. QED  BY <2>3, <2>4
<1>2. ASSUME NEW item \in Items, DoneAt(p) + 1 <= WrittenAt(item) PROVE t[item] = f[item]
  <2>1. PICK w, d : w = WrittenAt(item) /\ d = DoneAt(p)
    OBVIOUS
  <2>2. w \in Nat /\ d \in Nat
    BY <2>1, ItemTable, SequenceTable
  <2>. QED  BY <1>1, <1>2, <2>1, <2>2
<1>. QED  BY <1>1, <1>2 DEF Unwritten

(* What was read to be right stays right, and so is what this operation read. *)
LEMMA StaysEstablished ==
    ASSUME NEW p \in Positions, NEW t, NEW u, Established(u, DoneAt(p)),
           OnlyWrote(t, u, OpAt(p)),
           OpAt(p) \in {"mkdir", "controller-init"} =>
               \A item \in Items : item \in Writes(OpAt(p)) => t[item] = "right",
           OpAt(p) = "digest" => t[Measured(StepAt(p))] = "right",
           OpAt(p) = "package" => t["package"] = "right",
           OpAt(p) = "nodes" => \A item \in {"configuration", "state", "sources", "reader"} : t[item] = "right",
           OpAt(p) = "unit" => t["unit"] = "right"
    PROVE  Established(t, DoneAt(p) + 1)
<1>1. ASSUME NEW item \in Items, EstablishedAt(item) <= DoneAt(p) + 1 PROVE t[item] = "right"
  <2>1. \/ EstablishedAt(item) <= DoneAt(p) /\ WrittenAt(item) # DoneAt(p)
        \/ OpAt(p) \in {"mkdir", "controller-init"} /\ item \in Writes(OpAt(p))
        \/ OpAt(p) = "digest" /\ item = Measured(StepAt(p))
        \/ OpAt(p) = "package" /\ item = "package"
        \/ OpAt(p) = "nodes" /\ item \in {"configuration", "state", "sources", "reader"}
        \/ OpAt(p) = "unit" /\ item = "unit"
    BY <1>1, EstablishTable
  <2>2. CASE EstablishedAt(item) <= DoneAt(p) /\ WrittenAt(item) # DoneAt(p)
    BY <2>2, WritesAt DEF OnlyWrote, Established
  <2>. QED  BY <2>1, <2>2
<1>. QED  BY <1>1 DEF Established

(* A longer ledger still records what a shorter one did. *)
LEMMA RecordedStays ==
    ASSUME NEW l \in Seq(LedgerEntries), NEW m \in Seq(LedgerEntries)
    PROVE  /\ l \o m \in Seq(LedgerEntries) /\ Len(l \o m) = Len(l) + Len(m)
           /\ \A item : Recorded(l, item) => Recorded(l \o m, item)
           /\ \A item : Recorded(m, item) => Recorded(l \o m, item)
           /\ AllCreated(l) /\ AllCreated(m) => AllCreated(l \o m)
<1>1. PICK c : c = l \o m
  OBVIOUS
<1>2. /\ c \in Seq(LedgerEntries) /\ Len(c) = Len(l) + Len(m)
      /\ \A j \in DOMAIN l : j \in DOMAIN c /\ c[j] = l[j]
      /\ \A k \in DOMAIN m : Len(l) + k \in DOMAIN c /\ c[Len(l) + k] = m[k]
  BY <1>1
<1>3. \A j \in DOMAIN c : j \in DOMAIN l \/ (j - Len(l) \in DOMAIN m /\ c[j] = m[j - Len(l)])
  BY <1>1
<1>4. \A item : Recorded(l, item) => Recorded(c, item)
  BY <1>2 DEF Recorded
<1>5. \A item : Recorded(m, item) => Recorded(c, item)
  BY <1>2 DEF Recorded
<1>6. AllCreated(l) /\ AllCreated(m) => AllCreated(c)
  BY <1>2, <1>3 DEF AllCreated
<1>. QED  BY <1>1, <1>2, <1>4, <1>5, <1>6

(* And so does one with an entry more; a step more among the waiting ones. *)
LEMMA OneMore ==
    ASSUME NEW l \in Seq(LedgerEntries), NEW e \in LedgerEntries
    PROVE  /\ Append(l, e) \in Seq(LedgerEntries) /\ Len(Append(l, e)) = Len(l) + 1
           /\ \A item : Recorded(l, item) => Recorded(Append(l, e), item)
           /\ Recorded(Append(l, e), e.item)
           /\ AllCreated(l) /\ e.provenance = "created" => AllCreated(Append(l, e))
<1>1. PICK c : c = Append(l, e)
  OBVIOUS
<1>2. /\ c \in Seq(LedgerEntries) /\ Len(c) = Len(l) + 1
      /\ \A j \in DOMAIN l : j \in DOMAIN c /\ c[j] = l[j]
      /\ Len(l) + 1 \in DOMAIN c /\ c[Len(l) + 1] = e
      /\ \A j \in DOMAIN c : j \in DOMAIN l \/ c[j] = e
  BY <1>1
<1>. QED  BY <1>1, <1>2 DEF Recorded, AllCreated

(* One more step waits to be established. *)
LEMMA OneMoreWaits ==
    ASSUME NEW T, NEW w \in Seq(T), NEW step \in T
    PROVE  /\ Append(w, step) \in Seq(T) /\ Len(Append(w, step)) = Len(w) + 1
           /\ \A item : Awaited(w, item) => Awaited(Append(w, step), item)
           /\ Awaited(Append(w, step), StepItem(step))
<1>1. PICK c : c = Append(w, step)
  OBVIOUS
<1>2. /\ c \in Seq(T) /\ Len(c) = Len(w) + 1
      /\ \A j \in DOMAIN w : j \in DOMAIN c /\ c[j] = w[j]
      /\ Len(w) + 1 \in DOMAIN c /\ c[Len(w) + 1] = step
  BY <1>1
<1>. QED  BY <1>1, <1>2 DEF Awaited

\* The operation done well: what is true of its number plus one.
Advanced(t, w, l, r) ==
    /\ Unwritten(t, found, DoneAt(at) + 1) /\ Noted(l, w, DoneAt(at) + 1)
    /\ Established(t, DoneAt(at) + 1) /\ Kept(l, w, DoneAt(at) + 1)
    /\ After(at).step <= 8 => AnswersSoFar(r, OpAt(After(at)))

(* The sequence goes on: to its next operation, or to its end. *)
LEMMA GoesOn ==
    ASSUME AccessInv, SequenceInv, pc = "drive", Frame, target' \in TargetStates,
           NEW w, NEW l, Advanced(target', w, l, readings'),
           pending' = w, ledger' = l, at' = After(at),
           \/ After(at).step = 9 /\ pc' = "drop" /\ ended' = "whole"
           \/ After(at).step <= 8 /\ pc' = "drive" /\ ended' = ended
    PROVE  SequenceInv'
<1>1. at \in Positions
  BY DEF AccessInv, InSequence
<1>2. /\ UNCHANGED <<platform, scope, expired, lease, exports, terminal, found>>
  BY DEF Frame
<1>3. InstallTyped'
  <2>1. pc' = "drive" => ended' = "no"
    BY DEF SequenceInv, InstallTyped
  <2>. QED  BY <1>2, <2>1 DEF SequenceInv, InstallTyped
<1>4. CASE After(at).step = 9 /\ pc' = "drop" /\ ended' = "whole"
  <2>1. DoneAt(at) + 1 = 18
    <3>1. at.step = 8 /\ at.op = 2
      BY <1>1, <1>4 DEF After, Positions, Costs
    <3>. QED  BY <3>1 DEF DoneAt, Before
  <2>2. \A item \in Items : target'[item] = "right"
    BY <2>1, ItemTable DEF Advanced, Established
  <2>3. l \in Seq(LedgerEntries) /\ w \in Seq({}) /\ AllCreated(l) /\ Len(l) + Len(w) <= 10
    <3>1. Waits(18) = {} /\ NotesBefore(18) = 10
      BY DEF Waits, NotesBefore
    <3>2. Kept(l, w, 18)
      BY <2>1 DEF Advanced
    <3>3. /\ l \in Seq(LedgerEntries) /\ AllCreated(l) /\ w \in Seq(Waits(18))
          /\ Len(l) + Len(w) <= NotesBefore(18)
      BY ONLY <3>2 DEF Kept
    <3>4. w \in Seq({})
      BY ONLY <3>1, <3>3, Zenon
    <3>5. Len(l) + Len(w) <= 10
      BY ONLY <3>1, <3>3, Zenon
    <3>. QED  BY <3>3, <3>4, <3>5, Zenon
  <2>4. WholeIs(target', ledger')
    <3>1. Len(l) \in Nat /\ Len(w) \in Nat
      BY <2>3
    <3>3. PICK a, b : a = Len(l) /\ b = Len(w)
      OBVIOUS
    <3>4. a \in Nat /\ b \in Nat /\ a + b <= 10
      BY <2>3, <3>1, <3>3
    <3>5. a \in 0..16
      BY ONLY <3>4
    <3>2. Len(l) \in 0..16
      BY <3>3, <3>5
    <3>. QED  BY <2>2, <2>3, <3>2 DEF WholeIs
  <2>5. \A item \in Items : Recorded(ledger', item)
    <3>1. \A item : ~Awaited(w, item)
      BY <2>3 DEF Awaited
    <3>2. \A item \in Items : Recorded(l, item) \/ Awaited(w, item)
      BY <2>1, ItemTable DEF Advanced, Noted
    <3>. QED  BY <3>1, <3>2
  <2>6. EffectsKept'
    BY <2>5 DEF EffectsKept, Accounted
  <2>7. EndedWhole'
    BY <1>4, <2>4 DEF EndedWhole
  <2>8. InProgress' /\ VerifiedIsWhole'
    BY <1>4 DEF InProgress, VerifiedIsWhole
  <2>. QED  BY <1>3, <2>6, <2>7, <2>8 DEF SequenceInv
<1>5. CASE After(at).step <= 8 /\ pc' = "drive" /\ ended' = ended
  <2>1. DoneAt(at') = DoneAt(at) + 1 /\ OpAt(at') = OpAt(After(at))
    BY <1>1, <1>5, SequenceTable
  <2>2. Progress(target', found', ledger', pending', readings', DoneAt(at'), OpAt(at'))
    BY <1>2, <1>5, <2>1 DEF Advanced, Progress
  <2>3. InProgress'
    BY <2>2 DEF InProgress
  <2>4. ended' = "no"
    BY <1>5 DEF SequenceInv, InstallTyped
  <2>5. EndedWhole' /\ EffectsKept' /\ VerifiedIsWhole'
    BY <1>5, <2>4 DEF EndedWhole, EffectsKept, VerifiedIsWhole
  <2>. QED  BY <1>3, <2>3, <2>5 DEF SequenceInv
<1>. QED  BY <1>4, <1>5

\* The reasons the sequence stops for.
Reasons == {"BudgetRefused", "Unanswered", "ActFailed", "Refused"}

(* The sequence stops: what it changed is recorded, or belongs to the step that *)
(* went unanswered.                                                             *)
LEMMA Stops ==
    ASSUME AccessInv, SequenceInv, pc = "drive", Frame, target' \in TargetStates,
           NEW reason \in Reasons, NEW w \in Seq(RecordingSteps), NEW l \in Seq(LedgerEntries),
           Stop(reason, w, l),
           \A item \in Items : target'[item] # found[item] =>
              Recorded(l, item) \/ Awaited(w, item)
              \/ (reason = "Unanswered" /\ item \in StepWrites(Step))
    PROVE  SequenceInv'
<1>1. UNCHANGED <<platform, scope, expired, lease, exports, terminal, found, at>>
  BY DEF Frame, Stop
<1>2. pc' = "drop" /\ ended' = reason
  BY DEF Stop
<1>3. InstallTyped'
  BY <1>1, <1>2 DEF SequenceInv, InstallTyped
<1>4. PICK all, m : all = {w[i] : i \in DOMAIN w} /\ m = RecordSteps(w, all, "unknown")
  OBVIOUS
<1>5. ledger' = l \o m
  BY <1>4 DEF Stop
<1>6. m \in Seq(LedgerEntries) /\ \A i \in DOMAIN w : Recorded(m, StepItem(w[i]))
  <2>1. \A i \in DOMAIN w : w[i] \in all
    BY <1>4
  <2>. QED  BY <1>4, <2>1, RecordsAre
<1>7. \A item : Awaited(w, item) => Recorded(m, item)
  BY <1>6 DEF Awaited
<1>8. \A item : Recorded(l, item) \/ Awaited(w, item) => Recorded(ledger', item)
  BY <1>5, <1>6, <1>7, RecordedStays
<1>9. Step' = Step
  BY <1>1 DEF Step, Planned
<1>10. Accounted(target', found', ledger', ended', Step')
  BY <1>1, <1>2, <1>8, <1>9 DEF Accounted
<1>11. EffectsKept'
  BY <1>10 DEF EffectsKept
<1>12. EndedWhole' /\ InProgress' /\ VerifiedIsWhole'
  BY <1>2 DEF EndedWhole, InProgress, VerifiedIsWhole, Reasons
<1>. QED  BY <1>3, <1>11, <1>12 DEF SequenceInv

(* What holds while the sequence is under way. *)
LEMMA UnderWay ==
    ASSUME AccessInv, SequenceInv, pc = "drive"
    PROVE  /\ at \in Positions /\ Step = StepAt(at) /\ Op = OpAt(at) /\ NextAt = After(at)
           /\ target \in TargetStates /\ ended = "no"
           /\ Unwritten(target, found, DoneAt(at)) /\ Noted(ledger, pending, DoneAt(at))
           /\ Established(target, DoneAt(at)) /\ Kept(ledger, pending, DoneAt(at))
           /\ AnswersSoFar(readings, OpAt(at))
           /\ ledger \in Seq(LedgerEntries) /\ pending \in Seq(RecordingSteps)
<1>1. at \in Positions /\ Step = StepAt(at) /\ Op = OpAt(at) /\ NextAt = After(at)
  BY Driven
<1>2. /\ target \in TargetStates /\ ended = "no"
      /\ Progress(target, found, ledger, pending, readings, DoneAt(at), OpAt(at))
  BY DEF SequenceInv, InstallTyped, InProgress
<1>3. ledger \in Seq(LedgerEntries) /\ pending \in Seq(Waits(DoneAt(at)))
  BY <1>2 DEF Progress, Kept
<1>4. Waits(DoneAt(at)) \subseteq RecordingSteps
  BY <1>1, CountTable
<1>. QED  BY <1>1, <1>2, <1>3, <1>4 DEF Progress

(* What a Continue is, while the sequence is under way. *)
LEMMA ContinueIs ==
    ASSUME AccessInv, SequenceInv, pc = "drive", Frame, target' \in TargetStates,
           NEW w, NEW l, Advanced(target', w, l, readings'), Continue(w, l)
    PROVE  SequenceInv'
<1>1. /\ at \in Positions /\ NextAt = After(at) /\ (Finished(After(at)) <=> After(at).step = 9)
  BY Driven
<1>2. After(at).step \in 1..9
  BY <1>1, SequenceTable
<1>3. pending' = w /\ ledger' = l /\ at' = After(at)
  BY <1>1 DEF Continue
<1>4. \/ After(at).step = 9 /\ pc' = "drop" /\ ended' = "whole"
      \/ After(at).step <= 8 /\ pc' = "drive" /\ ended' = ended
  BY <1>1, <1>2 DEF Continue
<1>. QED  BY <1>3, <1>4, GoesOn

(* What was changed so far is recorded, waits, or is due. *)
LEMMA ChangedSoFar ==
    ASSUME AccessInv, SequenceInv, pc = "drive", NEW t, OnlyWrote(t, target, Op),
           NEW item \in Items, t[item] # found[item]
    PROVE  \/ Recorded(ledger, item) \/ Awaited(pending, item)
           \/ /\ Op \notin {"package", "nodes", "unit"}
              /\ Op = "mkdir" => item = "staging"
              /\ Op = "digest" => item = Measured(Step)
              /\ Op \in ActNames => item = StepItem(Step)
              /\ item \in StepWrites(Step)
<1>1. WrittenAt(item) <= DoneAt(at)
  BY UnderWay, StaysUnwritten
<1>2. CASE NotedAt(item) <= DoneAt(at)
  BY <1>2, UnderWay DEF Noted
<1>3. CASE ~(NotedAt(item) <= DoneAt(at))
  BY <1>1, <1>3, UnderWay, DueTable
<1>. QED  BY <1>2, <1>3

(* A target that did not change. *)
LEMMA NothingWritten ==
    ASSUME NEW t, NEW op PROVE OnlyWrote(t, t, op)
BY DEF OnlyWrote

(* No answer: whatever the step may have left is its own. *)
LEMMA UnansweredKeeps == AccessInv /\ SequenceInv /\ Unanswered => SequenceInv'
<1>. SUFFICES ASSUME AccessInv, SequenceInv, Unanswered PROVE SequenceInv'
  OBVIOUS
<1>1. pc = "drive" /\ Frame
  BY DEF Unanswered, Driving
<1>2. BudgetHolds
  BY <1>1, Driven
<1>3. Stop("Unanswered", pending, ledger)
  BY <1>2 DEF Unanswered
<1>4. target' \in TargetStates /\ OnlyWrote(target', target, Op)
  <2>1. target' \in Left(Op, "unheard") \/ target' = target
    BY DEF Unanswered
  <2>2. CASE target' = target
    BY <1>1, <2>2, UnderWay, NothingWritten
  <2>3. CASE target' \in Left(Op, "unheard")
    BY <1>1, <2>3, UnderWay, LeftIs DEF OnlyWrote
  <2>. QED  BY <2>1, <2>2, <2>3
<1>5. \A item \in Items : target'[item] # found[item] =>
          Recorded(ledger, item) \/ Awaited(pending, item) \/ item \in StepWrites(Step)
  BY <1>1, <1>4, ChangedSoFar
<1>. QED  BY <1>1, <1>3, <1>4, <1>5, UnderWay, Stops DEF Reasons

(* The directory is made and recorded, or it is not there. *)
LEMMA MakeStagingKeeps == AccessInv /\ SequenceInv /\ MakeStaging => SequenceInv'
<1>. SUFFICES ASSUME AccessInv, SequenceInv, MakeStaging PROVE SequenceInv'
  OBVIOUS
<1>1. pc = "drive" /\ Frame /\ Op = "mkdir" /\ readings' = <<>>
  BY DEF MakeStaging, Heard, Driving
<1>2. PICK exit \in Exits(Op) :
         /\ target' \in Left(Op, exit)
         /\ \/ /\ exit = "done"
               /\ Continue(pending, Append(ledger, Entry("staging", "created")))
            \/ exit = "failed" /\ Stop("Refused", pending, ledger)
  BY DEF MakeStaging
<1>3. target' \in TargetStates /\ OnlyWrote(target', target, Op)
  BY <1>1, <1>2, UnderWay, LeftIs DEF OnlyWrote
<1>4. CASE exit = "done" /\ Continue(pending, Append(ledger, Entry("staging", "created")))
  <2>1. PICK e : e = Entry("staging", "created")
    OBVIOUS
  <2>2. e \in LedgerEntries /\ e.item = "staging" /\ e.provenance = "created"
    BY <2>1 DEF Entry, LedgerEntries, Items
  <2>3. PICK l : l = Append(ledger, e)
    OBVIOUS
  <2>4. ~Taken(Op)
    BY <1>2, <1>4 DEF Exits
  <2>5. \A item \in Items : item \in Writes(Op) => target'[item] = "right"
    BY <1>1, <1>2, <1>4, <2>4, UnderWay, LeftIs DEF Exclusive
  <2>6. Unwritten(target', found, DoneAt(at) + 1)
    BY <1>1, <1>3, UnderWay, StaysUnwritten
  <2>7. Established(target', DoneAt(at) + 1)
    BY <1>1, <1>3, <2>5, UnderWay, StaysEstablished
  <2>8. /\ l \in Seq(LedgerEntries) /\ Len(l) = Len(ledger) + 1 /\ AllCreated(l)
        /\ Recorded(l, "staging") /\ \A item : Recorded(ledger, item) => Recorded(l, item)
    BY <1>1, <2>2, <2>3, UnderWay, OneMore DEF Kept
  <2>9. Noted(l, pending, DoneAt(at) + 1)
    BY <1>1, <2>8, UnderWay, NoteTable DEF Noted, ActNames
  <2>10. Kept(l, pending, DoneAt(at) + 1)
    BY SMTT(30), <1>1, <2>8, UnderWay, CountTable DEF Kept
  <2>11. After(at).step <= 8 => AnswersSoFar(readings', OpAt(After(at)))
    BY SMTT(30), <1>1, UnderWay, OpTable, SequenceTable DEF AnswersSoFar
  <2>12. Advanced(target', pending, l, readings')
    BY <2>6, <2>7, <2>9, <2>10, <2>11 DEF Advanced
  <2>. QED  BY <1>1, <1>3, <1>4, <2>1, <2>3, <2>12, ContinueIs
<1>5. CASE exit = "failed" /\ Stop("Refused", pending, ledger)
  <2>1. target' = target
    BY <1>1, <1>2, <1>5, UnderWay, LeftIs
  <2>2. DoneAt(at) = 0
    BY <1>1, UnderWay, OpTable
  <2>3. \A item \in Items : target'[item] = found[item]
    BY <1>1, <2>1, <2>2, UnderWay, ItemTable DEF Unwritten
  <2>. QED  BY <1>1, <1>3, <1>5, <2>3, UnderWay, Stops DEF Reasons
<1>. QED  BY <1>2, <1>4, <1>5

(* The three answers of a deposit. *)
LEMMA DepositKeeps == AccessInv /\ SequenceInv /\ Deposit => SequenceInv'
<1>. SUFFICES ASSUME AccessInv, SequenceInv, Deposit PROVE SequenceInv'
  OBVIOUS
<1>1. /\ pc = "drive" /\ Frame /\ Op \in {"put-bundle", "put-configuration"}
      /\ at' = NextAt /\ UNCHANGED <<pc, pending, ledger, ended>>
  BY DEF Deposit, Heard, Driving
<1>2. PICK exit \in {"done", "failed"} : target' \in Left(Op, exit) /\ readings' = <<exit>>
  BY DEF Deposit
<1>3. target' \in TargetStates /\ OnlyWrote(target', target, Op)
  BY <1>1, <1>2, UnderWay, LeftIs DEF OnlyWrote
<1>4. After(at).step <= 8 /\ OpAt(After(at)) = "size"
  <2>1. \/ at.step = 1 /\ at.op = 2
        \/ at.step = 3 /\ at.op = 1
    BY <1>1, UnderWay, OpTable
  <2>2. at \in [step : 1..8, op : 1..4]
    BY <1>1, UnderWay DEF Positions
  <2>3. After(at) = [at EXCEPT !.op = @ + 1] /\ After(at).step \in {1, 3}
    BY <2>1, <2>2 DEF After, Costs
  <2>6. After(at).step <= 8 /\ at \in Positions
    BY <1>1, <2>3, UnderWay
  <2>4. After(at) \in Positions /\ DoneAt(After(at)) = DoneAt(at) + 1
    BY <2>6, SequenceTable
  <2>5. DoneAt(at) \in {1, 7}
    BY <1>1, UnderWay, OpTable
  <2>. QED  BY <2>3, <2>4, <2>5, OpTable
<1>5. Unwritten(target', found, DoneAt(at) + 1)
  BY <1>1, <1>3, UnderWay, StaysUnwritten
<1>6. Established(target', DoneAt(at) + 1)
  BY <1>1, <1>3, UnderWay, StaysEstablished
<1>7. Noted(ledger, pending, DoneAt(at) + 1)
  BY <1>1, UnderWay, NoteTable DEF Noted, ActNames
<1>8. Kept(ledger, pending, DoneAt(at) + 1)
  BY <1>1, UnderWay, CountTable DEF Kept
<1>9. AnswersSoFar(readings', "size")
  BY <1>2 DEF AnswersSoFar, Readings
<1>10. Advanced(target', pending, ledger, readings')
  BY <1>4, <1>5, <1>6, <1>7, <1>8, <1>9 DEF Advanced
<1>. QED  BY <1>1, <1>3, <1>4, <1>10, UnderWay, GoesOn

(* The second answer of a deposit. *)
LEMMA MeasureSizeKeeps == AccessInv /\ SequenceInv /\ MeasureSize => SequenceInv'
<1>. SUFFICES ASSUME AccessInv, SequenceInv, MeasureSize PROVE SequenceInv'
  OBVIOUS
<1>1. /\ pc = "drive" /\ Frame /\ Op = "size"
      /\ at' = NextAt /\ UNCHANGED <<pc, target, pending, ledger, ended>>
  BY DEF MeasureSize, Heard, Driving
<1>2. PICK m \in Measures(Measured(Step)) : readings' = Append(readings, m)
  BY DEF MeasureSize
<1>3. target' \in TargetStates /\ OnlyWrote(target', target, Op)
  BY <1>1, UnderWay, NothingWritten
<1>4. After(at).step <= 8 /\ OpAt(After(at)) = "digest"
  <2>1. \/ at.step = 1 /\ at.op = 3
        \/ at.step = 3 /\ at.op = 2
    BY <1>1, UnderWay, OpTable
  <2>2. at \in [step : 1..8, op : 1..4]
    BY <1>1, UnderWay DEF Positions
  <2>3. After(at) = [at EXCEPT !.op = @ + 1] /\ After(at).step \in {1, 3}
    BY <2>1, <2>2 DEF After, Costs
  <2>6. After(at).step <= 8 /\ at \in Positions
    BY <1>1, <2>3, UnderWay
  <2>4. After(at) \in Positions /\ DoneAt(After(at)) = DoneAt(at) + 1
    BY <2>6, SequenceTable
  <2>5. DoneAt(at) \in {2, 8}
    BY <1>1, UnderWay, OpTable
  <2>. QED  BY <2>3, <2>4, <2>5, OpTable
<1>5. Unwritten(target', found, DoneAt(at) + 1)
  BY <1>1, <1>3, UnderWay, StaysUnwritten
<1>6. Established(target', DoneAt(at) + 1)
  BY <1>1, <1>3, UnderWay, StaysEstablished
<1>7. Noted(ledger, pending, DoneAt(at) + 1)
  BY <1>1, UnderWay, NoteTable DEF Noted, ActNames
<1>8. Kept(ledger, pending, DoneAt(at) + 1)
  BY <1>1, UnderWay, CountTable DEF Kept
<1>9. AnswersSoFar(readings', "digest")
  <2>1. readings \in Readings /\ Len(readings) = 1
    BY <1>1, UnderWay DEF AnswersSoFar
  <2>2. m \in {"failed", "right", "wrong"}
    BY <1>2 DEF Measures
  <2>. QED  BY <1>2, <2>1, <2>2 DEF AnswersSoFar, Readings
<1>10. Advanced(target', pending, ledger, readings')
  BY <1>4, <1>5, <1>6, <1>7, <1>8, <1>9 DEF Advanced
<1>. QED  BY <1>1, <1>3, <1>4, <1>10, UnderWay, GoesOn

(* A deposit is accepted when what was measured last is right. *)
LEMMA DepositedOk ==
    ASSUME NEW r, Deposited(r) = "ok" PROVE r[3] = "right"
<1>. DEFINE a1 == r[1] # "done"
            a2 == r[2] = "failed"
            a3 == r[2] # "right"
            a4 == r[3] = "failed"
            a5 == r[3] # "right"
            checks == << <<a1, "DepositFailed">>, <<a2, "MeasurementFailed">>, <<a3, "StagedSizeMismatch">>,
                         <<a4, "MeasurementFailed">>, <<a5, "StagedDigestMismatch">> >>
<1>1. FirstRefusal(checks) = "ok"
  BY Zenon DEF Deposited
<1>2. ~a5
  <2>. HIDE DEF a1, a2, a3, a4, a5
  <2>1. DOMAIN checks = 1..5
    OBVIOUS
  <2>2. \A i \in 1..5 : checks[i][2] # "ok"
    OBVIOUS
  <2>3. \A i \in 1..5 : ~checks[i][1]
    BY <1>1, <2>1, <2>2, OkRefusesNothing
  <2>. QED  BY <2>3
<1>. QED  BY <1>2

(* And a reading, when what it covers is right. *)
LEMMA PosedOk ==
    ASSUME NEW exit, NEW package, Posed(exit, package) = "ok" PROVE package = "right"
<1>. DEFINE a1 == exit # "done" /\ package # "absent"
            a2 == package = "absent"
            a3 == package # "right"
            checks == << <<a1, "QueryFailed">>, <<a2, "NotInstalled">>, <<a3, "UnexpectedVersion">> >>
<1>1. FirstRefusal(checks) = "ok"
  BY Zenon DEF Posed
<1>2. ~a3
  <2>. HIDE DEF a1, a2, a3
  <2>1. DOMAIN checks = 1..3
    OBVIOUS
  <2>2. \A i \in 1..3 : checks[i][2] # "ok"
    OBVIOUS
  <2>3. \A i \in 1..3 : ~checks[i][1]
    BY <1>1, <2>1, <2>2, OkRefusesNothing
  <2>. QED  BY <2>3
<1>. QED  BY <1>2

(* A unit read to be running is the right one. *)
LEMMA RunningOk ==
    ASSUME NEW exit, NEW unit, Running(exit, unit) = "ok" PROVE unit = "right"
<1>. DEFINE a1 == exit # "done"
            a2 == unit = "absent"
            a3 == unit # "right"
            checks == << <<a1, "ReadingUnreadable">>, <<a2, "NotRunning">>, <<a3, "IsolationDiverged">> >>
<1>1. FirstRefusal(checks) = "ok"
  BY Zenon DEF Running
<1>2. ~a3
  <2>. HIDE DEF a1, a2, a3
  <2>1. DOMAIN checks = 1..3
    OBVIOUS
  <2>2. \A i \in 1..3 : checks[i][2] # "ok"
    OBVIOUS
  <2>3. \A i \in 1..3 : ~checks[i][1]
    BY <1>1, <2>1, <2>2, OkRefusesNothing
  <2>. QED  BY <2>3
<1>. QED  BY <1>2

(* Nodes read with their owners are the right ones. *)
LEMMA OwnedOk ==
    ASSUME NEW exit, NEW t, Owned(exit, t) = "ok"
    PROVE  \A n \in {"configuration", "state", "sources", "reader"} : t[n] = "right"
<1>. DEFINE a1 == exit = "garbled"
            a2 == \E n \in {"configuration", "state", "sources", "reader"} : t[n] = "absent"
            a3 == \E n \in {"configuration", "state", "sources", "reader"} : t[n] # "right"
            checks == << <<a1, "ReadingUnreadable">>, <<a2, "Missing">>, <<a3, "WrongOwnerKindOrMode">> >>
<1>1. FirstRefusal(checks) = "ok"
  BY Zenon DEF Owned
<1>2. ~a3
  <2>. HIDE DEF a1, a2, a3
  <2>1. DOMAIN checks = 1..3
    OBVIOUS
  <2>2. \A i \in 1..3 : checks[i][2] # "ok"
    OBVIOUS
  <2>3. \A i \in 1..3 : ~checks[i][1]
    BY <1>1, <2>1, <2>2, OkRefusesNothing
  <2>. QED  BY <2>3
<1>. QED  BY <1>2, Zenon

(* The last answer of a deposit: recorded as made, or as unknown. *)
LEMMA MeasureDigestKeeps == AccessInv /\ SequenceInv /\ MeasureDigest => SequenceInv'
<1>. SUFFICES ASSUME AccessInv, SequenceInv, MeasureDigest PROVE SequenceInv'
  OBVIOUS
<1>1. pc = "drive" /\ Frame /\ Op = "digest" /\ UNCHANGED target
  BY DEF MeasureDigest, Heard, Driving
<1>2. PICK m \in Measures(Measured(Step)) :
         LET verdict == Deposited(Append(readings, m))
         IN \/ /\ verdict = "ok"
               /\ Continue(pending, Append(ledger, Entry(Measured(Step), "created")))
               /\ readings' = <<>>
            \/ /\ verdict # "ok"
               /\ Stop("Refused", pending, Append(ledger, Entry(Measured(Step), "unknown")))
  BY DEF MeasureDigest
<1>3. target' \in TargetStates /\ OnlyWrote(target', target, Op)
  BY <1>1, UnderWay, NothingWritten
<1>4. Measured(Step) \in Items
  BY DEF Measured, Items
<1>5. CASE /\ Deposited(Append(readings, m)) = "ok" /\ readings' = <<>>
           /\ Continue(pending, Append(ledger, Entry(Measured(Step), "created")))
  <2>1. PICK e : e = Entry(Measured(Step), "created")
    OBVIOUS
  <2>2. e \in LedgerEntries /\ e.item = Measured(Step) /\ e.provenance = "created"
    BY <1>4, <2>1 DEF Entry, LedgerEntries
  <2>3. PICK l : l = Append(ledger, e)
    OBVIOUS
  <2>4. target'[Measured(Step)] = "right"
    <3>1. readings \in Readings /\ Len(readings) = 2
      BY <1>1, UnderWay DEF AnswersSoFar
    <3>2. m \in {"failed", "right", "wrong"}
      BY <1>2 DEF Measures
    <3>5. PICK r, k : r = readings /\ k = Len(readings) + 1
      OBVIOUS
    <3>8. Len(readings) + 1 = 3
      BY ONLY <3>1
    <3>6. r \in Readings /\ k = Len(r) + 1 /\ k = 3
      BY <3>1, <3>5, <3>8, Zenon
    <3>7. Append(r, m)[k] = m
      BY <3>2, <3>6 DEF Readings
    <3>3. Append(readings, m)[3] = m
      BY <3>5, <3>6, <3>7, Zenon
    <3>4. m = "right"
      BY <1>5, <3>3, DepositedOk
    <3>. QED  BY <1>1, <1>2, <3>4 DEF Measures
  <2>6. Unwritten(target', found, DoneAt(at) + 1)
    BY <1>1, <1>3, UnderWay, StaysUnwritten
  <2>7. Established(target', DoneAt(at) + 1)
    BY <1>1, <1>3, <2>4, UnderWay, StaysEstablished
  <2>8. /\ l \in Seq(LedgerEntries) /\ Len(l) = Len(ledger) + 1 /\ AllCreated(l)
        /\ Recorded(l, Measured(Step)) /\ \A item : Recorded(ledger, item) => Recorded(l, item)
    BY <1>1, <2>2, <2>3, UnderWay, OneMore DEF Kept
  <2>9. Noted(l, pending, DoneAt(at) + 1)
    BY <1>1, <2>8, UnderWay, NoteTable DEF Noted, ActNames
  <2>10. Kept(l, pending, DoneAt(at) + 1)
    BY <1>1, <2>8, UnderWay, CountTable DEF Kept
  <2>11. After(at).step <= 8 => AnswersSoFar(readings', OpAt(After(at)))
    <3>1. DoneAt(at) \in {3, 9}
      BY <1>1, UnderWay, OpTable
    <3>2. After(at).step <= 8 => OpAt(After(at)) \notin {"size", "digest"}
      BY SMTT(30), <1>1, <3>1, UnderWay, OpTable, SequenceTable
    <3>. QED  BY <3>2 DEF AnswersSoFar
  <2>12. Advanced(target', pending, l, readings')
    BY <2>6, <2>7, <2>9, <2>10, <2>11 DEF Advanced
  <2>. QED  BY <1>1, <1>3, <1>5, <2>1, <2>3, <2>12, ContinueIs
<1>6. CASE Stop("Refused", pending, Append(ledger, Entry(Measured(Step), "unknown")))
  <2>1. PICK e : e = Entry(Measured(Step), "unknown")
    OBVIOUS
  <2>2. e \in LedgerEntries /\ e.item = Measured(Step)
    BY <1>4, <2>1 DEF Entry, LedgerEntries
  <2>3. PICK l : l = Append(ledger, e)
    OBVIOUS
  <2>4. /\ l \in Seq(LedgerEntries) /\ Recorded(l, Measured(Step))
        /\ \A item : Recorded(ledger, item) => Recorded(l, item)
    BY <1>1, <2>2, <2>3, UnderWay, OneMore
  <2>5. \A item \in Items : target'[item] # found[item] => Recorded(l, item) \/ Awaited(pending, item)
    BY <1>1, <1>3, <2>4, ChangedSoFar
  <2>. QED  BY <1>1, <1>3, <1>6, <2>1, <2>3, <2>4, <2>5, UnderWay, Stops DEF Reasons
<1>. QED  BY <1>2, <1>5, <1>6

(* An elevated act. *)
LEMMA ActKeeps == AccessInv /\ SequenceInv /\ Act => SequenceInv'
<1>. SUFFICES ASSUME AccessInv, SequenceInv, Act PROVE SequenceInv'
  OBVIOUS
<1>1. pc = "drive" /\ Frame /\ IsAct(Op) /\ readings' = <<>>
  BY DEF Act, Heard, Driving
<1>2. PICK exit \in Exits(Op), output \in {"canonical", "garbled"} :
         /\ target' \in Left(Op, exit)
         /\ \/ exit = "failed" /\ Stop("ActFailed", Append(pending, Step), ledger)
            \/ /\ exit = "done" /\ ~LastAct(Step, Op)
               /\ Continue(pending, ledger)
            \/ /\ exit = "done" /\ LastAct(Step, Op)
               /\ \/ /\ IdentityOutput(Step, output)
                     /\ Stop("Refused", Append(pending, Step), ledger)
                  \/ /\ ~IdentityOutput(Step, output) /\ Step = "InitialiseController"
                     /\ Continue(pending, ledger \o RecordStep(Step, "created"))
                  \/ /\ ~IdentityOutput(Step, output) /\ Step # "InitialiseController"
                     /\ Continue(Append(pending, Step), ledger)
  BY DEF Act
<1>3. target' \in TargetStates /\ OnlyWrote(target', target, Op)
  BY <1>1, <1>2, UnderWay, LeftIs DEF OnlyWrote
<1>4. Op \in ActNames /\ (LastAct(Step, Op) <=> Op # "dpkg") /\ Step \in RecordingSteps
  BY <1>1, UnderWay, ActTable, CountTable DEF IsAct
<1>5. Step = "InitialiseController" <=> Op = "controller-init"
  BY <1>1, <1>4, UnderWay, OpTable DEF ActNames
<1>6. Unwritten(target', found, DoneAt(at) + 1)
  BY <1>1, <1>3, UnderWay, StaysUnwritten
<1>7. exit = "done" => Established(target', DoneAt(at) + 1)
  <2>1. ASSUME exit = "done", Op \in {"mkdir", "controller-init"}
        PROVE  \A item \in Items : item \in Writes(Op) => target'[item] = "right"
    <3>1. ~Taken(Op) /\ Exclusive(Op)
      BY <1>2, <2>1 DEF Exits, Exclusive
    <3>. QED  BY <1>1, <1>2, <2>1, <3>1, UnderWay, LeftIs
  <2>. QED  BY <1>1, <1>3, <1>4, <2>1, UnderWay, StaysEstablished DEF ActNames
<1>8. After(at).step <= 8 => AnswersSoFar(readings', OpAt(After(at)))
  <2>1. DoneAt(at) \in {4, 5, 10, 11, 12, 13, 14, 16}
    BY <1>1, <1>4, UnderWay, OpTable DEF ActNames
  <2>2. After(at).step <= 8 => OpAt(After(at)) \notin {"size", "digest"}
    BY SMTT(30), <1>1, <2>1, UnderWay, OpTable, SequenceTable
  <2>. QED  BY <2>2 DEF AnswersSoFar
<1>9. ASSUME NEW reason \in {"ActFailed", "Refused"}, Stop(reason, Append(pending, Step), ledger)
      PROVE  SequenceInv'
  <2>1. PICK w : w = Append(pending, Step)
    OBVIOUS
  <2>2. /\ w \in Seq(RecordingSteps) /\ Awaited(w, StepItem(Step))
        /\ \A item : Awaited(pending, item) => Awaited(w, item)
    BY <1>1, <1>4, <2>1, UnderWay, OneMoreWaits
  <2>3. \A item \in Items : target'[item] # found[item] => Recorded(ledger, item) \/ Awaited(w, item)
    BY <1>1, <1>3, <1>4, <2>2, ChangedSoFar
  <2>. QED  BY <1>1, <1>3, <1>9, <2>1, <2>2, <2>3, UnderWay, Stops DEF Reasons
<1>10. CASE exit = "done" /\ ~LastAct(Step, Op) /\ Continue(pending, ledger)
  <2>1. Op = "dpkg"
    BY <1>4, <1>10
  <2>2. Noted(ledger, pending, DoneAt(at) + 1)
    BY <1>1, <2>1, UnderWay, NoteTable DEF Noted
  <2>3. Kept(ledger, pending, DoneAt(at) + 1)
    BY <1>1, <2>1, UnderWay, CountTable DEF Kept
  <2>4. Advanced(target', pending, ledger, readings')
    BY <1>6, <1>7, <1>8, <1>10, <2>2, <2>3 DEF Advanced
  <2>. QED  BY <1>1, <1>3, <1>10, <2>4, ContinueIs
<1>11. CASE /\ exit = "done" /\ LastAct(Step, Op) /\ Step = "InitialiseController"
            /\ Continue(pending, ledger \o RecordStep(Step, "created"))
  <2>1. PICK e : e = Entry("authority", "created")
    OBVIOUS
  <2>2. e \in LedgerEntries /\ e.item = "authority" /\ e.provenance = "created"
    BY <2>1 DEF Entry, LedgerEntries, Items
  <2>3. RecordStep(Step, "created") = <<e>>
    BY <1>11, <2>1 DEF RecordStep
  <2>4. PICK m : m = <<e>>
    OBVIOUS
  <2>5. m \in Seq(LedgerEntries) /\ Len(m) = 1 /\ AllCreated(m) /\ Recorded(m, "authority")
    BY <2>2, <2>4 DEF AllCreated, Recorded
  <2>6. PICK l : l = ledger \o m
    OBVIOUS
  <2>7. /\ l \in Seq(LedgerEntries) /\ Len(l) = Len(ledger) + 1 /\ AllCreated(l)
        /\ Recorded(l, "authority") /\ \A item : Recorded(ledger, item) => Recorded(l, item)
    BY <1>1, <2>5, <2>6, UnderWay, RecordedStays DEF Kept
  <2>8. StepItem(Step) = "authority" /\ Op = "controller-init"
    BY <1>5, <1>11 DEF StepItem
  <2>9. Noted(l, pending, DoneAt(at) + 1)
    BY <1>1, <2>7, <2>8, UnderWay, NoteTable DEF Noted
  <2>10. Kept(l, pending, DoneAt(at) + 1)
    <3>1. /\ Waits(DoneAt(at)) \subseteq Waits(DoneAt(at) + 1)
          /\ NotesBefore(DoneAt(at) + 1) = NotesBefore(DoneAt(at)) + 1 /\ NotesBefore(DoneAt(at)) \in Nat
      BY <1>1, <2>8, UnderWay, CountTable DEF ActNames
    <3>2. /\ ledger \in Seq(LedgerEntries) /\ pending \in Seq(Waits(DoneAt(at)))
          /\ Len(ledger) + Len(pending) <= NotesBefore(DoneAt(at))
      BY <1>1, UnderWay DEF Kept
    <3>3. pending \in Seq(Waits(DoneAt(at) + 1))
      BY ONLY <3>1, <3>2
    <3>4. Len(l) + Len(pending) <= NotesBefore(DoneAt(at) + 1)
      BY ONLY <2>7, <3>1, <3>2
    <3>. QED  BY <2>7, <3>3, <3>4 DEF Kept
  <2>11. Advanced(target', pending, l, readings')
    BY <1>6, <1>7, <1>8, <1>11, <2>9, <2>10 DEF Advanced
  <2>. QED  BY <1>1, <1>3, <1>11, <2>3, <2>4, <2>6, <2>11, ContinueIs
<1>12. CASE /\ exit = "done" /\ LastAct(Step, Op) /\ Step # "InitialiseController"
            /\ Continue(Append(pending, Step), ledger)
  <2>1. PICK w : w = Append(pending, Step)
    OBVIOUS
  <2>2. Op \in ActNames \ {"dpkg", "controller-init"}
    BY <1>4, <1>5, <1>12
  <2>3. PICK T : T = Waits(DoneAt(at) + 1)
    OBVIOUS
  <2>4. pending \in Seq(T) /\ Step \in T
    <3>1. Waits(DoneAt(at)) \subseteq T /\ Step \in T
      BY <1>1, <2>2, <2>3, UnderWay, CountTable DEF ActNames
    <3>2. pending \in Seq(Waits(DoneAt(at)))
      BY <1>1, UnderWay DEF Kept
    <3>. QED  BY <3>1, <3>2
  <2>5. /\ w \in Seq(T) /\ Len(w) = Len(pending) + 1 /\ Awaited(w, StepItem(Step))
        /\ \A item : Awaited(pending, item) => Awaited(w, item)
    BY <2>1, <2>4, OneMoreWaits
  <2>6. Noted(ledger, w, DoneAt(at) + 1)
    BY <1>1, <2>2, <2>5, UnderWay, NoteTable DEF Noted, ActNames
  <2>7. Kept(ledger, w, DoneAt(at) + 1)
    <3>1. NotesBefore(DoneAt(at) + 1) = NotesBefore(DoneAt(at)) + 1
      BY <1>1, <2>2, UnderWay, CountTable
    <3>2. NotesBefore(DoneAt(at)) \in 0..10 /\ Len(ledger) \in Nat /\ Len(pending) \in Nat
      BY <1>1, <2>4, UnderWay, CountTable
    <3>. QED  BY <1>1, <2>3, <2>5, <3>1, <3>2, UnderWay DEF Kept
  <2>8. Advanced(target', w, ledger, readings')
    BY <1>6, <1>7, <1>8, <1>12, <2>6, <2>7 DEF Advanced
  <2>. QED  BY <1>1, <1>3, <1>12, <2>1, <2>8, ContinueIs
<1>. QED  BY <1>2, <1>9, <1>10, <1>11, <1>12

(* A reading: what it covers is established, in the order it was done. *)
LEMMA EstablishesKeeps == AccessInv /\ SequenceInv /\ Establishes => SequenceInv'
<1>. SUFFICES ASSUME AccessInv, SequenceInv, Establishes PROVE SequenceInv'
  OBVIOUS
<1>1. /\ pc = "drive" /\ Frame /\ Op \in {"package", "nodes", "unit"}
      /\ UNCHANGED target /\ readings' = <<>>
  BY DEF Establishes, Heard, Driving
<1>2. PICK exit \in {"done", "garbled"} :
         LET verdict == Constate(Op, exit, target)
         IN \/ /\ verdict = "ok"
               /\ Continue(StillPending(pending, CoveredBy(Op)),
                           ledger \o RecordSteps(pending, CoveredBy(Op), "created"))
            \/ verdict # "ok" /\ Stop("Refused", pending, ledger)
  BY DEF Establishes
<1>3. target' \in TargetStates /\ OnlyWrote(target', target, Op)
  BY <1>1, UnderWay, NothingWritten
<1>4. CASE /\ Constate(Op, exit, target) = "ok"
           /\ Continue(StillPending(pending, CoveredBy(Op)),
                       ledger \o RecordSteps(pending, CoveredBy(Op), "created"))
  <2>1. PICK w, m : /\ w = StillPending(pending, CoveredBy(Op))
                    /\ m = RecordSteps(pending, CoveredBy(Op), "created")
    OBVIOUS
  <2>2. PICK l : l = ledger \o m
    OBVIOUS
  <2>3. /\ m \in Seq(LedgerEntries) /\ \A i \in DOMAIN m : m[i].provenance = "created"
        /\ \A i \in DOMAIN pending : pending[i] \in CoveredBy(Op) => Recorded(m, StepItem(pending[i]))
    BY <1>1, <2>1, UnderWay, RecordsAre
  <2>4. /\ w \in Seq(Waits(DoneAt(at)) \ CoveredBy(Op))
        /\ \A i \in DOMAIN pending : pending[i] \notin CoveredBy(Op) => Awaited(w, StepItem(pending[i]))
    <3>1. pending \in Seq(Waits(DoneAt(at)))
      BY <1>1, UnderWay DEF Kept
    <3>. QED  BY <2>1, <3>1, WaitersAre
  <2>5. Len(m) + Len(w) = Len(pending)
    BY <1>1, <2>1, UnderWay, RecordsAndWaiters
  <2>6. /\ l \in Seq(LedgerEntries) /\ Len(l) = Len(ledger) + Len(m) /\ AllCreated(l)
        /\ \A item : Recorded(ledger, item) => Recorded(l, item)
        /\ \A item : Recorded(m, item) => Recorded(l, item)
    BY <1>1, <2>2, <2>3, UnderWay, RecordedStays DEF Kept, AllCreated
  <2>7. w \in Seq(Waits(DoneAt(at) + 1))
    <3>1. Waits(DoneAt(at)) \ CoveredBy(Op) = {}
      BY <1>1, UnderWay, CountTable
    <3>2. w \in Seq({})
      BY <2>4, <3>1, Zenon
    <3>. QED  BY <3>2
  <2>8. Kept(l, w, DoneAt(at) + 1)
    <3>1. /\ NotesBefore(DoneAt(at)) <= NotesBefore(DoneAt(at) + 1)
          /\ NotesBefore(DoneAt(at)) \in 0..10 /\ NotesBefore(DoneAt(at) + 1) \in 0..10
      BY <1>1, UnderWay, CountTable
    <3>2. PICK a, b, c, d, x, y : /\ a = Len(ledger) /\ b = Len(pending) /\ c = Len(m) /\ d = Len(w)
                                  /\ x = NotesBefore(DoneAt(at)) /\ y = NotesBefore(DoneAt(at) + 1)
      OBVIOUS
    <3>3. a \in Nat /\ b \in Nat /\ c \in Nat /\ d \in Nat
      BY <1>1, <2>3, <2>4, <3>2, UnderWay
    <3>4. c + d = b /\ a + b <= x /\ x <= y /\ x \in 0..10 /\ y \in 0..10
      BY <1>1, <2>5, <3>1, <3>2, UnderWay DEF Kept
    <3>5. (a + c) + d <= y
      BY ONLY <3>3, <3>4
    <3>6. Len(l) + Len(w) <= NotesBefore(DoneAt(at) + 1)
      BY <2>6, <3>2, <3>5
    <3>. QED  BY <2>6, <2>7, <3>6 DEF Kept
  <2>9. Noted(l, w, DoneAt(at) + 1)
    <3>1. \A item : Awaited(pending, item) => Recorded(l, item) \/ Awaited(w, item)
      BY <2>3, <2>4, <2>6 DEF Awaited
    <3>. QED  BY <1>1, <2>6, <3>1, UnderWay, NoteTable DEF Noted, ActNames
  <2>10. Unwritten(target', found, DoneAt(at) + 1)
    BY <1>1, <1>3, UnderWay, StaysUnwritten
  <2>11. Established(target', DoneAt(at) + 1)
    <3>1. Op = "package" => target["package"] = "right"
      BY <1>4, PosedOk DEF Constate
    <3>2. Op = "unit" => target["unit"] = "right"
      BY <1>4, RunningOk DEF Constate
    <3>3. Op = "nodes" => \A n \in {"configuration", "state", "sources", "reader"} : target[n] = "right"
      BY <1>4, OwnedOk DEF Constate
    <3>. QED  BY <1>1, <1>3, <3>1, <3>2, <3>3, UnderWay, StaysEstablished
  <2>12. After(at).step <= 8 => AnswersSoFar(readings', OpAt(After(at)))
    <3>1. DoneAt(at) \in {6, 15, 17}
      BY <1>1, UnderWay, OpTable
    <3>2. After(at).step <= 8 => OpAt(After(at)) \notin {"size", "digest"}
      BY <1>1, <3>1, UnderWay, OpTable, SequenceTable
    <3>. QED  BY <3>2 DEF AnswersSoFar
  <2>13. Advanced(target', w, l, readings')
    BY <2>8, <2>9, <2>10, <2>11, <2>12 DEF Advanced
  <2>. QED  BY <1>1, <1>3, <1>4, <2>1, <2>2, <2>13, ContinueIs
<1>5. CASE Stop("Refused", pending, ledger)
  <2>1. \A item \in Items : target'[item] # found[item] => Recorded(ledger, item) \/ Awaited(pending, item)
    BY <1>1, <1>3, ChangedSoFar
  <2>. QED  BY <1>1, <1>3, <1>5, <2>1, UnderWay, Stops DEF Reasons
<1>. QED  BY <1>2, <1>4, <1>5

-----------------------------------------------------------------------------
(* The rest of the session: no window and no refusal says "verified".      *)

\* What a window may end with.
Endings == {"ok", "open", "unavailable", "expired", "cancelled", "refused"}
Verdicts == Seq(BOOLEAN \X Endings)

(* A judgement says "ok", or one of the things its checks say. *)
LEMMA JudgementSays ==
    ASSUME NEW checks \in Verdicts PROVE FirstRefusal(checks) \in Endings
<1>. DEFINE failing == {i \in DOMAIN checks : checks[i][1]}
            first == CHOOSE i \in failing : \A j \in failing : i <= j
<1>1. failing \subseteq Nat /\ \A i \in DOMAIN checks : checks[i] \in BOOLEAN \X Endings
  BY DEF Verdicts
<1>2. \A i \in DOMAIN checks : checks[i][2] \in Endings
  BY <1>1
<1>3. CASE failing = {}
  <2>1. FirstRefusal(checks) = "ok"
    BY <1>3, Zenon DEF FirstRefusal
  <2>. QED  BY <2>1 DEF Endings
<1>4. CASE failing # {}
  <2>1. first \in failing
    BY <1>1, <1>4, LeastExists, Zenon
  <2>2. FirstRefusal(checks) = checks[first][2]
    BY <1>4, Zenon DEF FirstRefusal
  <2>3. first \in DOMAIN checks
    BY <2>1
  <2>. QED  BY <1>2, <2>2, <2>3, Zenon
<1>. QED  BY <1>3, <1>4

(* Checks put one after the other. *)
LEMMA VerdictsJoin ==
    /\ \A a, b \in Verdicts : a \o b \in Verdicts
    /\ \A b \in BOOLEAN, e \in Endings : << <<b, e>> >> \in Verdicts
BY DEF Verdicts

Seen == [lease : {"held", "cancelled", "invalid"}, expired : BOOLEAN, made : BOOLEAN]
Shown(asks) ==
    [lease : {"held", "cancelled", "invalid"}, expired : BOOLEAN, asks : {asks},
     click : {"accept", "refuse", "close", "timer"}, selected : BOOLEAN, offered : BOOLEAN,
     texts : BOOLEAN, cleared : BOOLEAN, edit : Edits]

(* The checks of the lease and of the deadline end a window as it may end. *)
LEMMA InterruptedSays ==
    ASSUME NEW w, w.expired \in BOOLEAN PROVE Interrupted(w) \in Verdicts
<1>1. PICK a, b, c : a = (w.lease = "invalid") /\ b = w.expired /\ c = (w.lease = "cancelled")
  OBVIOUS
<1>2. a \in BOOLEAN /\ b \in BOOLEAN /\ c \in BOOLEAN
  BY <1>1
<1>3. << <<a, "unavailable">>, <<b, "expired">>, <<c, "cancelled">> >> \in Verdicts
  BY <1>2 DEF Verdicts, Endings
<1>. QED  BY <1>1, <1>3, Zenon DEF Interrupted

(* What a click says. *)
LEMMA ClickSays ==
    ASSUME NEW asks \in {"identity", "secret", "nothing"}, NEW w \in Shown(asks)
    PROVE  /\ Accepted(w) \in Endings
           /\ w.click # "timer" => Clicked(w) \in Endings
<1>1. CaptureSecret(w.edit) \in Endings
  <2>1. PICK a, b, c : /\ a = (~w.edit.intact) /\ b = (w.edit.units = 0 /\ w.edit.readable)
                       /\ c = (w.edit.units \notin 1..MaxSecretUnits \/ ~w.edit.readable)
    OBVIOUS
  <2>2. a \in BOOLEAN /\ b \in BOOLEAN /\ c \in BOOLEAN
    BY <2>1
  <2>3. << <<a, "unavailable">>, <<b, "refused">>, <<c, "unavailable">> >> \in Verdicts
    BY <2>2 DEF Verdicts, Endings
  <2>. QED  BY <2>1, <2>3, JudgementSays, Zenon DEF CaptureSecret
<1>2. Accepted(w) \in Endings
  BY <1>1 DEF Accepted, Shown, Endings
<1>. QED  BY <1>2 DEF Clicked, Shown, Endings

(* How the window of GTK ends, and the one of Win32. *)
LEMMA GtkSays ==
    ASSUME NEW asks \in {"identity", "secret", "nothing"}, NEW o \in Seen,
           NEW w \in Shown(asks), w.click # "timer"
    PROVE  GtkDialog(o, w) \in Endings
<1>1. PICK refused : refused = FirstRefusal(<< <<o.lease = "invalid" \/ ~o.made, "unavailable">>,
                                   <<o.lease = "cancelled", "cancelled">>,
                                   <<o.expired, "expired">> >>)
  OBVIOUS
<1>2. refused \in Endings
  <2>1. PICK a, b, c : a = (o.lease = "invalid" \/ ~o.made) /\ b = (o.lease = "cancelled") /\ c = o.expired
    OBVIOUS
  <2>2. a \in BOOLEAN /\ b \in BOOLEAN /\ c \in BOOLEAN
    BY <2>1 DEF Seen
  <2>3. << <<a, "unavailable">>, <<b, "cancelled">>, <<c, "expired">> >> \in Verdicts
    BY <2>2 DEF Verdicts, Endings
  <2>. QED  BY <1>1, <2>1, <2>3, JudgementSays, Zenon
<1>3. PICK first, click, last : /\ first = (refused # "ok") /\ click = Clicked(w) /\ last = (Clicked(w) # "ok")
  OBVIOUS
<1>4. first \in BOOLEAN /\ last \in BOOLEAN /\ click \in Endings
  BY <1>3, ClickSays
<1>5. << <<first, refused>> >> \in Verdicts /\ << <<last, click>> >> \in Verdicts /\ Interrupted(w) \in Verdicts
  BY <1>2, <1>4, VerdictsJoin, InterruptedSays DEF Shown
<1>6. << <<first, refused>> >> \o Interrupted(w) \o << <<last, click>> >> \in Verdicts
  BY <1>5, VerdictsJoin
<1>7. GtkDialog(o, w) = FirstRefusal(<< <<first, refused>> >> \o Interrupted(w) \o << <<last, click>> >>)
  BY <1>1, <1>3, Zenon DEF GtkDialog
<1>. QED  BY <1>6, <1>7, JudgementSays, Zenon

(* How the window of Win32 ends. *)
LEMMA Win32Says ==
    ASSUME NEW asks \in {"identity", "secret", "nothing"}, NEW o \in Seen, NEW w \in Shown(asks)
    PROVE  Win32Dialog(o, w) \in Endings
<1>1. PICK refused : refused = FirstRefusal(Interrupted(o) \o << <<~o.made, "unavailable">> >>)
  OBVIOUS
<1>2. refused \in Endings
  <2>1. PICK a : a = (~o.made)
    OBVIOUS
  <2>2. a \in BOOLEAN
    BY <2>1
  <2>5. << <<a, "unavailable">> >> \in Verdicts
    BY <2>2, VerdictsJoin DEF Endings
  <2>6. o.expired \in BOOLEAN
    BY DEF Seen
  <2>3. << <<a, "unavailable">> >> \in Verdicts /\ Interrupted(o) \in Verdicts
    BY <2>5, <2>6, InterruptedSays
  <2>4. Interrupted(o) \o << <<a, "unavailable">> >> \in Verdicts
    BY <2>3, VerdictsJoin
  <2>. QED  BY <1>1, <2>1, <2>4, JudgementSays, Zenon
<1>3. PICK intact : intact = (~SurfaceIntact(w))
  OBVIOUS
<1>4. intact \in BOOLEAN /\ Interrupted(w) \in Verdicts
  BY <1>3, InterruptedSays DEF Shown
<1>5. AcceptDialog(w) \in Endings
  <2>1. PICK b, e : b = (Accepted(w) # "ok") /\ e = Accepted(w)
    OBVIOUS
  <2>2. b \in BOOLEAN /\ e \in Endings
    BY <2>1, ClickSays
  <2>3. << <<intact, "unavailable">> >> \in Verdicts /\ << <<b, e>> >> \in Verdicts
    BY <1>4, <2>2, VerdictsJoin DEF Endings
  <2>4. << <<intact, "unavailable">> >> \o Interrupted(w) \o << <<b, e>> >> \in Verdicts
    BY <1>4, <2>3, VerdictsJoin
  <2>. QED  BY <1>3, <2>1, <2>4, JudgementSays, Zenon DEF AcceptDialog
<1>6. PICK timer : timer = FirstRefusal(Interrupted(w) \o << <<~SurfaceIntact(w), "unavailable">>,
                                                            <<TRUE, "open">> >>)
  OBVIOUS
<1>7. timer \in Endings
  <2>3. PICK b : b = TRUE
    OBVIOUS
  <2>4. b \in BOOLEAN
    BY <2>3
  <2>5. << <<intact, "unavailable">>, <<b, "open">> >> \in Verdicts
    BY <1>4, <2>4 DEF Verdicts, Endings
  <2>1. << <<intact, "unavailable">>, <<TRUE, "open">> >> \in Verdicts
    BY <2>3, <2>5, Zenon
  <2>2. Interrupted(w) \o << <<intact, "unavailable">>, <<TRUE, "open">> >> \in Verdicts
    BY <1>4, <2>1, VerdictsJoin
  <2>. QED  BY <1>3, <1>6, <2>2, JudgementSays, Zenon
<1>8. PICK ends : ends = CASE w.click = "accept" -> AcceptDialog(w)
                           [] w.click \in {"refuse", "close"} -> Clicked(w)
                           [] OTHER -> timer
  OBVIOUS
<1>9. ends \in Endings
  BY <1>5, <1>7, <1>8, ClickSays DEF Shown
<1>10. PICK a, b, c, d : /\ a = (refused # "ok") /\ b = (ends = "open")
                         /\ c = (w.asks = "secret" /\ ~w.cleared) /\ d = (ends # "ok")
  OBVIOUS
<1>11. a \in BOOLEAN /\ b \in BOOLEAN /\ c \in BOOLEAN /\ d \in BOOLEAN
  BY <1>10
<1>12. << <<a, refused>>, <<b, ends>>, <<c, "unavailable">>, <<d, ends>> >> \in Verdicts
  BY <1>2, <1>9, <1>11 DEF Verdicts, Endings
<1>13. Win32Dialog(o, w) = FirstRefusal(<< <<a, refused>>, <<b, ends>>, <<c, "unavailable">>, <<d, ends>> >>)
  BY <1>1, <1>6, <1>8, <1>10, Zenon DEF Win32Dialog
<1>. QED  BY <1>12, <1>13, JudgementSays, Zenon

(* An outcome is what one of the two windows says. *)
SaidByWindow(e, l, x, asks) ==
    \E o \in [lease : {"held", l}, expired : {FALSE, x}, made : BOOLEAN] : \E w \in Windows(l, x, asks) :
        e = Win32Dialog(o, w) \/ (w.click # "timer" /\ e = GtkDialog(o, w))
(* What may come of a window was said by it. *)
LEMMA OutcomesAre ==
    ASSUME NEW p, NEW l, NEW x, NEW asks, NEW e \in WindowOutcomes(p, l, x, asks)
    PROVE  SaidByWindow(e, l, x, asks)
BY ZenonT(60) DEF WindowOutcomes, SaidByWindow

(* A window never says "verified". *)
LEMMA WindowsSay ==
    ASSUME InstallTyped, NEW asks \in {"identity", "secret", "nothing"}
    PROVE  Ends(asks) \subseteq Endings
<1>1. PICK p, l, x : p = platform /\ l = lease /\ x = expired
  OBVIOUS
<1>2. p \in Platforms /\ l \in {"held", "cancelled", "invalid"} /\ x \in BOOLEAN
  BY <1>1 DEF InstallTyped
<1>3. WindowEnds[<<p, l, x, asks>>] = WindowOutcomes(p, l, x, asks)
  <2>1. PICK q : q = <<p, l, x, asks>>
    OBVIOUS
  <2>2. q \in Platforms \X {"held", "cancelled", "invalid"} \X BOOLEAN \X {"identity", "secret", "nothing"}
    BY <1>2, <2>1
  <2>3. q[1] = p /\ q[2] = l /\ q[3] = x /\ q[4] = asks
    BY <2>1
  <2>4. WindowEnds[q] = WindowOutcomes(q[1], q[2], q[3], q[4])
    BY <2>2 DEF WindowEnds
  <2>. QED  BY <2>1, <2>3, <2>4, Zenon
<1>4. WindowOutcomes(p, l, x, asks) \subseteq Endings
  <2>. SUFFICES ASSUME NEW e \in WindowOutcomes(p, l, x, asks) PROVE e \in Endings
    OBVIOUS
  <2>1. /\ [lease : {"held", l}, expired : {FALSE, x}, made : BOOLEAN] \subseteq Seen
        /\ Windows(l, x, asks) \subseteq Shown(asks)
    BY <1>2 DEF Seen, Shown, Windows
  <2>2. PICK o \in Seen, w \in Shown(asks) :
            e = Win32Dialog(o, w) \/ (w.click # "timer" /\ e = GtkDialog(o, w))
    <3>1. SaidByWindow(e, l, x, asks)
      BY OutcomesAre
    <3>. QED  BY <2>1, <3>1, Zenon DEF SaidByWindow
  <2>. QED  BY <2>2, GtkSays, Win32Says
<1>. QED  BY <1>1, <1>3, <1>4, Zenon DEF Ends

-----------------------------------------------------------------------------
(* The steps before the sequence, and those after it.                      *)

(* The first state. *)
LEMMA SequenceInit == Init => SequenceInv
<1>. SUFFICES ASSUME Init PROVE SequenceInv
  OBVIOUS
<1>1. found \in TargetStates /\ target \in TargetStates
  BY SessionAssumption DEF Init, TargetStates
<1>2. exports \in Exported
  BY DEF Init, NoExports, Exported, Causes
<1>3. pc = "open" /\ ended = "no"
  BY DEF Init
<1>4. InstallTyped
  BY <1>1, <1>2, <1>3 DEF Init, InstallTyped
<1>. QED  BY <1>3, <1>4 DEF SequenceInv, InProgress, EndedWhole, EffectsKept, VerifiedIsWhole

(* A session that ends before the sequence says "verified" only of an audit or  *)
(* of the root route.                                                           *)
LEMMA EndsBefore ==
    ASSUME AccessInv, SequenceInv, pc \in EarlyPhases, NEW o, NEW told \in Exported, EndWith(o, told),
           o = "verified" => ~(Installing(scope) /\ scope.route = "administrator"),
           UNCHANGED <<platform, scope, expired, lease, installVars>>
    PROVE  SequenceInv'
<1>1. pc' = "resolve" /\ terminal' = o /\ exports' = told
  BY DEF EndWith
<1>2. ended' = "no" /\ UNCHANGED <<target, found>>
  BY DEF AccessInv, Untouched, installVars
<1>3. InstallTyped'
  BY <1>1, <1>2 DEF SequenceInv, InstallTyped
<1>4. EndedWhole'
  BY <1>1, <1>2 DEF EndedWhole
<1>. QED  BY <1>1, <1>2, <1>3, <1>4 DEF SequenceInv, InProgress, EffectsKept, VerifiedIsWhole

(* One that goes on before the sequence has no record yet. *)
LEMMA GoesOnBefore ==
    ASSUME AccessInv, SequenceInv, pc \in EarlyPhases, pc' \in EarlyPhases, exports' \in Exported,
           UNCHANGED <<platform, scope, expired, lease, installVars>>
    PROVE  SequenceInv'
<1>1. pc' \notin {"drive", "resolve", "done"}
  BY DEF EarlyPhases
<1>2. ended' = "no" /\ UNCHANGED <<target, found>>
  BY DEF AccessInv, Untouched, installVars
<1>3. InstallTyped'
  BY <1>1, <1>2 DEF SequenceInv, InstallTyped
<1>4. EndedWhole'
  BY <1>1, <1>2 DEF EndedWhole
<1>. QED  BY <1>1, <1>2, <1>3, <1>4 DEF SequenceInv, InProgress, EffectsKept, VerifiedIsWhole

(* The steps before the session is open say nothing yet. *)
LEMMA OpeningRecords ==
    AccessInv /\ SequenceInv /\ (PrepareAccess \/ AnswerWindow \/ OpenKey \/ UnlockKey \/ Dial
                                 \/ AttestHost \/ Authenticate) => SequenceInv'
<1>. SUFFICES ASSUME AccessInv, SequenceInv,
                     PrepareAccess \/ AnswerWindow \/ OpenKey \/ UnlockKey \/ Dial \/ AttestHost
                     \/ Authenticate
              PROVE  SequenceInv'
  OBVIOUS
<1>1. /\ pc \in EarlyPhases /\ UNCHANGED <<platform, scope, expired, lease, installVars>>
  BY DEF PrepareAccess, AnswerWindow, OpenKey, UnlockKey, Dial, AttestHost, Authenticate,
     EarlyPhases
<1>2. NoExports \in Exported
  BY DEF NoExports, Exported, Causes
<1>3. \/ \E o \in Endings : EndWith(o, NoExports)
      \/ pc' \in EarlyPhases /\ UNCHANGED exports
  <2>0. /\ "unavailable" \in Endings /\ InstallTyped
        /\ Ends("secret") \subseteq Endings /\ Ends("nothing") \subseteq Endings
        /\ Ends("identity") \subseteq Endings
    BY WindowsSay DEF Endings, SequenceInv
  <2>1. CASE PrepareAccess
    <3>1. EndWith("unavailable", NoExports) \/ (pc' = "window" /\ UNCHANGED exports)
      BY <2>1, Zenon DEF PrepareAccess
    <3>. QED  BY <2>0, <3>1 DEF EarlyPhases
  <2>2. CASE AnswerWindow
    <3>1. PICK ends : ends = Ends(IF agent = "none" THEN "nothing" ELSE "identity")
      OBVIOUS
    <3>2. \/ \E o \in ends \ {"ok"} : EndWith(o, NoExports)
          \/ pc' \in {"dial", "key"} /\ UNCHANGED exports
      BY <2>2, <3>1, Zenon DEF AnswerWindow
    <3>3. ends \subseteq Endings
      BY <2>0, <3>1
    <3>. QED  BY <3>2, <3>3 DEF EarlyPhases
  <2>3. CASE OpenKey
    <3>1. EndWith("unavailable", NoExports) \/ (pc' = "passphrase" /\ UNCHANGED exports)
      BY <2>3, Zenon DEF OpenKey
    <3>. QED  BY <2>0, <3>1 DEF EarlyPhases
  <2>4. CASE UnlockKey
    <3>1. \/ \E o \in (Ends("secret") \ {"ok"}) \union {"unavailable"} : EndWith(o, NoExports)
          \/ pc' = "dial" /\ UNCHANGED exports
      BY <2>4, Zenon DEF UnlockKey
    <3>. QED  BY <2>0, <3>1 DEF EarlyPhases
  <2>5. CASE Dial
    <3>1. EndWith("unavailable", NoExports) \/ (pc' = "attest" /\ UNCHANGED exports)
      BY <2>5, Zenon DEF Dial
    <3>. QED  BY <2>0, <3>1 DEF EarlyPhases
  <2>6. CASE AttestHost
    <3>1. EndWith("unavailable", NoExports) \/ (pc' = "authenticate" /\ UNCHANGED exports)
      BY <2>6, Zenon DEF AttestHost
    <3>. QED  BY <2>0, <3>1 DEF EarlyPhases
  <2>7. CASE Authenticate
    <3>1. EndWith("unavailable", NoExports) \/ (pc' = "probe" /\ UNCHANGED exports)
      BY <2>7, Zenon DEF Authenticate
    <3>. QED  BY <2>0, <3>1 DEF EarlyPhases
  <2>. QED  BY <2>1, <2>2, <2>3, <2>4, <2>5, <2>6, <2>7
<1>4. CASE \E o \in Endings : EndWith(o, NoExports)
  <2>1. PICK o \in Endings : EndWith(o, NoExports)
    BY <1>4
  <2>2. o # "verified"
    BY DEF Endings
  <2>. QED  BY <1>1, <1>2, <2>1, <2>2, EndsBefore
<1>5. CASE pc' \in EarlyPhases /\ UNCHANGED exports
  <2>1. exports' \in Exported
    BY <1>5 DEF SequenceInv, InstallTyped
  <2>. QED  BY <1>1, <1>5, <2>1, GoesOnBefore
<1>. QED  BY <1>3, <1>4, <1>5

(* A refusal is told with a cause of the contract, and is never "verified". *)
LEMMA ToldSays ==
    ASSUME NEW refusal, exports \in Exported, Told(refusal)
    PROVE  \E o \in Endings, told \in Exported : EndWith(o, told)
<1>1. PICK r : r = PolicyRefusal(refusal)
  OBVIOUS
<1>2. r.outcome \in {"refused", "unavailable"} /\ r.cause \in Causes
  BY <1>1 DEF PolicyRefusal, Causes
<1>3. PICK s, told : /\ s = IF r.narrow THEN "narrow" ELSE exports.scope
                     /\ told = [exports EXCEPT !.cause = r.cause, !.scope = s]
  OBVIOUS
<1>4. s \in {"none", "narrow", "suffices"}
  BY <1>3 DEF Exported
<1>5. told \in Exported
  BY <1>2, <1>3, <1>4 DEF Exported
<1>6. EndWith(r.outcome, told)
  <2>1. told = [exports EXCEPT !.cause = r.cause, !.scope = IF r.narrow THEN "narrow" ELSE @]
    BY <1>3
  <2>. QED  BY <1>1, <2>1, Zenon DEF Told
<1>. QED  BY <1>2, <1>5, <1>6 DEF Endings

(* The steps that prove the elevation. *)
LEMMA ProofRecords ==
    AccessInv /\ SequenceInv /\ (Probe \/ ListPolicy \/ AskPassword \/ ListPolicyWithSecret
                                 \/ Elevate) => SequenceInv'
<1>. SUFFICES ASSUME AccessInv, SequenceInv,
                     Probe \/ ListPolicy \/ AskPassword \/ ListPolicyWithSecret \/ Elevate
              PROVE  SequenceInv'
  OBVIOUS
<1>1. /\ pc \in EarlyPhases /\ UNCHANGED <<platform, scope, expired, lease, installVars>>
  BY DEF Probe, ListPolicy, AskPassword, ListPolicyWithSecret, Elevate, EarlyPhases
<1>2. exports \in Exported /\ InstallTyped /\ "unavailable" \in Endings
  BY DEF SequenceInv, InstallTyped, Endings
<1>3. \/ \E o \in Endings, told \in Exported : EndWith(o, told)
      \/ /\ EndWith("verified", exports)
         /\ ~(Installing(scope) /\ scope.route = "administrator")
      \/ pc' \in EarlyPhases /\ exports' \in Exported
  <2>1. CASE Probe
    <3>1. \/ EndWith("unavailable", exports)
          \/ scope.route = "root" /\ EndWith("verified", exports)
          \/ pc' = "list" /\ UNCHANGED exports
      BY <2>1, Zenon DEF Probe, ProofFails
    <3>. QED  BY <1>2, <3>1 DEF EarlyPhases
  <2>2. CASE ListPolicy \/ ListPolicyWithSecret
    <3>1. \/ EndWith("unavailable", exports)
          \/ \E r : Attests(r)
          \/ pc' = "ask" /\ UNCHANGED exports
          \/ \E refusal : Told(refusal)
      BY <2>2, Zenon DEF ListPolicy, ListPolicyWithSecret, ProofFails
    <3>2. ASSUME NEW r, Attests(r) PROVE pc' = "elevate" /\ exports' \in Exported
      <4>1. PICK s : s = IF Suffices(r) THEN "suffices" ELSE "narrow"
        OBVIOUS
      <4>2. s \in {"suffices", "narrow"}
        BY <4>1
      <4>3. exports' = [exports EXCEPT !.scope = s] /\ pc' = "elevate"
        BY <3>2, <4>1 DEF Attests
      <4>. QED  BY <1>2, <4>2, <4>3 DEF Exported
    <3>. QED  BY <1>2, <3>1, <3>2, ToldSays DEF EarlyPhases
  <2>3. CASE AskPassword
    <3>1. \/ \E o \in Ends("secret") \ {"ok"} : EndWith(o, exports)
          \/ pc' = "list-again" /\ UNCHANGED exports
      BY <2>3, Zenon DEF AskPassword
    <3>2. Ends("secret") \subseteq Endings
      BY <1>2, WindowsSay
    <3>. QED  BY <1>2, <3>1, <3>2 DEF EarlyPhases
  <2>4. CASE Elevate
    <3>1. \/ EndWith("unavailable", exports)
          \/ ~Installs /\ EndWith("verified", exports)
          \/ pc' = "observe" /\ UNCHANGED exports
      BY <2>4, Zenon DEF Elevate, ProofFails
    <3>. QED  BY <1>2, <3>1, ScopeInstalls DEF EarlyPhases, AccessInv
  <2>. QED  BY <2>1, <2>2, <2>3, <2>4
<1>4. CASE \E o \in Endings, told \in Exported : EndWith(o, told)
  <2>1. PICK o \in Endings, told \in Exported : EndWith(o, told)
    BY <1>4
  <2>2. o # "verified"
    BY DEF Endings
  <2>. QED  BY <1>1, <2>1, <2>2, EndsBefore
<1>5. CASE /\ EndWith("verified", exports)
           /\ ~(Installing(scope) /\ scope.route = "administrator")
  BY <1>1, <1>2, <1>5, EndsBefore
<1>6. CASE pc' \in EarlyPhases /\ exports' \in Exported
  BY <1>1, <1>6, GoesOnBefore
<1>. QED  BY <1>3, <1>4, <1>5, <1>6

(* The observation and the judgement, whose approval starts the sequence. *)
LEMMA JudgementRecords ==
    AccessInv /\ SequenceInv /\ (Observe \/ Judge) => SequenceInv'
<1>. SUFFICES ASSUME AccessInv, SequenceInv, Observe \/ Judge PROVE SequenceInv'
  OBVIOUS
<1>1. /\ pc \in EarlyPhases /\ UNCHANGED <<platform, scope, expired, lease, installVars>>
      /\ exports \in Exported
  BY DEF Observe, Judge, EarlyPhases, SequenceInv, InstallTyped
<1>2. CASE Observe
  <2>1. pc' \in EarlyPhases /\ UNCHANGED exports
    BY <1>2 DEF Observe, EarlyPhases
  <2>. QED  BY <1>1, <2>1, GoesOnBefore
<1>3. CASE Judge
  <2>1. \/ \E o \in {"refused", "unavailable"} : EndWith(o, exports)
        \/ pc' = "drive" /\ UNCHANGED <<exports, terminal>>
    BY <1>3, Zenon DEF Judge
  <2>2. CASE \E o \in {"refused", "unavailable"} : EndWith(o, exports)
    <3>1. PICK o \in {"refused", "unavailable"} : EndWith(o, exports)
      BY <2>2
    <3>2. o # "verified"
      OBVIOUS
    <3>. QED  BY <1>1, <3>1, <3>2, EndsBefore
  <2>3. CASE pc' = "drive" /\ UNCHANGED <<exports, terminal>>
    <3>1. /\ target' = found' /\ at' = First /\ readings' = <<>> /\ pending' = <<>>
          /\ ledger' = <<>> /\ ended' = "no" /\ UNCHANGED <<target, found>>
      BY <1>1 DEF AccessInv, Untouched, installVars
    <3>2. InstallTyped'
      BY <1>1, <2>3, <3>1 DEF SequenceInv, InstallTyped
    <3>3. First \in Positions /\ DoneAt(First) = 0
      BY DEF First, Positions, Costs, DoneAt, Before
    <3>4. OpAt(First) \notin {"size", "digest"}
      BY <3>3, OpTable
    <3>5. Noted(<<>>, <<>>, 0) /\ Established(target', 0)
      BY ItemTable DEF Noted, Established
    <3>6. Kept(<<>>, <<>>, 0)
      BY DEF Kept, AllCreated, Waits, NotesBefore
    <3>7. Unwritten(target', found', 0)
      BY <3>1 DEF Unwritten
    <3>8. Progress(target', found', ledger', pending', readings', DoneAt(at'), OpAt(at'))
      BY <3>1, <3>3, <3>4, <3>5, <3>6, <3>7 DEF Progress, AnswersSoFar
    <3>9. InProgress'
      BY <3>8 DEF InProgress
    <3>. QED  BY <2>3, <3>1, <3>2, <3>9 DEF SequenceInv, EndedWhole, EffectsKept, VerifiedIsWhole
  <2>. QED  BY <2>1, <2>2, <2>3
<1>. QED  BY <1>2, <1>3

(* The credential is dropped, and the sequence's end is what the prompt says. *)
LEMMA DropRecords == AccessInv /\ SequenceInv /\ DropCredential => SequenceInv'
<1>. SUFFICES ASSUME AccessInv, SequenceInv, DropCredential PROVE SequenceInv'
  OBVIOUS
<1>1. /\ pc' = "resolve" /\ UNCHANGED <<platform, scope, expired, lease, installVars>>
      /\ UNCHANGED <<target, found, at, ledger, ended>>
  BY DEF DropCredential, installVars
<1>2. exports' \in Exported /\ exports'.ledger
  <2>1. exports \in Exported
    BY DEF SequenceInv, InstallTyped
  <2>. QED  BY <2>1 DEF DropCredential, Exported
<1>3. terminal' = "verified" <=> ended = "whole"
  BY DEF DropCredential
<1>4. InstallTyped'
  BY <1>1, <1>2 DEF SequenceInv, InstallTyped
<1>5. EndedWhole'
  BY <1>1, <1>2, <1>3 DEF SequenceInv, EndedWhole
<1>6. Step' = Step
  BY <1>1 DEF Step, Planned
<1>7. EffectsKept'
  BY <1>1, <1>6 DEF SequenceInv, EffectsKept
<1>. QED  BY <1>1, <1>4, <1>5, <1>7 DEF SequenceInv, InProgress, VerifiedIsWhole

(* What is written when the deadline and the lease held, and what an event that *)
(* says "verified" carries.                                                     *)
LEMMA ResolveSays ==
    ASSUME Resolve, InstallTyped
    PROVE  /\ terminal' = "verified" => terminal = "verified" /\ exports'.ledger = exports.ledger
           /\ (terminal = "verified" /\ ~expired /\ lease = "held" /\ Len(ledger) \in 0..16)
                 => terminal' = "verified"
           /\ exports' \in Exported
<1>1. PICK said : said = IF lease = "invalid" THEN "protocol"
                         ELSE IF expired THEN "expired"
                         ELSE IF lease = "cancelled" THEN "cancelled" ELSE terminal
  OBVIOUS
<1>2. PICK told : told = [scope |-> IF said \in Carriers THEN exports.scope ELSE "none",
                          ledger |-> said \in Carriers /\ exports.ledger,
                          cause |-> IF said = "refused" THEN exports.cause ELSE "none"]
  OBVIOUS
<1>3. /\ terminal' = IF said = "protocol" \/ ValidEvent(said, told, ledger) THEN said ELSE "internal"
      /\ exports' = told
  BY <1>1, <1>2, Zenon DEF Resolve
<1>4. exports \in Exported /\ lease \in {"held", "cancelled", "invalid"} /\ expired \in BOOLEAN
  BY DEF InstallTyped
<1>5. told \in Exported
  BY <1>2, <1>4 DEF Exported, Causes
<1>6. said = "verified" <=> terminal = "verified" /\ ~expired /\ lease = "held"
  BY <1>1, <1>4
<1>7. said = "verified" => told.ledger = exports.ledger /\ told.cause = "none"
  <2>1. exports.ledger \in BOOLEAN
    BY <1>4 DEF Exported
  <2>. QED  BY <1>2, <2>1 DEF Carriers
<1>8. said = "verified" /\ Len(ledger) \in 0..16 => ValidEvent(said, told, ledger)
  <2>1. Len(ledger) \in 0..16 => Len(ledger) <= MaxLedgerItems
    <3>1. PICK n : n = Len(ledger)
      OBVIOUS
    <3>2. n \in 0..16 => n <= 16
      BY ONLY TRUE
    <3>. QED  BY <3>1, <3>2 DEF MaxLedgerItems
  <2>. QED  BY <1>7, <2>1 DEF ValidEvent, Carriers
<1>9. /\ terminal' = "verified" => said = "verified"
      /\ said = "verified" /\ Len(ledger) \in 0..16 => terminal' = "verified"
  BY <1>3, <1>8
<1>. QED  BY <1>3, <1>5, <1>6, <1>7, <1>9

(* The terminal. *)
LEMMA ResolveRecords == AccessInv /\ SequenceInv /\ Resolve => SequenceInv'
<1>. SUFFICES ASSUME AccessInv, SequenceInv, Resolve PROVE SequenceInv'
  OBVIOUS
<1>1. /\ pc = "resolve" /\ pc' = "done"
      /\ UNCHANGED <<platform, scope, expired, lease, target, found, at, ledger, ended>>
  BY DEF Resolve, installVars
<1>2. CASE ended = "whole"
  <2>1. terminal = "verified" /\ WholeIs(target, ledger)
    BY <1>1, <1>2 DEF SequenceInv, EndedWhole
  <2>2. /\ terminal' = "verified" => exports'.ledger = exports.ledger
        /\ ~expired /\ lease = "held" => terminal' = "verified"
        /\ exports' \in Exported
    BY <2>1, ResolveSays DEF SequenceInv, WholeIs
  <2>. HIDE DEF WholeIs
  <2>3. WholeIs(target', ledger')
    BY <1>1, <2>1
  <2>. QED
    <3>1. InstallTyped' /\ InProgress' /\ EndedWhole' /\ EffectsKept'
      <4>1. Step' = Step
        BY <1>1 DEF Step, Planned
      <4>. QED  BY <1>1, <2>2, <2>3, <4>1 DEF SequenceInv, InstallTyped, InProgress, EndedWhole,
                   EffectsKept
    <3>2. Installs' => Installing(scope)
      <4>1. Installs' <=> Installs
        BY <1>1 DEF Installs
      <4>. QED  BY <4>1, ScopeInstalls DEF AccessInv
    <3>3. Unwind(ledger').complete
      BY <2>3 DEF Unwind, WholeIs, AllCreated
    <3>4. (terminal' = "verified" /\ Installing(scope) /\ scope.route = "administrator") => exports'.ledger
      BY <1>1, <2>1, <2>2 DEF SequenceInv, EndedWhole
    <3>5. VerifiedIsWhole'
      BY <1>1, <2>2, <2>3, <3>2, <3>3, <3>4 DEF VerifiedIsWhole, WholeIs
    <3>. QED  BY <3>1, <3>5 DEF SequenceInv
<1>3. CASE ended # "whole"
  <2>1. ~(terminal = "verified" /\ Installing(scope) /\ scope.route = "administrator")
    BY <1>1, <1>3 DEF SequenceInv, EndedWhole
  <2>2. exports' \in Exported /\ (terminal' = "verified" => terminal = "verified")
    BY ResolveSays DEF SequenceInv
  <2>3. InstallTyped' /\ InProgress' /\ EndedWhole' /\ EffectsKept'
    <3>1. Step' = Step
      BY <1>1 DEF Step, Planned
    <3>. QED  BY <1>1, <1>3, <2>2, <3>1 DEF SequenceInv, InstallTyped, InProgress, EndedWhole,
                 EffectsKept
  <2>4. Installs' => Installing(scope)
    <3>1. Installs' <=> Installs
      BY <1>1 DEF Installs
    <3>. QED  BY <3>1, ScopeInstalls DEF AccessInv
  <2>5. VerifiedIsWhole'
    BY <1>1, <1>3, <2>1, <2>2, <2>4 DEF VerifiedIsWhole
  <2>. QED  BY <2>3, <2>5 DEF SequenceInv
<1>. QED  BY <1>2, <1>3

(* The deadline, the lease and the key file; and a step that changes nothing. *)
LEMMA BesideRecords ==
    AccessInv /\ SequenceInv /\ (Expire \/ LoseLease \/ ReplaceKeyFile \/ UNCHANGED vars) => SequenceInv'
<1>. SUFFICES ASSUME AccessInv, SequenceInv, Expire \/ LoseLease \/ ReplaceKeyFile \/ UNCHANGED vars
              PROVE  SequenceInv'
  OBVIOUS
<1>1. UNCHANGED <<pc, platform, scope, exports, terminal, target, found, at, readings, pending, ledger, ended>>
  BY DEF Expire, LoseLease, ReplaceKeyFile, vars, sessionVars, installVars
<1>2. /\ expired' \in BOOLEAN /\ lease' \in {"held", "cancelled", "invalid"}
      /\ pc = "done" => UNCHANGED <<expired, lease>>
  BY DEF Expire, LoseLease, ReplaceKeyFile, vars, sessionVars, SequenceInv, InstallTyped
<1>3. InstallTyped'
  BY <1>1, <1>2 DEF SequenceInv, InstallTyped
<1>4. InProgress'
  BY <1>1 DEF SequenceInv, InProgress
<1>5. EndedWhole'
  BY <1>1 DEF SequenceInv, EndedWhole
<1>6. EffectsKept'
  <2>1. Step' = Step
    BY <1>1 DEF Step, Planned
  <2>. QED  BY <1>1, <2>1 DEF SequenceInv, EffectsKept
<1>7. VerifiedIsWhole'
  <2>1. CASE pc = "done"
    <3>1. Installs' <=> Installs
      BY <1>1 DEF Installs
    <3>. QED  BY <1>1, <1>2, <2>1, <3>1 DEF SequenceInv, VerifiedIsWhole
  <2>2. CASE pc # "done"
    BY <1>1, <2>2 DEF VerifiedIsWhole
  <2>. QED  BY <2>1, <2>2
<1>. QED  BY <1>3, <1>4, <1>5, <1>6, <1>7 DEF SequenceInv

-----------------------------------------------------------------------------
(* What the sequence promises.                                             *)

(* The sequence's own invariant, beside the session's: what was written, noted  *)
(* and established before each operation, and what the end says of it           *)
(* (sequence.rs run, deposit, act and constate; lib.rs write_terminal).         *)
THEOREM SequenceIsInvariant == Spec => [](AccessInv /\ SequenceInv)
<1>1. Init => SequenceInv
  BY SequenceInit
<1>2. AccessInv /\ SequenceInv /\ [Next]_vars => SequenceInv'
  <2>. SUFFICES ASSUME AccessInv, SequenceInv, [Next]_vars PROVE SequenceInv'
    OBVIOUS
  <2>1. CASE SessionStep
    <3>1. CASE Drive
      BY <3>1, UnansweredKeeps, MakeStagingKeeps, DepositKeeps, MeasureSizeKeeps,
         MeasureDigestKeeps, ActKeeps, EstablishesKeeps, Zenon DEF Drive
    <3>. QED  BY <2>1, <3>1, OpeningRecords, ProofRecords, JudgementRecords, DropRecords,
                 ResolveRecords, Zenon DEF SessionStep
  <2>2. CASE Expire \/ LoseLease \/ ReplaceKeyFile \/ UNCHANGED vars
    BY <2>2, BesideRecords
  <2>. QED  BY <2>1, <2>2, Zenon DEF Next
<1>. QED  BY <1>1, <1>2, SessionIsInvariant, PTL DEF Spec

(* When the sequence stops, whatever it changed on the target is in the ledger, *)
(* save what belongs to the step that went unanswered (sequence.rs, run and     *)
(* record_step).                                                                *)
THEOREM EarlierEffectsAlwaysRecorded == Spec => []EarlierEffectsAreRecorded
<1>1. SequenceInv => EarlierEffectsAreRecorded
  BY Zenon DEF SequenceInv, EffectsKept, Accounted, Recorded, StepWrites, EarlierEffectsAreRecorded
<1>. QED  BY <1>1, SequenceIsInvariant, PTL

(* A verified installation is a whole one whose ledger reaches the App, and a   *)
(* whole one is always told while its deadline and its lease hold (sequence.rs  *)
(* outcome, lib.rs write_terminal).                                             *)
THEOREM VerifiedIsAlwaysWhole == Spec => []VerifiedIsWhole
<1>1. SequenceInv => VerifiedIsWhole
  BY DEF SequenceInv
<1>. QED  BY <1>1, SequenceIsInvariant, PTL
=============================================================================
