----------------------- MODULE ConfigAtStart_proofs -----------------------
(***************************************************************************)
(* Theorems about ConfigAtStart, and the converter and the block it is     *)
(* made of: for every subscription, setting, network and machine.          *)
(*                                                                         *)
(* A route or DNS rule is either hit or not, so a list of rules is a       *)
(* function from what they decide otherwise to what they decide, and lists *)
(* one after another are such functions one after another.  The invariant  *)
(* says, stage by stage, which resolvers, DNS rules, addresses and route   *)
(* rules the profile has; at the end, what they decide is what the         *)
(* settings promise.                                                       *)
(***************************************************************************)
EXTENDS ConfigAtStart, SequenceTheorems, FiniteSetTheorems, WellFoundedInduction, TLAPS

-----------------------------------------------------------------------------
(* The least of a set, and the entries at some places of a list. *)

\* A set of naturals has a least member.
LEMMA LeastOfNaturals ==
    ASSUME NEW S \in SUBSET Nat, S # {}
    PROVE  \E x \in S : \A y \in S : x <= y
<1> DEFINE Less == {ss \in Nat \X Nat : ss[1] < ss[2]}
<1>1. IsWellFoundedOn(Less, Nat)
  BY NatLessThanWellFounded DEF OpToRel
<1>2. PICK x \in S : \A y \in S : <<y, x>> \notin Less
  <2> HIDE DEF Less
  <2> QED
    BY <1>1, WFMin
<1>3. ASSUME NEW y \in S PROVE x <= y
  <2>1. x \in Nat /\ y \in Nat
    OBVIOUS
  <2>2. ~(y < x)
    <3>1. <<y, x>> \in Nat \X Nat /\ <<y, x>>[1] = y /\ <<y, x>>[2] = x
      BY <2>1
    <3> QED
      BY <1>2, <3>1
  <2> QED
    BY <2>1, <2>2
<1> QED
  BY <1>3

\* What holds of 0 and of the successor of each is all of the naturals.
LEMMA FromZeroUp ==
    ASSUME NEW S, 0 \in S, \A n \in Nat : n \in S => n + 1 \in S
    PROVE  Nat \subseteq S
<1> SUFFICES ASSUME Nat \ S # {} PROVE FALSE
  OBVIOUS
<1>1. PICK n \in Nat \ S : \A m \in Nat \ S : n <= m
  BY LeastOfNaturals
<1>2. n # 0 /\ n - 1 \in Nat /\ n - 1 + 1 = n /\ ~(n <= n - 1)
  BY <1>1
<1> QED
  BY <1>1, <1>2

\* FirstOf is the least of the places.
LEMMA FirstOfFacts ==
    ASSUME NEW S \in SUBSET Nat, S # {}
    PROVE  FirstOf(S) \in S /\ \A y \in S : FirstOf(S) <= y
BY LeastOfNaturals DEF FirstOf

\* The sequence built up place by place.
LEMMA EntriesAtSteps ==
    ASSUME NEW s, NEW places, Len(s) \in Nat
    PROVE  \E f : /\ f[0] = <<>>
                  /\ \A i \in 1 .. Len(s) :
                       f[i] = IF i \in places THEN Append(f[i - 1], s[i]) ELSE f[i - 1]
                  /\ EntriesAt(s, places) = f[Len(s)]
<1> DEFINE Grown(f, n) == [i \in 0 .. n |->
              IF i = 0 THEN <<>>
              ELSE IF i \in places THEN Append(f[i - 1], s[i]) ELSE f[i - 1]]
           Grows(n) == \E f : f = Grown(f, n)
           S == {n \in Nat : Grows(n)}
<1>1. 0 \in S
  <2> DEFINE f == [i \in 0 .. 0 |-> <<>>]
  <2>1. f = Grown(f, 0)
    OBVIOUS
  <2> QED
    BY <2>1
<1>2. ASSUME NEW n \in Nat, n \in S PROVE n + 1 \in S
  <2>1. PICK f : f = Grown(f, n)
    BY <1>2
  <2> DEFINE g == [i \in 0 .. n + 1 |->
                     IF i <= n THEN f[i]
                     ELSE IF n + 1 \in places THEN Append(f[n], s[n + 1]) ELSE f[n]]
  <2>2. \A i \in 0 .. n : g[i] = f[i]
    OBVIOUS
  <2>3. \A i \in 0 .. n : f[i] = IF i = 0 THEN <<>>
              ELSE IF i \in places THEN Append(f[i - 1], s[i]) ELSE f[i - 1]
    <3> HIDE DEF g
    <3> QED BY <2>1
  <2>4. ASSUME NEW i \in 0 .. n + 1
        PROVE  g[i] = IF i = 0 THEN <<>>
              ELSE IF i \in places THEN Append(g[i - 1], s[i]) ELSE g[i - 1]
    <3>1. CASE i \in 0 .. n
      <4>1. i # 0 => i - 1 \in 0 .. n
        BY <3>1
      <4> QED
        BY <2>2, <2>3, <3>1, <4>1
    <3>2. CASE i = n + 1
      <4>1. g[n + 1] = IF n + 1 \in places THEN Append(f[n], s[n + 1]) ELSE f[n]
        OBVIOUS
      <4>2. n + 1 - 1 = n /\ n + 1 # 0 /\ g[n] = f[n]
        BY <2>2
      <4> QED
        BY <3>2, <4>1, <4>2
    <3> QED
      BY <3>1, <3>2
  <2>5. g = Grown(g, n + 1)
    <3>1. DOMAIN g = 0 .. n + 1 /\ g = [i \in 0 .. n + 1 |-> g[i]]
      OBVIOUS
    <3> HIDE DEF g
    <3> QED
      BY <2>4, <3>1
  <2>6. Grows(n + 1)
    <3> HIDE DEF g
    <3> QED BY <2>5
  <2> QED
    <3> HIDE DEF Grows
    <3> QED BY <2>6
<1>3. Len(s) \in S
  <2> HIDE DEF S
  <2> QED
    BY <1>1, <1>2, FromZeroUp
<1> DEFINE upTo == CHOOSE f : f = Grown(f, Len(s))
<1>4. upTo = Grown(upTo, Len(s))
  BY <1>3
<1>5. EntriesAt(s, places) = upTo[Len(s)]
  BY DEF EntriesAt
<1> HIDE DEF upTo
<1>6. upTo[0] = <<>> /\ \A i \in 1 .. Len(s) :
         upTo[i] = IF i \in places THEN Append(upTo[i - 1], s[i]) ELSE upTo[i - 1]
  <2>1. \A i \in 0 .. Len(s) : upTo[i] = IF i = 0 THEN <<>>
              ELSE IF i \in places THEN Append(upTo[i - 1], s[i]) ELSE upTo[i - 1]
    BY <1>4
  <2>2. 0 \in 0 .. Len(s) /\ \A i \in 1 .. Len(s) : i \in 0 .. Len(s) /\ i # 0
    OBVIOUS
  <2> QED
    BY <2>1, <2>2
<1> QED
  BY <1>5, <1>6

\* What is at the places is what comes out.
LEMMA EntriesAtFacts ==
    ASSUME NEW s, NEW places, Len(s) \in Nat
    PROVE  /\ EntriesAt(s, places) \in Seq({s[i] : i \in 1 .. Len(s) \cap places})
           /\ \A i \in 1 .. Len(s) \cap places :
                \E k \in 1 .. Len(EntriesAt(s, places)) : EntriesAt(s, places)[k] = s[i]
<1>1. PICK f : /\ f[0] = <<>>
               /\ \A i \in 1 .. Len(s) :
                    f[i] = IF i \in places THEN Append(f[i - 1], s[i]) ELSE f[i - 1]
               /\ EntriesAt(s, places) = f[Len(s)]
  BY EntriesAtSteps
<1> DEFINE T == {s[i] : i \in 1 .. Len(s) \cap places}
           Good(n) == /\ f[n] \in Seq(T)
                      /\ \A i \in 1 .. n \cap places :
                           \E k \in 1 .. Len(f[n]) : f[n][k] = s[i]
           S == {n \in Nat : n <= Len(s) => Good(n)}
<1>2. 0 \in S
  <2>1. f[0] \in Seq(T)
    BY <1>1
  <2>2. 1 .. 0 \cap places = {}
    OBVIOUS
  <2> QED
    BY <2>1, <2>2
<1>3. ASSUME NEW n \in Nat, n \in S, n + 1 <= Len(s) PROVE Good(n + 1)
  <2>1. Good(n) /\ n + 1 \in 1 .. Len(s) /\ n + 1 - 1 = n
    BY <1>3
  <2>2. CASE n + 1 \in places
    <3>1. f[n + 1] = Append(f[n], s[n + 1]) /\ s[n + 1] \in T
      <4>1. n + 1 \in 1 .. Len(s) \cap places
        BY <2>1, <2>2
      <4>2. s[n + 1] \in T
        BY <4>1
      <4>3. f[n + 1] = Append(f[n + 1 - 1], s[n + 1])
        <5>1. \A i \in 1 .. Len(s) : i \in places => f[i] = Append(f[i - 1], s[i])
          BY <1>1
        <5>2. n + 1 \in 1 .. Len(s) /\ n + 1 \in places
          BY <4>1
        <5> QED
          BY <5>1, <5>2
      <4> QED
        BY <2>1, <4>2, <4>3
    <3> DEFINE old == f[n]
               new == s[n + 1]
    <3>2. old \in Seq(T) /\ new \in T /\ Len(old) \in Nat
      BY <2>1, <3>1
    <3>3. f[n + 1] = Append(old, new)
      BY <3>1
    <3>4. \A i \in 1 .. n \cap places : \E k \in 1 .. Len(old) : old[k] = s[i]
      BY <2>1
    <3> HIDE DEF old, new, T
    <3>5. /\ Append(old, new) \in Seq(T) /\ Len(Append(old, new)) = Len(old) + 1
          /\ Append(old, new)[Len(old) + 1] = new
          /\ \A k \in 1 .. Len(old) : Append(old, new)[k] = old[k]
      BY <3>2, AppendProperties
    <3>6. ASSUME NEW i \in 1 .. n + 1 \cap places
          PROVE  \E k \in 1 .. Len(f[n + 1]) : f[n + 1][k] = s[i]
      <4>1. CASE i \in 1 .. n
        <5>1. PICK k \in 1 .. Len(old) : old[k] = s[i]
          BY <3>4, <3>6, <4>1
        <5>2. k \in 1 .. Len(old) + 1
          BY <3>2
        <5> QED
          BY <3>3, <3>5, <5>1, <5>2
      <4>2. CASE i = n + 1
        <5>1. Len(old) + 1 \in 1 .. Len(old) + 1
          BY <3>2
        <5> QED
          BY <3>3, <3>5, <4>2, <5>1 DEF new
      <4> QED
        BY <3>6, <4>1, <4>2
    <3> QED
      BY <3>3, <3>5, <3>6
  <2>3. CASE n + 1 \notin places
    <3>1. f[n + 1] = f[n]
      BY <1>1, <2>1, <2>3
    <3>2. 1 .. n + 1 \cap places = 1 .. n \cap places
      BY <2>3
    <3> QED
      BY <2>1, <3>1, <3>2
  <2> QED
    BY <2>2, <2>3
<1>4. Good(Len(s))
  <2>1. \A n \in Nat : n \in S => n + 1 \in S
    <3> SUFFICES ASSUME NEW n \in Nat, n \in S, n + 1 <= Len(s) PROVE Good(n + 1)
      OBVIOUS
    <3> QED BY <1>3
  <2>2. Len(s) \in S
    <3> HIDE DEF S
    <3> QED BY <1>2, <2>1, FromZeroUp
  <2> QED
    BY <2>2
<1> QED
  BY <1>1, <1>4

\* ... and nothing else is.
LEMMA FirstOfIs ==
    ASSUME NEW S \in SUBSET Nat, NEW x \in S, \A y \in S : x <= y
    PROVE  FirstOf(S) = x
<1>1. FirstOf(S) \in S /\ \A y \in S : FirstOf(S) <= y
  BY FirstOfFacts
<1>2. FirstOf(S) \in Nat /\ x \in Nat /\ FirstOf(S) <= x /\ x <= FirstOf(S)
  BY <1>1
<1> QED
  BY <1>2

-----------------------------------------------------------------------------
(* Decisions. *)

Hit(rule, it) == Get(rule, "action", "") # "sniff" /\ Matches(rule, it)

Target(rule) ==
    Get(rule, "outbound", Get(rule, "server", Get(rule, "action", "")))

HitsIn(rules, it) == {i \in 1 .. Len(rules) : Hit(rules[i], it)}

\* The first rule that is hit decides.
LEMMA DecidedIs ==
    ASSUME NEW rules, NEW it, NEW otherwise
    PROVE  Decided(rules, it, otherwise) =
             IF HitsIn(rules, it) = {} THEN otherwise
             ELSE Target(rules[FirstOf(HitsIn(rules, it))])
BY DEF Decided, HitsIn, Hit, Target

\* The rules of u are those of s and then those of t.
IsConcat(u, s, t) ==
    /\ Len(s) \in Nat /\ Len(t) \in Nat /\ Len(u) = Len(s) + Len(t)
    /\ \A i \in 1 .. Len(s) : u[i] = s[i]
    /\ \A i \in 1 .. Len(t) : u[Len(s) + i] = t[i]

\* Rules after others decide what those leave.
LEMMA DecidedInTurn ==
    ASSUME NEW s, NEW t, NEW u, IsConcat(u, s, t), NEW it, NEW otherwise
    PROVE  Decided(u, it, otherwise) = Decided(s, it, Decided(t, it, otherwise))
<1> DEFINE n == Len(s)
           hs == HitsIn(s, it)
           ht == HitsIn(t, it)
           hu == HitsIn(u, it)
<1>1. n \in Nat /\ Len(t) \in Nat
  BY DEF IsConcat
<1>2. hs \in SUBSET Nat /\ ht \in SUBSET Nat /\ hu \in SUBSET Nat
  BY <1>1 DEF HitsIn, IsConcat
<1>3. \A i \in 1 .. n : (i \in hu <=> i \in hs) /\ u[i] = s[i]
  BY <1>1 DEF HitsIn, IsConcat
<1>4. \A i \in 1 .. Len(t) : (n + i \in hu <=> i \in ht) /\ u[n + i] = t[i]
  BY <1>1 DEF HitsIn, IsConcat
<1>5. ASSUME NEW i \in hu, i \notin 1 .. n PROVE i - n \in ht /\ i = n + (i - n)
  <2>1. i \in 1 .. n + Len(t)
    BY DEF HitsIn, IsConcat
  <2>2. i - n \in 1 .. Len(t) /\ n + (i - n) = i
    BY <1>1, <1>5, <2>1
  <2> QED
    BY <1>4, <2>2
<1>6. hs \subseteq 1 .. n /\ ht \subseteq 1 .. Len(t)
  BY DEF HitsIn
<1> HIDE DEF n, hs, ht, hu
<1>7. CASE hs # {}
  <2>1. FirstOf(hs) \in hs /\ \A j \in hs : FirstOf(hs) <= j
    BY <1>2, <1>7, FirstOfFacts
  <2> DEFINE x == FirstOf(hs)
  <2>2. x \in 1 .. n /\ x \in hu
    BY <1>3, <1>6, <2>1
  <2>3. ASSUME NEW j \in hu PROVE x <= j
    <3>1. CASE j \in 1 .. n
      BY <1>3, <2>1, <3>1
    <3>2. CASE j \notin 1 .. n
      <4>1. j \in Nat /\ j - n \in 1 .. Len(t)
        BY <1>2, <1>5, <1>6, <3>2
      <4> QED
        BY <1>1, <2>2, <4>1
    <3> QED
      BY <3>1, <3>2
  <2>4. FirstOf(hu) = x
    BY <1>2, <2>2, <2>3, FirstOfIs
  <2>5. u[x] = s[x] /\ hu # {}
    BY <1>3, <2>2
  <2> QED
    BY <1>7, <2>4, <2>5, DecidedIs DEF hs, hu
<1>8. CASE hs = {}
  <2>1. CASE ht # {}
    <3>1. FirstOf(ht) \in ht /\ \A j \in ht : FirstOf(ht) <= j
      BY <1>2, <2>1, FirstOfFacts
    <3> DEFINE x == FirstOf(ht)
    <3>2. x \in 1 .. Len(t) /\ n + x \in hu /\ u[n + x] = t[x]
      BY <1>4, <1>6, <3>1
    <3>3. ASSUME NEW j \in hu PROVE n + x <= j
      <4>1. j \notin 1 .. n
        BY <1>3, <1>8
      <4>2. j - n \in ht /\ j = n + (j - n)
        BY <1>5, <4>1
      <4>3. x <= j - n /\ j \in Nat /\ x \in Nat
        BY <1>2, <3>1, <3>2, <4>2
      <4> QED
        BY <1>1, <4>3
    <3>4. n + x \in hu /\ FirstOf(hu) = n + x
      BY <1>2, <3>2, <3>3, FirstOfIs
    <3> HIDE DEF x
    <3>5. Decided(s, it, Decided(t, it, otherwise)) = Target(t[x])
      BY <1>8, <2>1, DecidedIs DEF hs, ht, x
    <3>6. Decided(u, it, otherwise) = Target(u[n + x])
      BY <3>4, DecidedIs DEF hu
    <3> QED
      BY <3>2, <3>5, <3>6
  <2>2. CASE ht = {}
    <3>1. hu = {}
      BY <1>3, <1>5, <1>8, <2>2
    <3> QED
      BY <1>8, <2>2, <3>1, DecidedIs DEF hs, ht, hu
  <2> QED
    BY <2>1, <2>2
<1> QED
  BY <1>7, <1>8

\* So it is for two lists of the same kind of rules.
LEMMA DecidedConcat ==
    ASSUME NEW S, NEW s \in Seq(S), NEW t \in Seq(S), NEW it, NEW otherwise
    PROVE  Decided(s \o t, it, otherwise) = Decided(s, it, Decided(t, it, otherwise))
<1>1. IsConcat(s \o t, s, t)
  BY ConcatProperties DEF IsConcat
<1> QED
  BY <1>1, DecidedInTurn

\* No rules decide nothing.
LEMMA DecidedNone ==
    ASSUME NEW it, NEW otherwise
    PROVE  Decided(<<>>, it, otherwise) = otherwise
<1>1. HitsIn(<<>>, it) = {}
  <2>1. Len(<<>>) = 0 /\ 1 .. 0 = {}
    OBVIOUS
  <2> QED
    BY <2>1 DEF HitsIn
<1> QED
  BY <1>1, DecidedIs

\* One rule decides what it is hit by.
LEMMA DecidedOne ==
    ASSUME NEW rule, NEW it, NEW otherwise
    PROVE  Decided(<<rule>>, it, otherwise)
             = IF Hit(rule, it) THEN Target(rule) ELSE otherwise
<1>1. HitsIn(<<rule>>, it) = IF Hit(rule, it) THEN {1} ELSE {}
  BY DEF HitsIn
<1>2. FirstOf({1}) = 1
  BY FirstOfIs
<1> QED
  BY <1>1, <1>2, DecidedIs

\* Two rules decide in turn.
LEMMA DecidedTwo ==
    ASSUME NEW a, NEW b, NEW it, NEW otherwise
    PROVE  Decided(<<a, b>>, it, otherwise)
             = IF Hit(a, it) THEN Target(a)
               ELSE IF Hit(b, it) THEN Target(b) ELSE otherwise
<1>1. IsConcat(<<a, b>>, <<a>>, <<b>>)
  <2>1. /\ Len(<<a>>) = 1 /\ Len(<<b>>) = 1 /\ 1 \in Nat /\ Len(<<a, b>>) = 1 + 1
        /\ \A i \in 1 .. 1 : <<a, b>>[i] = <<a>>[i]
        /\ \A i \in 1 .. 1 : <<a, b>>[1 + i] = <<b>>[i]
    OBVIOUS
  <2> QED
    BY <2>1, Zenon DEF IsConcat
<1>2. Decided(<<a, b>>, it, otherwise)
        = Decided(<<a>>, it, Decided(<<b>>, it, otherwise))
  BY <1>1, DecidedInTurn
<1> QED
  BY <1>2, DecidedOne

\* The items stand where they were inserted, whatever is around them.
LEMMA InsertedIs ==
    ASSUME NEW S, NEW before \in Seq(S), NEW after \in Seq(S), NEW items \in Seq(S)
    PROVE  insertAt(before \o after, Len(before) + 1, items) = (before \o items) \o after
<1> DEFINE all == before \o after
           n == Len(before)
<1>1. all \in Seq(S) /\ n \in Nat /\ Len(all) = n + Len(after) /\ Len(after) \in Nat
  BY ConcatProperties
<1>2. SubSeq(all, 1, n) = before
  BY <1>1, SubSeqOfConcat1, SubSeqFull
<1>3. SubSeq(all, n + 1, Len(all)) = after
  BY <1>1, SubSeqOfConcat2, SubSeqFull
<1> HIDE DEF all, n
<1> DEFINE at == n + 1
<1>4. at - 1 = n
  BY <1>1
<1>5. SubSeq(all, at, Len(all)) = after
  BY <1>3
<1> HIDE DEF at
<1>6. insertAt(all, at, items)
        = (SubSeq(all, 1, at - 1) \o items) \o SubSeq(all, at, Len(all))
  BY Zenon DEF insertAt
<1>7. insertAt(all, at, items) = (before \o items) \o after
  BY <1>2, <1>4, <1>5, <1>6, Zenon
<1> QED
  BY <1>7 DEF all, n, at

SniffRule == [action |-> "sniff"]
HijackRule == [protocol |-> "dns", action |-> "hijack-dns"]
LanRule == [private |-> TRUE, outbound |-> "direct"]
AppRule(apps, to) == [process |-> apps, outbound |-> to]

\* What the rules without a list of names are hit by, and where they send it.
LEMMA PlainRules ==
    ASSUME NEW it, Has(it, {"protocol", "network", "port"})
    PROVE  /\ ~Hit(SniffRule, it)
           /\ Hit(HijackRule, it) <=> it.protocol = "dns"
           /\ Target(HijackRule) = "hijack-dns"
           /\ Hit(LanRule, it) <=> it.addr = "private"
           /\ Target(LanRule) = "direct"
           /\ Hit(TorrentRule, it) <=> it.protocol = "bittorrent"
           /\ Target(TorrentRule) = "direct"
           /\ Hit(ntpDirectRule, it) <=> it.network = "udp" /\ it.port = 123
           /\ Target(ntpDirectRule) = "direct"
           /\ Hit(udpRejectRule, it) <=> it.network = "udp"
           /\ Target(udpRejectRule) = "reject"
<1> USE DEF Has
<1>1. ~Hit(SniffRule, it)
  BY DEF SniffRule, Hit, Get
<1>2. Hit(HijackRule, it) <=> it.protocol = "dns"
  <2>1. DOMAIN HijackRule = {"protocol", "action"} /\ HijackRule.protocol = "dns"
        /\ HijackRule.action = "hijack-dns"
    BY DEF HijackRule
  <2>2. {"protocol", "network", "port"} \cap DOMAIN HijackRule = {"protocol"}
    BY <2>1
  <2>3. MatchesPlain(HijackRule, it) <=> Get(it, "protocol", "") = "dns"
    BY <2>1, <2>2 DEF MatchesPlain
  <2> QED BY <2>1, <2>3 DEF Hit, Matches, Get
<1>3. Hit(LanRule, it) <=> it.addr = "private"
  <2>1. {"protocol", "network", "port"} \cap DOMAIN LanRule = {}
        /\ DOMAIN LanRule = {"private", "outbound"}
    BY DEF LanRule
  <2> QED BY <2>1 DEF MatchesPlain, Hit, Matches, Get
<1>4. Hit(TorrentRule, it) <=> it.protocol = "bittorrent"
  <2>1. DOMAIN TorrentRule = {"protocol", "outbound"} /\ TorrentRule.protocol = "bittorrent"
    BY DEF TorrentRule
  <2>2. {"protocol", "network", "port"} \cap DOMAIN TorrentRule = {"protocol"}
    BY <2>1
  <2>3. MatchesPlain(TorrentRule, it) <=> Get(it, "protocol", "") = "bittorrent"
    BY <2>1, <2>2 DEF MatchesPlain
  <2> QED BY <2>1, <2>3 DEF Hit, Matches, Get
<1>5. Hit(ntpDirectRule, it) <=> it.network = "udp" /\ it.port = 123
  <2>1. DOMAIN ntpDirectRule = {"network", "port", "outbound"}
        /\ ntpDirectRule.network = "udp" /\ ntpDirectRule.port = 123
    BY DEF ntpDirectRule
  <2>2. {"protocol", "network", "port"} \cap DOMAIN ntpDirectRule = {"network", "port"}
    BY <2>1
  <2>3. MatchesPlain(ntpDirectRule, it)
          <=> Get(it, "network", "") = "udp" /\ Get(it, "port", "") = 123
    BY <2>1, <2>2 DEF MatchesPlain
  <2> QED BY <2>1, <2>3 DEF Hit, Matches, Get
<1>6. Hit(udpRejectRule, it) <=> it.network = "udp"
  <2>1. DOMAIN udpRejectRule = {"network", "action"} /\ udpRejectRule.network = "udp"
        /\ udpRejectRule.action = "reject"
    BY DEF udpRejectRule
  <2>2. {"protocol", "network", "port"} \cap DOMAIN udpRejectRule = {"network"}
    BY <2>1
  <2>3. MatchesPlain(udpRejectRule, it) <=> Get(it, "network", "") = "udp"
    BY <2>1, <2>2 DEF MatchesPlain
  <2> QED BY <2>1, <2>3 DEF Hit, Matches, Get
<1>7. /\ Target(HijackRule) = "hijack-dns" /\ Target(LanRule) = "direct"
      /\ Target(TorrentRule) = "direct" /\ Target(ntpDirectRule) = "direct"
      /\ Target(udpRejectRule) = "reject"
  BY DEF HijackRule, LanRule, TorrentRule, ntpDirectRule, udpRejectRule, Target, Get
<1> QED
  BY <1>1, <1>2, <1>3, <1>4, <1>5, <1>6, <1>7

\* The rule of the chosen applications.
LEMMA AppRules ==
    ASSUME NEW it, NEW apps, NEW to
    PROVE  /\ Hit(AppRule(apps, to), it) <=> it.app \in apps
           /\ Target(AppRule(apps, to)) = to
<1>1. /\ {"protocol", "network", "port"} \cap DOMAIN AppRule(apps, to) = {} 
      /\ DOMAIN AppRule(apps, to) = {"process", "outbound"}
    BY DEF AppRule
<1> QED BY <1>1 DEF AppRule, MatchesPlain, Hit, Target, Matches, Get, Has

\* What the parts of the block's rules are hit by.
LEMMA PartsOfBlock ==
    ASSUME NEW it, NEW options
    PROVE  /\ MatchesPlain(M(options), it)
                <=> it.name \in RU_SUFFIXES \cup (IF options.sets THEN GEOSITE ELSE {})
           /\ MatchesPlain(E(options), it)
                <=> it.name \notin RU_VPN_EXCEPTIONS \cup options.extra
           /\ MatchesPlain([query |-> {"AAAA", "HTTPS", "SVCB"}], it)
                <=> it.type \in {"AAAA", "HTTPS", "SVCB"}
           /\ MatchesPlain([rule_set |-> {"geoip"}, addr |-> {"ru4", "ru6"}], it)
                <=> it.addr \in {"ru4", "ru6"}
           /\ MatchesPlain([ip_version |-> 4], it) <=> it.addr \notin {"ru6", "abroad6"}
<1>1. MatchesPlain(M(options), it)
                <=> it.name \in RU_SUFFIXES \cup (IF options.sets THEN GEOSITE ELSE {})
  <2>1. CASE options.sets
    <3>1. DOMAIN M(options) = {"names", "rule_set"} /\ M(options).names = RU_SUFFIXES \cup GEOSITE
      BY <2>1 DEF M
    <3> QED BY <2>1, <3>1 DEF MatchesPlain, Has
  <2>2. CASE ~options.sets
    <3>1. DOMAIN M(options) = {"names"} /\ M(options).names = RU_SUFFIXES
      BY <2>2 DEF M
    <3> QED BY <2>2, <3>1 DEF MatchesPlain, Has
  <2> QED BY <2>1, <2>2
<1>2. MatchesPlain(E(options), it) <=> it.name \notin RU_VPN_EXCEPTIONS \cup options.extra
  <2>1. /\ DOMAIN E(options) = {"names", "invert"}
        /\ E(options).names = RU_VPN_EXCEPTIONS \cup options.extra
    BY DEF E
  <2> QED BY <2>1 DEF MatchesPlain, Has
<1>3. MatchesPlain([query |-> {"AAAA", "HTTPS", "SVCB"}], it)
        <=> it.type \in {"AAAA", "HTTPS", "SVCB"}
  <2> DEFINE r == [query |-> {"AAAA", "HTTPS", "SVCB"}]
  <2>1. DOMAIN r = {"query"} /\ r.query = {"AAAA", "HTTPS", "SVCB"}
    OBVIOUS
  <2> HIDE DEF r
  <2>2. MatchesPlain(r, it) <=> it.type \in {"AAAA", "HTTPS", "SVCB"}
    BY <2>1 DEF MatchesPlain, Has
  <2> QED BY <2>2 DEF r
<1>4. MatchesPlain([rule_set |-> {"geoip"}, addr |-> {"ru4", "ru6"}], it)
        <=> it.addr \in {"ru4", "ru6"}
  <2> DEFINE r == [rule_set |-> {"geoip"}, addr |-> {"ru4", "ru6"}]
  <2>1. DOMAIN r = {"rule_set", "addr"} /\ r.addr = {"ru4", "ru6"}
    OBVIOUS
  <2> HIDE DEF r
  <2>2. MatchesPlain(r, it) <=> it.addr \in {"ru4", "ru6"}
    BY <2>1 DEF MatchesPlain, Has
  <2> QED BY <2>2 DEF r
<1>5. MatchesPlain([ip_version |-> 4], it) <=> it.addr \notin {"ru6", "abroad6"}
  <2> DEFINE r == [ip_version |-> 4]
  <2>1. DOMAIN r = {"ip_version"}
    OBVIOUS
  <2> HIDE DEF r
  <2>2. MatchesPlain(r, it) <=> it.addr \notin {"ru6", "abroad6"}
    BY <2>1 DEF MatchesPlain, Has
  <2> QED BY <2>2 DEF r
<1> QED
  BY <1>1, <1>2, <1>3, <1>4, <1>5

\* A rule with parts.
LEMMA AllOfParts ==
    ASSUME NEW rule, NEW it, Has(rule, {"all"}), ~Has(rule, {"action"})
    PROVE  Hit(rule, it) <=> \A part \in rule.all : MatchesPlain(part, it)
BY DEF Hit, Matches, Get, Has

RussianFor(options, name) ==
    /\ name \in RU_SUFFIXES \cup (IF options.sets THEN GEOSITE ELSE {})
    /\ name \notin RU_VPN_EXCEPTIONS \cup options.extra

\* What the block sends direct.
LEMMA BlockRoutes ==
    ASSUME NEW it, Has(it, {"protocol", "network", "port"}), NEW options, NEW otherwise
    PROVE  Decided(RouteRules(options), it, otherwise)
             = IF \/ it.protocol = "bittorrent"
                  \/ RussianFor(options, it.name)
                  \/ /\ options.sets /\ it.addr = "ru4"
                     /\ it.name \notin RU_VPN_EXCEPTIONS \cup options.extra
               THEN "direct" ELSE otherwise
<1> DEFINE named == [all |-> {M(options), E(options)}, outbound |-> "direct"]
           geoip == [rule_set |-> {"geoip"}, addr |-> {"ru4", "ru6"}]
           ip4 == [ip_version |-> 4]
           placed == [all |-> {geoip, E(options), ip4}, outbound |-> "direct"]
           first == <<TorrentRule, named>>
           last == IF options.sets THEN <<placed>> ELSE <<>>
           S == {TorrentRule, named, placed}
<1>1. RouteRules(options) = first \o last
  BY DEF RouteRules
<1>2. Hit(named, it) <=> RussianFor(options, it.name)
  <2>1. Has(named, {"all"}) /\ ~Has(named, {"action"}) /\ named.all = {M(options), E(options)}
    BY DEF Has
  <2> HIDE DEF named
  <2> QED
    BY <2>1, AllOfParts, PartsOfBlock DEF RussianFor
<1>3. Hit(placed, it) <=> it.addr = "ru4" /\ it.name \notin RU_VPN_EXCEPTIONS \cup options.extra
  <2>1. Has(placed, {"all"}) /\ ~Has(placed, {"action"}) /\ placed.all = {geoip, E(options), ip4}
    BY DEF Has
  <2>2. /\ MatchesPlain(geoip, it) <=> it.addr \in {"ru4", "ru6"}
        /\ MatchesPlain(ip4, it) <=> it.addr \notin {"ru6", "abroad6"}
        /\ MatchesPlain(E(options), it)
             <=> it.name \notin RU_VPN_EXCEPTIONS \cup options.extra
    BY PartsOfBlock
  <2> HIDE DEF placed, geoip, ip4
  <2> QED
    BY <2>1, <2>2, AllOfParts
<1>4. Target(named) = "direct" /\ Target(placed) = "direct"
  BY DEF Target, Get
<1> HIDE DEF named, placed
<1>5. first \in Seq(S) /\ last \in Seq(S)
  <2>1. TorrentRule \in S /\ named \in S /\ placed \in S
    OBVIOUS
  <2> HIDE DEF S
  <2>2. first \in Seq(S)
    BY <2>1
  <2>3. last \in Seq(S)
    BY <2>1
  <2> QED
    BY <2>2, <2>3
<1>6. Decided(RouteRules(options), it, otherwise)
        = Decided(first, it, Decided(last, it, otherwise))
  <2> HIDE DEF first, last, S
  <2> QED
    BY <1>1, <1>5, DecidedConcat
<1>7. Decided(last, it, otherwise)
        = IF options.sets /\ Hit(placed, it) THEN "direct" ELSE otherwise
  BY <1>4, DecidedOne, DecidedNone
<1>8. ASSUME NEW o
      PROVE  Decided(first, it, o)
               = IF it.protocol = "bittorrent" \/ Hit(named, it) THEN "direct" ELSE o
  <2>1. Decided(first, it, o) = IF Hit(TorrentRule, it) THEN Target(TorrentRule)
                                ELSE IF Hit(named, it) THEN Target(named) ELSE o
    BY DecidedTwo
  <2>2. Hit(TorrentRule, it) <=> it.protocol = "bittorrent"
    BY PlainRules
  <2>3. Target(TorrentRule) = "direct"
    BY PlainRules
  <2> QED
    BY <1>4, <2>1, <2>2, <2>3
<1> HIDE DEF first, last
<1> QED
  BY <1>2, <1>3, <1>6, <1>7, <1>8

\* Who answers, by the block.
LEMMA BlockAnswers ==
    ASSUME NEW it, NEW options, NEW otherwise
    PROVE  Decided(DnsRules(options), it, otherwise)
             = IF ~RussianFor(options, it.name) THEN otherwise
               ELSE IF it.type \in {"AAAA", "HTTPS", "SVCB"} THEN "predefined"
               ELSE IF options.fallback THEN "dns-direct" ELSE "dns-ru"
<1> DEFINE other == [query |-> {"AAAA", "HTTPS", "SVCB"}]
           none == [all |-> {other, M(options), E(options)}, action |-> "predefined"]
           named == [all |-> {M(options), E(options)},
                     server |-> IF options.fallback THEN "dns-direct" ELSE "dns-ru"]
<1>1. DnsRules(options) = <<none, named>>
  BY DEF DnsRules
<1>2. Hit(named, it) <=> RussianFor(options, it.name)
  <2>1. Has(named, {"all"}) /\ ~Has(named, {"action"}) /\ named.all = {M(options), E(options)}
    BY DEF Has
  <2> HIDE DEF named
  <2> QED
    BY <2>1, AllOfParts, PartsOfBlock DEF RussianFor
<1>3. Hit(none, it)
        <=> RussianFor(options, it.name) /\ it.type \in {"AAAA", "HTTPS", "SVCB"}
  <2>1. /\ Has(none, {"all"}) /\ none.action = "predefined"
        /\ none.all = {other, M(options), E(options)}
    BY DEF Has
  <2>2. MatchesPlain(other, it) <=> it.type \in {"AAAA", "HTTPS", "SVCB"}
    BY PartsOfBlock
  <2>3. Get(none, "action", "") # "sniff"
    BY DEF Get
  <2> HIDE DEF none, other
  <2>4. Hit(none, it) <=> /\ MatchesPlain(other, it) /\ MatchesPlain(M(options), it)
                          /\ MatchesPlain(E(options), it)
    BY <2>1, <2>3 DEF Hit, Matches
  <2> QED
    BY <2>2, <2>4, PartsOfBlock DEF RussianFor
<1>4. /\ Target(named) = IF options.fallback THEN "dns-direct" ELSE "dns-ru"
      /\ Target(none) = "predefined"
  BY DEF Target, Get
<1> HIDE DEF named, none
<1>5. Decided(DnsRules(options), it, otherwise)
        = IF Hit(none, it) THEN Target(none)
          ELSE IF Hit(named, it) THEN Target(named) ELSE otherwise
  BY <1>1, DecidedTwo
<1> QED
  BY <1>2, <1>3, <1>4, <1>5

PinRules(pinned) ==
    IF pinned = {} THEN <<>> ELSE <<[names |-> pinned, server |-> "dns-hosts"]>>

FakeRules(fake) ==
    IF fake THEN <<[query |-> {"HTTPS", "SVCB"}, action |-> "reject"],
                   [query |-> {"A", "AAAA"}, server |-> "dns-fakeip"]>>
    ELSE <<>>

\* Who answers, by the rule of the servers' own names.
LEMMA PinAnswers ==
    ASSUME NEW it, NEW pinned, NEW otherwise
    PROVE  Decided(PinRules(pinned), it, otherwise)
             = IF it.name \in pinned THEN "dns-hosts" ELSE otherwise
<1> DEFINE rule == [names |-> pinned, server |-> "dns-hosts"]
<1>1. DOMAIN rule = {"names", "server"} /\ rule.names = pinned /\ rule.server = "dns-hosts"
  OBVIOUS
<1>2. PinRules(pinned) = IF pinned = {} THEN <<>> ELSE <<rule>>
  BY DEF PinRules
<1> HIDE DEF rule
<1>3. {"protocol", "network", "port"} \cap DOMAIN rule = {}
  BY <1>1
<1>4. Hit(rule, it) <=> it.name \in pinned
  BY <1>1, <1>3 DEF Hit, Matches, MatchesPlain, Get, Has
<1>5. Target(rule) = "dns-hosts"
  BY <1>1 DEF Target, Get
<1> QED
  BY <1>2, <1>4, <1>5, DecidedOne, DecidedNone

\* Who answers, by the rules of FakeDNS.
LEMMA FakeAnswers ==
    ASSUME NEW it, NEW fake, NEW otherwise
    PROVE  Decided(FakeRules(fake), it, otherwise)
             = IF fake /\ it.type \in {"HTTPS", "SVCB"} THEN "reject"
               ELSE IF fake /\ it.type \in {"A", "AAAA"} THEN "dns-fakeip"
               ELSE otherwise
<1> DEFINE refuse == [query |-> {"HTTPS", "SVCB"}, action |-> "reject"]
           answer == [query |-> {"A", "AAAA"}, server |-> "dns-fakeip"]
<1>1. /\ DOMAIN refuse = {"query", "action"} /\ refuse.query = {"HTTPS", "SVCB"}
      /\ refuse.action = "reject"
      /\ DOMAIN answer = {"query", "server"} /\ answer.query = {"A", "AAAA"}
      /\ answer.server = "dns-fakeip"
  OBVIOUS
<1>2. FakeRules(fake) = IF fake THEN <<refuse, answer>> ELSE <<>>
  BY DEF FakeRules
<1> HIDE DEF refuse, answer
<1>3. /\ {"protocol", "network", "port"} \cap DOMAIN refuse = {}
      /\ {"protocol", "network", "port"} \cap DOMAIN answer = {}
  BY <1>1
<1>4. Hit(refuse, it) <=> it.type \in {"HTTPS", "SVCB"}
  BY <1>1, <1>3 DEF Hit, Matches, MatchesPlain, Get, Has
<1>5. Hit(answer, it) <=> it.type \in {"A", "AAAA"}
  BY <1>1, <1>3 DEF Hit, Matches, MatchesPlain, Get, Has
<1>6. Target(refuse) = "reject" /\ Target(answer) = "dns-fakeip"
  BY <1>1 DEF Target, Get
<1>7. Decided(<<refuse, answer>>, it, otherwise)
        = IF Hit(refuse, it) THEN Target(refuse)
          ELSE IF Hit(answer, it) THEN Target(answer) ELSE otherwise
  BY DecidedTwo
<1> QED
  BY <1>2, <1>4, <1>5, <1>6, <1>7, DecidedNone

\* Rules inserted after those before: a decision is theirs, then that of the inserted
\* ones, then that of the rest.
LEMMA InsertedDecide ==
    ASSUME NEW B, NEW before \in Seq(B), NEW A, NEW after \in Seq(A),
           NEW I, NEW items \in Seq(I), NEW it, NEW otherwise
    PROVE  Decided(insertAt(before \o after, Len(before) + 1, items), it, otherwise)
             = Decided(before, it, Decided(items, it, Decided(after, it, otherwise)))
<1> DEFINE S == B \cup A \cup I
<1>1. before \in Seq(S) /\ after \in Seq(S) /\ items \in Seq(S)
  <2>1. B \subseteq S /\ A \subseteq S /\ I \subseteq S
    OBVIOUS
  <2> HIDE DEF S
  <2> QED
    BY <2>1, SeqMonotonic
<1> HIDE DEF S
<1>2. insertAt(before \o after, Len(before) + 1, items) = (before \o items) \o after
  BY <1>1, InsertedIs
<1>3. before \o items \in Seq(S)
  BY <1>1, ConcatProperties
<1>4. Decided((before \o items) \o after, it, otherwise)
        = Decided(before \o items, it, Decided(after, it, otherwise))
  <2> DEFINE s == before \o items
  <2>1. s \in Seq(S)
    BY <1>3
  <2> HIDE DEF s
  <2>2. Decided(s \o after, it, otherwise) = Decided(s, it, Decided(after, it, otherwise))
    BY <1>1, <2>1, DecidedConcat
  <2> QED
    BY <2>2 DEF s
<1> DEFINE o == Decided(after, it, otherwise)
<1> HIDE DEF o
<1>5. Decided(before \o items, it, o) = Decided(before, it, Decided(items, it, o))
  BY <1>1, DecidedConcat
<1> QED
  BY <1>2, <1>4, <1>5 DEF o

\* The first of the places sought is right after those before.
LEMMA AheadOfTheRest ==
    ASSUME NEW B, NEW before \in Seq(B), NEW A, NEW after \in Seq(A), NEW found,
           found \subseteq 1 .. Len(before \o after),
           \A i \in 1 .. Len(before) : i \notin found,
           after # <<>> => Len(before) + 1 \in found
    PROVE  Ahead(before \o after, found) = Len(before) + 1
<1> DEFINE n == Len(before)
           all == before \o after
<1>1. n \in Nat /\ Len(after) \in Nat /\ Len(all) = n + Len(after)
  <2> DEFINE S == B \cup A
  <2>1. before \in Seq(S) /\ after \in Seq(S)
    <3>1. B \subseteq S /\ A \subseteq S
      OBVIOUS
    <3> HIDE DEF S
    <3> QED
      BY <3>1, SeqMonotonic
  <2> HIDE DEF S
  <2> QED
    BY <2>1, ConcatProperties
<1> HIDE DEF n, all
<1>2. CASE after = <<>>
  <2>1. Len(all) = n
    BY <1>1, <1>2
  <2>2. found = {}
    BY <1>2, <2>1 DEF n, all
  <2> QED
    BY <2>1, <2>2 DEF Ahead, n, all
<1>3. CASE after # <<>>
  <2>1. n + 1 \in found
    BY <1>3 DEF n
  <2>2. found \in SUBSET Nat
    BY <1>1 DEF all
  <2>3. ASSUME NEW y \in found PROVE n + 1 <= y
    <3>1. y \notin 1 .. n /\ y \in 1 .. Len(all)
      BY DEF n, all
    <3> QED
      BY <1>1, <3>1
  <2>4. FirstOf(found) = n + 1
    BY <2>1, <2>2, <2>3, FirstOfIs
  <2> QED
    BY <2>1, <2>4 DEF Ahead, n, all
<1> QED
  BY <1>2, <1>3

-----------------------------------------------------------------------------
(* The route. *)

LanRules(lanBypass) == IF lanBypass THEN <<LanRule>> ELSE <<>>

RulesAhead(lanBypass) == <<SniffRule, HijackRule>> \o LanRules(lanBypass)

RulesOfApps(perApp) ==
    CASE PerAppMode(perApp) = "exclude" -> <<AppRule(Apps(perApp), "direct")>>
      [] PerAppMode(perApp) = "include" -> <<AppRule(Apps(perApp), "select")>>
      [] OTHER -> <<>>

RulesOfUdp(udp) == IF udp THEN <<>> ELSE <<ntpDirectRule, udpRejectRule>>

RulesBehind(perApp, udp) == RulesOfApps(perApp) \o RulesOfUdp(udp)

AheadSet == {SniffRule, HijackRule, LanRule}
BehindSet(perApp) == {AppRule(Apps(perApp), "direct"), AppRule(Apps(perApp), "select"),
                      ntpDirectRule, udpRejectRule}

\* The rules a profile is written with are lists of these rules.
LEMMA RuleLists ==
    ASSUME NEW lanBypass, NEW perApp, NEW udp
    PROVE  /\ LanRules(lanBypass) \in Seq(AheadSet)
           /\ RulesAhead(lanBypass) \in Seq(AheadSet)
           /\ RulesOfApps(perApp) \in Seq(BehindSet(perApp))
           /\ RulesOfUdp(udp) \in Seq(BehindSet(perApp))
           /\ RulesBehind(perApp, udp) \in Seq(BehindSet(perApp))
<1>1. SniffRule \in AheadSet /\ HijackRule \in AheadSet /\ LanRule \in AheadSet
  BY DEF AheadSet
<1>2. /\ AppRule(Apps(perApp), "direct") \in BehindSet(perApp)
      /\ AppRule(Apps(perApp), "select") \in BehindSet(perApp)
      /\ ntpDirectRule \in BehindSet(perApp) /\ udpRejectRule \in BehindSet(perApp)
  BY DEF BehindSet
<1>3. LanRules(lanBypass) \in Seq(AheadSet) /\ <<SniffRule, HijackRule>> \in Seq(AheadSet)
  BY <1>1 DEF LanRules
<1>4. RulesOfApps(perApp) \in Seq(BehindSet(perApp))
  BY <1>2 DEF RulesOfApps
<1>5. RulesOfUdp(udp) \in Seq(BehindSet(perApp))
  BY <1>2 DEF RulesOfUdp
<1> QED
  BY <1>3, <1>4, <1>5, ConcatProperties DEF RulesAhead, RulesBehind

\* The route of a profile, as rules ahead of the block and rules behind it.
LEMMA RouteIs ==
    ASSUME NEW servers, NEW lanBypass, NEW perApp
    PROVE  LET udp == \E i \in 1 .. Len(servers) : carriesUdp(servers[i])
           IN  /\ buildRoute(servers, lanBypass, perApp).rules
                    = RulesAhead(lanBypass) \o RulesBehind(perApp, udp)
               /\ buildRoute(servers, lanBypass, perApp).rule_set = {}
               /\ buildRoute(servers, lanBypass, perApp).final
                    = IF PerAppMode(perApp) = "include" THEN "direct" ELSE "select"
<1> DEFINE udp == \E i \in 1 .. Len(servers) : carriesUdp(servers[i])
           S == AheadSet \cup BehindSet(perApp)
<1>1. buildRoute(servers, lanBypass, perApp).rules
        = (RulesAhead(lanBypass) \o RulesOfApps(perApp)) \o RulesOfUdp(udp)
  BY DEF buildRoute, RulesAhead, LanRules, RulesOfApps, RulesOfUdp, SniffRule, HijackRule,
         LanRule, AppRule
<1>2. /\ RulesAhead(lanBypass) \in Seq(S) /\ RulesOfApps(perApp) \in Seq(S)
      /\ RulesOfUdp(udp) \in Seq(S)
  <2>1. AheadSet \subseteq S /\ BehindSet(perApp) \subseteq S
    OBVIOUS
  <2> HIDE DEF S, udp
  <2> QED
    BY <2>1, RuleLists, SeqMonotonic
<1>3. (RulesAhead(lanBypass) \o RulesOfApps(perApp)) \o RulesOfUdp(udp)
        = RulesAhead(lanBypass) \o (RulesOfApps(perApp) \o RulesOfUdp(udp))
  <2> HIDE DEF S, udp
  <2> QED
    BY <1>2, ConcatAssociative
<1>4. /\ buildRoute(servers, lanBypass, perApp).rule_set = {}
      /\ buildRoute(servers, lanBypass, perApp).final
           = IF PerAppMode(perApp) = "include" THEN "direct" ELSE "select"
  BY DEF buildRoute
<1> QED
  BY <1>1, <1>3, <1>4 DEF RulesBehind

\* The block goes between the two.
LEMMA RouteInsertion ==
    ASSUME NEW lanBypass, NEW perApp, NEW udp
    PROVE  routeInsertionIndex(RulesAhead(lanBypass) \o RulesBehind(perApp, udp))
             = Len(RulesAhead(lanBypass)) + 1
<1> DEFINE before == RulesAhead(lanBypass)
           after == RulesBehind(perApp, udp)
           Sought(rule) == Has(rule, {"process"}) \/ isUdpRefusalRule(rule)
           S == AheadSet \cup BehindSet(perApp)
           all == before \o after
           found == {i \in 1 .. Len(all) : Sought(all[i])}
<1>1. before \in Seq(AheadSet) /\ after \in Seq(BehindSet(perApp))
  BY RuleLists
<1>2. \A rule \in AheadSet : ~Sought(rule)
  <2>1. \A rule \in AheadSet : "network" \notin DOMAIN rule /\ "process" \notin DOMAIN rule
    BY DEF AheadSet, SniffRule, HijackRule, LanRule
  <2>2. "network" \in DOMAIN ntpDirectRule /\ "network" \in DOMAIN udpRejectRule
    BY DEF ntpDirectRule, udpRejectRule
  <2> QED
    BY <2>1, <2>2 DEF isUdpRefusalRule, Has
<1>3. ASSUME after # <<>> PROVE Sought(after[1]) /\ Len(after) \in Nat \ {0}
  <2>1. /\ Sought(ntpDirectRule)
        /\ Sought(AppRule(Apps(perApp), "direct")) /\ Sought(AppRule(Apps(perApp), "select"))
    BY DEF AppRule, isUdpRefusalRule, Has
  <2> HIDE DEF Sought
  <2>2. \/ RulesOfApps(perApp) = <<>>
        \/ RulesOfApps(perApp) = <<AppRule(Apps(perApp), "direct")>>
        \/ RulesOfApps(perApp) = <<AppRule(Apps(perApp), "select")>>
    BY DEF RulesOfApps
  <2>3. RulesOfUdp(udp) = <<>> \/ RulesOfUdp(udp) = <<ntpDirectRule, udpRejectRule>>
    BY DEF RulesOfUdp
  <2> DEFINE a == RulesOfApps(perApp)
             u == RulesOfUdp(udp)
  <2>4. a \in Seq(BehindSet(perApp)) /\ u \in Seq(BehindSet(perApp)) /\ after = a \o u
    BY RuleLists DEF RulesBehind
  <2>5. /\ Len(after) = Len(a) + Len(u)
        /\ \A i \in 1 .. Len(after) : after[i] = IF i <= Len(a) THEN a[i] ELSE u[i - Len(a)]
    <3> HIDE DEF a, u, after
    <3> QED
      BY <2>4, ConcatProperties
  <2>6. CASE a # <<>>
    <3>1. Len(a) = 1 /\ Sought(a[1])
      BY <2>1, <2>2, <2>6
    <3>2. Len(u) \in Nat
      BY <2>3
    <3> QED
      BY <2>5, <3>1, <3>2
  <2>7. CASE a = <<>>
    <3>1. after = u
      BY <2>4, <2>7, ConcatEmptySeq
    <3> QED
      BY <1>3, <2>1, <2>3, <3>1
  <2> QED
    BY <2>6, <2>7
<1>4. /\ Len(all) = Len(before) + Len(after) /\ Len(before) \in Nat /\ Len(after) \in Nat
      /\ \A i \in 1 .. Len(before) : all[i] = before[i] /\ before[i] \in AheadSet
      /\ after # <<>> => all[Len(before) + 1] = after[1]
  <2>1. before \in Seq(S) /\ after \in Seq(S)
    <3>1. AheadSet \subseteq S /\ BehindSet(perApp) \subseteq S
      OBVIOUS
    <3> HIDE DEF S, before, after
    <3> QED
      BY <1>1, <3>1, SeqMonotonic
  <2> HIDE DEF S, before, after, Sought
  <2>2. /\ Len(all) = Len(before) + Len(after) /\ Len(before) \in Nat /\ Len(after) \in Nat
        /\ \A i \in 1 .. Len(before) + Len(after) :
             all[i] = IF i <= Len(before) THEN before[i] ELSE after[i - Len(before)]
    BY <2>1, ConcatProperties
  <2>3. \A i \in 1 .. Len(before) : before[i] \in AheadSet
    BY <1>1
  <2> HIDE DEF all
  <2>4. after # <<>> => all[Len(before) + 1] = after[1]
    BY <1>3, <2>2
  <2> QED
    BY <2>2, <2>3, <2>4
<1>5. routeInsertionIndex(all) = Ahead(all, found)
  BY DEF routeInsertionIndex
<1> HIDE DEF before, after, Sought, S
<1>6. found \subseteq 1 .. Len(all)
  OBVIOUS
<1>7. \A i \in 1 .. Len(before) : i \notin found
  BY <1>2, <1>4
<1>8. after # <<>> => Len(before) + 1 \in found
  BY <1>3, <1>4
<1> HIDE DEF found
<1>9. Ahead(before \o after, found) = Len(before) + 1
  BY <1>1, <1>6, <1>7, <1>8, AheadOfTheRest
<1> QED
  BY <1>5, <1>9 DEF before, after, all

\* Where the rules ahead of the block send a packet.
LEMMA AheadRoutes ==
    ASSUME NEW it, Has(it, {"protocol", "network", "port"}), NEW lanBypass, NEW otherwise
    PROVE  Decided(RulesAhead(lanBypass), it, otherwise)
             = IF it.protocol = "dns" THEN "hijack-dns"
               ELSE IF lanBypass /\ it.addr = "private" THEN "direct"
               ELSE otherwise
<1>1. <<SniffRule, HijackRule>> \in Seq(AheadSet) /\ LanRules(lanBypass) \in Seq(AheadSet)
  <2>1. SniffRule \in AheadSet /\ HijackRule \in AheadSet
    BY DEF AheadSet
  <2> QED
    BY <2>1, RuleLists
<1>2. Decided(RulesAhead(lanBypass), it, otherwise)
        = Decided(<<SniffRule, HijackRule>>, it, Decided(LanRules(lanBypass), it, otherwise))
  <2> DEFINE s == <<SniffRule, HijackRule>>
             t == LanRules(lanBypass)
  <2>1. s \in Seq(AheadSet) /\ t \in Seq(AheadSet) /\ RulesAhead(lanBypass) = s \o t
    BY <1>1 DEF RulesAhead
  <2> HIDE DEF s, t
  <2>2. Decided(RulesAhead(lanBypass), it, otherwise) = Decided(s, it, Decided(t, it, otherwise))
    BY <2>1, DecidedConcat
  <2> QED
    BY <2>2 DEF s, t
<1>3. Decided(LanRules(lanBypass), it, otherwise)
        = IF lanBypass /\ it.addr = "private" THEN "direct" ELSE otherwise
  BY PlainRules, DecidedOne, DecidedNone DEF LanRules
<1> DEFINE o == Decided(LanRules(lanBypass), it, otherwise)
<1>4. Decided(<<SniffRule, HijackRule>>, it, o)
        = IF Hit(SniffRule, it) THEN Target(SniffRule)
          ELSE IF Hit(HijackRule, it) THEN Target(HijackRule) ELSE o
  BY DecidedTwo
<1> HIDE DEF o
<1>5. Decided(<<SniffRule, HijackRule>>, it, o)
        = IF it.protocol = "dns" THEN "hijack-dns" ELSE o
  BY <1>4, PlainRules
<1> QED
  BY <1>2, <1>3, <1>5 DEF o

\* Where the rules behind the block send a packet.
LEMMA BehindRoutes ==
    ASSUME NEW it, Has(it, {"protocol", "network", "port"}), NEW perApp, NEW udp,
           NEW otherwise
    PROVE  Decided(RulesBehind(perApp, udp), it, otherwise)
             = IF PerAppMode(perApp) = "exclude" /\ it.app \in Apps(perApp) THEN "direct"
               ELSE IF PerAppMode(perApp) = "include" /\ it.app \in Apps(perApp)
               THEN "select"
               ELSE IF ~udp /\ it.network = "udp"
               THEN IF it.port = 123 THEN "direct" ELSE "reject"
               ELSE otherwise
<1> DEFINE apps == Apps(perApp)
           mode == PerAppMode(perApp)
           o == Decided(RulesOfUdp(udp), it, otherwise)
<1>1. Decided(RulesBehind(perApp, udp), it, otherwise) = Decided(RulesOfApps(perApp), it, o)
  BY RuleLists, DecidedConcat DEF RulesBehind
<1>2. o = IF ~udp /\ it.network = "udp"
          THEN IF it.port = 123 THEN "direct" ELSE "reject"
          ELSE otherwise
  <2>1. Decided(<<ntpDirectRule, udpRejectRule>>, it, otherwise)
          = IF Hit(ntpDirectRule, it) THEN Target(ntpDirectRule)
            ELSE IF Hit(udpRejectRule, it) THEN Target(udpRejectRule) ELSE otherwise
    BY DecidedTwo
  <2>2. Decided(<<ntpDirectRule, udpRejectRule>>, it, otherwise)
          = IF it.network = "udp" THEN IF it.port = 123 THEN "direct" ELSE "reject"
            ELSE otherwise
    BY <2>1, PlainRules
  <2>3. RulesOfUdp(udp) = IF udp THEN <<>> ELSE <<ntpDirectRule, udpRejectRule>>
    BY DEF RulesOfUdp
  <2> QED
    BY <2>2, <2>3, DecidedNone
<1> HIDE DEF o
<1>3. \A to : Decided(<<AppRule(apps, to)>>, it, o) = IF it.app \in apps THEN to ELSE o
  <2> SUFFICES ASSUME NEW to
               PROVE  Decided(<<AppRule(apps, to)>>, it, o) = IF it.app \in apps THEN to ELSE o
    OBVIOUS
  <2> HIDE DEF apps
  <2> QED
    BY AppRules, DecidedOne
<1>4. Decided(RulesOfApps(perApp), it, o)
        = IF mode = "exclude" /\ it.app \in apps THEN "direct"
          ELSE IF mode = "include" /\ it.app \in apps THEN "select" ELSE o
  <2>1. CASE mode = "exclude"
    <3>1. RulesOfApps(perApp) = <<AppRule(apps, "direct")>>
      BY <2>1 DEF RulesOfApps
    <3> QED BY <1>3, <2>1, <3>1
  <2>2. CASE mode = "include"
    <3>1. RulesOfApps(perApp) = <<AppRule(apps, "select")>>
      BY <2>2 DEF RulesOfApps
    <3> QED BY <1>3, <2>2, <3>1
  <2>3. CASE mode \notin {"exclude", "include"}
    <3>1. RulesOfApps(perApp) = <<>>
      BY <2>3 DEF RulesOfApps
    <3> QED BY <2>3, <3>1, DecidedNone
  <2> QED
    BY <2>1, <2>2, <2>3
<1> QED
  BY <1>1, <1>2, <1>4

ProfileOf(servers, rules, strategy, address, outbounds, route, store, bridges) ==
    [dns          |-> [servers |-> servers, rules |-> rules, strategy |-> strategy],
     address      |-> address,
     outbounds    |-> outbounds,
     route        |-> route,
     store_fakeip |-> store,
     bridges      |-> bridges]

SetServers(profile, x) == [profile EXCEPT !.dns.servers = x]
SetRules(profile, x) == [profile EXCEPT !.dns.rules = x]
SetAddress(profile, x) == [profile EXCEPT !.address = x]
SetOutbounds(profile, x) == [profile EXCEPT !.outbounds = x]
SetRoute(profile, x) == [profile EXCEPT !.route = x]
SetStore(profile, x) == [profile EXCEPT !.store_fakeip = x]
SetBridges(profile, x) == [profile EXCEPT !.bridges = x]

\* The fields of a profile.
LEMMA FieldsOf ==
    ASSUME NEW s, NEW r, NEW g, NEW a, NEW o, NEW t, NEW f, NEW b
    PROVE  /\ ProfileOf(s, r, g, a, o, t, f, b).dns.servers = s
           /\ ProfileOf(s, r, g, a, o, t, f, b).dns.rules = r
           /\ ProfileOf(s, r, g, a, o, t, f, b).address = a
           /\ ProfileOf(s, r, g, a, o, t, f, b).outbounds = o
           /\ ProfileOf(s, r, g, a, o, t, f, b).route = t
           /\ ProfileOf(s, r, g, a, o, t, f, b).bridges = b
BY DEF ProfileOf

\* A profile with one field changed.
LEMMA FieldChanged ==
    ASSUME NEW s, NEW r, NEW g, NEW a, NEW o, NEW t, NEW f, NEW b, NEW x
    PROVE  /\ SetServers(ProfileOf(s, r, g, a, o, t, f, b), x) = ProfileOf(x, r, g, a, o, t, f, b)
           /\ SetRules(ProfileOf(s, r, g, a, o, t, f, b), x) = ProfileOf(s, x, g, a, o, t, f, b)
           /\ SetAddress(ProfileOf(s, r, g, a, o, t, f, b), x) = ProfileOf(s, r, g, x, o, t, f, b)
           /\ SetOutbounds(ProfileOf(s, r, g, a, o, t, f, b), x) = ProfileOf(s, r, g, a, x, t, f, b)
           /\ SetRoute(ProfileOf(s, r, g, a, o, t, f, b), x) = ProfileOf(s, r, g, a, o, x, f, b)
           /\ SetStore(ProfileOf(s, r, g, a, o, t, f, b), x) = ProfileOf(s, r, g, a, o, t, x, b)
           /\ SetBridges(ProfileOf(s, r, g, a, o, t, f, b), x) = ProfileOf(s, r, g, a, o, t, f, x)
<1>1. SetServers(ProfileOf(s, r, g, a, o, t, f, b), x) = ProfileOf(x, r, g, a, o, t, f, b)
  BY DEF ProfileOf, SetServers
<1>2. SetRules(ProfileOf(s, r, g, a, o, t, f, b), x) = ProfileOf(s, x, g, a, o, t, f, b)
  BY DEF ProfileOf, SetRules
<1>3. SetAddress(ProfileOf(s, r, g, a, o, t, f, b), x) = ProfileOf(s, r, g, x, o, t, f, b)
  BY DEF ProfileOf, SetAddress
<1>4. SetOutbounds(ProfileOf(s, r, g, a, o, t, f, b), x) = ProfileOf(s, r, g, a, x, t, f, b)
  BY DEF ProfileOf, SetOutbounds
<1>5. SetRoute(ProfileOf(s, r, g, a, o, t, f, b), x) = ProfileOf(s, r, g, a, o, x, f, b)
  BY DEF ProfileOf, SetRoute
<1>6. SetStore(ProfileOf(s, r, g, a, o, t, f, b), x) = ProfileOf(s, r, g, a, o, t, x, b)
  BY DEF ProfileOf, SetStore
<1>7. SetBridges(ProfileOf(s, r, g, a, o, t, f, b), x) = ProfileOf(s, r, g, a, o, t, f, x)
  BY DEF ProfileOf, SetBridges
<1> QED
  BY <1>1, <1>2, <1>3, <1>4, <1>5, <1>6, <1>7

\* The keys of a profile are resolved in its bridges alone.
LEMMA ResolvedIs ==
    ASSUME NEW s, NEW r, NEW g, NEW a, NEW o, NEW t, NEW f, NEW b, NEW answers
    PROVE  \E b2 : resolveDynamicOutlineKeys(ProfileOf(s, r, g, a, o, t, f, b), answers)
                     = ProfileOf(s, r, g, a, o, t, f, b2)
<1> DEFINE p == ProfileOf(s, r, g, a, o, t, f, b)
           b2 == resolveDynamicOutlineKeys(p, answers).bridges
<1>1. resolveDynamicOutlineKeys(p, answers) = SetBridges(p, b2)
  BY DEF resolveDynamicOutlineKeys, ProfileOf, SetBridges
<1> HIDE DEF b2
<1> QED
  BY <1>1, FieldChanged

Probed(server, result) ==
    LET ip == dohCapableIp(result) IN
    CASE server.tag = "dns-remote" ->
            [server EXCEPT !.type = "https", !.server = result.doh]
      [] server.tag = "dns-direct" ->
            IF ip = None
            THEN [server EXCEPT !.type = "udp", !.server = result.udp]
            ELSE [server EXCEPT !.type = "https", !.server = ip]
      [] OTHER -> server

ProbedAll(servers, result) ==
    [i \in 1 .. Len(servers) |-> Probed(servers[i], result)]

\* The probed resolvers are written over those of the profile.
LEMMA ProbedIs ==
    ASSUME NEW s, NEW r, NEW g, NEW a, NEW o, NEW t, NEW f, NEW b, NEW result
    PROVE  injectProbedDns(ProfileOf(s, r, g, a, o, t, f, b), result)
             = ProfileOf(ProbedAll(s, result), r, g, a, o, t, f, b)
<1> DEFINE p == ProfileOf(s, r, g, a, o, t, f, b)
<1>1. injectProbedDns(p, result) = SetServers(p, ProbedAll(p.dns.servers, result))
  <2> HIDE DEF p
  <2> QED
    BY Zenon DEF injectProbedDns, Probed, ProbedAll, SetServers
<1> QED
  BY <1>1, FieldsOf, FieldChanged

PinnedOf(outbounds, pinned) ==
    [i \in 1 .. Len(outbounds) |->
       IF /\ Get(outbounds[i], "server", "") \in pinned
          /\ ~Has(outbounds[i], {"resolver"})
       THEN Extended(outbounds[i], [resolver |-> "dns-hosts"])
       ELSE outbounds[i]]

HostsServer == [tag |-> "dns-hosts", type |-> "hosts"]

PinRule(pinned) == [names |-> pinned, server |-> "dns-hosts"]

WithPin(rules, pinned) == <<PinRule(pinned)>> \o rules

\* The servers' own names get a resolver, a rule, and outbounds that ask for it.
LEMMA PinnedIs ==
    ASSUME NEW s, NEW r, NEW g, NEW a, NEW o, NEW t, NEW f, NEW b, NEW pinned
    PROVE  injectResolvedHosts(ProfileOf(s, r, g, a, o, t, f, b), pinned)
             = IF pinned = {} THEN ProfileOf(s, r, g, a, o, t, f, b)
               ELSE ProfileOf(Append(s, HostsServer), WithPin(r, pinned), g, a,
                              PinnedOf(o, pinned), t, f, b)
<1>1. CASE pinned = {}
  BY <1>1 DEF injectResolvedHosts
<1>2. CASE pinned # {}
  <2> DEFINE p == ProfileOf(s, r, g, a, o, t, f, b)
             p1 == SetServers(p, Append(p.dns.servers, HostsServer))
             p2 == SetRules(p1, WithPin(p1.dns.rules, pinned))
  <2>1. injectResolvedHosts(p, pinned) = SetOutbounds(p2, PinnedOf(p2.outbounds, pinned))
    <3> HIDE DEF p
    <3> QED
      BY <1>2 DEF injectResolvedHosts, HostsServer, PinRule, WithPin, PinnedOf, SetServers,
                  SetRules, SetOutbounds
  <2>2. p1 = ProfileOf(Append(s, HostsServer), r, g, a, o, t, f, b)
    BY FieldsOf, FieldChanged
  <2> HIDE DEF p1
  <2>3. p2 = ProfileOf(Append(s, HostsServer), WithPin(r, pinned), g, a, o, t, f, b)
    BY <2>2, FieldsOf, FieldChanged
  <2> HIDE DEF p2
  <2> QED
    BY <1>2, <2>1, <2>3, FieldsOf, FieldChanged
<1> QED
  BY <1>1, <1>2

\* FakeDNS is taken out of the servers and the rules.
LEMMA StrippedIs ==
    ASSUME NEW s, NEW r, NEW g, NEW a, NEW o, NEW t, NEW f, NEW b, NEW no, ~no, no \in BOOLEAN
    PROVE  stripFakeDns(ProfileOf(s, r, g, a, o, t, f, b))
             = ProfileOf(RealServers(s), RealRules(r), g, a, o, t, no, b)
<1> DEFINE p == ProfileOf(s, r, g, a, o, t, f, b)
           p1 == SetServers(p, RealServers(p.dns.servers))
           p2 == SetRules(p1, RealRules(p1.dns.rules))
<1>1. stripFakeDns(p) = SetStore(p2, FALSE)
  <2> HIDE DEF p
  <2> QED
    BY DEF stripFakeDns, SetServers, SetRules, SetStore
<1>2. p1 = ProfileOf(RealServers(s), r, g, a, o, t, f, b)
  BY FieldsOf, FieldChanged
<1> HIDE DEF p1
<1>3. p2 = ProfileOf(RealServers(s), RealRules(r), g, a, o, t, f, b)
  BY <1>2, FieldsOf, FieldChanged
<1> HIDE DEF p2
<1>4. SetStore(p2, no) = ProfileOf(RealServers(s), RealRules(r), g, a, o, t, no, b)
  BY <1>3, FieldChanged
<1>5. no = FALSE
  OBVIOUS
<1>6. SetStore(p2, FALSE) = SetStore(p2, no)
  BY <1>5
<1> QED
  BY <1>1, <1>4, <1>6

WithoutV6(servers) ==
    [i \in 1 .. Len(servers) |->
       IF Has(servers[i], {"v6"}) THEN [servers[i] EXCEPT !.v6 = FALSE] ELSE servers[i]]

IPv4Of(address) == IF address \ {"v6"} = {} THEN address ELSE address \ {"v6"}

\* IPv6 is taken out of the addresses and of FakeDNS.
LEMMA FittedIs ==
    ASSUME NEW s, NEW r, NEW g, NEW o, NEW t, NEW f, NEW b, NEW ipv6
    PROVE  applyIPv6Support(ProfileOf(s, r, g, {"v4", "v6"}, o, t, f, b), ipv6)
             = IF ipv6 THEN ProfileOf(s, r, g, {"v4", "v6"}, o, t, f, b)
               ELSE ProfileOf(WithoutV6(s), r, g, {"v4"}, o, t, f, b)
<1> DEFINE both == {"v4", "v6"}
           p == ProfileOf(s, r, g, both, o, t, f, b)
           p1 == SetAddress(p, IPv4Of(p.address))
<1>1. stripTunIPv6(p) = SetServers(p1, WithoutV6(p1.dns.servers))
  <2> HIDE DEF p
  <2> QED
    BY DEF stripTunIPv6, WithoutV6, IPv4Of, SetAddress, SetServers
<1>2. IPv4Of(both) = {"v4"}
  BY DEF IPv4Of
<1>3. p1 = ProfileOf(s, r, g, {"v4"}, o, t, f, b)
  <2> DEFINE v4 == {"v4"}
  <2>1. p.address = both
    BY FieldsOf
  <2>2. IPv4Of(p.address) = v4
    BY <1>2, <2>1
  <2> HIDE DEF both, v4
  <2>3. SetAddress(p, v4) = ProfileOf(s, r, g, v4, o, t, f, b)
    BY FieldChanged
  <2> QED
    BY <2>2, <2>3 DEF v4
<1> HIDE DEF both, p1
<1>4. stripTunIPv6(p) = ProfileOf(WithoutV6(s), r, g, {"v4"}, o, t, f, b)
  BY <1>1, <1>3, FieldsOf, FieldChanged
<1> QED
  BY <1>4 DEF applyIPv6Support, both

ArmedOf(outbounds, ports) ==
    [i \in 1 .. Len(outbounds) |->
       IF /\ outbounds[i].type = "socks"
          /\ outbounds[i].server = socksHost
          /\ outbounds[i].port \in ports
          /\ ~Has(outbounds[i], {"auth"})
       THEN Extended(outbounds[i], [auth |-> "pair"])
       ELSE outbounds[i]]

\* The credentials are written to outbounds and bridges alone.
LEMMA ArmedIs ==
    ASSUME NEW s, NEW r, NEW g, NEW a, NEW o, NEW t, NEW f, NEW b
    PROVE  \E b2, ports : applyBridgeAuth(ProfileOf(s, r, g, a, o, t, f, b))
                            = ProfileOf(s, r, g, a, ArmedOf(o, ports), t, f, b2)
<1> DEFINE p == ProfileOf(s, r, g, a, o, t, f, b)
           open == {endpoint \in p.bridges : /\ endpoint.bridge # "xray"
                                             /\ ~Has(endpoint, {"auth"})}
           ports == {endpoint.port : endpoint \in open}
           b2 == {IF endpoint \in open THEN Extended(endpoint, [auth |-> "pair"])
                  ELSE endpoint : endpoint \in p.bridges}
           p1 == SetBridges(p, b2)
<1>1. applyBridgeAuth(p) = SetOutbounds(p1, ArmedOf(p1.outbounds, ports))
  <2> HIDE DEF p
  <2> QED
    BY DEF applyBridgeAuth, ArmedOf, SetBridges, SetOutbounds
<1> HIDE DEF ports, b2
<1>2. p1 = ProfileOf(s, r, g, a, o, t, f, b2)
  BY FieldChanged
<1> HIDE DEF p1
<1>3. applyBridgeAuth(p) = ProfileOf(s, r, g, a, ArmedOf(o, ports), t, f, b2)
  BY <1>1, <1>2, FieldsOf, FieldChanged
<1> QED
  BY <1>3

-----------------------------------------------------------------------------
(* The block. *)

SetRouteRules(profile, x) == [profile EXCEPT !.route.rules = x]
SetRuleSet(profile, x) == [profile EXCEPT !.route.rule_set = x]
PutRules(route, x) == [route EXCEPT !.rules = x]
PutRuleSet(route, x) == [route EXCEPT !.rule_set = x]

\* A profile with one field of its route changed.
LEMMA RouteChanged ==
    ASSUME NEW s, NEW r, NEW g, NEW a, NEW o, NEW t, NEW f, NEW b, NEW x
    PROVE  /\ SetRouteRules(ProfileOf(s, r, g, a, o, t, f, b), x)
                = ProfileOf(s, r, g, a, o, PutRules(t, x), f, b)
           /\ SetRuleSet(ProfileOf(s, r, g, a, o, t, f, b), x)
                = ProfileOf(s, r, g, a, o, PutRuleSet(t, x), f, b)
<1>1. SetRouteRules(ProfileOf(s, r, g, a, o, t, f, b), x)
        = ProfileOf(s, r, g, a, o, PutRules(t, x), f, b)
  BY DEF ProfileOf, SetRouteRules, PutRules
<1>2. SetRuleSet(ProfileOf(s, r, g, a, o, t, f, b), x)
        = ProfileOf(s, r, g, a, o, PutRuleSet(t, x), f, b)
  BY DEF ProfileOf, SetRuleSet, PutRuleSet
<1> QED
  BY <1>1, <1>2

\* A route with its rules.
HasRoute(route, rules, final) ==
    /\ {"rules", "final", "rule_set"} \subseteq DOMAIN route
    /\ route.rules = rules
    /\ route.final = final
    /\ route.rule_set = {}

TorrentsIn(rules) == insertAt(rules, routeInsertionIndex(rules), <<TorrentRule>>)

RoutesIn(rules, options) == insertAt(rules, routeInsertionIndex(rules), RouteRules(options))

AnswersIn(rules, options) == insertAt(rules, dnsInsertionIndex(rules), DnsRules(options))

RuServer == [tag |-> "dns-ru", type |-> "tcp", server |-> "77.88.8.8"]

WithRu(servers, options) == servers \o (IF options.fallback THEN <<>> ELSE <<RuServer>>)

\* Without the block, the rule for BitTorrent is inserted, and nothing else.
LEMMA TorrentsAre ==
    ASSUME NEW s, NEW r, NEW g, NEW a, NEW o, NEW t, NEW f, NEW b,
           NEW rules, NEW final, HasRoute(t, rules, final)
    PROVE  \E t2 : /\ t2.rules = TorrentsIn(rules) /\ t2.final = final
                   /\ WithTorrents(ProfileOf(s, r, g, a, o, t, f, b))
                        = ProfileOf(s, r, g, a, o, t2, f, b)
<1> DEFINE p == ProfileOf(s, r, g, a, o, t, f, b)
           t2 == PutRules(t, TorrentsIn(rules))
<1>1. WithTorrents(p) = SetRouteRules(p, TorrentsIn(p.route.rules))
  <2> HIDE DEF p
  <2> QED
    BY Zenon DEF WithTorrents, TorrentsIn, SetRouteRules
<1>2. p.route.rules = rules
  BY FieldsOf DEF HasRoute
<1>3. WithTorrents(p) = ProfileOf(s, r, g, a, o, t2, f, b)
  BY <1>1, <1>2, RouteChanged
<1>4. t2.rules = TorrentsIn(rules) /\ t2.final = final
  BY DEF HasRoute, PutRules
<1> QED
  BY <1>3, <1>4

\* The block is inserted in the route and in the DNS.
LEMMA BlockIs ==
    ASSUME NEW s, NEW r, NEW g, NEW a, NEW o, NEW t, NEW f, NEW b,
           NEW rules, NEW final, HasRoute(t, rules, final), NEW options
    PROVE  \E t2 : /\ t2.rules = RoutesIn(rules, options) /\ t2.final = final
                   /\ WithBlock(ProfileOf(s, r, g, a, o, t, f, b), options)
                        = ProfileOf(WithRu(s, options), AnswersIn(r, options), g, a, o, t2,
                                    f, b)
<1> DEFINE p == ProfileOf(s, r, g, a, o, t, f, b)
           sets == IF options.sets THEN {"geosite", "geoip"} ELSE {}
           p1 == SetRouteRules(p, RoutesIn(p.route.rules, options))
           p2 == SetRuleSet(p1, p.route.rule_set \cup sets)
           p3 == SetServers(p2, WithRu(p.dns.servers, options))
           t1 == PutRules(t, RoutesIn(rules, options))
           t2 == PutRuleSet(t1, p.route.rule_set \cup sets)
<1>1. WithBlock(p, options) = SetRules(p3, AnswersIn(p.dns.rules, options))
  <2> HIDE DEF p
  <2> QED
    BY Zenon DEF WithBlock, RoutesIn, AnswersIn, RuServer, WithRu, SetRouteRules, SetRuleSet,
           SetServers, SetRules
<1>2. p.route.rules = rules
  BY FieldsOf DEF HasRoute
<1>3. p1 = ProfileOf(s, r, g, a, o, t1, f, b)
  BY <1>2, RouteChanged
<1>4. /\ t1.rules = RoutesIn(rules, options) /\ t1.final = final
      /\ DOMAIN t1 = DOMAIN t /\ "rule_set" \in DOMAIN t1
  BY DEF HasRoute, PutRules
<1> HIDE DEF p1, t1, sets
<1>5. p2 = ProfileOf(s, r, g, a, o, t2, f, b)
  <2> DEFINE x == p.route.rule_set \cup sets
  <2> HIDE DEF x
  <2>1. SetRuleSet(p1, x) = ProfileOf(s, r, g, a, o, PutRuleSet(t1, x), f, b)
    BY <1>3, RouteChanged
  <2> QED
    BY <2>1 DEF x
<1>6. t2.rules = RoutesIn(rules, options) /\ t2.final = final
  BY <1>4 DEF PutRuleSet
<1> HIDE DEF p2, t2
<1>7. p3 = ProfileOf(WithRu(s, options), r, g, a, o, t2, f, b)
  BY <1>5, FieldsOf, FieldChanged
<1> HIDE DEF p3
<1>8. SetRules(p3, AnswersIn(p.dns.rules, options))
        = ProfileOf(WithRu(s, options), AnswersIn(r, options), g, a, o, t2, f, b)
  BY <1>7, FieldsOf, FieldChanged
<1> QED
  BY <1>1, <1>6, <1>8

\* None of the app's own DNS rules has a field the block cannot stand beside.
LEMMA NoLegacyRules ==
    ASSUME NEW pinned, NEW fake, NEW rules, rules = PinRules(pinned) \o FakeRules(fake)
    PROVE  /\ \A i \in 1 .. Len(rules) : ~legacyField(rules[i])
           /\ rules \in Seq({PinRule(pinned)} \cup
                            {[query |-> {"HTTPS", "SVCB"}, action |-> "reject"],
                             [query |-> {"A", "AAAA"}, server |-> "dns-fakeip"]})
<1> DEFINE refuse == [query |-> {"HTTPS", "SVCB"}, action |-> "reject"]
           answer == [query |-> {"A", "AAAA"}, server |-> "dns-fakeip"]
           pin == PinRule(pinned)
           S == {pin} \cup {refuse, answer}
<1>1. /\ DOMAIN refuse = {"query", "action"} /\ DOMAIN answer = {"query", "server"}
      /\ DOMAIN pin = {"names", "server"}
  BY DEF PinRule
<1>2. /\ PinRules(pinned) = IF pinned = {} THEN <<>> ELSE <<pin>>
      /\ FakeRules(fake) = IF fake THEN <<refuse, answer>> ELSE <<>>
  BY DEF PinRules, PinRule, FakeRules
<1> HIDE DEF refuse, answer, pin
<1>3. \A rule \in S : ~legacyField(rule)
  <2>1. ASSUME NEW rule,
               {"strategy", "accept_empty", "match_response", "addresses", "rule_set", "all"}
                 \cap DOMAIN rule = {}
        PROVE  ~legacyField(rule)
    <3>1. /\ Get(rule, "all", {}) = {} /\ Get(rule, "strategy", "as_is") = "as_is"
          /\ Get(rule, "accept_empty", FALSE) = FALSE
      BY <2>1 DEF Get
    <3> QED
      BY <2>1, <3>1 DEF legacyField
  <2> QED
    BY <1>1, <2>1
<1>4. PinRules(pinned) \in Seq(S) /\ FakeRules(fake) \in Seq(S)
  <2>1. pin \in S /\ refuse \in S /\ answer \in S
    OBVIOUS
  <2> HIDE DEF S
  <2>2. <<pin>> \in Seq(S) /\ <<refuse, answer>> \in Seq(S) /\ <<>> \in Seq(S)
    BY <2>1
  <2> QED
    BY <1>2, <2>2
<1>5. rules \in Seq(S)
  <2> HIDE DEF S
  <2> QED
    BY <1>4, ConcatProperties
<1>6. \A i \in 1 .. Len(rules) : rules[i] \in S
  <2> HIDE DEF S
  <2> QED
    BY <1>5
<1> QED
  BY <1>3, <1>5, <1>6 DEF refuse, answer, pin

-----------------------------------------------------------------------------
(* The resolvers of a profile of the app's own making. *)

RemoteServer(host) ==
    [tag |-> "dns-remote", server |-> host, type |-> "https", detour |-> "select",
     resolver |-> "dns-direct"]
DirectServer(type, host) == [tag |-> "dns-direct", server |-> host, type |-> type]
FakeServer(v6) == [tag |-> "dns-fakeip", type |-> "fakeip", v6 |-> v6]

Resolvers(remote, direct, fake, v6, pinned) ==
    IF fake
    THEN IF pinned = {} THEN <<remote, direct, FakeServer(v6)>>
         ELSE <<remote, direct, FakeServer(v6), HostsServer>>
    ELSE IF pinned = {} THEN <<remote, direct>> ELSE <<remote, direct, HostsServer>>

\* A list of two of a set.
LEMMA Pairs ==
    ASSUME NEW a, NEW b, NEW s, Len(s) = 2, s = [i \in 1 .. Len(s) |-> s[i]],
           s[1] = a, s[2] = b
    PROVE  s = <<a, b>>
OBVIOUS

\* A list of three of a set.
LEMMA Triples ==
    ASSUME NEW a, NEW b, NEW c, NEW s, Len(s) = 3, s = [i \in 1 .. Len(s) |-> s[i]],
           s[1] = a, s[2] = b, s[3] = c
    PROVE  s = <<a, b, c>>
OBVIOUS

\* A list of four of a set.
LEMMA Quadruples ==
    ASSUME NEW a, NEW b, NEW c, NEW d, NEW s, Len(s) = 4,
           s = [i \in 1 .. Len(s) |-> s[i]], s[1] = a, s[2] = b, s[3] = c, s[4] = d
    PROVE  s = <<a, b, c, d>>
OBVIOUS

\* A list with one more.
LEMMA AppendedTo ==
    ASSUME NEW S, NEW s \in Seq(S), NEW d
    PROVE  \E t : /\ Append(s, d) = t
                  /\ Len(t) = Len(s) + 1
                  /\ t = [i \in 1 .. Len(t) |-> t[i]]
                  /\ \A i \in 1 .. Len(s) : t[i] = s[i]
                  /\ t[Len(s) + 1] = d
<1> DEFINE T == S \cup {d}
           t == Append(s, d)
<1>1. s \in Seq(T) /\ d \in T
  <2>1. S \subseteq T /\ d \in T
    OBVIOUS
  <2> HIDE DEF T
  <2> QED
    BY <2>1, SeqMonotonic
<1> HIDE DEF T
<1>2. /\ t \in Seq(T) /\ Len(t) = Len(s) + 1
      /\ \A i \in 1 .. Len(s) : t[i] = s[i]
      /\ t[Len(s) + 1] = d
  BY <1>1, AppendProperties
<1>3. Append(s, d) = t
  OBVIOUS
<1> HIDE DEF t
<1>4. t = [i \in 1 .. Len(t) |-> t[i]]
  BY <1>2
<1> QED
  BY <1>2, <1>3, <1>4

\* A list of one with one more is the list of the two.
LEMMA AppendedToOne ==
    ASSUME NEW a, NEW b
    PROVE  Append(<<a>>, b) = <<a, b>>
<1> DEFINE s == <<a>>
           S == {a}
<1>1. s \in Seq(S) /\ Len(s) = 1 /\ s[1] = a
  OBVIOUS
<1> HIDE DEF s, S
<1>2. PICK t : /\ Append(s, b) = t
               /\ Len(t) = Len(s) + 1
               /\ t = [i \in 1 .. Len(t) |-> t[i]]
               /\ \A i \in 1 .. Len(s) : t[i] = s[i]
               /\ t[Len(s) + 1] = b
  BY <1>1, AppendedTo
<1>3. Len(t) = 2 /\ t[1] = a /\ t[2] = b
  BY <1>1, <1>2
<1>4. t = <<a, b>>
  <2>1. t = [i \in 1 .. Len(t) |-> t[i]]
    BY <1>2
  <2> QED
    BY <1>3, <2>1, Pairs
<1> QED
  BY <1>2, <1>4 DEF s

\* A list of two with one more.
LEMMA AppendedToTwo ==
    ASSUME NEW a, NEW b, NEW c
    PROVE  Append(<<a, b>>, c) = <<a, b, c>>
<1> DEFINE s == <<a, b>>
           S == {a, b}
<1>1. s \in Seq(S) /\ Len(s) = 2 /\ s[1] = a /\ s[2] = b
  OBVIOUS
<1> HIDE DEF s, S
<1>2. PICK t : /\ Append(s, c) = t
               /\ Len(t) = Len(s) + 1
               /\ t = [i \in 1 .. Len(t) |-> t[i]]
               /\ \A i \in 1 .. Len(s) : t[i] = s[i]
               /\ t[Len(s) + 1] = c
  BY <1>1, AppendedTo
<1>3. Len(t) = 3 /\ t[1] = a /\ t[2] = b /\ t[3] = c
  BY <1>1, <1>2
<1>4. t = <<a, b, c>>
  <2>1. t = [i \in 1 .. Len(t) |-> t[i]]
    BY <1>2
  <2> QED
    BY <1>3, <2>1, Triples
<1> QED
  BY <1>2, <1>4 DEF s

\* A list of three with one more.
LEMMA AppendedToThree ==
    ASSUME NEW a, NEW b, NEW c, NEW d
    PROVE  Append(<<a, b, c>>, d) = <<a, b, c, d>>
<1> DEFINE s == <<a, b, c>>
           S == {a, b, c}
<1>1. s \in Seq(S) /\ Len(s) = 3 /\ s[1] = a /\ s[2] = b /\ s[3] = c
  OBVIOUS
<1> HIDE DEF s, S
<1>2. PICK t : /\ Append(s, d) = t
               /\ Len(t) = Len(s) + 1
               /\ t = [i \in 1 .. Len(t) |-> t[i]]
               /\ \A i \in 1 .. Len(s) : t[i] = s[i]
               /\ t[Len(s) + 1] = d
  BY <1>1, AppendedTo
<1>3. Len(t) = 4 /\ t[1] = a /\ t[2] = b /\ t[3] = c /\ t[4] = d
  BY <1>1, <1>2
<1>4. t = <<a, b, c, d>>
  <2>1. t = [i \in 1 .. Len(t) |-> t[i]]
    BY <1>2
  <2> QED
    BY <1>3, <2>1, Quadruples
<1> QED
  BY <1>2, <1>4 DEF s

\* The entries of a short list at the places that are kept.
LEMMA FirstEntries ==
    ASSUME NEW s, Len(s) \in Nat, NEW places, 1 \in places, 2 \in places
    PROVE  /\ Len(s) = 2 => EntriesAt(s, places) = <<s[1], s[2]>>
           /\ Len(s) = 3 /\ 3 \notin places => EntriesAt(s, places) = <<s[1], s[2]>>
           /\ Len(s) = 3 /\ 3 \in places => EntriesAt(s, places) = <<s[1], s[2], s[3]>>
           /\ Len(s) = 4 /\ 3 \notin places /\ 4 \in places
                => EntriesAt(s, places) = <<s[1], s[2], s[4]>>
<1>1. PICK f : /\ f[0] = <<>>
               /\ \A i \in 1 .. Len(s) :
                    f[i] = IF i \in places THEN Append(f[i - 1], s[i]) ELSE f[i - 1]
               /\ EntriesAt(s, places) = f[Len(s)]
  BY EntriesAtSteps
<1> DEFINE a == s[1]
           b == s[2]
           c == s[3]
           d == s[4]
<1>0. \A i, j \in 0 .. 4 : i = j + 1 /\ i <= Len(s)
        => f[i] = IF i \in places THEN Append(f[j], s[i]) ELSE f[j]
  <2> SUFFICES ASSUME NEW i \in 0 .. 4, NEW j \in 0 .. 4, i = j + 1, i <= Len(s)
               PROVE  f[i] = IF i \in places THEN Append(f[j], s[i]) ELSE f[j]
    OBVIOUS
  <2>1. i \in 1 .. Len(s) /\ i - 1 = j
    OBVIOUS
  <2> QED
    BY <1>1, <2>1
<1>2. Len(s) >= 2 => f[1] = Append(f[0], a) /\ f[2] = Append(f[1], b)
  <2>1. Len(s) >= 2 =>
        /\ f[1] = IF 1 \in places THEN Append(f[0], s[1]) ELSE f[0]
        /\ f[2] = IF 2 \in places THEN Append(f[1], s[2]) ELSE f[1]
    BY <1>0
  <2> QED
    BY <2>1
<1>4. Len(s) >= 3 => f[3] = IF 3 \in places THEN Append(f[2], c) ELSE f[2]
  BY <1>0
<1>5. Len(s) = 4 /\ 4 \in places => f[4] = Append(f[3], d)
  <2>1. Len(s) = 4 => f[4] = IF 4 \in places THEN Append(f[3], s[4]) ELSE f[3]
    BY <1>0
  <2> QED
    BY <2>1
<1> HIDE DEF a, b, c, d
<1>6. Len(s) >= 2 => f[2] = <<a, b>>
  <2>1. Len(s) >= 2 => f[1] = <<a>>
    BY <1>1, <1>2
  <2> QED
    BY <1>2, <2>1, AppendedToOne
<1>7. Append(<<a, b>>, c) = <<a, b, c>> /\ Append(<<a, b>>, d) = <<a, b, d>>
  BY AppendedToTwo
<1>8. Len(s) = 3 => f[3] = IF 3 \in places THEN <<a, b, c>> ELSE <<a, b>>
  <2> DEFINE ab == <<a, b>>
             abc == <<a, b, c>>
  <2>1. Append(ab, c) = abc
    BY <1>7
  <2>2. Len(s) = 3 => f[2] = ab
    BY <1>6
  <2> HIDE DEF ab, abc
  <2>3. Len(s) = 3 => f[3] = IF 3 \in places THEN Append(f[2], c) ELSE f[2]
    BY <1>4
  <2>4. Len(s) = 3 => f[3] = IF 3 \in places THEN abc ELSE ab
    BY Zenon, <2>1, <2>2, <2>3
  <2> QED
    BY <2>4 DEF ab, abc
<1>9. Len(s) = 4 /\ 3 \notin places /\ 4 \in places => f[4] = <<a, b, d>>
  <2> DEFINE ab == <<a, b>>
             abd == <<a, b, d>>
  <2>1. Append(ab, d) = abd
    BY <1>7
  <2>2. Len(s) = 4 => f[2] = ab
    BY <1>6
  <2> HIDE DEF ab, abd
  <2>3. Len(s) = 4 /\ 3 \notin places /\ 4 \in places => f[4] = abd
    BY <1>4, <1>5, <2>1, <2>2
  <2> QED
    BY <2>3 DEF abd
<1>10. /\ Len(s) = 2 => EntriesAt(s, places) = f[2]
       /\ Len(s) = 3 => EntriesAt(s, places) = f[3]
       /\ Len(s) = 4 => EntriesAt(s, places) = f[4]
  BY <1>1
<1> QED
  BY <1>6, <1>8, <1>9, <1>10 DEF a, b, c, d

\* The resolvers with that of the servers' own names behind them.
LEMMA ResolversPinned ==
    ASSUME NEW remote, NEW direct, NEW fake, NEW v6, NEW pinned, pinned # {}
    PROVE  Append(Resolvers(remote, direct, fake, v6, {}), HostsServer)
             = Resolvers(remote, direct, fake, v6, pinned)
<1> DEFINE F == FakeServer(v6)
           H == HostsServer
<1>1. /\ Append(<<remote, direct, F>>, H) = <<remote, direct, F, H>>
      /\ Append(<<remote, direct>>, H) = <<remote, direct, H>>
  <2> HIDE DEF F, H
  <2> QED
    BY AppendedToTwo, AppendedToThree
<1> QED
  BY <1>1 DEF Resolvers

\* The resolvers without FakeDNS.
LEMMA ResolversStripped ==
    ASSUME NEW remote, NEW direct, NEW fake, NEW v6, NEW pinned,
           remote.tag # "dns-fakeip", direct.tag # "dns-fakeip"
    PROVE  RealServers(Resolvers(remote, direct, fake, v6, pinned))
             = Resolvers(remote, direct, FALSE, v6, pinned)
<1> DEFINE F == FakeServer(v6)
           H == HostsServer
           Places(s) == {i \in 1 .. Len(s) : s[i].tag # "dns-fakeip"}
<1>1. F.tag = "dns-fakeip" /\ H.tag # "dns-fakeip"
  BY DEF FakeServer, HostsServer
<1> HIDE DEF F, H
<1>2. /\ 1 \in Places(<<remote, direct>>) /\ 2 \in Places(<<remote, direct>>)
      /\ 1 \in Places(<<remote, direct, F>>) /\ 2 \in Places(<<remote, direct, F>>)
      /\ 3 \notin Places(<<remote, direct, F>>)
      /\ 1 \in Places(<<remote, direct, H>>) /\ 2 \in Places(<<remote, direct, H>>)
      /\ 3 \in Places(<<remote, direct, H>>)
      /\ 1 \in Places(<<remote, direct, F, H>>) /\ 2 \in Places(<<remote, direct, F, H>>)
      /\ 3 \notin Places(<<remote, direct, F, H>>) /\ 4 \in Places(<<remote, direct, F, H>>)
  BY <1>1
<1>3. /\ RealServers(<<remote, direct>>)
           = EntriesAt(<<remote, direct>>, Places(<<remote, direct>>))
      /\ RealServers(<<remote, direct, F>>)
           = EntriesAt(<<remote, direct, F>>, Places(<<remote, direct, F>>))
      /\ RealServers(<<remote, direct, H>>)
           = EntriesAt(<<remote, direct, H>>, Places(<<remote, direct, H>>))
      /\ RealServers(<<remote, direct, F, H>>)
           = EntriesAt(<<remote, direct, F, H>>, Places(<<remote, direct, F, H>>))
  BY DEF RealServers
<1> HIDE DEF Places
<1>4. /\ RealServers(<<remote, direct>>) = <<remote, direct>>
      /\ RealServers(<<remote, direct, F>>) = <<remote, direct>>
      /\ RealServers(<<remote, direct, H>>) = <<remote, direct, H>>
      /\ RealServers(<<remote, direct, F, H>>) = <<remote, direct, H>>
  BY <1>2, <1>3, FirstEntries
<1> QED
  BY <1>4 DEF Resolvers, F, H

\* The resolvers without IPv6.
LEMMA ResolversWithoutV6 ==
    ASSUME NEW remote, NEW direct, NEW fake, NEW v6, NEW pinned,
           ~Has(remote, {"v6"}), ~Has(direct, {"v6"})
    PROVE  WithoutV6(Resolvers(remote, direct, fake, v6, pinned))
             = Resolvers(remote, direct, fake, FALSE, pinned)
<1> DEFINE Op(server) == IF Has(server, {"v6"}) THEN [server EXCEPT !.v6 = FALSE] ELSE server
           F == FakeServer(v6)
           G == FakeServer(FALSE)
           H == HostsServer
<1>1. Op(F) = G /\ Op(H) = H
  BY DEF FakeServer, HostsServer, Has
<1>2. Op(remote) = remote /\ Op(direct) = direct
  OBVIOUS
<1>3. \A s : WithoutV6(s) = [i \in 1 .. Len(s) |-> Op(s[i])]
  BY DEF WithoutV6
<1>4. Resolvers(remote, direct, fake, v6, pinned)
        = IF fake THEN IF pinned = {} THEN <<remote, direct, F>> ELSE <<remote, direct, F, H>>
          ELSE IF pinned = {} THEN <<remote, direct>> ELSE <<remote, direct, H>>
  BY DEF Resolvers
<1>5. Resolvers(remote, direct, fake, FALSE, pinned)
        = IF fake THEN IF pinned = {} THEN <<remote, direct, G>> ELSE <<remote, direct, G, H>>
          ELSE IF pinned = {} THEN <<remote, direct>> ELSE <<remote, direct, H>>
  BY DEF Resolvers
<1> HIDE DEF Op, F, G, H
<1>6. \A a, b : WithoutV6(<<a, b>>) = <<Op(a), Op(b)>>
  <2> SUFFICES ASSUME NEW a, NEW b PROVE WithoutV6(<<a, b>>) = <<Op(a), Op(b)>>
    OBVIOUS
  <2> DEFINE t == WithoutV6(<<a, b>>)
  <2>1. /\ Len(t) = 2 /\ t = [i \in 1 .. Len(t) |-> t[i]] /\ t[1] = Op(a) /\ t[2] = Op(b)
    <3> DEFINE u == <<a, b>>
    <3>1. Len(u) = 2 /\ u[1] = a /\ u[2] = b
      OBVIOUS
    <3> HIDE DEF u
    <3>2. WithoutV6(u) = [i \in 1 .. 2 |-> Op(u[i])]
      BY <1>3, <3>1
    <3>3. /\ DOMAIN WithoutV6(u) = 1 .. 2
          /\ \A i \in 1 .. 2 : WithoutV6(u)[i] = Op(u[i])
      BY <3>2
    <3>4. Len(WithoutV6(u)) = 2
      BY <3>2
    <3> QED
      BY <3>1, <3>2, <3>3, <3>4 DEF u
  <2> HIDE DEF t
  <2> QED
    BY <2>1, Pairs DEF t
<1>7. \A a, b, c : WithoutV6(<<a, b, c>>) = <<Op(a), Op(b), Op(c)>>
  <2> SUFFICES ASSUME NEW a, NEW b, NEW c
               PROVE  WithoutV6(<<a, b, c>>) = <<Op(a), Op(b), Op(c)>>
    OBVIOUS
  <2> DEFINE t == WithoutV6(<<a, b, c>>)
  <2>1. /\ Len(t) = 3 /\ t = [i \in 1 .. Len(t) |-> t[i]]
        /\ t[1] = Op(a) /\ t[2] = Op(b) /\ t[3] = Op(c)
    <3> DEFINE u == <<a, b, c>>
    <3>1. Len(u) = 3 /\ u[1] = a /\ u[2] = b /\ u[3] = c
      OBVIOUS
    <3> HIDE DEF u
    <3>2. WithoutV6(u) = [i \in 1 .. 3 |-> Op(u[i])]
      BY <1>3, <3>1
    <3>3. /\ DOMAIN WithoutV6(u) = 1 .. 3
          /\ \A i \in 1 .. 3 : WithoutV6(u)[i] = Op(u[i])
      BY <3>2
    <3>4. Len(WithoutV6(u)) = 3
      BY <3>2
    <3> QED
      BY <3>1, <3>2, <3>3, <3>4 DEF u
  <2> HIDE DEF t
  <2> QED
    BY <2>1, Triples DEF t
<1>8. \A a, b, c, d : WithoutV6(<<a, b, c, d>>) = <<Op(a), Op(b), Op(c), Op(d)>>
  <2> SUFFICES ASSUME NEW a, NEW b, NEW c, NEW d
               PROVE  WithoutV6(<<a, b, c, d>>) = <<Op(a), Op(b), Op(c), Op(d)>>
    OBVIOUS
  <2> DEFINE t == WithoutV6(<<a, b, c, d>>)
  <2>1. /\ Len(t) = 4 /\ t = [i \in 1 .. Len(t) |-> t[i]]
        /\ t[1] = Op(a) /\ t[2] = Op(b) /\ t[3] = Op(c) /\ t[4] = Op(d)
    <3> DEFINE u == <<a, b, c, d>>
    <3>1. Len(u) = 4 /\ u[1] = a /\ u[2] = b /\ u[3] = c /\ u[4] = d
      OBVIOUS
    <3> HIDE DEF u
    <3>2. WithoutV6(u) = [i \in 1 .. 4 |-> Op(u[i])]
      BY <1>3, <3>1
    <3>3. /\ DOMAIN WithoutV6(u) = 1 .. 4
          /\ \A i \in 1 .. 4 : WithoutV6(u)[i] = Op(u[i])
      BY <3>2
    <3>4. Len(WithoutV6(u)) = 4
      BY <3>2
    <3> QED
      BY <3>1, <3>2, <3>3, <3>4 DEF u
  <2> HIDE DEF t
  <2> QED
    BY <2>1, Quadruples DEF t
<1> DEFINE P == pinned = {}
<1> HIDE DEF P
<1>9. WithoutV6(Resolvers(remote, direct, fake, v6, pinned))
        = IF fake THEN IF P THEN WithoutV6(<<remote, direct, F>>)
                       ELSE WithoutV6(<<remote, direct, F, H>>)
          ELSE IF P THEN WithoutV6(<<remote, direct>>) ELSE WithoutV6(<<remote, direct, H>>)
  BY <1>4 DEF P
<1>10. /\ WithoutV6(<<remote, direct, F>>) = <<remote, direct, G>>
       /\ WithoutV6(<<remote, direct, F, H>>) = <<remote, direct, G, H>>
       /\ WithoutV6(<<remote, direct>>) = <<remote, direct>>
       /\ WithoutV6(<<remote, direct, H>>) = <<remote, direct, H>>
  BY <1>1, <1>2, <1>6, <1>7, <1>8
<1> QED
  BY <1>5, <1>9, <1>10 DEF P

\* The resolvers a profile is written with.
LEMMA ResolversGenerated ==
    ASSUME NEW proxies, NEW fakeDns, NEW dns
    PROVE  /\ buildDns(proxies, fakeDns, dns).servers
                = Resolvers(RemoteServer(dns.remote), DirectServer("udp", dns.direct),
                            fakeDns, TRUE, {})
           /\ buildDns(proxies, fakeDns, dns).rules = FakeRules(fakeDns)
           /\ \E strategy : buildDns(proxies, fakeDns, dns)
                = [servers |-> buildDns(proxies, fakeDns, dns).servers,
                   rules |-> buildDns(proxies, fakeDns, dns).rules,
                   strategy |-> strategy]
<1> DEFINE R == RemoteServer(dns.remote)
           D == DirectServer("udp", dns.direct)
           F == FakeServer(TRUE)
           type == IF \E i \in 1 .. Len(proxies) : reachesBridge(proxies[i])
                   THEN tcpDnsType("https") ELSE "https"
           first == [tag |-> "dns-remote", server |-> dns.remote, type |-> type,
                     detour |-> "select", resolver |-> "dns-direct"]
<1>1. type = "https"
  BY DEF tcpDnsType, Get
<1> HIDE DEF type
<1>2. first = R
  BY <1>1 DEF RemoteServer
<1>3. buildDns(proxies, fakeDns, dns).servers
        = <<first, D>> \o (IF fakeDns THEN <<F>> ELSE <<>>)
  BY DEF buildDns, DirectServer, FakeServer, type
<1> HIDE DEF first, R, D, F
<1>4. <<R, D>> \o <<F>> = <<R, D, F>> /\ <<R, D>> \o <<>> = <<R, D>>
  <2> DEFINE s == <<R, D>>
             S == {R, D, F}
  <2>1. s \in Seq(S) /\ F \in S
    OBVIOUS
  <2> HIDE DEF s, S
  <2>2. Append(s, F) = s \o <<F>> /\ s \o <<>> = s
    BY <2>1, AppendIsConcat, ConcatEmptySeq
  <2> QED
    BY <2>2, AppendedToTwo DEF s
<1>5. Resolvers(R, D, fakeDns, TRUE, {}) = IF fakeDns THEN <<R, D, F>> ELSE <<R, D>>
  BY DEF Resolvers, F
<1>6. buildDns(proxies, fakeDns, dns).servers = Resolvers(R, D, fakeDns, TRUE, {})
  BY <1>2, <1>3, <1>4, <1>5
<1>7. /\ buildDns(proxies, fakeDns, dns).rules = FakeRules(fakeDns)
      /\ \E strategy : buildDns(proxies, fakeDns, dns)
                = [servers |-> buildDns(proxies, fakeDns, dns).servers,
                   rules |-> buildDns(proxies, fakeDns, dns).rules,
                   strategy |-> strategy]
  BY DEF buildDns, FakeRules
<1> QED
  BY <1>6, <1>7 DEF R, D

\* The resolver that is dialled around the tunnel, of what a probe found.
DirectVia(result) ==
    IF dohCapableIp(result) = None THEN DirectServer("udp", result.udp)
    ELSE DirectServer("https", dohCapableIp(result))

\* The resolvers, where those that answer have been found.
LEMMA ResolversProbed ==
    ASSUME NEW host, NEW address, NEW fake, NEW v6, NEW result
    PROVE  ProbedAll(Resolvers(RemoteServer(host), DirectServer("udp", address), fake, v6, {}),
                     result)
             = Resolvers(RemoteServer(result.doh), DirectVia(result), fake, v6, {})
<1> DEFINE R == RemoteServer(host)
           D == DirectServer("udp", address)
           F == FakeServer(v6)
           R2 == RemoteServer(result.doh)
           D2 == DirectVia(result)
<1>1. Probed(R, result) = R2
  <2> HIDE DEF R
  <2>1. R.tag = "dns-remote"
    BY DEF R, RemoteServer
  <2>2. Probed(R, result) = [R EXCEPT !.type = "https", !.server = result.doh]
    BY <2>1 DEF Probed
  <2>3. [R EXCEPT !.type = "https", !.server = result.doh]
          = [[R EXCEPT !.type = "https"] EXCEPT !.server = result.doh]
    OBVIOUS
  <2>4. [R EXCEPT !.type = "https"] = R
    BY DEF R, RemoteServer
  <2>5. [R EXCEPT !.server = result.doh] = R2
    BY DEF R, RemoteServer
  <2> QED
    BY <2>2, <2>3, <2>4, <2>5
<1>2. Probed(D, result) = D2
  <2> DEFINE ip == dohCapableIp(result)
             udp == result.udp
  <2> HIDE DEF D, ip, udp
  <2>1. D.tag = "dns-direct"
    BY DEF D, DirectServer
  <2>2. Probed(D, result) = IF ip = None THEN [D EXCEPT !.type = "udp", !.server = udp]
                            ELSE [D EXCEPT !.type = "https", !.server = ip]
    BY <2>1 DEF Probed, ip, udp
  <2>3. /\ [D EXCEPT !.type = "udp", !.server = udp]
             = [[D EXCEPT !.type = "udp"] EXCEPT !.server = udp]
        /\ [D EXCEPT !.type = "https", !.server = ip]
             = [[D EXCEPT !.type = "https"] EXCEPT !.server = ip]
    OBVIOUS
  <2>4. /\ [D EXCEPT !.type = "udp"] = D
        /\ [D EXCEPT !.type = "https"] = DirectServer("https", address)
    BY DEF D, DirectServer
  <2>5. /\ [D EXCEPT !.server = udp] = DirectServer("udp", udp)
        /\ [DirectServer("https", address) EXCEPT !.server = ip] = DirectServer("https", ip)
    BY DEF D, DirectServer
  <2>6. D2 = IF ip = None THEN DirectServer("udp", udp) ELSE DirectServer("https", ip)
    BY DEF DirectVia, ip, udp
  <2> QED
    BY <2>2, <2>3, <2>4, <2>5, <2>6
<1>3. Probed(F, result) = F
  BY DEF Probed, FakeServer
<1>4. Resolvers(R, D, fake, v6, {}) = IF fake THEN <<R, D, F>> ELSE <<R, D>>
  BY DEF Resolvers
<1>5. Resolvers(R2, D2, fake, v6, {}) = IF fake THEN <<R2, D2, F>> ELSE <<R2, D2>>
  BY DEF Resolvers
<1> HIDE DEF R, D, F, R2, D2
<1>6. ProbedAll(<<R, D>>, result) = <<R2, D2>>
  <2> DEFINE u == <<R, D>>
             t == ProbedAll(u, result)
  <2>1. Len(u) = 2 /\ u[1] = R /\ u[2] = D
    OBVIOUS
  <2> HIDE DEF u
  <2>2. t = [i \in 1 .. 2 |-> Probed(u[i], result)]
    BY <2>1 DEF ProbedAll
  <2> HIDE DEF t
  <2>3. Len(t) = 2 /\ t = [i \in 1 .. Len(t) |-> t[i]] /\ t[1] = R2 /\ t[2] = D2
    BY <1>1, <1>2, <2>1, <2>2
  <2> QED
    BY <2>3, Pairs DEF t, u
<1>7. ProbedAll(<<R, D, F>>, result) = <<R2, D2, F>>
  <2> DEFINE u == <<R, D, F>>
             t == ProbedAll(u, result)
  <2>1. Len(u) = 3 /\ u[1] = R /\ u[2] = D /\ u[3] = F
    OBVIOUS
  <2> HIDE DEF u
  <2>2. t = [i \in 1 .. 3 |-> Probed(u[i], result)]
    BY <2>1 DEF ProbedAll
  <2> HIDE DEF t
  <2>3. Len(t) = 3 /\ t = [i \in 1 .. Len(t) |-> t[i]] /\ t[1] = R2 /\ t[2] = D2 /\ t[3] = F
    BY <1>1, <1>2, <1>3, <2>1, <2>2
  <2> QED
    BY <2>3, Triples DEF t, u
<1> QED
  BY <1>4, <1>5, <1>6, <1>7 DEF R, D, R2, D2

\* What is dialled around the tunnel is an address, by DoH where one answers.
LEMMA AddressDialled ==
    ASSUME NEW network, None \notin ByAddress
    PROVE  LET result == probeDns(network)
           IN  /\ DirectVia(result).server \in ByAddress
               /\ DirectVia(result).type = IF result.works THEN "https" ELSE "udp"
<1> DEFINE result == probeDns(network)
<1>1. result.udp = "9.9.9.9" /\ result.works \in BOOLEAN
  BY DEF probeDns
<1> HIDE DEF result
<1>2. "9.9.9.9" \in ByAddress
  BY DEF ByAddress
<1>3. dohCapableIp(result) = IF ~result.works THEN None
                             ELSE IF result.doh \in ByAddress THEN result.doh ELSE result.udp
  <2>1. CASE ~result.works
    BY Zenon, <2>1 DEF dohCapableIp
  <2>2. CASE result.works /\ result.doh \in ByAddress
    BY <2>2 DEF dohCapableIp
  <2>3. CASE result.works /\ result.doh \notin ByAddress
    BY <2>3 DEF dohCapableIp
  <2> QED
    BY <1>1, <2>1, <2>2, <2>3
<1>4. /\ DirectServer("udp", result.udp).server = result.udp
      /\ DirectServer("udp", result.udp).type = "udp"
      /\ DirectServer("https", dohCapableIp(result)).server = dohCapableIp(result)
      /\ DirectServer("https", dohCapableIp(result)).type = "https"
  BY DEF DirectServer
<1> QED
  BY <1>1, <1>2, <1>3, <1>4 DEF DirectVia, result

\* What is asked of the rules of the resolvers.
LEMMA RulesStripped ==
    ASSUME NEW pinned, NEW fake
    PROVE  RealRules(PinRules(pinned) \o FakeRules(fake)) = PinRules(pinned) \o FakeRules(FALSE)
<1> DEFINE refuse == [query |-> {"HTTPS", "SVCB"}, action |-> "reject"]
           answer == [query |-> {"A", "AAAA"}, server |-> "dns-fakeip"]
           pin == PinRule(pinned)
           Places(s) == {i \in 1 .. Len(s) : ~isFakeDnsRule(s[i])}
<1>1. isFakeDnsRule(refuse) /\ isFakeDnsRule(answer) /\ ~isFakeDnsRule(pin)
  BY DEF isFakeDnsRule, isHttpsReject, Get, PinRule
<1>2. /\ PinRules(pinned) = IF pinned = {} THEN <<>> ELSE <<pin>>
      /\ FakeRules(fake) = IF fake THEN <<refuse, answer>> ELSE <<>>
      /\ FakeRules(FALSE) = <<>>
  BY DEF PinRules, PinRule, FakeRules
<1> HIDE DEF refuse, answer, pin
<1>3. \A s : RealRules(s) = EntriesAt(s, Places(s))
  BY DEF RealRules
<1>4. /\ PinRules(pinned) \in Seq({pin}) /\ FakeRules(fake) \in Seq({refuse, answer})
  <2> DEFINE A == {pin}
             B == {refuse, answer}
  <2>1. pin \in A /\ refuse \in B /\ answer \in B
    OBVIOUS
  <2> HIDE DEF A, B
  <2>2. <<>> \in Seq(A) /\ <<pin>> \in Seq(A) /\ <<>> \in Seq(B) /\ <<refuse, answer>> \in Seq(B)
    BY <2>1
  <2>3. PinRules(pinned) \in Seq(A) /\ FakeRules(fake) \in Seq(B)
    BY <1>2, <2>2
  <2> QED
    BY <2>3 DEF A, B
<1> DEFINE s == PinRules(pinned) \o FakeRules(fake)
           n == Len(PinRules(pinned))
<1>5. /\ Len(s) = n + Len(FakeRules(fake)) /\ n \in Nat /\ Len(FakeRules(fake)) \in Nat
      /\ \A i \in 1 .. Len(s) : s[i] = IF i <= n THEN pin ELSE s[i]
      /\ \A i \in 1 .. Len(s) : i > n => s[i] \in {refuse, answer}
  <2> DEFINE S == {pin, refuse, answer}
             p == PinRules(pinned)
             q == FakeRules(fake)
  <2>1. p \in Seq(S) /\ q \in Seq(S)
    <3>1. {pin} \subseteq S /\ {refuse, answer} \subseteq S
      OBVIOUS
    <3> HIDE DEF S
    <3> QED
      BY <1>4, <3>1, SeqMonotonic
  <2>2. \A i \in 1 .. Len(p) : p[i] = pin
    BY <1>4
  <2>3. \A i \in 1 .. Len(q) : q[i] \in {refuse, answer}
    BY <1>4
  <2> HIDE DEF S, p, q
  <2>4. /\ Len(p \o q) = Len(p) + Len(q) /\ Len(p) \in Nat /\ Len(q) \in Nat
        /\ \A i \in 1 .. Len(p) + Len(q) : (p \o q)[i] = IF i <= Len(p) THEN p[i] ELSE q[i - Len(p)]
    BY <2>1, ConcatProperties
  <2> QED
    BY <2>2, <2>3, <2>4 DEF p, q
<1> HIDE DEF s
<1>6. Places(s) = 1 .. n
  BY <1>1, <1>5
<1> HIDE DEF Places
<1>7. PICK f : /\ f[0] = <<>>
               /\ \A i \in 1 .. Len(s) :
                    f[i] = IF i \in Places(s) THEN Append(f[i - 1], s[i]) ELSE f[i - 1]
               /\ EntriesAt(s, Places(s)) = f[Len(s)]
  <2>1. Len(s) \in Nat
    BY <1>5
  <2> QED
    BY <2>1, EntriesAtSteps
<1>8. n \in {0, 1} /\ Len(FakeRules(fake)) \in {0, 2}
  BY <1>2
<1> DEFINE m == Len(s)
<1>9. m \in 0 .. 3 /\ n <= m /\ m \in {n, n + 2}
  <2> DEFINE k == Len(FakeRules(fake))
  <2>1. m = n + k /\ n \in {0, 1} /\ k \in {0, 2}
    BY <1>5, <1>8
  <2> HIDE DEF m, n, k
  <2> QED
    BY <2>1
<1> HIDE DEF m, n
<1>10. \A i, j \in 0 .. 3 : i = j + 1 /\ i <= m
         => f[i] = IF i <= n THEN Append(f[j], s[i]) ELSE f[j]
  <2> SUFFICES ASSUME NEW i \in 0 .. 3, NEW j \in 0 .. 3, i = j + 1, i <= m
               PROVE  f[i] = IF i <= n THEN Append(f[j], s[i]) ELSE f[j]
    OBVIOUS
  <2>1. i \in 1 .. Len(s) /\ i - 1 = j /\ (i \in 1 .. n <=> i <= n)
    BY <1>5 DEF m
  <2>2. f[i] = IF i \in Places(s) THEN Append(f[i - 1], s[i]) ELSE f[i - 1]
    BY <1>7, <2>1
  <2> QED
    BY <1>6, <2>1, <2>2
<1>11. f[m] = PinRules(pinned)
  <2>1. CASE n = 0
    <3>1. \A i, j \in 0 .. 3 : i = j + 1 /\ i <= m => f[i] = f[j]
      BY <1>10, <2>1
    <3>2. m = 0 \/ m = 2
      BY <1>9, <2>1
    <3>3. m = 2 => f[2] = f[1] /\ f[1] = f[0]
      BY <3>1
    <3>4. PinRules(pinned) = <<>>
      BY <1>2, <2>1 DEF n
    <3> QED
      BY <1>7, <3>2, <3>3, <3>4
  <2>2. CASE n = 1
    <3>1. m = 1 \/ m = 3
      BY <1>9, <2>2
    <3>2. f[1] = Append(f[0], s[1])
      BY <1>10, <2>2, <3>1
    <3>3. s[1] = pin
      BY <1>5, <2>2, <3>1 DEF m
    <3>4. f[1] = <<pin>>
      BY <1>7, <3>2, <3>3
    <3>5. m = 3 => f[3] = f[2] /\ f[2] = f[1]
      BY <1>10, <2>2
    <3>6. PinRules(pinned) = <<pin>>
      BY <1>2, <2>2 DEF n
    <3> QED
      BY <3>1, <3>4, <3>5, <3>6
  <2> QED
    BY <1>8, <2>1, <2>2
<1>12. PinRules(pinned) \o <<>> = PinRules(pinned)
  BY <1>4, ConcatEmptySeq
<1> QED
  BY <1>2, <1>3, <1>7, <1>11, <1>12 DEF s, m

-----------------------------------------------------------------------------
(* What applyRussiaDirect looks for. *)

\* An outbound of this type and this tag.
Lists(outbounds, type, tag) ==
    /\ Len(outbounds) \in Nat
    /\ \E i \in 1 .. Len(outbounds) :
          /\ {"type", "tag"} \subseteq DOMAIN outbounds[i]
          /\ outbounds[i].type = type
          /\ outbounds[i].tag = tag

\* Pins leave the outbounds what they are.
LEMMA ListsPinned ==
    ASSUME NEW outbounds, NEW type, NEW tag, Lists(outbounds, type, tag), NEW pinned
    PROVE  Lists(PinnedOf(outbounds, pinned), type, tag)
<1> DEFINE o == PinnedOf(outbounds, pinned)
           fields == [resolver |-> "dns-hosts"]
<1>1. PICK i \in 1 .. Len(outbounds) : /\ {"type", "tag"} \subseteq DOMAIN outbounds[i]
                                       /\ outbounds[i].type = type /\ outbounds[i].tag = tag
  BY DEF Lists
<1>2. Len(o) = Len(outbounds) /\ Len(outbounds) \in Nat
  BY DEF Lists, PinnedOf
<1>3. o[i] = outbounds[i] \/ o[i] = Extended(outbounds[i], fields)
  BY DEF PinnedOf
<1>4. DOMAIN fields = {"resolver"}
  OBVIOUS
<1> HIDE DEF o, fields
<1>5. ASSUME o[i] = Extended(outbounds[i], fields)
      PROVE  /\ {"type", "tag"} \subseteq DOMAIN o[i]
             /\ o[i].type = type /\ o[i].tag = tag
  BY <1>1, <1>4, <1>5 DEF Extended
<1> QED
  BY <1>1, <1>2, <1>3, <1>5 DEF Lists, o

\* Credentials leave the outbounds what they are.
LEMMA ListsArmed ==
    ASSUME NEW outbounds, NEW type, NEW tag, Lists(outbounds, type, tag), NEW ports
    PROVE  Lists(ArmedOf(outbounds, ports), type, tag)
<1> DEFINE o == ArmedOf(outbounds, ports)
           fields == [auth |-> "pair"]
<1>1. PICK i \in 1 .. Len(outbounds) : /\ {"type", "tag"} \subseteq DOMAIN outbounds[i]
                                       /\ outbounds[i].type = type /\ outbounds[i].tag = tag
  BY DEF Lists
<1>2. Len(o) = Len(outbounds) /\ Len(outbounds) \in Nat
  BY DEF Lists, ArmedOf
<1>3. o[i] = outbounds[i] \/ o[i] = Extended(outbounds[i], fields)
  BY DEF ArmedOf
<1>4. DOMAIN fields = {"auth"}
  OBVIOUS
<1> HIDE DEF o, fields
<1>5. ASSUME o[i] = Extended(outbounds[i], fields)
      PROVE  /\ {"type", "tag"} \subseteq DOMAIN o[i]
             /\ o[i].type = type /\ o[i].tag = tag
  BY <1>1, <1>4, <1>5 DEF Extended
<1> QED
  BY <1>1, <1>2, <1>3, <1>5 DEF Lists, o

\* The resolvers in their places.
LEMMA ResolversHold ==
    ASSUME NEW remote, NEW direct, NEW fake, NEW v6, NEW pinned
    PROVE  LET s == Resolvers(remote, direct, fake, v6, pinned)
           IN  /\ Len(s) \in Nat /\ Len(s) >= 2
               /\ s \in Seq({remote, direct, FakeServer(v6), HostsServer})
               /\ s[1] = remote /\ s[2] = direct
               /\ fake => Len(s) >= 3 /\ s[3] = FakeServer(v6)
<1> DEFINE F == FakeServer(v6)
           H == HostsServer
           S == {remote, direct, F, H}
           s == Resolvers(remote, direct, fake, v6, pinned)
           P == pinned = {}
<1>1. s = IF fake THEN IF P THEN <<remote, direct, F>> ELSE <<remote, direct, F, H>>
          ELSE IF P THEN <<remote, direct>> ELSE <<remote, direct, H>>
  BY DEF Resolvers
<1>2. remote \in S /\ direct \in S /\ F \in S /\ H \in S
  OBVIOUS
<1> HIDE DEF F, H, S, s, P
<1>3. /\ <<remote, direct, F>> \in Seq(S) /\ <<remote, direct, F, H>> \in Seq(S)
      /\ <<remote, direct>> \in Seq(S) /\ <<remote, direct, H>> \in Seq(S)
  BY <1>2
<1>4. CASE fake /\ P
  BY <1>1, <1>3, <1>4 DEF s, F, H, S
<1>5. CASE fake /\ ~P
  BY <1>1, <1>3, <1>5 DEF s, F, H, S
<1>6. CASE ~fake /\ P
  BY <1>1, <1>3, <1>6 DEF s, F, H, S
<1>7. CASE ~fake /\ ~P
  BY <1>1, <1>3, <1>7 DEF s, F, H, S
<1> QED
  BY <1>4, <1>5, <1>6, <1>7

\* Neither the block nor its first rule is there yet.
NoTorrents(rules) ==
    \A i \in 1 .. Len(rules) : Get(rules[i], "protocol", "") # "bittorrent"

Known(servers) ==
    /\ {"dns-remote", "dns-direct"} \subseteq TagsOf(servers)
    /\ "dns-ru" \notin TagsOf(servers)

\* The rules a profile is written with have none for BitTorrent.
LEMMA NoTorrentsYet ==
    ASSUME NEW lanBypass, NEW perApp, NEW udp, NEW rules,
           rules = RulesAhead(lanBypass) \o RulesBehind(perApp, udp)
    PROVE  NoTorrents(rules)
<1> DEFINE S == AheadSet \cup BehindSet(perApp)
           before == RulesAhead(lanBypass)
           after == RulesBehind(perApp, udp)
<1>1. before \in Seq(AheadSet) /\ after \in Seq(BehindSet(perApp))
  BY RuleLists
<1> HIDE DEF before, after
<1>2. rules \in Seq(S)
  <2>1. AheadSet \subseteq S /\ BehindSet(perApp) \subseteq S
    OBVIOUS
  <2> HIDE DEF S
  <2>2. before \in Seq(S) /\ after \in Seq(S)
    BY <1>1, <2>1, SeqMonotonic
  <2> QED
    BY <2>2, ConcatProperties DEF before, after
<1>3. \A rule \in S : Get(rule, "protocol", "") # "bittorrent"
  <2>1. \A rule \in AheadSet : Get(rule, "protocol", "") # "bittorrent"
    BY DEF AheadSet, SniffRule, HijackRule, LanRule, Get
  <2>2. \A rule \in BehindSet(perApp) : "protocol" \notin DOMAIN rule
    BY DEF BehindSet, AppRule, ntpDirectRule, udpRejectRule
  <2> QED
    BY <2>1, <2>2 DEF Get
<1> HIDE DEF S
<1>4. \A i \in 1 .. Len(rules) : rules[i] \in S
  BY <1>2
<1> QED
  BY <1>3, <1>4 DEF NoTorrents

\* The resolvers have the tags applyRussiaDirect looks for, and not the block's.
LEMMA ResolversKnown ==
    ASSUME NEW remote, NEW direct, NEW fake, NEW v6, NEW pinned,
           remote.tag = "dns-remote", direct.tag = "dns-direct"
    PROVE  Known(Resolvers(remote, direct, fake, v6, pinned))
<1> DEFINE S == {remote, direct, FakeServer(v6), HostsServer}
           s == Resolvers(remote, direct, fake, v6, pinned)
<1>1. /\ Len(s) \in Nat /\ Len(s) >= 2 /\ s[1] = remote /\ s[2] = direct
      /\ s \in Seq(S)
  BY ResolversHold
<1>2. \A server \in S : server.tag # "dns-ru"
  BY DEF FakeServer, HostsServer
<1> HIDE DEF S, s
<1>3. \A i \in 1 .. Len(s) : s[i] \in S
  BY <1>1
<1>4. TagsOf(s) = {s[i].tag : i \in 1 .. Len(s)}
  BY DEF TagsOf
<1>5. 1 \in 1 .. Len(s) /\ 2 \in 1 .. Len(s)
  BY <1>1
<1>6. "dns-remote" \in TagsOf(s) /\ "dns-direct" \in TagsOf(s)
  BY <1>1, <1>4, <1>5
<1>7. "dns-ru" \notin TagsOf(s)
  BY <1>2, <1>3, <1>4
<1> QED
  BY <1>6, <1>7 DEF Known, s

\* A profile of the app's own shape is recognised.
LEMMA Recognised ==
    ASSUME NEW p, Known(p.dns.servers), NoTorrents(p.route.rules), p.route.rule_set = {},
           Lists(p.outbounds, "selector", "select"), Lists(p.outbounds, "direct", "direct")
    PROVE  ~russiaDirectNotOurs(p)
<1>1. \E i \in 1 .. Len(p.outbounds) :
         p.outbounds[i].type = "selector" /\ p.outbounds[i].tag = "select"
  BY DEF Lists
<1>2. \E i \in 1 .. Len(p.outbounds) :
         p.outbounds[i].type = "direct" /\ p.outbounds[i].tag = "direct"
  BY DEF Lists
<1> QED
  BY Zenon, <1>1, <1>2 DEF russiaDirectNotOurs, Known, NoTorrents

\* The block's DNS rules go between the pins and FakeDNS.
LEMMA AnswerInsertion ==
    ASSUME NEW pinned, NEW fake
    PROVE  dnsInsertionIndex(PinRules(pinned) \o FakeRules(fake)) = Len(PinRules(pinned)) + 1
<1> DEFINE refuse == [query |-> {"HTTPS", "SVCB"}, action |-> "reject"]
           answer == [query |-> {"A", "AAAA"}, server |-> "dns-fakeip"]
           pin == PinRule(pinned)
           before == PinRules(pinned)
           after == FakeRules(fake)
           all == before \o after
           found == {i \in 1 .. Len(all) : isFakeDnsRule(all[i])}
<1>1. isFakeDnsRule(refuse) /\ isFakeDnsRule(answer) /\ ~isFakeDnsRule(pin)
  BY DEF isFakeDnsRule, isHttpsReject, Get, PinRule
<1>2. /\ before = IF pinned = {} THEN <<>> ELSE <<pin>>
      /\ after = IF fake THEN <<refuse, answer>> ELSE <<>>
  BY DEF PinRules, PinRule, FakeRules
<1> HIDE DEF refuse, answer, pin, before, after
<1> DEFINE A == {pin}
           B == {refuse, answer}
           S == A \cup B
<1>3. before \in Seq(A) /\ after \in Seq(B)
  <2>1. pin \in A /\ refuse \in B /\ answer \in B
    OBVIOUS
  <2> HIDE DEF A, B
  <2>2. <<>> \in Seq(A) /\ <<pin>> \in Seq(A) /\ <<>> \in Seq(B) /\ <<refuse, answer>> \in Seq(B)
    BY <2>1
  <2> QED
    BY <1>2, <2>2
<1>4. /\ Len(all) = Len(before) + Len(after) /\ Len(before) \in Nat /\ Len(after) \in Nat
      /\ \A i \in 1 .. Len(before) : all[i] = before[i]
      /\ after # <<>> => all[Len(before) + 1] = after[1] /\ Len(after) >= 1
  <2>1. before \in Seq(S) /\ after \in Seq(S)
    <3>1. A \subseteq S /\ B \subseteq S
      OBVIOUS
    <3> HIDE DEF A, B, S
    <3> QED
      BY <1>3, <3>1, SeqMonotonic
  <2> HIDE DEF A, B, S
  <2>2. /\ Len(all) = Len(before) + Len(after) /\ Len(before) \in Nat /\ Len(after) \in Nat
        /\ \A i \in 1 .. Len(before) + Len(after) :
             all[i] = IF i <= Len(before) THEN before[i] ELSE after[i - Len(before)]
    BY <2>1, ConcatProperties
  <2> HIDE DEF all
  <2>3. after # <<>> => Len(after) >= 1
    BY <1>2
  <2> QED
    BY <2>2, <2>3
<1>5. /\ \A i \in 1 .. Len(before) : before[i] = pin
      /\ after # <<>> => after[1] = refuse
  BY <1>2
<1>6. dnsInsertionIndex(all) = Ahead(all, found)
  BY DEF dnsInsertionIndex
<1> HIDE DEF A, B, S
<1>7. /\ found \subseteq 1 .. Len(all)
      /\ \A i \in 1 .. Len(before) : i \notin found
      /\ after # <<>> => Len(before) + 1 \in found
  <2> HIDE DEF all
  <2> QED
    BY <1>1, <1>4, <1>5
<1> HIDE DEF found
<1>8. Ahead(before \o after, found) = Len(before) + 1
  BY <1>3, <1>7, AheadOfTheRest
<1> QED
  BY <1>6, <1>8 DEF before, after

-----------------------------------------------------------------------------
(* A profile that fits the machine, and what becomes of it. *)

Fitting(p, servers, rules, address, routes, final) ==
    \E g, o, t, f, b :
       /\ p = ProfileOf(servers, rules, g, address, o, t, f, b)
       /\ HasRoute(t, routes, final)
       /\ Lists(o, "selector", "select")
       /\ Lists(o, "direct", "direct")

NoLegacy(rules) == \A i \in 1 .. Len(rules) : ~legacyField(rules[i])

\* What applyRussiaDirect makes of a profile of the app's own shape.
LEMMA WrittenIs ==
    ASSUME NEW p, NEW servers, NEW rules, NEW address, NEW routes, NEW final,
           Fitting(p, servers, rules, address, routes, final),
           Known(servers), NoTorrents(routes), NoLegacy(rules), NEW options
    PROVE  LET q == applyRussiaDirect(p, options)
           IN  /\ q.route.rules = IF options.off THEN TorrentsIn(routes)
                                  ELSE RoutesIn(routes, options)
               /\ q.route.final = final
               /\ q.dns.servers = IF options.off THEN servers ELSE WithRu(servers, options)
               /\ q.dns.rules = IF options.off THEN rules ELSE AnswersIn(rules, options)
               /\ q.address = address
<1> DEFINE q == applyRussiaDirect(p, options)
<1>1. PICK g, o, t, f, b :
         /\ p = ProfileOf(servers, rules, g, address, o, t, f, b)
         /\ HasRoute(t, routes, final)
         /\ Lists(o, "selector", "select")
         /\ Lists(o, "direct", "direct")
  BY DEF Fitting
<1>2. /\ p.dns.servers = servers /\ p.dns.rules = rules /\ p.outbounds = o /\ p.route = t
  BY <1>1, FieldsOf
<1>3. t.rules = routes /\ t.rule_set = {}
  BY <1>1 DEF HasRoute
<1>4. ~russiaDirectNotOurs(p)
  BY <1>1, <1>2, <1>3, Recognised
<1>5. ~legacyDnsReason(p)
  BY <1>2 DEF NoLegacy, legacyDnsReason
<1>6. CASE options.off
  <2>1. q = WithTorrents(p)
    BY <1>4, <1>6 DEF applyRussiaDirect
  <2>2. PICK t2 : /\ t2.rules = TorrentsIn(routes) /\ t2.final = final
                  /\ WithTorrents(p) = ProfileOf(servers, rules, g, address, o, t2, f, b)
    BY <1>1, TorrentsAre
  <2> HIDE DEF q
  <2>3. /\ q.route.rules = TorrentsIn(routes) /\ q.route.final = final
        /\ q.dns.servers = servers /\ q.dns.rules = rules /\ q.address = address
    BY <2>1, <2>2, FieldsOf
  <2> QED
    BY <1>6, <2>3 DEF q
<1>7. CASE ~options.off
  <2>1. q = WithBlock(p, options)
    BY <1>4, <1>5, <1>7 DEF applyRussiaDirect
  <2>2. PICK t2 : /\ t2.rules = RoutesIn(routes, options) /\ t2.final = final
                  /\ WithBlock(p, options)
                       = ProfileOf(WithRu(servers, options), AnswersIn(rules, options), g,
                                   address, o, t2, f, b)
    BY <1>1, BlockIs
  <2> HIDE DEF q
  <2>3. /\ q.route.rules = RoutesIn(routes, options) /\ q.route.final = final
        /\ q.dns.servers = WithRu(servers, options)
        /\ q.dns.rules = AnswersIn(rules, options) /\ q.address = address
    BY <2>1, <2>2, FieldsOf
  <2> QED
    BY <1>7, <2>3 DEF q
<1> QED
  BY <1>6, <1>7

\* Where a packet goes in the profile the daemon is given.
LEMMA RouteDecided ==
    ASSUME NEW it, Has(it, {"protocol", "network", "port"}), NEW lanBypass, NEW perApp,
           NEW udp, NEW options, NEW otherwise
    PROVE  LET rules == RulesAhead(lanBypass) \o RulesBehind(perApp, udp)
               behind == Decided(RulesBehind(perApp, udp), it, otherwise)
           IN  Decided(IF options.off THEN TorrentsIn(rules) ELSE RoutesIn(rules, options),
                       it, otherwise)
                 = IF it.protocol = "dns" THEN "hijack-dns"
                   ELSE IF \/ lanBypass /\ it.addr = "private"
                           \/ it.protocol = "bittorrent"
                           \/ /\ ~options.off
                              /\ \/ RussianFor(options, it.name)
                                 \/ /\ options.sets /\ it.addr = "ru4"
                                    /\ it.name \notin RU_VPN_EXCEPTIONS \cup options.extra
                        THEN "direct"
                   ELSE behind
<1> DEFINE before == RulesAhead(lanBypass)
           after == RulesBehind(perApp, udp)
           A == AheadSet
           B == BehindSet(perApp)
           behind == Decided(after, it, otherwise)
           rules == before \o after
<1>1. before \in Seq(A) /\ after \in Seq(B)
  BY RuleLists
<1>2. routeInsertionIndex(rules) = Len(before) + 1
  BY RouteInsertion
<1>3. \A o : Decided(before, it, o) = IF it.protocol = "dns" THEN "hijack-dns"
                                      ELSE IF lanBypass /\ it.addr = "private" THEN "direct"
                                      ELSE o
  BY AheadRoutes
<1> HIDE DEF before, after, A, B, behind
<1>4. CASE options.off
  <2> DEFINE items == <<TorrentRule>>
             I == {TorrentRule}
  <2>1. items \in Seq(I)
    <3>1. TorrentRule \in I
      OBVIOUS
    <3> HIDE DEF I
    <3> QED
      BY <3>1
  <2>2. TorrentsIn(rules) = insertAt(before \o after, Len(before) + 1, items)
    BY <1>2 DEF TorrentsIn
  <2>3. Decided(items, it, behind) = IF it.protocol = "bittorrent" THEN "direct" ELSE behind
    BY PlainRules, DecidedOne
  <2> HIDE DEF items, I
  <2>4. Decided(TorrentsIn(rules), it, otherwise)
          = Decided(before, it, Decided(items, it, behind))
    BY <1>1, <2>1, <2>2, InsertedDecide DEF behind
  <2> QED
    BY <1>3, <1>4, <2>3, <2>4 DEF before, after, behind
<1>5. CASE ~options.off
  <2> DEFINE items == RouteRules(options)
  <2>1. PICK I : items \in Seq(I)
    <3> DEFINE a == TorrentRule
               b == [all |-> {M(options), E(options)}, outbound |-> "direct"]
               c == [all |-> {[rule_set |-> {"geoip"}, addr |-> {"ru4", "ru6"}],
                              E(options), [ip_version |-> 4]}, outbound |-> "direct"]
               J == {a, b, c}
    <3>1. items = <<a, b>> \o (IF options.sets THEN <<c>> ELSE <<>>)
      BY DEF RouteRules
    <3>2. a \in J /\ b \in J /\ c \in J
      OBVIOUS
    <3> HIDE DEF a, b, c, J, items
    <3>3. <<a, b>> \in Seq(J) /\ <<c>> \in Seq(J) /\ <<>> \in Seq(J)
      BY <3>2
    <3>4. items \in Seq(J)
      BY <3>1, <3>3, ConcatProperties
    <3> QED
      BY <3>4
  <2>2. RoutesIn(rules, options) = insertAt(before \o after, Len(before) + 1, items)
    BY <1>2 DEF RoutesIn
  <2>3. Decided(items, it, behind)
          = IF \/ it.protocol = "bittorrent"
               \/ RussianFor(options, it.name)
               \/ /\ options.sets /\ it.addr = "ru4"
                  /\ it.name \notin RU_VPN_EXCEPTIONS \cup options.extra
            THEN "direct" ELSE behind
    BY BlockRoutes
  <2> HIDE DEF items
  <2>4. Decided(RoutesIn(rules, options), it, otherwise)
          = Decided(before, it, Decided(items, it, behind))
    BY <1>1, <2>1, <2>2, InsertedDecide DEF behind
  <2> QED
    BY <1>3, <1>5, <2>3, <2>4 DEF before, after, behind
<1> QED
  BY <1>4, <1>5

\* Who answers a query.
AnswerOf(it, pinned, fake, options, otherwise) ==
    IF it.name \in pinned THEN "dns-hosts"
     ELSE IF ~options.off /\ RussianFor(options, it.name)
     THEN IF it.type \in {"AAAA", "HTTPS", "SVCB"} THEN "predefined"
          ELSE IF options.fallback THEN "dns-direct" ELSE "dns-ru"
     ELSE IF fake /\ it.type \in {"HTTPS", "SVCB"} THEN "reject"
     ELSE IF fake /\ it.type \in {"A", "AAAA"} THEN "dns-fakeip"
     ELSE otherwise

\* Who answers a query, when the rules are those of the profile or its block's.
LEMMA AnswerDecided ==
    ASSUME NEW it, NEW pinned, NEW fake, NEW options, NEW otherwise, NEW answers,
           options.off => answers = PinRules(pinned) \o FakeRules(fake),
           ~options.off => answers = AnswersIn(PinRules(pinned) \o FakeRules(fake), options)
    PROVE  Decided(answers, it, otherwise)
             = AnswerOf(it, pinned, fake, options, otherwise)
<1> DEFINE before == PinRules(pinned)
           after == FakeRules(fake)
           rules == before \o after
           behind == Decided(after, it, otherwise)
<1>1. PICK S : before \in Seq(S) /\ after \in Seq(S)
  <2> DEFINE refuse == [query |-> {"HTTPS", "SVCB"}, action |-> "reject"]
             answer == [query |-> {"A", "AAAA"}, server |-> "dns-fakeip"]
             pin == PinRule(pinned)
             S == {refuse, answer, pin}
  <2>1. /\ before = IF pinned = {} THEN <<>> ELSE <<pin>>
        /\ after = IF fake THEN <<refuse, answer>> ELSE <<>>
    BY DEF PinRules, PinRule, FakeRules
  <2>2. refuse \in S /\ answer \in S /\ pin \in S
    OBVIOUS
  <2> HIDE DEF refuse, answer, pin, S, before, after
  <2>3. <<>> \in Seq(S) /\ <<pin>> \in Seq(S) /\ <<refuse, answer>> \in Seq(S)
    BY <2>2
  <2>4. before \in Seq(S) /\ after \in Seq(S)
    BY <2>1, <2>3
  <2> QED
    BY <2>4
<1>2. dnsInsertionIndex(rules) = Len(before) + 1
  BY AnswerInsertion
<1>3. \A o : Decided(before, it, o) = IF it.name \in pinned THEN "dns-hosts" ELSE o
  BY PinAnswers
<1>4. behind = IF fake /\ it.type \in {"HTTPS", "SVCB"} THEN "reject"
               ELSE IF fake /\ it.type \in {"A", "AAAA"} THEN "dns-fakeip"
               ELSE otherwise
  BY FakeAnswers
<1> HIDE DEF before, after, behind
<1>5. CASE options.off
  <2>1. answers = rules
    BY <1>5 DEF before, after
  <2>2. Decided(rules, it, otherwise) = Decided(before, it, behind)
    BY <1>1, DecidedConcat DEF behind
  <2> QED
    BY <1>3, <1>4, <1>5, <2>1, <2>2 DEF AnswerOf
<1>6. CASE ~options.off
  <2> DEFINE items == DnsRules(options)
  <2>1. PICK I : items \in Seq(I)
    <3> DEFINE a == items[1]
               b == items[2]
               J == {a, b}
    <3>1. items = <<a, b>>
      BY DEF DnsRules
    <3>2. a \in J /\ b \in J
      OBVIOUS
    <3> HIDE DEF a, b, J, items
    <3>3. items \in Seq(J)
      BY <3>1, <3>2
    <3> QED
      BY <3>3
  <2>0. answers = AnswersIn(rules, options)
    BY <1>6 DEF before, after
  <2>2. AnswersIn(rules, options) = insertAt(before \o after, Len(before) + 1, items)
    BY <1>2 DEF AnswersIn
  <2>3. Decided(items, it, behind)
          = IF ~RussianFor(options, it.name) THEN behind
            ELSE IF it.type \in {"AAAA", "HTTPS", "SVCB"} THEN "predefined"
            ELSE IF options.fallback THEN "dns-direct" ELSE "dns-ru"
    BY BlockAnswers
  <2> HIDE DEF items
  <2>4. Decided(AnswersIn(rules, options), it, otherwise)
          = Decided(before, it, Decided(items, it, behind))
    BY <1>1, <2>1, <2>2, InsertedDecide DEF behind
  <2> QED
    BY <1>3, <1>4, <1>6, <2>0, <2>3, <2>4 DEF AnswerOf
<1> QED
  BY <1>5, <1>6

-----------------------------------------------------------------------------
(* The servers of a subscription. *)

Kinds == {"none", "xray", "outline", "dynamic", "awg", "olcrtc", "trusttunnel"}

\* The outbound that is written for a server carries UDP.
Carried(proxy) ==
    \/ proxy.bridge.kind \in {"xray", "outline", "dynamic", "awg"}
    \/ proxy.bridge.kind = "none" /\ carriesUdp(proxy.outbound)

\* A server is what its entry says.
Fits(proxy, entry) ==
    /\ Has(proxy, {"type", "outbound", "bridge"})
    /\ proxy.bridge.kind \in Kinds
    /\ proxy.bridge.kind = "none" => Has(proxy.outbound, {"type"})
    /\ proxy.type = "singbox" => proxy.outbound = None
    /\ proxy.bridge.kind \notin {"none", "xray"} <=> HasOwnBridge(entry)
    /\ Carried(proxy) <=> Get(entry, "scheme", "") \notin {"olcrtc", "tt", "naive"}

\* A server the core dials fits an entry that needs no bridge.
LEMMA NativeFits ==
    ASSUME NEW outbound, NEW entry, Has(outbound, {"type"}), outbound.type # "singbox",
           ~HasOwnBridge(entry),
           carriesUdp(outbound) <=> Get(entry, "scheme", "") \notin {"olcrtc", "tt", "naive"}
    PROVE  Fits(Native(outbound), entry)
<1>1. /\ Native(outbound).bridge.kind = "none" /\ Native(outbound).outbound = outbound
      /\ Native(outbound).type = outbound.type
      /\ {"type", "outbound", "bridge"} \subseteq DOMAIN Native(outbound)
  BY DEF Native, NoBridge
<1> QED
  BY <1>1 DEF Fits, Carried, Kinds, Has

\* A server a bridge dials fits an entry that needs one.
LEMMA BridgedFits ==
    ASSUME NEW type, NEW tag, NEW kind \in Kinds, NEW given, NEW entry, kind # "none",
           kind # "xray" <=> HasOwnBridge(entry),
           kind \in {"olcrtc", "trusttunnel"}
             <=> Get(entry, "scheme", "") \in {"olcrtc", "tt", "naive"}
    PROVE  Fits(Bridged(type, tag, kind, given), entry)
<1>1. /\ Bridged(type, tag, kind, given).bridge.kind = kind
      /\ Bridged(type, tag, kind, given).outbound = None
      /\ {"type", "outbound", "bridge"} \subseteq DOMAIN Bridged(type, tag, kind, given)
  BY DEF Bridged
<1> QED
  BY <1>1 DEF Fits, Carried, Kinds, Has

\* The kinds of outbounds that carry UDP.
LEMMA OutboundCarries ==
    ASSUME NEW type, NEW tag, NEW link, NEW transport, NEW security
    PROVE  /\ Outbound(type, tag, link, transport, security).type = type
           /\ type \in {"vless", "vmess", "trojan", "shadowsocks"}
                => carriesUdp(Outbound(type, tag, link, transport, security))
           /\ type = "naive" => ~carriesUdp(Outbound(type, tag, link, transport, security))
<1> DEFINE o == Outbound(type, tag, link, transport, security)
<1>1. o.type = type /\ "network" \notin DOMAIN o /\ "udpOverTcp" \notin DOMAIN o
  BY DEF Outbound
<1> HIDE DEF o
<1>2. Get(o, "network", "both") = "both" /\ Get(o, "udpOverTcp", FALSE) = FALSE
  BY <1>1 DEF Get
<1> QED
  BY <1>1, <1>2 DEF carriesUdp, o

\* Hysteria2 carries UDP.
LEMMA HysteriaCarries ==
    ASSUME NEW tag, NEW link, NEW dialled
    PROVE  LET o == Extended(Outbound("hysteria2", tag, link, "tcp", "tls"),
                             [port |-> 0, dialled |-> dialled])
           IN  o.type = "hysteria2" /\ carriesUdp(o) /\ Has(o, {"type"})
<1> DEFINE p == Outbound("hysteria2", tag, link, "tcp", "tls")
           fields == [port |-> 0, dialled |-> dialled]
           o == Extended(p, fields)
<1>1. /\ p.type = "hysteria2" /\ "type" \in DOMAIN p /\ "network" \notin DOMAIN p
      /\ DOMAIN fields = {"port", "dialled"}
  BY DEF Outbound
<1> HIDE DEF p, fields
<1>2. o.type = "hysteria2" /\ "network" \notin DOMAIN o /\ "type" \in DOMAIN o
  BY <1>1 DEF Extended
<1> HIDE DEF o
<1>3. Get(o, "network", "both") = "both"
  BY <1>2 DEF Get
<1>4. o.type = "hysteria2" /\ carriesUdp(o) /\ Has(o, {"type"})
  BY <1>2, <1>3 DEF carriesUdp, Has
<1> QED
  BY <1>4 DEF o, p, fields

\* The outbounds the core dials fit their entries.
LEMMA NativeOutboundFits ==
    ASSUME NEW type, NEW tag, NEW link, NEW transport, NEW security, NEW entry,
           ~HasOwnBridge(entry),
           \/ /\ type \in {"vless", "vmess", "trojan", "shadowsocks"}
              /\ Get(entry, "scheme", "") \notin {"olcrtc", "tt", "naive"}
           \/ type = "naive" /\ Get(entry, "scheme", "") = "naive"
    PROVE  Fits(Native(Outbound(type, tag, link, transport, security)), entry)
<1> DEFINE o == Outbound(type, tag, link, transport, security)
           bad == Get(entry, "scheme", "") \in {"olcrtc", "tt", "naive"}
<1>1. o.type = type /\ Has(o, {"type"})
  BY DEF Outbound, Has
<1>2. type \in {"vless", "vmess", "trojan", "shadowsocks"} => carriesUdp(o)
  BY OutboundCarries
<1>3. type = "naive" => ~carriesUdp(o)
  BY OutboundCarries
<1>4. type # "singbox"
  OBVIOUS
<1>5. carriesUdp(o) <=> ~bad
  BY <1>2, <1>3
<1>6. /\ Has(o, {"type"}) /\ o.type # "singbox"
      /\ carriesUdp(o) <=> Get(entry, "scheme", "") \notin {"olcrtc", "tt", "naive"}
  BY <1>1, <1>4, <1>5
<1> HIDE DEF o, bad
<1>7. Fits(Native(o), entry)
  BY <1>6, NativeFits
<1> QED
  BY <1>7 DEF o

\* A WireGuard file fits its bridge.
LEMMA WgFits ==
    ASSUME NEW ini, parseWgIni(ini) # None, NEW entry, HasOwnBridge(entry),
           Get(entry, "scheme", "") \notin {"olcrtc", "tt", "naive"}
    PROVE  Fits(parseWgIni(ini), entry)
<1>1. parseWgIni(ini) = Bridged("wireguard", NameOf(ini), "awg", [ini |-> ini])
  BY DEF parseWgIni
<1>2. "awg" \in Kinds
  BY DEF Kinds
<1> QED
  BY <1>1, <1>2, BridgedFits

\* A link fits what parseLine makes of it.
LEMMA LineFits ==
    ASSUME NEW link, Has(link, {"scheme"}), parseLine(link) # None
    PROVE  Fits(parseLine(link), link)
<1> DEFINE scheme == link.scheme
           p == parseLine(link)
<1>1. Get(link, "scheme", "") = scheme
  BY DEF Has, Get
<1>2. HasOwnBridge(link) <=> \/ scheme \in {"olcrtc", "tt", "ssconf", "wg"}
                             \/ scheme = "ss" /\ Get(link, "prefix", FALSE)
  BY <1>1 DEF HasOwnBridge
<1>3. "xray" \in Kinds /\ "outline" \in Kinds /\ "dynamic" \in Kinds /\ "awg" \in Kinds
      /\ "olcrtc" \in Kinds /\ "trusttunnel" \in Kinds
  BY DEF Kinds
<1>0. p # None
  OBVIOUS
<1> HIDE DEF p
<1>4. CASE scheme = "vless"
  <2>0. ~HasOwnBridge(link) /\ Get(link, "scheme", "") = "vless"
    BY <1>1, <1>2, <1>4
  <2>1. p = parseVless(link)
    BY <1>4 DEF parseLine, p
  <2>2. \/ \E tag, given : p = Bridged("vless", tag, "xray", given)
        \/ (\E tag, transport, security :
              p = Native(Outbound("vless", tag, link, transport, security)))
    BY <1>0, <2>1 DEF parseVless
  <2>3. CASE \E tag, given : p = Bridged("vless", tag, "xray", given)
    <3>1. PICK tag, given : p = Bridged("vless", tag, "xray", given)
      BY <2>3
    <3>2. Fits(Bridged("vless", tag, "xray", given), link)
      BY <1>3, <2>0, BridgedFits
    <3> QED
      BY <3>1, <3>2 DEF p
  <2>4. CASE \E tag, transport, security :
               p = Native(Outbound("vless", tag, link, transport, security))
    <3>1. PICK tag, transport, security :
             p = Native(Outbound("vless", tag, link, transport, security))
      BY <2>4
    <3>2. Fits(Native(Outbound("vless", tag, link, transport, security)), link)
      BY <2>0, NativeOutboundFits
    <3> QED
      BY <3>1, <3>2 DEF p
  <2> QED
    BY <2>2, <2>3, <2>4
<1>5. CASE scheme = "vmess"
  <2>0. ~HasOwnBridge(link) /\ Get(link, "scheme", "") = "vmess"
    BY <1>1, <1>2, <1>5
  <2>1. p = parseVmess(link)
    BY <1>5 DEF parseLine, p
  <2>2. PICK tag, transport, security :
           p = Native(Outbound("vmess", tag, link, transport, security))
    BY <1>0, <2>1 DEF parseVmess
  <2>3. Fits(Native(Outbound("vmess", tag, link, transport, security)), link)
    BY <2>0, NativeOutboundFits
  <2> QED
    BY <2>2, <2>3 DEF p
<1>6. CASE scheme = "trojan"
  <2>0. ~HasOwnBridge(link) /\ Get(link, "scheme", "") = "trojan"
    BY <1>1, <1>2, <1>6
  <2>1. p = parseTrojan(link)
    BY <1>6 DEF parseLine, p
  <2>2. PICK tag, transport, security :
           p = Native(Outbound("trojan", tag, link, transport, security))
    BY <1>0, <2>1 DEF parseTrojan
  <2>3. Fits(Native(Outbound("trojan", tag, link, transport, security)), link)
    BY <2>0, NativeOutboundFits
  <2> QED
    BY <2>2, <2>3 DEF p
<1>10. CASE scheme = "naive"
  <2>0. ~HasOwnBridge(link) /\ Get(link, "scheme", "") = "naive"
    BY <1>1, <1>2, <1>10
  <2>1. p = parseNaive(link)
    BY <1>10 DEF parseLine, p
  <2>2. PICK tag, transport, security :
           p = Native(Outbound("naive", tag, link, transport, security))
    BY <1>0, <2>1 DEF parseNaive
  <2>3. Fits(Native(Outbound("naive", tag, link, transport, security)), link)
    BY <2>0, NativeOutboundFits
  <2> QED
    BY <2>2, <2>3 DEF p
<1>7. CASE scheme = "hysteria2"
  <2>0. ~HasOwnBridge(link) /\ Get(link, "scheme", "") = "hysteria2"
    BY <1>1, <1>2, <1>7
  <2>1. p = parseHysteria2(link)
    BY <1>7 DEF parseLine, p
  <2>2. PICK tag, dialled :
           p = Native(Extended(Outbound("hysteria2", tag, link, "tcp", "tls"),
                               [port |-> 0, dialled |-> dialled]))
    BY <1>0, <2>1 DEF parseHysteria2
  <2> DEFINE o == Extended(Outbound("hysteria2", tag, link, "tcp", "tls"),
                           [port |-> 0, dialled |-> dialled])
  <2>3. o.type = "hysteria2" /\ carriesUdp(o) /\ Has(o, {"type"})
    BY HysteriaCarries
  <2> HIDE DEF o
  <2>4. Fits(Native(o), link)
    BY <2>0, <2>3, NativeFits
  <2> QED
    BY <2>2, <2>4 DEF p, o
<1>8. CASE scheme = "ss"
  <2>0. Get(link, "scheme", "") = "ss"
    BY <1>1, <1>8
  <2>1. p = parseShadowsocks(link)
    BY <1>8 DEF parseLine, p
  <2>2. CASE Get(link, "prefix", FALSE)
    <3>1. PICK tag, given : p = Bridged("shadowsocks", tag, "outline", given)
      BY <1>0, <2>1, <2>2 DEF parseShadowsocks
    <3>2. HasOwnBridge(link)
      BY <1>2, <1>8, <2>2
    <3>3. Fits(Bridged("shadowsocks", tag, "outline", given), link)
      BY <1>3, <2>0, <3>2, BridgedFits
    <3> QED
      BY <3>1, <3>3 DEF p
  <2>3. CASE ~Get(link, "prefix", FALSE)
    <3>1. PICK tag, transport, security :
             p = Native(Outbound("shadowsocks", tag, link, transport, security))
      BY <1>0, <2>1, <2>3 DEF parseShadowsocks
    <3>2. ~HasOwnBridge(link)
      BY <1>2, <1>8, <2>3
    <3>3. Fits(Native(Outbound("shadowsocks", tag, link, transport, security)), link)
      BY <2>0, <3>2, NativeOutboundFits
    <3> QED
      BY <3>1, <3>3 DEF p
  <2> QED
    BY <2>2, <2>3
<1>9. CASE scheme = "ssconf"
  <2>0. HasOwnBridge(link) /\ Get(link, "scheme", "") = "ssconf"
    BY <1>1, <1>2, <1>9
  <2>1. p = parseOutlineDynamicKey(link)
    BY <1>9 DEF parseLine, p
  <2>2. PICK tag, given : p = Bridged("shadowsocks", tag, "dynamic", given)
    BY <1>0, <2>1 DEF parseOutlineDynamicKey
  <2>3. Fits(Bridged("shadowsocks", tag, "dynamic", given), link)
    BY <1>3, <2>0, BridgedFits
  <2> QED
    BY <2>2, <2>3 DEF p
<1>12. CASE scheme = "olcrtc"
  <2>0. HasOwnBridge(link) /\ Get(link, "scheme", "") = "olcrtc"
    BY <1>1, <1>2, <1>12
  <2>1. p = parseOlcrtc(link)
    BY <1>12 DEF parseLine, p
  <2>2. PICK tag, given : p = Bridged("olcrtc", tag, "olcrtc", given)
    BY <1>0, <2>1 DEF parseOlcrtc
  <2>3. Fits(Bridged("olcrtc", tag, "olcrtc", given), link)
    BY <1>3, <2>0, BridgedFits
  <2> QED
    BY <2>2, <2>3 DEF p
<1>13. CASE scheme = "tt"
  <2>0. HasOwnBridge(link) /\ Get(link, "scheme", "") = "tt"
    BY <1>1, <1>2, <1>13
  <2>1. p = parseTrustTunnel(link)
    BY <1>13 DEF parseLine, p
  <2>2. PICK tag, given : p = Bridged("trusttunnel", tag, "trusttunnel", given)
    BY <1>0, <2>1 DEF parseTrustTunnel
  <2>3. Fits(Bridged("trusttunnel", tag, "trusttunnel", given), link)
    BY <1>3, <2>0, BridgedFits
  <2> QED
    BY <2>2, <2>3 DEF p
<1>11. CASE scheme = "wg"
  <2>0. HasOwnBridge(link) /\ Get(link, "scheme", "") = "wg"
    BY <1>1, <1>2, <1>11
  <2>1. p = parseWgUri(link)
    BY <1>11 DEF parseLine, p
  <2>2. p = parseWgIni(link)
    BY <1>0, <2>1 DEF parseWgUri
  <2> QED
    BY <1>0, <2>0, <2>2, WgFits DEF p
<1>14. CASE scheme \notin {"vless", "vmess", "hysteria2", "trojan", "ss", "ssconf", "naive", "wg",
                           "olcrtc", "tt"}
  <2>1. parseLine(link) = None
    BY <1>14 DEF parseLine
  <2> QED
    BY <2>1
<1> HIDE DEF scheme
<1> QED
  BY <1>4, <1>5, <1>6, <1>7, <1>8, <1>9, <1>10, <1>11, <1>12, <1>13, <1>14 DEF p

\* An outbound of an Xray JSON fits what parseXrayOutbound makes of it.
LEMMA XrayFits ==
    ASSUME NEW outbound, Has(outbound, {"protocol"}), ~Has(outbound, {"scheme"}),
           parseXrayOutbound(outbound) # None
    PROVE  Fits(parseXrayOutbound(outbound), outbound)
<1> DEFINE p == parseXrayOutbound(outbound)
<1>0. p # None
  OBVIOUS
<1>1. ~HasOwnBridge(outbound) /\ Get(outbound, "scheme", "") = ""
  BY DEF HasOwnBridge, Has, Get
<1>2. \/ \E type, tag : p = Bridged(type, tag, "xray", outbound)
      \/ (\E type, tag, transport, security :
            /\ type \in {"vless", "vmess", "trojan", "shadowsocks"}
            /\ p = Native(Outbound(type, tag, outbound, transport, security)))
  <2>1. CASE Get(outbound, "network", "tcp") \notin SINGBOX_TRANSPORTS
    <3>1. \E tag : p = Bridged(outbound.protocol, tag, "xray", outbound)
      BY <1>0, <2>1 DEF parseXrayOutbound
    <3> QED
      BY <3>1
  <2>2. CASE Get(outbound, "network", "tcp") \in SINGBOX_TRANSPORTS
    <3>1. CASE outbound.protocol \in {"vless", "vmess", "trojan"}
      <4>1. \E tag, transport, security :
              p = Native(Outbound(outbound.protocol, tag, outbound, transport, security))
        BY <1>0, <2>2, <3>1 DEF parseXrayOutbound
      <4> QED
        BY <4>1, <3>1
    <3>2. CASE outbound.protocol \notin {"vless", "vmess", "trojan"}
      <4>1. \E tag, transport, security :
              p = Native(Outbound("shadowsocks", tag, outbound, transport, security))
        BY <1>0, <2>2, <3>2 DEF parseXrayOutbound
      <4> QED
        BY <4>1
    <3> QED
      BY <3>1, <3>2
  <2> QED
    BY <2>1, <2>2
<1> HIDE DEF p
<1>3. "xray" \in Kinds
  BY DEF Kinds
<1>4. CASE \E type, tag : p = Bridged(type, tag, "xray", outbound)
  <2>1. PICK type, tag : p = Bridged(type, tag, "xray", outbound)
    BY <1>4
  <2>2. Fits(Bridged(type, tag, "xray", outbound), outbound)
    BY <1>1, <1>3, BridgedFits
  <2> QED
    BY <2>1, <2>2 DEF p
<1>5. CASE \E type, tag, transport, security :
             /\ type \in {"vless", "vmess", "trojan", "shadowsocks"}
             /\ p = Native(Outbound(type, tag, outbound, transport, security))
  <2>1. PICK type, tag, transport, security :
           /\ type \in {"vless", "vmess", "trojan", "shadowsocks"}
           /\ p = Native(Outbound(type, tag, outbound, transport, security))
    BY <1>5
  <2>2. Fits(Native(Outbound(type, tag, outbound, transport, security)), outbound)
    BY <1>1, <2>1, NativeOutboundFits
  <2> QED
    BY <2>1, <2>2 DEF p
<1> QED
  BY <1>2, <1>4, <1>5

-----------------------------------------------------------------------------
(* The servers of a subscription are what its entries say. *)

Matched(proxies, entries) ==
    /\ Len(proxies) \in Nat
    /\ \A i \in 1 .. Len(proxies) : \E j \in 1 .. Len(entries) : Fits(proxies[i], entries[j])
    /\ \A j \in 1 .. Len(entries) : \E i \in 1 .. Len(proxies) : Fits(proxies[i], entries[j])

\* The entries at some places are those of the list at these places.
LEMMA EntriesAtHold ==
    ASSUME NEW s, NEW places, Len(s) \in Nat
    PROVE  /\ Len(EntriesAt(s, places)) \in Nat
           /\ \A k \in 1 .. Len(EntriesAt(s, places)) :
                \E i \in 1 .. Len(s) : i \in places /\ EntriesAt(s, places)[k] = s[i]
           /\ \A i \in 1 .. Len(s) : i \in places =>
                \E k \in 1 .. Len(EntriesAt(s, places)) : EntriesAt(s, places)[k] = s[i]
<1> DEFINE e == EntriesAt(s, places)
           S == {s[i] : i \in 1 .. Len(s) \cap places}
<1>1. EntriesAt(s, places) \in Seq({s[i] : i \in 1 .. Len(s) \cap places})
  BY EntriesAtFacts
<1>2. \A i \in 1 .. Len(s) \cap places :
         \E k \in 1 .. Len(EntriesAt(s, places)) : EntriesAt(s, places)[k] = s[i]
  BY EntriesAtFacts
<1>3. \A x \in S : \E i \in 1 .. Len(s) : i \in places /\ x = s[i]
  OBVIOUS
<1>4. e \in Seq(S)
  BY <1>1
<1> HIDE DEF S, e
<1>5. Len(e) \in Nat /\ \A k \in 1 .. Len(e) : e[k] \in S
  BY <1>4
<1> QED
  BY <1>2, <1>3, <1>5 DEF e

\* What could be read, of all that was served.
LEMMA ReadMatched ==
    ASSUME NEW s, NEW g, NEW read, Len(s) \in Nat, Len(g) \in Nat,
           \A i : i \in 1 .. Len(s) <=> i \in 1 .. Len(g),
           \A i \in 1 .. Len(s) : i \in read => Fits(g[i], s[i])
    PROVE  Matched(EntriesAt(g, read), EntriesAt(s, read))
<1> DEFINE p == EntriesAt(g, read)
           e == EntriesAt(s, read)
<1>1. /\ Len(p) \in Nat
      /\ \A k \in 1 .. Len(p) : \E i \in 1 .. Len(g) : i \in read /\ p[k] = g[i]
      /\ \A i \in 1 .. Len(g) : i \in read => \E k \in 1 .. Len(p) : p[k] = g[i]
  BY EntriesAtHold
<1>2. /\ \A k \in 1 .. Len(e) : \E i \in 1 .. Len(s) : i \in read /\ e[k] = s[i]
      /\ \A i \in 1 .. Len(s) : i \in read => \E k \in 1 .. Len(e) : e[k] = s[i]
  BY EntriesAtHold
<1> HIDE DEF p, e
<1>3. ASSUME NEW k \in 1 .. Len(p)
      PROVE  \E j \in 1 .. Len(e) : Fits(p[k], e[j])
  <2>1. PICK i \in 1 .. Len(g) : i \in read /\ p[k] = g[i]
    BY <1>1
  <2>2. PICK j \in 1 .. Len(e) : e[j] = s[i]
    BY <1>2, <2>1
  <2>3. Fits(g[i], s[i])
    BY <2>1
  <2> QED
    BY <2>1, <2>2, <2>3
<1>4. ASSUME NEW j \in 1 .. Len(e)
      PROVE  \E k \in 1 .. Len(p) : Fits(p[k], e[j])
  <2>1. PICK i \in 1 .. Len(s) : i \in read /\ e[j] = s[i]
    BY <1>2
  <2>2. PICK k \in 1 .. Len(p) : p[k] = g[i]
    BY <1>1, <2>1
  <2>3. Fits(g[i], s[i])
    BY <2>1
  <2> QED
    BY <2>1, <2>2, <2>3
<1>5. Matched(p, e)
  BY <1>1, <1>3, <1>4 DEF Matched
<1> QED
  BY <1>5 DEF p, e

\* The links that can be used match the servers made of them.
LEMMA LinksMatched ==
    ASSUME NEW links, LinksShape(links)
    PROVE  Matched(Parsed([i \in 1 .. Len(links) |-> parseLine(links[i])]), Usable(links))
<1> DEFINE g == [i \in 1 .. Len(links) |-> parseLine(links[i])]
           read == {i \in 1 .. Len(links) : g[i] # None}
<1>1. Len(links) \in Nat
  BY DEF LinksShape
<1>2. Len(g) = Len(links) /\ \A i \in 1 .. Len(links) : g[i] = parseLine(links[i])
  BY <1>1
<1>3. \A i \in 1 .. Len(links) : g[i] # None => Fits(g[i], links[i])
  BY <1>2, LineFits DEF LinksShape
<1>4. Parsed(g) = EntriesAt(g, read)
  BY <1>2 DEF Parsed
<1>5. Usable(links) = EntriesAt(links, read)
  BY <1>2 DEF Usable
<1> HIDE DEF g
<1>6. Matched(EntriesAt(g, read), EntriesAt(links, read))
  BY <1>1, <1>2, <1>3, ReadMatched
<1> QED
  BY <1>4, <1>5, <1>6 DEF g

\* So do the outbounds of an Xray JSON.
LEMMA OutboundsMatched ==
    ASSUME NEW json, OutboundsShape(json.outbounds)
    PROVE  Matched(parseXrayConfig(json), Dialled(json.outbounds))
<1> DEFINE outbounds == json.outbounds
           g == [i \in 1 .. Len(outbounds) |-> parseXrayOutbound(outbounds[i])]
           read == {i \in 1 .. Len(outbounds) : g[i] # None}
<1>1. Len(outbounds) \in Nat
  BY DEF OutboundsShape
<1>2. /\ Len(g) = Len(outbounds)
      /\ \A i \in 1 .. Len(outbounds) : g[i] = parseXrayOutbound(outbounds[i])
  BY <1>1
<1>3. \A i \in 1 .. Len(outbounds) : g[i] # None => Fits(g[i], outbounds[i])
  BY <1>2, XrayFits DEF OutboundsShape
<1>4. parseXrayConfig(json) = EntriesAt(g, read)
  BY <1>2 DEF parseXrayConfig, Parsed
<1>5. Dialled(outbounds) = EntriesAt(outbounds, read)
  BY <1>2 DEF Dialled
<1> HIDE DEF g, outbounds
<1>6. Matched(EntriesAt(g, read), EntriesAt(outbounds, read))
  BY <1>1, <1>2, <1>3, ReadMatched
<1> QED
  BY <1>4, <1>5, <1>6 DEF g, outbounds

\* A name says nothing of a server's kind.
LEMMA RenamedFits ==
    ASSUME NEW proxy, NEW entry, Fits(proxy, entry), NEW name
    PROVE  Fits([proxy EXCEPT !.tag = name], entry)
<1> DEFINE q == [proxy EXCEPT !.tag = name]
<1>1. Has(proxy, {"type", "outbound", "bridge"})
  BY DEF Fits
<1>2. /\ q.type = proxy.type /\ q.outbound = proxy.outbound /\ q.bridge = proxy.bridge
      /\ Has(q, {"type", "outbound", "bridge"})
  BY <1>1 DEF Has
<1> HIDE DEF q
<1>3. Fits(q, entry)
  BY <1>2 DEF Fits, Carried
<1> QED
  BY <1>3 DEF q

\* Nor does a number added to it.
LEMMA NumberedMatched ==
    ASSUME NEW proxies, NEW entries, Matched(proxies, entries), NEW description
    PROVE  Matched(Numbered(proxies, description), entries)
<1> DEFINE q == Numbered(proxies, description)
<1>1. Len(proxies) \in Nat
  BY DEF Matched
<1>2. Len(q) = Len(proxies)
  BY <1>1 DEF Numbered
<1>3. \A i \in 1 .. Len(proxies) : \E name : q[i] = [proxies[i] EXCEPT !.tag = name]
  BY DEF Numbered
<1>4. ASSUME NEW i \in 1 .. Len(proxies), NEW entry, Fits(proxies[i], entry)
      PROVE  Fits(q[i], entry)
  <2>1. PICK name : q[i] = [proxies[i] EXCEPT !.tag = name]
    BY <1>3
  <2>2. Fits([proxies[i] EXCEPT !.tag = name], entry)
    BY <1>4, RenamedFits
  <2> QED
    BY <2>1, <2>2
<1> HIDE DEF q
<1>5. Matched(q, entries)
  BY <1>1, <1>2, <1>4 DEF Matched
<1> QED
  BY <1>5 DEF q

\* One server of one entry.
LEMMA OneMatched ==
    ASSUME NEW proxy, NEW entry, Fits(proxy, entry)
    PROVE  Matched(<<proxy>>, <<entry>>)
BY DEF Matched

\* A WireGuard file, alone or in a container.
LEMMA IniFits ==
    ASSUME NEW ini, IniShape(ini), parseWgIni(ini) # None
    PROVE  Fits(parseWgIni(ini), ini)
<1>1. HasOwnBridge(ini) /\ Get(ini, "scheme", "") = ""
  BY DEF IniShape, HasOwnBridge, Has, Get
<1> QED
  BY <1>1, WgFits

\* A WireGuard file that is given a name is one still.
LEMMA NamedShape ==
    ASSUME NEW ini, IniShape(ini), NEW name
    PROVE  IniShape(Extended(ini, [name |-> name]))
<1>1. DOMAIN Extended(ini, [name |-> name]) = DOMAIN ini \cup {"name"}
  BY DEF Extended
<1> QED
  BY <1>1 DEF IniShape

\* The containers of an Amnezia bundle match the servers made of them.
LEMMA ContainersMatched ==
    ASSUME NEW source, ContainersShape(source.containers), parseAmneziaVpn(source) # <<>>
    PROVE  Matched(parseAmneziaVpn(source),
                   IF WithConfig(source.containers, "ini") # {} THEN <<AmneziaIni(source)>>
                   ELSE Dialled(AmneziaXray(source).outbounds))
<1> DEFINE containers == source.containers
           withIni == WithConfig(containers, "ini")
           ini == AmneziaIni(source)
           xray == AmneziaXray(source)
<1>1. Len(containers) \in Nat
  BY DEF ContainersShape
<1>2. withIni \subseteq 1 .. Len(containers) /\ withIni \subseteq Nat
  BY <1>1 DEF WithConfig
<1>3. CASE withIni # {}
  <2>1. FirstOf(withIni) \in withIni
    BY <1>2, <1>3, FirstOfFacts
  <2>2. IniShape(containers[FirstOf(withIni)].ini)
    BY <2>1 DEF ContainersShape, WithConfig, Has
  <2>3. IniShape(ini)
    BY <2>2, NamedShape DEF AmneziaIni
  <2>4. parseAmneziaVpn(source) = IF parseWgIni(ini) = None THEN <<>> ELSE <<parseWgIni(ini)>>
    BY <1>3 DEF parseAmneziaVpn
  <2> HIDE DEF ini, withIni, containers
  <2>5. parseWgIni(ini) # None /\ parseAmneziaVpn(source) = <<parseWgIni(ini)>>
    BY <2>4
  <2>6. Matched(<<parseWgIni(ini)>>, <<ini>>)
    BY <2>3, <2>5, IniFits, OneMatched
  <2> QED
    BY <1>3, <2>5, <2>6 DEF ini, withIni, containers
<1>4. CASE withIni = {}
  <2> DEFINE serving == {i \in WithConfig(containers, "xray") :
                            parseXrayConfig(containers[i].xray) # <<>>}
  <2>1. xray # None /\ parseAmneziaVpn(source) = Numbered(parseXrayConfig(xray), source.description)
    BY <1>4 DEF parseAmneziaVpn
  <2>2. xray = IF serving = {} THEN None ELSE containers[FirstOf(serving)].xray
    BY DEF AmneziaXray, Serving
  <2>3. serving # {} /\ serving \subseteq Nat
    BY <1>1, <2>1, <2>2 DEF WithConfig
  <2>4. FirstOf(serving) \in serving
    BY <2>3, FirstOfFacts
  <2>5. OutboundsShape(containers[FirstOf(serving)].xray.outbounds)
    BY <2>4 DEF ContainersShape, WithConfig, Has
  <2>6. xray = containers[FirstOf(serving)].xray
    BY <2>2, <2>3
  <2> HIDE DEF serving, xray, containers, withIni
  <2>7. Matched(parseXrayConfig(xray), Dialled(xray.outbounds))
    BY <2>5, <2>6, OutboundsMatched
  <2>8. Matched(parseAmneziaVpn(source), Dialled(xray.outbounds))
    BY <2>1, <2>7, NumberedMatched
  <2> QED
    BY <1>4, <2>8 DEF xray, containers, withIni
<1> QED
  BY <1>3, <1>4

\* The entries of a subscription, of any form, match the servers made of it.
LEMMA EntriesMatched ==
    ASSUME ContentShape(Source), Source.form # "singbox", parseSubscription(content) # <<>>
    PROVE  Matched(parseSubscription(content), Entries)
<1>1. CASE Source.form \in {"lines", "base64"}
  <2>1. parseSubscription(content)
           = Parsed([i \in 1 .. Len(Source.lines) |-> parseLine(Source.lines[i])])
    BY <1>1 DEF parseSubscription, Source
  <2>2. Entries = Usable(Source.lines)
    BY <1>1 DEF Entries
  <2> QED
    BY <1>1, <2>1, <2>2, LinksMatched DEF ContentShape
<1>2. CASE Source.form = "xray"
  <2>1. parseSubscription(content) = parseXrayConfig(Source)
    BY <1>2 DEF parseSubscription, Source
  <2>2. Entries = Dialled(Source.outbounds)
    BY <1>2 DEF Entries
  <2> QED
    BY <1>2, <2>1, <2>2, OutboundsMatched DEF ContentShape
<1>3. CASE Source.form = "amnezia"
  <2>1. parseSubscription(content) = parseAmneziaVpn(Source)
    BY <1>3 DEF parseSubscription, Source
  <2>2. Entries = IF WithConfig(Source.containers, "ini") # {} THEN <<AmneziaIni(Source)>>
                  ELSE Dialled(AmneziaXray(Source).outbounds)
    BY <1>3 DEF Entries
  <2> QED
    BY <1>3, <2>1, <2>2, ContainersMatched DEF ContentShape
<1>4. CASE Source.form = "ini"
  <2>1. parseSubscription(content)
           = IF parseWgIni(Source) = None THEN <<>> ELSE <<parseWgIni(Source)>>
    BY <1>4 DEF parseSubscription, Source
  <2>2. Entries = <<Source>>
    BY <1>4 DEF Entries
  <2>3. Fits(parseWgIni(Source), Source)
    BY <1>4, <2>1, IniFits DEF ContentShape
  <2> QED
    BY <2>1, <2>2, <2>3, OneMatched
<1>5. CASE Source.form \notin {"lines", "base64", "xray", "amnezia", "ini"}
  <2>1. parseSubscription(content) = <<>>
    BY <1>5 DEF parseSubscription, Source
  <2> QED
    BY <2>1
<1> QED
  BY <1>1, <1>2, <1>3, <1>4, <1>5

-----------------------------------------------------------------------------
(* The profile of the servers. *)

\* FakeDNS is for profiles in which a server needs no bridge of its own.
LEMMA BridgedAlike ==
    ASSUME NEW proxies, NEW entries, Matched(proxies, entries)
    PROVE  allTcpBridged(proxies) <=> \A j \in 1 .. Len(entries) : HasOwnBridge(entries[j])
<1>1. \A i \in 1 .. Len(proxies), j \in 1 .. Len(entries) :
         Fits(proxies[i], entries[j])
           => (proxies[i].bridge.kind \notin {"none", "xray"} <=> HasOwnBridge(entries[j]))
  BY DEF Fits
<1> QED
  BY <1>1 DEF allTcpBridged, Matched

\* UDP is carried where one of the servers carries it.
LEMMA CarriedAlike ==
    ASSUME NEW proxies, NEW entries, Matched(proxies, entries)
    PROVE  (\E i \in 1 .. Len(proxies) : Carried(proxies[i]))
             <=> ~\A j \in 1 .. Len(entries) :
                    Get(entries[j], "scheme", "") \in {"olcrtc", "tt", "naive"}
<1>1. \A i \in 1 .. Len(proxies), j \in 1 .. Len(entries) :
         Fits(proxies[i], entries[j])
           => (Carried(proxies[i])
                 <=> Get(entries[j], "scheme", "") \notin {"olcrtc", "tt", "naive"})
  BY DEF Fits
<1> QED
  BY <1>1 DEF Matched

\* Tags that are taken are changed, and nothing else of an outbound is.
LEMMA Deduped ==
    ASSUME NEW outbounds
    PROVE  \E tags : dedupeTags(outbounds) = Renamed(outbounds, tags)
BY Zenon DEF dedupeTags

\* A tag says nothing of the UDP that is carried.
LEMMA RenamedCarries ==
    ASSUME NEW outbound, Has(outbound, {"type"}), NEW tag
    PROVE  carriesUdp([outbound EXCEPT !.tag = tag]) <=> carriesUdp(outbound)
<1> DEFINE o == [outbound EXCEPT !.tag = tag]
<1>1. o.type = outbound.type
  BY DEF Has
<1>2. Get(o, "network", "both") = Get(outbound, "network", "both")
  BY DEF Get
<1>3. Get(o, "udpOverTcp", FALSE) = Get(outbound, "udpOverTcp", FALSE)
  BY DEF Get
<1> HIDE DEF o
<1>4. carriesUdp(o) <=> carriesUdp(outbound)
  BY <1>1, <1>2, <1>3, Zenon DEF carriesUdp
<1> QED
  BY <1>4 DEF o

\* The outbound to a bridge carries UDP where the bridge does.
LEMMA BridgeCarries ==
    ASSUME NEW proxies, NEW i, NEW uuid, proxies[i].bridge.kind \in Kinds,
           proxies[i].bridge.kind # "none"
    PROVE  /\ Has(ToBridge(proxies, i, uuid), {"type"})
           /\ carriesUdp(ToBridge(proxies, i, uuid))
                <=> proxies[i].bridge.kind \in {"xray", "outline", "dynamic", "awg"}
<1> DEFINE kind == proxies[i].bridge.kind
           o == ToBridge(proxies, i, uuid)
<1>1. CASE kind = "xray"
  <2>1. o = xrayBridgeOutbound(proxies[i].tag, PortFor(proxies, i), uuid)
    BY <1>1 DEF ToBridge
  <2>2. o.type = "vless" /\ "type" \in DOMAIN o /\ "network" \notin DOMAIN o
    BY <2>1 DEF xrayBridgeOutbound
  <2> HIDE DEF o
  <2>3. Get(o, "network", "both") = "both"
    BY <2>2 DEF Get
  <2>4. Has(o, {"type"}) /\ carriesUdp(o)
    BY <2>2, <2>3 DEF carriesUdp, Has
  <2> QED
    BY <1>1, <2>4 DEF o
<1>2. ASSUME NEW udpOverTcp \in BOOLEAN,
             o = socksLoopback(proxies[i].tag, PortFor(proxies, i), udpOverTcp)
      PROVE  Has(o, {"type"}) /\ (carriesUdp(o) <=> udpOverTcp)
  <2>1. /\ o.type = "socks" /\ {"type", "network"} \subseteq DOMAIN o
        /\ o.network = IF udpOverTcp THEN "both" ELSE "tcp"
    BY <1>2 DEF socksLoopback
  <2> HIDE DEF o
  <2>2. Get(o, "network", "both") = o.network
    BY <2>1 DEF Get
  <2> QED
    BY <2>1, <2>2 DEF carriesUdp, Has
<1>3. CASE kind \in {"outline", "dynamic", "awg"}
  <2>1. o = socksLoopback(proxies[i].tag, PortFor(proxies, i), TRUE)
    BY <1>3 DEF ToBridge
  <2> HIDE DEF o
  <2>2. Has(o, {"type"}) /\ (carriesUdp(o) <=> TRUE)
    BY <1>2, <2>1
  <2> QED
    BY <1>3, <2>2 DEF o
<1>4. CASE kind \notin {"xray", "outline", "dynamic", "awg"}
  <2>1. o = socksLoopback(proxies[i].tag, PortFor(proxies, i), FALSE)
    BY <1>4 DEF ToBridge
  <2> HIDE DEF o
  <2>2. Has(o, {"type"}) /\ (carriesUdp(o) <=> FALSE)
    BY <1>2, <2>1
  <2> QED
    BY <1>4, <2>2 DEF o
<1> QED
  BY <1>1, <1>3, <1>4

\* The outbounds of the servers carry UDP where the servers do.
LEMMA ServersCarry ==
    ASSUME NEW proxies, NEW entries, Matched(proxies, entries), NEW uuid
    PROVE  /\ Len(Servers(proxies, uuid)) = Len(proxies)
           /\ Servers(proxies, uuid)
                = [i \in 1 .. Len(proxies) |-> Servers(proxies, uuid)[i]]
           /\ \A i \in 1 .. Len(proxies) :
                 carriesUdp(Servers(proxies, uuid)[i]) <=> Carried(proxies[i])
<1> DEFINE written == [i \in 1 .. Len(proxies) |->
                         IF reachesBridge(proxies[i]) THEN ToBridge(proxies, i, uuid)
                         ELSE proxies[i].outbound]
           s == Servers(proxies, uuid)
<1>1. Len(proxies) \in Nat
  BY DEF Matched
<1>2. Len(written) = Len(proxies)
  BY <1>1
<1>3. s = dedupeTags(written)
  BY DEF Servers
<1>4. ASSUME NEW i \in 1 .. Len(proxies)
      PROVE  Has(written[i], {"type"}) /\ (carriesUdp(written[i]) <=> Carried(proxies[i]))
  <2>1. PICK entry : Fits(proxies[i], entry)
    BY DEF Matched
  <2>2. CASE proxies[i].bridge.kind = "none"
    <3>1. written[i] = proxies[i].outbound
      BY <2>2 DEF reachesBridge
    <3> QED
      BY <2>1, <2>2, <3>1 DEF Fits, Carried
  <2>3. CASE proxies[i].bridge.kind # "none"
    <3>1. written[i] = ToBridge(proxies, i, uuid)
      BY <2>3 DEF reachesBridge
    <3>2. proxies[i].bridge.kind \in Kinds
      BY <2>1 DEF Fits
    <3>3. /\ Has(ToBridge(proxies, i, uuid), {"type"})
          /\ carriesUdp(ToBridge(proxies, i, uuid))
               <=> proxies[i].bridge.kind \in {"xray", "outline", "dynamic", "awg"}
      BY <2>3, <3>2, BridgeCarries
    <3> HIDE DEF written
    <3> QED
      BY <2>3, <3>1, <3>3 DEF Carried
  <2> QED
    BY <2>2, <2>3
<1> HIDE DEF written, s
<1>5. /\ Len(s) = Len(proxies)
      /\ s = [i \in 1 .. Len(proxies) |-> s[i]]
      /\ \A i \in 1 .. Len(proxies) : \E tag : s[i] = [written[i] EXCEPT !.tag = tag]
  <2>1. PICK t : s = Renamed(written, t)
    BY <1>3, Deduped
  <2>2. s = [i \in 1 .. Len(written) |-> [written[i] EXCEPT !.tag = t[i]]]
    BY <2>1 DEF Renamed
  <2>3. Len(s) = Len(proxies)
    BY <1>1, <1>2, <2>2
  <2>4. \A i \in 1 .. Len(proxies) : s[i] = [written[i] EXCEPT !.tag = t[i]]
    BY <1>2, <2>2
  <2>5. s = [i \in 1 .. Len(proxies) |-> s[i]]
    BY <1>2, <2>2
  <2> QED
    BY <2>3, <2>4, <2>5
<1>6. ASSUME NEW i \in 1 .. Len(proxies)
      PROVE  carriesUdp(s[i]) <=> Carried(proxies[i])
  <2>1. PICK tag : s[i] = [written[i] EXCEPT !.tag = tag]
    BY <1>5
  <2>2. carriesUdp([written[i] EXCEPT !.tag = tag]) <=> carriesUdp(written[i])
    BY <1>4, RenamedCarries
  <2> QED
    BY <1>4, <2>1, <2>2
<1> QED
  BY <1>5, <1>6 DEF s

\* The groups and the direct outbound are there, after whatever servers.
LEMMA OutboundsListed ==
    ASSUME NEW servers, Len(servers) \in Nat,
           NEW S, servers \in Seq(S)
    PROVE  /\ Lists(buildOutbounds(servers), "selector", "select")
           /\ Lists(buildOutbounds(servers), "direct", "direct")
<1> DEFINE tags == [i \in 1 .. Len(servers) |-> servers[i].tag]
           a == [type |-> "urltest", tag |-> "auto", outbounds |-> tags]
           b == [type |-> "selector", tag |-> "select", outbounds |-> <<"auto">> \o tags]
           d == [type |-> "direct", tag |-> "direct"]
           o == buildOutbounds(servers)
           T == S \cup {a, b, d}
<1>1. o = (<<a, b>> \o servers) \o <<d>>
  BY DEF buildOutbounds
<1>2. /\ {"type", "tag"} \subseteq DOMAIN b /\ b.type = "selector" /\ b.tag = "select"
      /\ {"type", "tag"} \subseteq DOMAIN d /\ d.type = "direct" /\ d.tag = "direct"
  OBVIOUS
<1>3. S \subseteq T /\ a \in T /\ b \in T /\ d \in T
  OBVIOUS
<1> HIDE DEF T, a, b, d, o
<1>4. <<a, b>> \in Seq(T) /\ servers \in Seq(T) /\ <<d>> \in Seq(T)
  BY <1>3
<1>5. /\ Len(o) = Len(servers) + 3
      /\ o[2] = b
      /\ o[Len(servers) + 3] = d
  BY <1>1, <1>4
<1>6. Len(o) \in Nat /\ 2 \in 1 .. Len(o) /\ Len(servers) + 3 \in 1 .. Len(o)
  BY <1>5
<1>7. Lists(o, "selector", "select") /\ Lists(o, "direct", "direct")
  BY <1>2, <1>5, <1>6 DEF Lists
<1> QED
  BY <1>7 DEF o

\* Servers made of entries are not a profile that is passed through.
LEMMA NotPassedThrough ==
    ASSUME NEW proxies, NEW entries, Matched(proxies, entries), NEW wanted, NEW dns, NEW uuid,
           generateConfig(proxies, wanted, dns, uuid) # None
    PROVE  ~IsPassthrough(proxies)
<1> SUFFICES ASSUME IsPassthrough(proxies) PROVE FALSE
  OBVIOUS
<1>1. generateConfig(proxies, wanted, dns, uuid) = proxies[1].outbound
  BY DEF generateConfig
<1>2. 1 \in 1 .. Len(proxies) /\ proxies[1].type = "singbox"
  BY DEF IsPassthrough
<1>3. PICK entry : Fits(proxies[1], entry)
  BY <1>2 DEF Matched
<1> QED
  BY <1>1, <1>2, <1>3 DEF Fits

\* A profile with these fields fits.
LEMMA FittingBy ==
    ASSUME NEW s, NEW r, NEW g, NEW a, NEW o, NEW t, NEW f, NEW b, NEW routes, NEW final,
           HasRoute(t, routes, final),
           Lists(o, "selector", "select"), Lists(o, "direct", "direct")
    PROVE  Fitting(ProfileOf(s, r, g, a, o, t, f, b), s, r, a, routes, final)
BY Zenon DEF Fitting

FinalOf(perApp) == IF PerAppMode(perApp) = "include" THEN "direct" ELSE "select"

\* A profile as it is written, whatever its resolvers were found to be then.
AsWritten(p, fake, routes, final) ==
    \E host, address :
       Fitting(p, Resolvers(RemoteServer(host), DirectServer("udp", address), fake, TRUE, {}),
               PinRules({}) \o FakeRules(fake), {"v4", "v6"}, routes, final)

\* Without pinned names, the rules are those of FakeDNS.
LEMMA NoPins ==
    ASSUME NEW fake
    PROVE  PinRules({}) \o FakeRules(fake) = FakeRules(fake)
<1>1. PinRules({}) = <<>>
  BY DEF PinRules
<1> DEFINE a == [query |-> {"HTTPS", "SVCB"}, action |-> "reject"]
           b == [query |-> {"A", "AAAA"}, server |-> "dns-fakeip"]
           S == {a, b}
<1>2. FakeRules(fake) = IF fake THEN <<a, b>> ELSE <<>>
  BY DEF FakeRules
<1>3. a \in S /\ b \in S
  OBVIOUS
<1> HIDE DEF S, a, b
<1>4. FakeRules(fake) \in Seq(S)
  BY <1>2, <1>3
<1> QED
  BY <1>1, <1>4

\* The same, where the two are equivalent.
LEMMA RulesAlike ==
    ASSUME NEW perApp, NEW a, NEW b, a <=> b
    PROVE  RulesBehind(perApp, a) = RulesBehind(perApp, b)
<1>1. RulesOfUdp(a) = RulesOfUdp(b)
  BY DEF RulesOfUdp
<1> QED
  BY <1>1 DEF RulesBehind

\* The route of a profile is that of its servers and settings.
LEMMA RouteMade ==
    ASSUME NEW servers, NEW lanBypass, NEW perApp, NEW udp,
           udp <=> \E i \in 1 .. Len(servers) : carriesUdp(servers[i])
    PROVE  HasRoute(buildRoute(servers, lanBypass, perApp),
                    RulesAhead(lanBypass) \o RulesBehind(perApp, udp), FinalOf(perApp))
<1> DEFINE carried == \E i \in 1 .. Len(servers) : carriesUdp(servers[i])
           t == buildRoute(servers, lanBypass, perApp)
<1>1. /\ t.rules = RulesAhead(lanBypass) \o RulesBehind(perApp, carried)
      /\ t.rule_set = {}
      /\ t.final = IF PerAppMode(perApp) = "include" THEN "direct" ELSE "select"
  BY RouteIs
<1>2. {"rules", "final", "rule_set"} \subseteq DOMAIN t
  BY DEF buildRoute
<1> HIDE DEF carried
<1>3. RulesBehind(perApp, carried) = RulesBehind(perApp, udp)
  BY RulesAlike DEF carried
<1> HIDE DEF t
<1>4. HasRoute(t, RulesAhead(lanBypass) \o RulesBehind(perApp, udp), FinalOf(perApp))
  BY <1>1, <1>2, <1>3 DEF HasRoute, FinalOf
<1> QED
  BY <1>4 DEF t

\* The profile is written as its entries and the settings ask for.
LEMMA GeneratedIs ==
    ASSUME NEW proxies, NEW entries, Matched(proxies, entries), NEW wanted, NEW dns, NEW uuid,
           NEW fake, NEW udp,
           fake <=> wanted.fakeDns /\ \E j \in 1 .. Len(entries) : ~HasOwnBridge(entries[j]),
           udp <=> ~\A j \in 1 .. Len(entries) :
                      Get(entries[j], "scheme", "") \in {"olcrtc", "tt", "naive"},
           generateConfig(proxies, wanted, dns, uuid) # None
    PROVE  AsWritten(generateConfig(proxies, wanted, dns, uuid), fake,
                     RulesAhead(wanted.lanBypass) \o RulesBehind(wanted.perApp, udp),
                     FinalOf(wanted.perApp))
<1> DEFINE servers == Servers(proxies, uuid)
           made == wanted.fakeDns /\ ~allTcpBridged(proxies)
           d == buildDns(proxies, made, dns)
           o == buildOutbounds(servers)
           t == buildRoute(servers, wanted.lanBypass, wanted.perApp)
           b == Bridges(proxies, uuid)
           carried == \E i \in 1 .. Len(servers) : carriesUdp(servers[i])
           S == {servers[i] : i \in 1 .. Len(proxies)}
           remote == RemoteServer(dns.remote)
           direct == DirectServer("udp", dns.direct)
           p == generateConfig(proxies, wanted, dns, uuid)
           final == FinalOf(wanted.perApp)
           routes == RulesAhead(wanted.lanBypass) \o RulesBehind(wanted.perApp, udp)
<1>1. ~IsPassthrough(proxies)
  BY NotPassedThrough
<1>2. p = [dns |-> d, address |-> {"v4", "v6"}, outbounds |-> o, route |-> t,
           store_fakeip |-> made, bridges |-> b]
  BY <1>1 DEF generateConfig
<1>3. made <=> fake
  BY BridgedAlike
<1>4. /\ Len(servers) = Len(proxies)
      /\ servers = [i \in 1 .. Len(proxies) |-> servers[i]]
      /\ \A i \in 1 .. Len(proxies) : carriesUdp(servers[i]) <=> Carried(proxies[i])
  BY ServersCarry
<1>5. carried <=> udp
  BY <1>4, CarriedAlike
<1>6. Len(proxies) \in Nat
  BY DEF Matched
<1>7. \A i \in 1 .. Len(proxies) : servers[i] \in S
  OBVIOUS
<1> HIDE DEF S, servers
<1>8. servers \in Seq(S)
  <2>1. [i \in 1 .. Len(proxies) |-> servers[i]] \in [1 .. Len(proxies) -> S]
    BY <1>7
  <2>2. [i \in 1 .. Len(proxies) |-> servers[i]] \in Seq(S)
    BY <1>6, <2>1, SeqDef
  <2> QED
    BY <1>4, <2>2
<1>9. Lists(o, "selector", "select") /\ Lists(o, "direct", "direct")
  BY <1>4, <1>6, <1>8, OutboundsListed
<1>10. HasRoute(t, routes, final)
  BY <1>5, RouteMade
<1> HIDE DEF made
<1>14. /\ d.servers = Resolvers(remote, direct, made, TRUE, {})
       /\ d.rules = FakeRules(made)
       /\ \E strategy : d = [servers |-> d.servers, rules |-> d.rules, strategy |-> strategy]
  BY ResolversGenerated
<1>15. /\ Resolvers(remote, direct, made, TRUE, {}) = Resolvers(remote, direct, fake, TRUE, {})
       /\ FakeRules(made) = FakeRules(fake)
  BY <1>3, Zenon DEF Resolvers, FakeRules
<1>16. PICK strategy : d = [servers |-> d.servers, rules |-> d.rules, strategy |-> strategy]
  BY <1>14
<1> DEFINE rules == PinRules({}) \o FakeRules(fake)
<1>21. rules = FakeRules(fake)
  BY NoPins
<1> HIDE DEF rules, d, o, t, b, final, routes, remote, direct, p
<1>17. p = ProfileOf(Resolvers(remote, direct, fake, TRUE, {}), FakeRules(fake), strategy,
                     {"v4", "v6"}, o, t, made, b)
  BY <1>2, <1>14, <1>15, <1>16 DEF ProfileOf
<1>18. Fitting(p, Resolvers(remote, direct, fake, TRUE, {}), FakeRules(fake), {"v4", "v6"},
               routes, final)
  BY <1>9, <1>10, <1>17, FittingBy
<1>19. Fitting(p, Resolvers(RemoteServer(dns.remote), DirectServer("udp", dns.direct), fake,
                            TRUE, {}),
               rules, {"v4", "v6"}, routes, final)
  BY <1>18, <1>21 DEF remote, direct
<1>20. AsWritten(p, fake, routes, final)
  BY <1>19, Zenon DEF AsWritten, rules
<1> QED
  BY <1>20 DEF p, routes, final

-----------------------------------------------------------------------------
(* What each step of a start makes of a profile. *)

\* A key that is resolved changes no resolver and no rule.
LEMMA FittingResolved ==
    ASSUME NEW p, NEW s, NEW r, NEW a, NEW routes, NEW final,
           Fitting(p, s, r, a, routes, final), NEW answers
    PROVE  Fitting(resolveDynamicOutlineKeys(p, answers), s, r, a, routes, final)
<1>1. PICK g, o, t, f, b :
         /\ p = ProfileOf(s, r, g, a, o, t, f, b)
         /\ HasRoute(t, routes, final)
         /\ Lists(o, "selector", "select")
         /\ Lists(o, "direct", "direct")
  BY DEF Fitting
<1>2. PICK b2 : resolveDynamicOutlineKeys(ProfileOf(s, r, g, a, o, t, f, b), answers)
                  = ProfileOf(s, r, g, a, o, t, f, b2)
  BY ResolvedIs
<1>3. Fitting(ProfileOf(s, r, g, a, o, t, f, b2), s, r, a, routes, final)
  BY <1>1, FittingBy
<1> QED
  BY <1>1, <1>2, <1>3

\* The probed resolvers are in the profile.
LEMMA FittingProbed ==
    ASSUME NEW p, NEW host, NEW address, NEW fake, NEW r, NEW a, NEW routes, NEW final,
           Fitting(p, Resolvers(RemoteServer(host), DirectServer("udp", address), fake, TRUE, {}),
                   r, a, routes, final),
           NEW result
    PROVE  Fitting(injectProbedDns(p, result),
                   Resolvers(RemoteServer(result.doh), DirectVia(result), fake, TRUE, {}),
                   r, a, routes, final)
<1> DEFINE s == Resolvers(RemoteServer(host), DirectServer("udp", address), fake, TRUE, {})
           s2 == Resolvers(RemoteServer(result.doh), DirectVia(result), fake, TRUE, {})
<1>1. PICK g, o, t, f, b :
         /\ p = ProfileOf(s, r, g, a, o, t, f, b)
         /\ HasRoute(t, routes, final)
         /\ Lists(o, "selector", "select")
         /\ Lists(o, "direct", "direct")
  BY DEF Fitting
<1>2. ProbedAll(s, result) = s2
  <2> DEFINE yes == TRUE
  <2> HIDE DEF yes
  <2>1. ProbedAll(Resolvers(RemoteServer(host), DirectServer("udp", address), fake, yes, {}),
                  result)
          = Resolvers(RemoteServer(result.doh), DirectVia(result), fake, yes, {})
    BY ResolversProbed
  <2> QED
    BY <2>1 DEF yes
<1> HIDE DEF s, s2
<1>3. injectProbedDns(ProfileOf(s, r, g, a, o, t, f, b), result)
        = ProfileOf(ProbedAll(s, result), r, g, a, o, t, f, b)
  BY ProbedIs
<1>4. Fitting(ProfileOf(s2, r, g, a, o, t, f, b), s2, r, a, routes, final)
  BY <1>1, FittingBy
<1>5. Fitting(injectProbedDns(p, result), s2, r, a, routes, final)
  BY <1>1, <1>2, <1>3, <1>4
<1> QED
  BY <1>5 DEF s2

\* The rule of the servers' own names is the first.
LEMMA PinFirst ==
    ASSUME NEW fake, NEW pinned, pinned # {}
    PROVE  WithPin(PinRules({}) \o FakeRules(fake), pinned) = PinRules(pinned) \o FakeRules(fake)
<1>1. PinRules({}) \o FakeRules(fake) = FakeRules(fake)
  BY NoPins
<1>2. PinRules(pinned) = <<PinRule(pinned)>>
  BY DEF PinRules, PinRule
<1> QED
  BY <1>1, <1>2 DEF WithPin

\* The servers' own names are pinned in the profile.
LEMMA FittingPinned ==
    ASSUME NEW p, NEW remote, NEW direct, NEW fake, NEW a, NEW routes, NEW final,
           Fitting(p, Resolvers(remote, direct, fake, TRUE, {}), PinRules({}) \o FakeRules(fake),
                   a, routes, final),
           NEW pinned
    PROVE  Fitting(injectResolvedHosts(p, pinned), Resolvers(remote, direct, fake, TRUE, pinned),
                   PinRules(pinned) \o FakeRules(fake), a, routes, final)
<1> DEFINE s == Resolvers(remote, direct, fake, TRUE, {})
           s2 == Resolvers(remote, direct, fake, TRUE, pinned)
           r == PinRules({}) \o FakeRules(fake)
           r2 == PinRules(pinned) \o FakeRules(fake)
           q == injectResolvedHosts(p, pinned)
<1>1. PICK g, o, t, f, b :
         /\ p = ProfileOf(s, r, g, a, o, t, f, b)
         /\ HasRoute(t, routes, final)
         /\ Lists(o, "selector", "select")
         /\ Lists(o, "direct", "direct")
  BY DEF Fitting
<1>2. pinned # {} => Append(s, HostsServer) = s2 /\ WithPin(r, pinned) = r2
  BY ResolversPinned, PinFirst
<1>3. pinned = {} => s2 = s /\ r2 = r
  OBVIOUS
<1> HIDE DEF s, s2, r, r2
<1>4. injectResolvedHosts(ProfileOf(s, r, g, a, o, t, f, b), pinned)
        = IF pinned = {} THEN ProfileOf(s, r, g, a, o, t, f, b)
          ELSE ProfileOf(Append(s, HostsServer), WithPin(r, pinned), g, a,
                         PinnedOf(o, pinned), t, f, b)
  BY PinnedIs
<1>5. CASE pinned = {}
  <2>1. q = ProfileOf(s2, r2, g, a, o, t, f, b)
    BY <1>1, <1>3, <1>4, <1>5
  <2> HIDE DEF q
  <2>2. Fitting(q, s2, r2, a, routes, final)
    BY <1>1, <2>1, FittingBy
  <2> QED
    BY <2>2 DEF q, s2, r2
<1>6. CASE pinned # {}
  <2>1. q = ProfileOf(s2, r2, g, a, PinnedOf(o, pinned), t, f, b)
    BY <1>1, <1>2, <1>4, <1>6
  <2> HIDE DEF q
  <2>2. /\ Lists(PinnedOf(o, pinned), "selector", "select")
        /\ Lists(PinnedOf(o, pinned), "direct", "direct")
    BY <1>1, ListsPinned
  <2>3. Fitting(q, s2, r2, a, routes, final)
    BY <1>1, <2>1, <2>2, FittingBy
  <2> QED
    BY <2>3 DEF q, s2, r2
<1> QED
  BY <1>5, <1>6

\* FakeDNS is out of the profile.
LEMMA StrippedFits ==
    ASSUME NEW p, NEW s, NEW r, NEW a, NEW routes, NEW final,
           Fitting(p, s, r, a, routes, final)
    PROVE  Fitting(stripFakeDns(p), RealServers(s), RealRules(r), a, routes, final)
<1>1. PICK g, o, t, f, b :
         /\ p = ProfileOf(s, r, g, a, o, t, f, b)
         /\ HasRoute(t, routes, final)
         /\ Lists(o, "selector", "select")
         /\ Lists(o, "direct", "direct")
  BY DEF Fitting
<1>0. PICK f2 \in BOOLEAN : ~f2
  OBVIOUS
<1>2. stripFakeDns(ProfileOf(s, r, g, a, o, t, f, b))
        = ProfileOf(RealServers(s), RealRules(r), g, a, o, t, f2, b)
  BY <1>0, StrippedIs
<1>3. Fitting(ProfileOf(RealServers(s), RealRules(r), g, a, o, t, f2, b), RealServers(s),
              RealRules(r), a, routes, final)
  BY <1>1, FittingBy
<1> QED
  BY <1>1, <1>2, <1>3

\* What is left are the resolvers and rules of a profile without FakeDNS.
LEMMA FittingStripped ==
    ASSUME NEW p, NEW remote, NEW direct, NEW fake, NEW pinned, NEW a, NEW routes, NEW final,
           remote.tag # "dns-fakeip", direct.tag # "dns-fakeip",
           Fitting(p, Resolvers(remote, direct, fake, TRUE, pinned),
                   PinRules(pinned) \o FakeRules(fake), a, routes, final)
    PROVE  Fitting(stripFakeDns(p), Resolvers(remote, direct, FALSE, TRUE, pinned),
                   PinRules(pinned) \o FakeRules(FALSE), a, routes, final)
<1> DEFINE s == Resolvers(remote, direct, fake, TRUE, pinned)
           s2 == Resolvers(remote, direct, FALSE, TRUE, pinned)
           r == PinRules(pinned) \o FakeRules(fake)
           r2 == PinRules(pinned) \o FakeRules(FALSE)
<1>1. RealServers(s) = s2
  BY ResolversStripped
<1>2. RealRules(r) = r2
  BY RulesStripped
<1>3. Fitting(p, s, r, a, routes, final)
  OBVIOUS
<1> HIDE DEF s, s2, r, r2
<1>4. Fitting(stripFakeDns(p), s2, r2, a, routes, final)
  BY <1>1, <1>2, <1>3, StrippedFits
<1> QED
  BY <1>4 DEF s2, r2

\* The profile has the addresses of the machine.
LEMMA FittingV6 ==
    ASSUME NEW p, NEW remote, NEW direct, NEW fake, NEW pinned, NEW r, NEW routes, NEW final,
           ~Has(remote, {"v6"}), ~Has(direct, {"v6"}),
           Fitting(p, Resolvers(remote, direct, fake, TRUE, pinned), r, {"v4", "v6"}, routes,
                   final),
           NEW ipv6 \in BOOLEAN
    PROVE  Fitting(applyIPv6Support(p, ipv6), Resolvers(remote, direct, fake, ipv6, pinned), r,
                   IF ipv6 THEN {"v4", "v6"} ELSE {"v4"}, routes, final)
<1> DEFINE s == Resolvers(remote, direct, fake, TRUE, pinned)
           s2 == Resolvers(remote, direct, fake, FALSE, pinned)
           both == {"v4", "v6"}
           one == {"v4"}
<1>1. PICK g, o, t, f, b :
         /\ p = ProfileOf(s, r, g, both, o, t, f, b)
         /\ HasRoute(t, routes, final)
         /\ Lists(o, "selector", "select")
         /\ Lists(o, "direct", "direct")
  BY DEF Fitting
<1>2. WithoutV6(s) = s2
  BY ResolversWithoutV6
<1>3. applyIPv6Support(ProfileOf(s, r, g, both, o, t, f, b), ipv6)
        = IF ipv6 THEN ProfileOf(s, r, g, both, o, t, f, b)
          ELSE ProfileOf(WithoutV6(s), r, g, one, o, t, f, b)
  <2> HIDE DEF s
  <2> QED
    BY FittedIs
<1>4. CASE ipv6 = TRUE
  <2>1. applyIPv6Support(p, TRUE) = p
    BY DEF applyIPv6Support
  <2> QED
    BY <1>4, <2>1
<1>5. CASE ipv6 = FALSE
  <2> DEFINE q == applyIPv6Support(p, ipv6)
  <2> HIDE DEF s, s2, one, both
  <2>1. q = ProfileOf(s2, r, g, one, o, t, f, b)
    BY <1>1, <1>2, <1>3, <1>5
  <2> HIDE DEF q
  <2>2. Fitting(q, s2, r, one, routes, final)
    BY <1>1, <2>1, FittingBy
  <2> QED
    BY <1>5, <2>2 DEF q, s2, one
<1> QED
  BY <1>4, <1>5

\* Credentials change no resolver and no rule.
LEMMA FittingArmed ==
    ASSUME NEW p, NEW s, NEW r, NEW a, NEW routes, NEW final,
           Fitting(p, s, r, a, routes, final)
    PROVE  Fitting(applyBridgeAuth(p), s, r, a, routes, final)
<1>1. PICK g, o, t, f, b :
         /\ p = ProfileOf(s, r, g, a, o, t, f, b)
         /\ HasRoute(t, routes, final)
         /\ Lists(o, "selector", "select")
         /\ Lists(o, "direct", "direct")
  BY DEF Fitting
<1>2. PICK b2, ports : applyBridgeAuth(ProfileOf(s, r, g, a, o, t, f, b))
                         = ProfileOf(s, r, g, a, ArmedOf(o, ports), t, f, b2)
  BY ArmedIs
<1>3. Lists(ArmedOf(o, ports), "selector", "select") /\ Lists(ArmedOf(o, ports), "direct", "direct")
  BY <1>1, ListsArmed
<1>4. Fitting(ProfileOf(s, r, g, a, ArmedOf(o, ports), t, f, b2), s, r, a, routes, final)
  BY <1>1, <1>3, FittingBy
<1> QED
  BY <1>1, <1>2, <1>4

\* The same, for resolvers and rules.
LEMMA FakeAlike ==
    ASSUME NEW a, NEW b, a <=> b, NEW remote, NEW direct, NEW v6, NEW pinned
    PROVE  /\ Resolvers(remote, direct, a, v6, pinned) = Resolvers(remote, direct, b, v6, pinned)
           /\ FakeRules(a) = FakeRules(b)
<1>1. CASE a /\ b
  BY <1>1 DEF Resolvers, FakeRules
<1>2. CASE ~a /\ ~b
  BY <1>2 DEF Resolvers, FakeRules
<1> QED
  BY <1>1, <1>2

\* The tags of the resolvers, and what they are given.
LEMMA ResolverTags ==
    ASSUME NEW host, NEW result
    PROVE  /\ RemoteServer(host).tag = "dns-remote"
           /\ RemoteServer(host).server = host
           /\ RemoteServer(host).detour = "select"
           /\ ~Has(RemoteServer(host), {"v6"})
           /\ DirectVia(result).tag = "dns-direct"
           /\ ~Has(DirectVia(result), {"v6"})
<1>1. \A type, address : /\ DirectServer(type, address).tag = "dns-direct"
                         /\ ~Has(DirectServer(type, address), {"v6"})
  BY DEF DirectServer, Has
<1>2. \/ \E type, address : DirectVia(result) = DirectServer(type, address)
  BY Zenon DEF DirectVia
<1>3. DirectVia(result).tag = "dns-direct" /\ ~Has(DirectVia(result), {"v6"})
  BY <1>1, <1>2
<1> QED
  BY <1>3 DEF RemoteServer, Has

\* The profile with the resolvers that were found, and as the machine has it.
FoundWith(p, remote, direct, fake, pinned, routes, final) ==
    Fitting(p, Resolvers(remote, direct, fake, TRUE, pinned),
            PinRules(pinned) \o FakeRules(fake), {"v4", "v6"}, routes, final)

FittedWith(p, remote, direct, fake, v6, pinned, routes, final) ==
    Fitting(p, Resolvers(remote, direct, fake, v6, pinned),
            PinRules(pinned) \o FakeRules(fake), IF v6 THEN {"v4", "v6"} ELSE {"v4"},
            routes, final)

AsResolver(server) == server.tag # "dns-fakeip" /\ ~Has(server, {"v6"})

\* What is done for the machine.
LEMMA FoundFits ==
    ASSUME NEW p, NEW remote, NEW direct, NEW fake, NEW pinned, NEW routes, NEW final,
           AsResolver(remote), AsResolver(direct),
           FoundWith(p, remote, direct, fake, pinned, routes, final),
           NEW off \in BOOLEAN, NEW ipv6 \in BOOLEAN, NEW on, on <=> fake /\ ~off,
           NEW q, off => q = stripFakeDns(p), ~off => q = p
    PROVE  FittedWith(applyBridgeAuth(applyIPv6Support(q, ipv6)), remote, direct, on, ipv6,
                      pinned, routes, final)
<1> DEFINE s == Resolvers(remote, direct, on, TRUE, pinned)
           r == PinRules(pinned) \o FakeRules(on)
           both == {"v4", "v6"}
<1>0. /\ remote.tag # "dns-fakeip" /\ direct.tag # "dns-fakeip"
      /\ ~Has(remote, {"v6"}) /\ ~Has(direct, {"v6"})
  BY DEF AsResolver
<1>6. Fitting(p, Resolvers(remote, direct, fake, TRUE, pinned),
              PinRules(pinned) \o FakeRules(fake), both, routes, final)
  BY DEF FoundWith
<1>1. Fitting(q, s, r, both, routes, final)
  <2>1. CASE off = TRUE
    <3>1. q = stripFakeDns(p)
      BY <2>1
    <3>2. on <=> FALSE
      BY <2>1
    <3> HIDE DEF both
    <3>3. Fitting(stripFakeDns(p), Resolvers(remote, direct, FALSE, TRUE, pinned),
                  PinRules(pinned) \o FakeRules(FALSE), both, routes, final)
      BY <1>0, <1>6, FittingStripped
    <3>4. Resolvers(remote, direct, FALSE, TRUE, pinned) = s
      BY <3>2 DEF Resolvers
    <3>5. PinRules(pinned) \o FakeRules(FALSE) = r
      BY <3>2, FakeAlike
    <3> HIDE DEF s, r
    <3> QED
      BY <3>1, <3>3, <3>4, <3>5
  <2>2. CASE off = FALSE
    <3>1. q = p
      BY <2>2
    <3>2. on <=> fake
      BY <2>2
    <3>4. Resolvers(remote, direct, fake, TRUE, pinned) = s
      <4>1. CASE fake
        BY <3>2, <4>1 DEF Resolvers
      <4>2. CASE ~fake
        BY <3>2, <4>2 DEF Resolvers
      <4> QED
        BY <4>1, <4>2
    <3>5. PinRules(pinned) \o FakeRules(fake) = r
      BY <3>2, FakeAlike
    <3> HIDE DEF s, r
    <3> QED
      BY <1>6, <3>1, <3>4, <3>5
  <2> QED
    BY <2>1, <2>2
<1> HIDE DEF r
<1>2. Fitting(applyIPv6Support(q, ipv6), Resolvers(remote, direct, on, ipv6, pinned), r,
              IF ipv6 THEN {"v4", "v6"} ELSE {"v4"}, routes, final)
  BY <1>0, <1>1, FittingV6
<1> DEFINE s2 == Resolvers(remote, direct, on, ipv6, pinned)
           a == IF ipv6 THEN {"v4", "v6"} ELSE {"v4"}
<1> HIDE DEF s2, a
<1>3. Fitting(applyIPv6Support(q, ipv6), s2, r, a, routes, final)
  BY <1>2 DEF s2, a
<1>4. Fitting(applyBridgeAuth(applyIPv6Support(q, ipv6)), s2, r, a, routes, final)
  BY <1>3, FittingArmed
<1> QED
  BY <1>4 DEF FittedWith, r, s2, a

\* What a step notes of a run, and what it leaves.
LEMMA RunChanged ==
    ASSUME NEW r, {"network", "pinned", "fakeOff", "ipv6", "block"} \subseteq DOMAIN r,
           NEW x, NEW y
    PROVE  /\ LET q == [r EXCEPT !.network = x, !.pinned = y]
              IN  /\ DOMAIN q = DOMAIN r /\ q.network = x /\ q.pinned = y /\ q.ipv6 = r.ipv6
           /\ LET q == [r EXCEPT !.fakeOff = x, !.ipv6 = y]
              IN  /\ DOMAIN q = DOMAIN r /\ q.fakeOff = x /\ q.ipv6 = y
                  /\ q.network = r.network /\ q.pinned = r.pinned
           /\ LET q == [r EXCEPT !.block = x]
              IN  /\ DOMAIN q = DOMAIN r /\ q.block = x /\ q.fakeOff = r.fakeOff
                  /\ q.ipv6 = r.ipv6 /\ q.network = r.network /\ q.pinned = r.pinned
OBVIOUS

-----------------------------------------------------------------------------
(* What holds of a profile at every stage of its start. *)

\* FakeDNS is part of the profile that is written.
FakeMade == settings.fakeDns /\ \E i \in 1 .. Len(Entries) : ~HasOwnBridge(Entries[i])

UdpCarried == ~NoUdp

RoutesMade == RulesAhead(settings.lanBypass) \o RulesBehind(settings.perApp, UdpCarried)

FinalMade == FinalOf(settings.perApp)

Probe == probeDns(run.network)

\* The resolvers that answer are in it, and the names that were found.
Resolved(p) ==
    FoundWith(p, RemoteServer(Probe.doh), DirectVia(Probe), FakeMade, run.pinned, RoutesMade,
              FinalMade)

\* It fits the machine.
FitsMachine(p) ==
    FittedWith(p, RemoteServer(Probe.doh), DirectVia(Probe), FakeOn, run.ipv6, run.pinned,
               RoutesMade, FinalMade)

Settled ==
    /\ content \in Contents
    /\ {"network", "pinned", "fakeOff", "ipv6", "block"} \subseteq DOMAIN run
    /\ run.ipv6 \in BOOLEAN

WrittenInv == file # None => AsWritten(file, FakeMade, RoutesMade, FinalMade)

ReadInv == stage \in {"read", "resolved"} => AsWritten(config, FakeMade, RoutesMade, FinalMade)

FoundInv == stage = "found" => Resolved(config)

FittedInv == stage = "fitted" => FitsMachine(config)

ReadyInv ==
    stage = "ready" => \E p : FitsMachine(p) /\ config = applyRussiaDirect(p, run.block)

IInv ==
    /\ Settled
    /\ Source.form # "singbox" =>
         WrittenInv /\ ReadInv /\ FoundInv /\ FittedInv /\ ReadyInv

\* The subscription and the settings stay what they are, and all that is made of them.
LEMMA MadeOf ==
    ASSUME content' = content, settings' = settings
    PROVE  /\ Source' = Source /\ FakeMade' = FakeMade /\ RoutesMade' = RoutesMade
           /\ FinalMade' = FinalMade
<1>1. Source' = Source
  BY DEF Source
<1>2. Entries' = Entries
  BY <1>1 DEF Entries
<1>3. FakeMade' = FakeMade
  BY <1>2 DEF FakeMade
<1>4. NoUdp' = NoUdp
  BY <1>2 DEF NoUdp
<1>5. RoutesMade' = RoutesMade
  BY <1>4 DEF RoutesMade, UdpCarried
<1> QED
  BY <1>1, <1>3, <1>5 DEF FinalMade

\* There is no profile and no start at first.
LEMMA InitInv == Init => IInv
<1> SUFFICES ASSUME Init PROVE IInv
  OBVIOUS
<1>1. Settled
  BY DEF Init, Settled, NoRun
<1>2. WrittenInv /\ ReadInv /\ FoundInv /\ FittedInv /\ ReadyInv
  BY DEF Init, WrittenInv, ReadInv, FoundInv, FittedInv, ReadyInv
<1> QED
  BY <1>1, <1>2 DEF IInv

\* What a refresh writes.
LEMMA Refreshed ==
    ASSUME content \in Contents, Source.form # "singbox", NEW uuid,
           convertSubscription(content, settings, lastDns, uuid) # None
    PROVE  AsWritten(convertSubscription(content, settings, lastDns, uuid), FakeMade, RoutesMade,
                     FinalMade)
<1> DEFINE proxies == parseSubscription(content)
           dns == DnsAfter(content, lastDns)
<1>1. ContentShape(Source)
  BY ContentsAssumption DEF Source
<1>2. proxies # <<>> /\ convertSubscription(content, settings, lastDns, uuid)
                          = generateConfig(proxies, settings, dns, uuid)
  BY DEF convertSubscription
<1>3. Matched(proxies, Entries)
  BY <1>1, <1>2, EntriesMatched
<1>4. FakeMade <=> settings.fakeDns /\ \E j \in 1 .. Len(Entries) : ~HasOwnBridge(Entries[j])
  BY DEF FakeMade
<1>5. UdpCarried <=> ~\A j \in 1 .. Len(Entries) :
                         Get(Entries[j], "scheme", "") \in {"olcrtc", "tt", "naive"}
  BY DEF UdpCarried, NoUdp
<1> HIDE DEF proxies, dns
<1>6. AsWritten(generateConfig(proxies, settings, dns, uuid), FakeMade,
                RulesAhead(settings.lanBypass) \o RulesBehind(settings.perApp, UdpCarried),
                FinalOf(settings.perApp))
  BY <1>2, <1>3, <1>4, <1>5, GeneratedIs
<1> QED
  BY <1>2, <1>6 DEF RoutesMade, FinalMade

\* The stages before the resolvers are found, and those that leave what was found.
LEMMA RefreshInv ==
    ASSUME IInv, Refresh
    PROVE  IInv'
<1>1. /\ content' = content /\ settings' = settings /\ stage' = stage /\ config' = config
      /\ run' = run
  BY DEF Refresh
<1>2. /\ Source' = Source /\ FakeMade' = FakeMade /\ RoutesMade' = RoutesMade
      /\ FinalMade' = FinalMade
  BY <1>1, MadeOf
<1>3. Settled'
  BY <1>1 DEF IInv, Settled
<1> SUFFICES ASSUME Source.form # "singbox"
             PROVE  (WrittenInv /\ ReadInv /\ FoundInv /\ FittedInv /\ ReadyInv)'
  BY <1>2, <1>3 DEF IInv
<1>4. WrittenInv /\ ReadInv /\ FoundInv /\ FittedInv /\ ReadyInv
  BY DEF IInv
<1>5. WrittenInv'
  <2> DEFINE profile == convertSubscription(content, settings, lastDns, "uuid")
  <2>1. file' = IF profile = None THEN file ELSE profile
    BY DEF Refresh
  <2>2. profile # None => AsWritten(profile, FakeMade, RoutesMade, FinalMade)
    BY Refreshed DEF IInv, Settled
  <2> HIDE DEF profile
  <2> QED
    BY <1>2, <1>4, <2>1, <2>2 DEF WrittenInv
<1>6. ReadInv'
  BY <1>1, <1>2, <1>4 DEF ReadInv
<1>7. FoundInv'
  BY <1>1, <1>2, <1>4 DEF FoundInv, Resolved, Probe
<1>8. FakeOn' = FakeOn
  BY <1>1, <1>2 DEF FakeOn, Entries
<1>9. FittedInv'
  BY <1>1, <1>2, <1>4, <1>8 DEF FittedInv, FitsMachine, Probe
<1>10. ReadyInv'
  BY <1>1, <1>2, <1>4, <1>8 DEF ReadyInv, FitsMachine, Probe
<1> QED
  BY <1>5, <1>6, <1>7, <1>9, <1>10

\* A start has the profile of the file.
LEMMA StartRequestedInv ==
    ASSUME IInv, StartRequested
    PROVE  IInv'
<1>1. /\ content' = content /\ settings' = settings /\ file' = file /\ run' = run
      /\ file # None /\ config' = file /\ stage' = "read"
  BY DEF StartRequested
<1>2. /\ Source' = Source /\ FakeMade' = FakeMade /\ RoutesMade' = RoutesMade
      /\ FinalMade' = FinalMade
  BY <1>1, MadeOf
<1>3. Settled'
  BY <1>1 DEF IInv, Settled
<1> SUFFICES ASSUME Source.form # "singbox"
             PROVE  (WrittenInv /\ ReadInv /\ FoundInv /\ FittedInv /\ ReadyInv)'
  BY <1>2, <1>3 DEF IInv
<1>4. WrittenInv
  BY DEF IInv
<1>5. WrittenInv' /\ ReadInv'
  BY <1>1, <1>2, <1>4 DEF WrittenInv, ReadInv
<1>6. FoundInv' /\ FittedInv' /\ ReadyInv'
  BY <1>1 DEF FoundInv, FittedInv, ReadyInv
<1> QED
  BY <1>5, <1>6

\* The keys are resolved, in memory and in the file.
LEMMA ResolveKeysInv ==
    ASSUME IInv, ResolveKeys
    PROVE  IInv'
<1>1. /\ content' = content /\ settings' = settings /\ run' = run
      /\ stage = "read" /\ stage' = "resolved"
  BY DEF ResolveKeys
<1>2. /\ Source' = Source /\ FakeMade' = FakeMade /\ RoutesMade' = RoutesMade
      /\ FinalMade' = FinalMade
  BY <1>1, MadeOf
<1>3. Settled'
  BY <1>1 DEF IInv, Settled
<1> SUFFICES ASSUME Source.form # "singbox"
             PROVE  (WrittenInv /\ ReadInv /\ FoundInv /\ FittedInv /\ ReadyInv)'
  BY <1>2, <1>3 DEF IInv
<1>4. WrittenInv /\ AsWritten(config, FakeMade, RoutesMade, FinalMade)
  BY <1>1 DEF IInv, ReadInv
<1>5. PICK answers : /\ config' = resolveDynamicOutlineKeys(config, answers)
                     /\ file' = config' \/ file' = file
  BY DEF ResolveKeys
<1>6. AsWritten(config', FakeMade, RoutesMade, FinalMade)
  <2>1. PICK host, address :
           Fitting(config, Resolvers(RemoteServer(host), DirectServer("udp", address), FakeMade,
                                     TRUE, {}),
                   PinRules({}) \o FakeRules(FakeMade), {"v4", "v6"}, RoutesMade, FinalMade)
    BY <1>4 DEF AsWritten
  <2> DEFINE s == Resolvers(RemoteServer(host), DirectServer("udp", address), FakeMade, TRUE, {})
             r == PinRules({}) \o FakeRules(FakeMade)
             a == {"v4", "v6"}
  <2> HIDE DEF s, r, a
  <2>2. Fitting(config, s, r, a, RoutesMade, FinalMade)
    BY <2>1 DEF s, r, a
  <2>3. Fitting(config', s, r, a, RoutesMade, FinalMade)
    BY <1>5, <2>2, FittingResolved
  <2> QED
    BY <2>3, Zenon DEF AsWritten, s, r, a
<1>7. WrittenInv' /\ ReadInv'
  BY <1>1, <1>2, <1>4, <1>5, <1>6 DEF WrittenInv, ReadInv
<1>8. FoundInv' /\ FittedInv' /\ ReadyInv'
  BY <1>1 DEF FoundInv, FittedInv, ReadyInv
<1> QED
  BY <1>7, <1>8

\* The resolvers are found.
LEMMA FindDnsInv ==
    ASSUME IInv, FindDns
    PROVE  IInv'
<1>1. /\ content' = content /\ settings' = settings /\ file' = file
      /\ stage = "resolved" /\ stage' = "found"
  BY DEF FindDns
<1>2. /\ Source' = Source /\ FakeMade' = FakeMade /\ RoutesMade' = RoutesMade
      /\ FinalMade' = FinalMade
  BY <1>1, MadeOf
<1>3. PICK network, pinned :
         /\ config' = injectResolvedHosts(injectProbedDns(config, probeDns(network)), pinned)
         /\ run' = [run EXCEPT !.network = network, !.pinned = pinned]
  BY DEF FindDns
<1>4. /\ DOMAIN run' = DOMAIN run /\ run'.network = network /\ run'.pinned = pinned
      /\ run'.ipv6 = run.ipv6
  <2>1. {"network", "pinned", "fakeOff", "ipv6", "block"} \subseteq DOMAIN run
    BY DEF IInv, Settled
  <2> QED
    BY <1>3, <2>1, RunChanged
<1>5. Settled'
  BY <1>1, <1>4 DEF IInv, Settled
<1> SUFFICES ASSUME Source.form # "singbox"
             PROVE  (WrittenInv /\ ReadInv /\ FoundInv /\ FittedInv /\ ReadyInv)'
  BY <1>2, <1>5 DEF IInv
<1>6. WrittenInv /\ AsWritten(config, FakeMade, RoutesMade, FinalMade)
  BY <1>1 DEF IInv, ReadInv
<1> DEFINE probe == probeDns(network)
           both == {"v4", "v6"}
           found == injectProbedDns(config, probe)
           remote == RemoteServer(probe.doh)
           direct == DirectVia(probe)
           none == PinRules({}) \o FakeRules(FakeMade)
<1>7. Fitting(found, Resolvers(remote, direct, FakeMade, TRUE, {}), none, both, RoutesMade,
              FinalMade)
  <2>1. PICK host, address :
           Fitting(config, Resolvers(RemoteServer(host), DirectServer("udp", address), FakeMade,
                                     TRUE, {}),
                   none, both, RoutesMade, FinalMade)
    BY <1>6 DEF AsWritten
  <2> HIDE DEF none, both, probe
  <2> QED
    BY <2>1, FittingProbed
<1>8. Fitting(config', Resolvers(remote, direct, FakeMade, TRUE, pinned),
              PinRules(pinned) \o FakeRules(FakeMade), both, RoutesMade, FinalMade)
  <2> HIDE DEF both, probe, remote, direct, found
  <2>1. config' = injectResolvedHosts(found, pinned)
    BY <1>3 DEF found, probe
  <2>2. Fitting(injectResolvedHosts(found, pinned),
                Resolvers(remote, direct, FakeMade, TRUE, pinned),
                PinRules(pinned) \o FakeRules(FakeMade), both, RoutesMade, FinalMade)
    BY <1>7, FittingPinned
  <2> QED
    BY <2>1, <2>2
<1>9. FoundInv'
  <2>1. Probe' = probe
    BY <1>4 DEF Probe
  <2> QED
    BY <1>2, <1>4, <1>8, <2>1 DEF FoundInv, Resolved, FoundWith
<1>10. WrittenInv'
  BY <1>1, <1>2, <1>6 DEF WrittenInv
<1>11. ReadInv' /\ FittedInv' /\ ReadyInv'
  BY <1>1 DEF ReadInv, FittedInv, ReadyInv
<1> QED
  BY <1>9, <1>10, <1>11

\* The profile is fitted to the machine.
LEMMA FitMachineInv ==
    ASSUME IInv, FitMachine
    PROVE  IInv'
<1>1. /\ content' = content /\ settings' = settings /\ file' = file
      /\ stage = "found" /\ stage' = "fitted"
  BY DEF FitMachine
<1>2. /\ Source' = Source /\ FakeMade' = FakeMade /\ RoutesMade' = RoutesMade
      /\ FinalMade' = FinalMade
  BY <1>1, MadeOf
<1>3. PICK fakeOff \in BOOLEAN, ipv6 \in BOOLEAN :
         /\ config' = applyBridgeAuth(applyIPv6Support(
                         IF fakeOff THEN stripFakeDns(config) ELSE config, ipv6))
         /\ run' = [run EXCEPT !.fakeOff = fakeOff, !.ipv6 = ipv6]
  BY DEF FitMachine
<1>4. /\ DOMAIN run' = DOMAIN run /\ run'.fakeOff = fakeOff /\ run'.ipv6 = ipv6
      /\ run'.network = run.network /\ run'.pinned = run.pinned
  <2>1. {"network", "pinned", "fakeOff", "ipv6", "block"} \subseteq DOMAIN run
    BY DEF IInv, Settled
  <2> QED
    BY <1>3, <2>1, RunChanged
<1>5. Settled'
  BY <1>1, <1>4 DEF IInv, Settled
<1> SUFFICES ASSUME Source.form # "singbox"
             PROVE  (WrittenInv /\ ReadInv /\ FoundInv /\ FittedInv /\ ReadyInv)'
  BY <1>2, <1>5 DEF IInv
<1>6. WrittenInv /\ Resolved(config)
  BY <1>1 DEF IInv, FoundInv
<1>7. FakeOn' <=> FakeMade /\ ~fakeOff
  <2>1. Entries' = Entries
    BY <1>2 DEF Entries
  <2> QED
    BY <1>1, <1>4, <2>1 DEF FakeOn, FakeMade
<1>8. Probe' = Probe
  BY <1>4 DEF Probe
<1>9. FitsMachine(config)'
  <2> DEFINE remote == RemoteServer(Probe.doh)
             direct == DirectVia(Probe)
             on == FakeOn'
  <2>1. AsResolver(remote) /\ AsResolver(direct)
    BY ResolverTags DEF AsResolver
  <2> HIDE DEF remote, direct, on
  <2>2. FoundWith(config, remote, direct, FakeMade, run.pinned, RoutesMade, FinalMade)
    BY <1>6 DEF Resolved, remote, direct
  <2>3. on <=> FakeMade /\ ~fakeOff
    BY <1>7 DEF on
  <2>4. fakeOff \in BOOLEAN /\ ipv6 \in BOOLEAN
    BY <1>3
  <2> DEFINE stripped == IF fakeOff THEN stripFakeDns(config) ELSE config
  <2>5. (fakeOff => stripped = stripFakeDns(config)) /\ (~fakeOff => stripped = config)
    OBVIOUS
  <2>6. config' = applyBridgeAuth(applyIPv6Support(stripped, ipv6))
    BY <1>3
  <2> HIDE DEF stripped
  <2>7. FittedWith(applyBridgeAuth(applyIPv6Support(stripped, ipv6)), remote, direct, on, ipv6,
                   run.pinned, RoutesMade, FinalMade)
    BY <2>1, <2>2, <2>3, <2>4, <2>5, FoundFits
  <2> QED
    BY <1>2, <1>4, <1>8, <2>6, <2>7 DEF FitsMachine, remote, direct, on
<1>10. FittedInv'
  BY <1>9 DEF FittedInv
<1>11. WrittenInv'
  BY <1>1, <1>2, <1>6 DEF WrittenInv
<1>12. ReadInv' /\ FoundInv' /\ ReadyInv'
  BY <1>1 DEF ReadInv, FoundInv, ReadyInv
<1> QED
  BY <1>10, <1>11, <1>12

\* The block is written in it.
LEMMA PrepareInv ==
    ASSUME IInv, Prepare
    PROVE  IInv'
<1>1. /\ content' = content /\ settings' = settings /\ file' = file
      /\ stage = "fitted" /\ stage' = "ready"
  BY DEF Prepare
<1>2. /\ Source' = Source /\ FakeMade' = FakeMade /\ RoutesMade' = RoutesMade
      /\ FinalMade' = FinalMade
  BY <1>1, MadeOf
<1>3. PICK block : /\ config' = applyRussiaDirect(config, block)
                   /\ run' = [run EXCEPT !.block = block]
  BY DEF Prepare
<1>4. /\ DOMAIN run' = DOMAIN run /\ run'.block = block /\ run'.fakeOff = run.fakeOff
      /\ run'.ipv6 = run.ipv6 /\ run'.network = run.network /\ run'.pinned = run.pinned
  <2>1. {"network", "pinned", "fakeOff", "ipv6", "block"} \subseteq DOMAIN run
    BY DEF IInv, Settled
  <2> QED
    BY <1>3, <2>1, RunChanged
<1>5. Settled'
  BY <1>1, <1>4 DEF IInv, Settled
<1> SUFFICES ASSUME Source.form # "singbox"
             PROVE  (WrittenInv /\ ReadInv /\ FoundInv /\ FittedInv /\ ReadyInv)'
  BY <1>2, <1>5 DEF IInv
<1>6. WrittenInv /\ FitsMachine(config)
  BY <1>1 DEF IInv, FittedInv
<1>7. FakeOn' = FakeOn
  <2>1. Entries' = Entries
    BY <1>2 DEF Entries
  <2> QED
    BY <1>1, <1>4, <2>1 DEF FakeOn
<1>9. ReadyInv'
  BY <1>2, <1>3, <1>4, <1>6, <1>7 DEF ReadyInv, FitsMachine, Probe
<1>10. WrittenInv'
  BY <1>1, <1>2, <1>6 DEF WrittenInv
<1>11. ReadInv' /\ FoundInv' /\ FittedInv'
  BY <1>1 DEF ReadInv, FoundInv, FittedInv
<1> QED
  BY <1>9, <1>10, <1>11

\* The start is over.
LEMMA StartedInv ==
    ASSUME IInv, Started
    PROVE  IInv'
<1>1. /\ content' = content /\ settings' = settings /\ file' = file
      /\ stage' = "idle" /\ run' = NoRun
  BY DEF Started
<1>2. /\ Source' = Source /\ FakeMade' = FakeMade /\ RoutesMade' = RoutesMade
      /\ FinalMade' = FinalMade
  BY <1>1, MadeOf
<1>3. Settled'
  BY <1>1 DEF IInv, Settled, NoRun
<1>4. Source.form # "singbox" => WrittenInv'
  BY <1>1, <1>2 DEF IInv, WrittenInv
<1>5. ReadInv' /\ FoundInv' /\ FittedInv' /\ ReadyInv'
  BY <1>1 DEF ReadInv, FoundInv, FittedInv, ReadyInv
<1> QED
  BY <1>2, <1>3, <1>4, <1>5 DEF IInv

\* Nothing changes.
LEMMA StutterInv ==
    ASSUME IInv, UNCHANGED vars
    PROVE  IInv'
<1>1. /\ content' = content /\ settings' = settings /\ file' = file /\ stage' = stage
      /\ config' = config /\ run' = run
  BY DEF vars
<1>2. /\ Source' = Source /\ FakeMade' = FakeMade /\ RoutesMade' = RoutesMade
      /\ FinalMade' = FinalMade
  BY <1>1, MadeOf
<1>3. FakeOn' = FakeOn
  <2>1. Entries' = Entries
    BY <1>2 DEF Entries
  <2> QED
    BY <1>1, <2>1 DEF FakeOn
<1>4. Settled'
  BY <1>1 DEF IInv, Settled
<1> QED
  BY <1>1, <1>2, <1>3, <1>4
  DEF IInv, WrittenInv, ReadInv, FoundInv, FittedInv, ReadyInv, Resolved, FitsMachine, Probe

\* The invariant holds throughout.
LEMMA Invariant == Spec => []IInv
<1>1. IInv /\ [Next]_vars => IInv'
  BY RefreshInv, StartRequestedInv, ResolveKeysInv, FindDnsInv, FitMachineInv, PrepareInv,
     StartedInv, StutterInv DEF Next
<1> QED
  BY <1>1, InitInv, PTL DEF Spec

-----------------------------------------------------------------------------
(* The profile the daemon is given. *)

\* What it holds, where the app made it.
LEMMA ReadyProfile ==
    ASSUME IInv, Generated
    PROVE  /\ config.route.rules
                = IF run.block.off THEN TorrentsIn(RoutesMade)
                  ELSE RoutesIn(RoutesMade, run.block)
           /\ config.route.final = FinalMade
           /\ config.dns.servers
                = LET s == Resolvers(RemoteServer(Probe.doh), DirectVia(Probe), FakeOn, run.ipv6,
                                     run.pinned)
                  IN  IF run.block.off THEN s ELSE WithRu(s, run.block)
           /\ config.dns.rules
                = LET r == PinRules(run.pinned) \o FakeRules(FakeOn)
                  IN  IF run.block.off THEN r ELSE AnswersIn(r, run.block)
           /\ config.address = IF run.ipv6 THEN {"v4", "v6"} ELSE {"v4"}
<1> DEFINE remote == RemoteServer(Probe.doh)
           direct == DirectVia(Probe)
           s == Resolvers(remote, direct, FakeOn, run.ipv6, run.pinned)
           r == PinRules(run.pinned) \o FakeRules(FakeOn)
           a == IF run.ipv6 THEN {"v4", "v6"} ELSE {"v4"}
<1>1. PICK p : FitsMachine(p) /\ config = applyRussiaDirect(p, run.block)
  BY DEF IInv, Generated, ReadyInv
<1>2. Fitting(p, s, r, a, RoutesMade, FinalMade)
  BY <1>1 DEF FitsMachine, FittedWith
<1>3. remote.tag = "dns-remote" /\ direct.tag = "dns-direct"
  BY ResolverTags
<1> HIDE DEF remote, direct
<1>4. Known(s)
  BY <1>3, ResolversKnown
<1>5. NoTorrents(RoutesMade)
  BY NoTorrentsYet DEF RoutesMade
<1>6. NoLegacy(r)
  BY NoLegacyRules DEF NoLegacy
<1> HIDE DEF s, r, a
<1>7. LET q == applyRussiaDirect(p, run.block)
      IN  /\ q.route.rules = IF run.block.off THEN TorrentsIn(RoutesMade)
                             ELSE RoutesIn(RoutesMade, run.block)
          /\ q.route.final = FinalMade
          /\ q.dns.servers = IF run.block.off THEN s ELSE WithRu(s, run.block)
          /\ q.dns.rules = IF run.block.off THEN r ELSE AnswersIn(r, run.block)
          /\ q.address = a
  BY <1>2, <1>4, <1>5, <1>6, WrittenIs
<1> QED
  BY <1>1, <1>7 DEF s, r, a, remote, direct

(***************************************************************************)
(* Every packet goes where the user was told, for every subscription,      *)
(* every setting and whatever the start finds: the rules generator.ts      *)
(* writes and those russiaDirect.ts inserts among them decide as promised. *)
(***************************************************************************)
THEOREM TrafficIsDecided == Spec => []TrafficGoesAsPromised
<1>1. IInv => TrafficGoesAsPromised
  <2> SUFFICES ASSUME IInv, Generated, NEW packet \in Packets
               PROVE  RouteOf(packet) = Promised(packet)
    BY DEF TrafficGoesAsPromised
  <2> DEFINE rules == IF run.block.off THEN TorrentsIn(RoutesMade)
                      ELSE RoutesIn(RoutesMade, run.block)
             mode == PerAppMode(settings.perApp)
             listed == packet.app \in Apps(settings.perApp)
             behind == Decided(RulesBehind(settings.perApp, UdpCarried), packet, FinalMade)
  <2>0. Has(packet, {"protocol", "network", "port"})
    BY PacketsAssumption
  <2>1. RouteOf(packet) = Decided(rules, packet, FinalMade)
    BY ReadyProfile DEF RouteOf
  <2>2. Decided(rules, packet, FinalMade)
          = IF packet.protocol = "dns" THEN "hijack-dns"
            ELSE IF \/ settings.lanBypass /\ packet.addr = "private"
                    \/ packet.protocol = "bittorrent"
                    \/ /\ ~run.block.off
                       /\ \/ RussianFor(run.block, packet.name)
                          \/ /\ run.block.sets /\ packet.addr = "ru4"
                             /\ packet.name \notin RU_VPN_EXCEPTIONS \cup run.block.extra
                 THEN "direct"
            ELSE behind
    BY <2>0, RouteDecided DEF RoutesMade
  <2>3. behind = IF mode = "exclude" /\ listed THEN "direct"
                 ELSE IF mode = "include" /\ listed THEN "select"
                 ELSE IF NoUdp /\ packet.network = "udp"
                 THEN IF packet.port = 123 THEN "direct" ELSE "reject"
                 ELSE FinalMade
    <3>1. behind = IF mode = "exclude" /\ listed THEN "direct"
                   ELSE IF mode = "include" /\ listed THEN "select"
                   ELSE IF ~UdpCarried /\ packet.network = "udp"
                   THEN IF packet.port = 123 THEN "direct" ELSE "reject"
                   ELSE FinalMade
      BY <2>0, BehindRoutes
    <3>2. ~UdpCarried <=> NoUdp
      BY DEF UdpCarried
    <3> HIDE DEF behind, mode, listed
    <3> QED
      BY <3>1, <3>2
  <2>4. FinalMade = IF mode = "include" THEN "direct" ELSE "select"
    BY DEF FinalMade, FinalOf
  <2>5. /\ RussianFor(run.block, packet.name) <=> RussianName(packet.name)
        /\ RU_VPN_EXCEPTIONS \cup run.block.extra = Kept
    BY DEF RussianFor, RussianName, Kept
  <2> HIDE DEF rules, mode, listed, behind
  <2> QED
    BY <2>1, <2>2, <2>3, <2>4, <2>5 DEF Promised, Russian, RussiaOn, mode, listed
<1> QED
  BY <1>1, Invariant, PTL

\* The resolver of a tag.
ServerOf(servers, tag) ==
    CHOOSE server \in {servers[i] : i \in 1 .. Len(servers)} : server.tag = tag

\* The resolvers of the profile the daemon gets, by their tags.
LEMMA ServersNamed ==
    ASSUME NEW host, NEW result, NEW fake, NEW v6, NEW pinned, NEW options, NEW q,
           options.off => q = Resolvers(RemoteServer(host), DirectVia(result), fake, v6, pinned),
           ~options.off => q = WithRu(Resolvers(RemoteServer(host), DirectVia(result), fake, v6,
                                                pinned), options)
    PROVE  /\ q[1] = RemoteServer(host)
           /\ ServerOf(q, "dns-remote") = RemoteServer(host)
           /\ ServerOf(q, "dns-direct") = DirectVia(result)
           /\ fake => ServerOf(q, "dns-fakeip") = FakeServer(v6)
<1> DEFINE remote == RemoteServer(host)
           direct == DirectVia(result)
           f == FakeServer(v6)
           s == Resolvers(remote, direct, fake, v6, pinned)
           S == {remote, direct, f, HostsServer, RuServer}
           Q == {q[i] : i \in 1 .. Len(q)}
           Server(tag) == CHOOSE server \in Q : server.tag = tag
<1>1. /\ remote.tag = "dns-remote" /\ direct.tag = "dns-direct" /\ f.tag = "dns-fakeip"
      /\ HostsServer.tag = "dns-hosts" /\ RuServer.tag = "dns-ru"
  BY ResolverTags DEF FakeServer, HostsServer, RuServer
<1> HIDE DEF remote, direct, f
<1>2. /\ Len(s) \in Nat /\ Len(s) >= 2
      /\ s \in Seq({remote, direct, f, HostsServer})
      /\ s[1] = remote /\ s[2] = direct
      /\ fake => Len(s) >= 3 /\ s[3] = f
  BY ResolversHold DEF f
<1>3. /\ {remote, direct, f, HostsServer} \subseteq S /\ RuServer \in S
      /\ \A x \in S : x \in {remote, direct, f, HostsServer, RuServer}
  OBVIOUS
<1> HIDE DEF s, S
<1>4. s \in Seq(S)
  BY <1>2, <1>3, SeqMonotonic
<1>5. /\ Len(q) \in Nat /\ Len(q) >= Len(s)
      /\ \A i \in 1 .. Len(s) : q[i] = s[i]
      /\ \A i \in 1 .. Len(q) : q[i] \in S
  <2>1. CASE options.off \/ options.fallback
    <3>1. q = s
      <4>1. CASE options.off
        BY <4>1 DEF s, remote, direct
      <4>2. CASE ~options.off
        <5>1. q = WithRu(s, options)
          BY <4>2 DEF s, remote, direct
        <5>2. WithRu(s, options) = s \o <<>>
          BY <2>1, <4>2 DEF WithRu
        <5>3. s \o <<>> = s
          BY <1>4
        <5> QED
          BY <5>1, <5>2, <5>3
      <4> QED
        BY <4>1, <4>2
    <3> QED
      BY <1>2, <1>4, <3>1
  <2>2. CASE ~options.off /\ ~options.fallback
    <3>1. q = s \o <<RuServer>>
      BY <2>2 DEF WithRu, s, remote, direct
    <3>2. <<RuServer>> \in Seq(S)
      BY <1>3
    <3> QED
      BY <1>2, <1>3, <1>4, <3>1, <3>2
  <2> QED
    BY <2>1, <2>2
<1>6. /\ remote \in Q /\ direct \in Q /\ (fake => f \in Q)
      /\ \A x \in Q : x \in {remote, direct, f, HostsServer, RuServer}
  <2>1. 1 \in 1 .. Len(q) /\ 2 \in 1 .. Len(q) /\ (fake => 3 \in 1 .. Len(q))
    BY <1>2, <1>5
  <2>2. q[1] = remote /\ q[2] = direct /\ (fake => q[3] = f)
    BY <1>2, <1>5
  <2>3. \A x \in Q : x \in S
    BY <1>5
  <2> QED
    BY <1>3, <2>1, <2>2, <2>3
<1>7. q[1] = remote
  BY <1>2, <1>5
<1> HIDE DEF Q
<1>8. Server("dns-remote") = remote
  BY <1>1, <1>6
<1>9. Server("dns-direct") = direct
  BY <1>1, <1>6
<1>10. fake => Server("dns-fakeip") = f
  BY <1>1, <1>6
<1> QED
  BY <1>7, <1>8, <1>9, <1>10 DEF ServerOf, remote, direct, f, Q

(***************************************************************************)
(* Every name is resolved where it should be, for every subscription,      *)
(* every setting, every set of resolvers that answer and names that could  *)
(* be resolved; and the resolver dialled around the tunnel is an address:  *)
(* generator.ts, dns.ts, ipv6.ts and russiaDirect.ts, one after another.   *)
(***************************************************************************)
THEOREM QueriesAreDecided == Spec => []QueriesGoAsPromised
<1>1. IInv => QueriesGoAsPromised
  <2> SUFFICES ASSUME IInv, Generated PROVE QueriesGoAsPromised
    BY DEF QueriesGoAsPromised
  <2> DEFINE q == config.dns.servers
             remote == ServerOf(q, "dns-remote")
             direct == ServerOf(q, "dns-direct")
             host == Probe.doh
             s == Resolvers(RemoteServer(host), DirectVia(Probe), FakeOn, run.ipv6,
                            run.pinned)
             r == PinRules(run.pinned) \o FakeRules(FakeOn)
  <2>1. /\ q[1] = RemoteServer(host)
        /\ remote = RemoteServer(host)
        /\ direct = DirectVia(Probe)
        /\ FakeOn => ServerOf(q, "dns-fakeip") = FakeServer(run.ipv6)
    <3>1. /\ run.block.off => q = s
          /\ ~run.block.off => q = WithRu(s, run.block)
      BY ReadyProfile
    <3> HIDE DEF q, host
    <3> QED
      BY <3>1, ServersNamed
  <2>2. ASSUME NEW query \in Queries
        PROVE  AnswerTo(query) = PromisedTo(query)
    <3> DEFINE rules == config.dns.rules
    <3>1. /\ run.block.off => rules = r
          /\ ~run.block.off => rules = AnswersIn(r, run.block)
      BY ReadyProfile
    <3>2. AnswerTo(query) = Decided(rules, query, "dns-remote")
      BY <2>1, ResolverTags DEF AnswerTo
    <3> HIDE DEF rules
    <3>3. Decided(rules, query, "dns-remote")
            = AnswerOf(query, run.pinned, FakeOn, run.block, "dns-remote")
      <4> DEFINE fake == FakeOn
                 pinned == run.pinned
                 options == run.block
                 otherwise == "dns-remote"
      <4> HIDE DEF fake, pinned, options, otherwise
      <4>1. /\ options.off => rules = PinRules(pinned) \o FakeRules(fake)
            /\ ~options.off => rules = AnswersIn(PinRules(pinned) \o FakeRules(fake), options)
        BY <3>1 DEF fake, pinned, options
      <4>2. Decided(rules, query, otherwise) = AnswerOf(query, pinned, fake, options, otherwise)
        BY <4>1, AnswerDecided
      <4> QED
        BY <4>2 DEF fake, pinned, options, otherwise
    <3>4. RussianFor(run.block, query.name) <=> RussianName(query.name)
      BY DEF RussianFor, RussianName, Kept
    <3> HIDE DEF r
    <3> QED
      BY <3>2, <3>3, <3>4 DEF AnswerOf, PromisedTo, RussiaOn
  <2> HIDE DEF q, remote, direct, host
  <2>3. remote.server = host /\ remote.detour = "select"
    BY <2>1, ResolverTags
  <2>4. direct.server \in ByAddress /\ (direct.type = "https") = Probe.works
    <3>1. /\ DirectVia(Probe).server \in ByAddress
          /\ DirectVia(Probe).type = IF Probe.works THEN "https" ELSE "udp"
      BY AddressesAssumption, AddressDialled DEF Probe
    <3>2. Probe.works \in BOOLEAN
      BY DEF Probe, probeDns
    <3> QED
      BY <2>1, <3>1, <3>2
  <2>5. FakeOn => ServerOf(q, "dns-fakeip").v6 = run.ipv6
    <3>1. FakeServer(run.ipv6).v6 = run.ipv6
      BY DEF FakeServer
    <3> QED
      BY <2>1, <3>1
  <2>6. ("v6" \in config.address) = run.ipv6
    <3>1. config.address = IF run.ipv6 THEN {"v4", "v6"} ELSE {"v4"}
      BY ReadyProfile
    <3>2. run.ipv6 \in BOOLEAN
      BY DEF IInv, Settled
    <3> QED
      BY <3>1, <3>2
  <2> QED
    BY <2>2, <2>3, <2>4, <2>5, <2>6
       DEF QueriesGoAsPromised, Probe, ServerOf, q, remote, direct, host
<1> QED
  BY <1>1, Invariant, PTL

-----------------------------------------------------------------------------
(* The block among any rules. *)

\* What the block is for: BitTorrent, Russian names, and Russian addresses.
OfBlock(packet, options) ==
    \/ packet.protocol = "bittorrent"
    \/ RussianFor(options, packet.name)
    \/ /\ options.sets /\ packet.addr = "ru4"
       /\ packet.name \notin RU_VPN_EXCEPTIONS \cup options.extra

\* The block goes in at a place there is.
LEMMA PlaceForRoutes ==
    ASSUME NEW S, NEW rules \in Seq(S)
    PROVE  routeInsertionIndex(rules) \in 1 .. Len(rules) + 1
<1> DEFINE found == {i \in 1 .. Len(rules) : \/ Has(rules[i], {"process"})
                                             \/ isUdpRefusalRule(rules[i])}
<1>1. routeInsertionIndex(rules) = Ahead(rules, found)
  BY DEF routeInsertionIndex
<1>2. found \subseteq 1 .. Len(rules) /\ Len(rules) \in Nat
  OBVIOUS
<1> HIDE DEF found
<1>3. CASE found = {}
  BY <1>1, <1>2, <1>3 DEF Ahead
<1>4. CASE found # {}
  <2>1. found \in SUBSET Nat
    BY <1>2
  <2>2. FirstOf(found) \in found
    BY <1>4, <2>1, FirstOfFacts
  <2>3. routeInsertionIndex(rules) = FirstOf(found)
    BY <1>1, <1>4 DEF Ahead
  <2>4. FirstOf(found) \in 1 .. Len(rules)
    BY <1>2, <2>2
  <2> QED
    BY <1>2, <2>3, <2>4
<1> QED
  BY <1>3, <1>4

\* Rules either decide by themselves or leave it to what is behind them.
LEMMA DecidesOrNot ==
    ASSUME NEW rules, NEW it, NEW a, NEW b
    PROVE  \/ Decided(rules, it, a) = Decided(rules, it, b)
           \/ Decided(rules, it, a) = a /\ Decided(rules, it, b) = b
  BY DecidedIs

(***************************************************************************)
(* Whatever rules a profile holds, the block of russiaDirect.ts written    *)
(* among them diverts nothing but what it is for: the fate of every other  *)
(* packet is what it was, and that of its own is that or to go direct.     *)
(***************************************************************************)
THEOREM BlockDivertsItsOwn ==
    ASSUME NEW S, NEW rules \in Seq(S), NEW packet, Has(packet, {"protocol", "network", "port"}),
           NEW options, NEW otherwise
    PROVE  LET with == Decided(RoutesIn(rules, options), packet, otherwise)
           IN  \/ with = Decided(rules, packet, otherwise)
               \/ OfBlock(packet, options) /\ with = "direct"
<1> DEFINE n == routeInsertionIndex(rules)
           before == SubSeq(rules, 1, n - 1)
           after == SubSeq(rules, n, Len(rules))
           items == RouteRules(options)
           behind == Decided(after, packet, otherwise)
<1>1. n \in 1 .. Len(rules) + 1 /\ Len(rules) \in Nat
  BY PlaceForRoutes
<1>2. RoutesIn(rules, options) = insertAt(rules, n, items)
  BY DEF RoutesIn
<1> HIDE DEF n
<1>3. before \in Seq(S) /\ after \in Seq(S) /\ Len(before) + 1 = n
  BY <1>1, SubSeqProperties
<1>4. before \o after = rules
  <2> DEFINE k == n - 1
  <2>1. k \in 0 .. Len(rules) /\ k + 1 = n /\ 1 \in 1 .. Len(rules) + 1
        /\ Len(rules) \in k .. Len(rules) /\ k \in 1 - 1 .. Len(rules)
    BY <1>1
  <2> HIDE DEF k
  <2>2. SubSeq(rules, 1, k) \o SubSeq(rules, k + 1, Len(rules)) = SubSeq(rules, 1, Len(rules))
    BY <2>1, ConcatAdjacentSubSeq
  <2>3. SubSeq(rules, 1, k) = before /\ SubSeq(rules, k + 1, Len(rules)) = after
    BY <2>1 DEF k, before, after
  <2> QED
    BY <2>2, <2>3, SubSeqFull
<1>5. PICK I : items \in Seq(I)
  <2> DEFINE named == [all |-> {M(options), E(options)}, outbound |-> "direct"]
             placed == [all |-> {[rule_set |-> {"geoip"}, addr |-> {"ru4", "ru6"}],
                                 E(options), [ip_version |-> 4]}, outbound |-> "direct"]
             J == {TorrentRule, named, placed}
  <2>1. items = <<TorrentRule, named>> \o (IF options.sets THEN <<placed>> ELSE <<>>)
    BY DEF RouteRules
  <2>2. TorrentRule \in J /\ named \in J /\ placed \in J
    OBVIOUS
  <2> HIDE DEF named, placed, J, items
  <2>3. <<TorrentRule, named>> \in Seq(J) /\ <<placed>> \in Seq(J) /\ <<>> \in Seq(J)
    BY <2>2
  <2>4. items \in Seq(J)
    BY <2>1, <2>3
  <2> QED
    BY <2>4
<1> HIDE DEF before, after, items, behind
<1>6. Decided(rules, packet, otherwise) = Decided(before, packet, behind)
  <2>1. Decided(before \o after, packet, otherwise) = Decided(before, packet, behind)
    BY <1>3, DecidedConcat DEF behind
  <2> QED
    BY <1>4, <2>1
<1>7. Decided(RoutesIn(rules, options), packet, otherwise)
        = Decided(before, packet, Decided(items, packet, behind))
  <2>2. insertAt(rules, n, items) = insertAt(before \o after, Len(before) + 1, items)
    BY <1>3, <1>4
  <2>3. Decided(insertAt(before \o after, Len(before) + 1, items), packet, otherwise)
          = Decided(before, packet, Decided(items, packet, behind))
    BY <1>3, <1>5, InsertedDecide DEF behind
  <2> QED
    BY <1>2, <2>2, <2>3
<1>8. Decided(items, packet, behind) = IF OfBlock(packet, options) THEN "direct" ELSE behind
  BY BlockRoutes DEF items, OfBlock
<1>9. CASE OfBlock(packet, options)
  <2> DEFINE end == Decided(items, packet, behind)
  <2>1. end = "direct"
    BY <1>8, <1>9
  <2> HIDE DEF end
  <2>2. \/ Decided(before, packet, end) = Decided(before, packet, behind)
        \/ Decided(before, packet, end) = end
    BY DecidesOrNot
  <2> QED
    BY <1>6, <1>7, <1>9, <2>1, <2>2 DEF end
<1>10. CASE ~OfBlock(packet, options)
  BY <1>6, <1>7, <1>8, <1>10
<1> QED
  BY <1>9, <1>10
=============================================================================
