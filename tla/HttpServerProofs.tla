-------------------------- MODULE HttpServerProofs --------------------------
(***************************************************************************)
(* A server (HttpServer), the requests it serves (Requests) and the groups *)
(* of servers built from one configuration (Servers).                      *)
(***************************************************************************)
EXTENDS HttpServer, Requests, Servers, SequenceTheorems, WellFoundedInduction, TLAPS

-----------------------------------------------------------------------------
(***************************************************************************)
(* The lookup tree of pkg/access: what one Insert adds to what Find finds, *)
(* for any labels and any tree.  The scopes of an account are inserted one *)
(* after the other, so an account with scopes of one depth is granted what *)
(* one of its scopes grants, in whatever order they come.                  *)
(***************************************************************************)

\* The only path of l's own length that Insert adds is l.
LEMMA PathsToAre ==
  ASSUME NEW l \in Seq(Labels), NEW p \in PathTo(l), Len(p) = Len(l)
  PROVE  p = l
<1>1. PICK n \in 1..Len(l) : p = SubSeq(l, 1, n)
  BY DEF PathTo
<1>2. Len(p) = n /\ p \in Seq(Labels)
  BY <1>1
<1>3. n = Len(l)
  BY <1>2
<1>4. SubSeq(l, 1, Len(l)) = l
  OBVIOUS
<1> QED
  BY <1>1, <1>3, <1>4

LEMMA WholePath ==
  ASSUME NEW l \in Seq(Labels), l # <<>>
  PROVE  l \in PathTo(l)
<1>1. Len(l) \in 1..Len(l)
  OBVIOUS
<1>2. l = SubSeq(l, 1, Len(l))
  OBVIOUS
<1> QED
  BY <1>1, <1>2 DEF PathTo

\* A path that Insert cuts off beside a wildcard grants nothing that the
\* wildcard does not grant.
LEMMA CutOffIsGranted ==
  ASSUME NEW T \in SUBSET Seq(Labels),
         NEW l \in Seq(Labels), l # <<>>, l[Len(l)] = Wildcard,
         NEW r \in Seq(Labels), Len(r) = Len(l),
         NEW p \in Below(T, Above(l)), Len(p) = Len(r), Matches(p, r)
  PROVE  Matches(l, r)
<1> DEFINE m == Len(l) - 1
<1>1. Len(l) \in Nat /\ Len(l) > 0 /\ m \in Nat
  OBVIOUS
<1>2. Above(l) = SubSeq(l, 1, m) /\ Len(Above(l)) = m
  BY <1>1 DEF Above
<1>3. p \in Seq(Labels) /\ SubSeq(p, 1, m) = SubSeq(l, 1, m)
  BY <1>2 DEF Below
<1>4. ASSUME NEW i \in 1..m PROVE p[i] = l[i]
  <2>1. SubSeq(p, 1, m)[i] = p[i] /\ SubSeq(l, 1, m)[i] = l[i]
    BY <1>1, <1>3
  <2> QED
    BY <2>1, <1>3
<1>5. ASSUME NEW i \in 1..Len(r) PROVE l[i] = r[i] \/ l[i] = Wildcard
  <2>1. CASE i \in 1..m
    BY <2>1, <1>4 DEF Matches
  <2>2. CASE i = Len(l)
    BY <2>2
  <2> QED
    BY <2>1, <2>2, <1>1
<1> QED
  BY <1>5 DEF Matches

\* A last label that is not added because a wildcard stands for it is granted
\* by that wildcard.
LEMMA StoodFor ==
  ASSUME NEW l \in Seq(Labels), l # <<>>, NEW r \in Seq(Labels), Len(r) = Len(l),
         Matches(l, r)
  PROVE  LET q == Append(Above(l), Wildcard) IN Len(q) = Len(r) /\ Matches(q, r)
<1> DEFINE m == Len(l) - 1
           q == Append(Above(l), Wildcard)
<1>1. Len(l) \in Nat /\ Len(l) > 0 /\ m \in Nat
  OBVIOUS
<1>2. Above(l) \in Seq(Labels) /\ Len(Above(l)) = m /\ Above(l) = SubSeq(l, 1, m) /\ Wildcard \in Labels
  BY <1>1, ScopesAssumption DEF Above
<1>3. Len(q) = m + 1
  BY <1>2
<1>4. ASSUME NEW i \in 1..Len(r) PROVE q[i] = r[i] \/ q[i] = Wildcard
  <2>0. i \in 1..m \/ i = m + 1
    BY <1>1
  <2>1. CASE i \in 1..m
    <3>1. q[i] = Above(l)[i]
      BY <2>1, <1>2
    <3>2. Above(l)[i] = l[i]
      BY <2>1, <1>1, <1>2
    <3> QED
      BY <3>1, <3>2 DEF Matches
  <2>2. CASE i = m + 1
    BY <2>2, <1>2
  <2> QED
    BY <2>0, <2>1, <2>2
<1> QED
  BY <1>1, <1>3, <1>4 DEF Matches

\* node.go:20-75: after Insert, Find finds what it found before and what the
\* inserted labels match, and nothing else: neither the paths it cuts off
\* beside a wildcard nor the label it leaves out under one are missed.
THEOREM InsertAddsExactly ==
  ASSUME NEW T \in SUBSET Seq(Labels),
         NEW l \in Seq(Labels), l # <<>>, NEW r \in Seq(Labels), Len(r) = Len(l)
  PROVE  Find(Insert(T, l), r) <=> Find(T, r) \/ Matches(l, r)
<1> DEFINE q == Append(Above(l), Wildcard)
<1>1. ASSUME Find(Insert(T, l), r) PROVE Find(T, r) \/ Matches(l, r)
  <2>1. PICK p \in Insert(T, l) : Len(p) = Len(r) /\ Matches(p, r)
    BY <1>1 DEF Find
  <2>2. p \in T \/ p \in PathTo(l)
    BY <2>1 DEF Insert
  <2>3. CASE p \in T
    BY <2>1, <2>3 DEF Find
  <2>4. CASE p \in PathTo(l)
    <3>1. p = l
      BY <2>1, <2>4, PathsToAre
    <3> QED
      BY <2>1, <3>1
  <2> QED
    BY <2>2, <2>3, <2>4
<1>2. ASSUME Matches(l, r) PROVE Find(Insert(T, l), r)
  <2>1. CASE l \in T
    BY <1>2, <2>1 DEF Insert, Find
  <2>2. CASE l \notin T /\ q \in T
    <3>1. Len(q) = Len(r) /\ Matches(q, r)
      BY <1>2, StoodFor
    <3> QED
      BY <2>2, <3>1 DEF Insert, Find
  <2>3. CASE l \notin T /\ q \notin T
    <3>1. l \in Insert(T, l)
      BY <2>3, WholePath DEF Insert
    <3> QED
      BY <1>2, <3>1 DEF Find
  <2> QED
    BY <2>1, <2>2, <2>3
<1>3. ASSUME Find(T, r) PROVE Find(Insert(T, l), r)
  <2>1. PICK p \in T : Len(p) = Len(r) /\ Matches(p, r)
    BY <1>3 DEF Find
  <2>2. CASE p \in Insert(T, l)
    BY <2>1, <2>2 DEF Find
  <2>3. CASE p \notin Insert(T, l)
    <3>1. p \in Below(T, Above(l)) /\ l[Len(l)] = Wildcard
      BY <2>1, <2>3 DEF Insert
    <3>2. Matches(l, r)
      BY <2>1, <3>1, CutOffIsGranted
    <3> QED
      BY <3>2, <1>2
  <2> QED
    BY <2>2, <2>3
<1> QED
  BY <1>1, <1>2, <1>3

\* What is inserted is a list of labels, and all that is in the tree are such.
LEMMA InsertStays ==
  ASSUME NEW T \in SUBSET Seq(Labels), NEW l \in Seq(Labels)
  PROVE  Insert(T, l) \in SUBSET Seq(Labels)
<1>1. ASSUME NEW n \in 1..Len(l) PROVE SubSeq(l, 1, n) \in Seq(Labels)
  BY <1>1
<1>2. PathTo(l) \in SUBSET Seq(Labels)
  BY <1>1 DEF PathTo
<1> QED
  BY <1>2 DEF Insert

\* A set of numbers that is not empty has a least one.
LEMMA LeastOf ==
  ASSUME NEW S \in SUBSET Nat, S # {}
  PROVE  \E n \in S : \A m \in S : n <= m
<1> DEFINE R == OpToRel(<, Nat)
<1>1. IsWellFoundedOn(R, Nat)
  BY NatLessThanWellFounded
<1>2. \A m, n \in Nat : m < n => <<m, n>> \in R
  BY DEF OpToRel
<1> HIDE DEF R
<1>3. PICK n \in S : \A m \in S : ~ (<<m, n>> \in R)
  BY <1>1, WFMin
<1>4. \A m \in S : ~ (m < n)
  BY <1>2, <1>3
<1>5. \A m \in S : m \in Nat /\ n \in Nat
  BY <1>3
<1>6. \A m \in S : n <= m
  BY <1>4, <1>5
<1> QED
  BY <1>3, <1>6

\* The trees that come one after the other as lists of labels are inserted in T.
Grows(g, T, lists) == g = [n \in 0..Len(lists) |-> IF n = 0 THEN T ELSE Insert(g[n - 1], lists[n])]

LEMMA GrownIs ==
  ASSUME NEW T, NEW A, NEW lists \in Seq(A)
  PROVE  \E g : Grows(g, T, lists) /\ Grown(T, lists) = g[Len(lists)]
<1> DEFINE Upto(g, k) == g = [n \in 0..k |-> IF n = 0 THEN T ELSE Insert(g[n - 1], lists[n])]
           Missing == {k \in 0..Len(lists) : ~ \E g : Upto(g, k)}
<1>1. Missing = {}
  <2> SUFFICES ASSUME Missing # {} PROVE FALSE
    OBVIOUS
  <2>1. PICK k \in Missing : \A m \in Missing : k <= m
    <3>1. Missing \in SUBSET Nat
      OBVIOUS
    <3> HIDE DEF Missing
    <3> QED
      BY <3>1, LeastOf
  <2>2. k \in 0..Len(lists) /\ ~ \E g : Upto(g, k)
    BY <2>1
  <2>3. k # 0
    <3> DEFINE h == [n \in 0..0 |-> T]
    <3>1. Upto(h, 0)
      OBVIOUS
    <3> QED
      BY <2>2, <3>1
  <2>4. k - 1 \in 0..Len(lists) /\ k - 1 \notin Missing
    BY <2>1, <2>2, <2>3
  <2>5. PICK g : Upto(g, k - 1)
    BY <2>4
  <2> DEFINE h == [n \in 0..k |-> IF n = k THEN Insert(g[k - 1], lists[k]) ELSE g[n]]
  <2>6. Upto(h, k)
    <3>1. ASSUME NEW n \in 0..k PROVE h[n] = IF n = 0 THEN T ELSE Insert(h[n - 1], lists[n])
      <4>1. CASE n = k
        BY <2>2, <2>3, <4>1
      <4>2. CASE n # k
        <5>1. n \in 0..(k - 1) /\ h[n] = g[n] /\ (n # 0 => n - 1 \in 0..k /\ n - 1 # k /\ h[n - 1] = g[n - 1])
          BY <2>2, <4>2
        <5>2. g[n] = IF n = 0 THEN T ELSE Insert(g[n - 1], lists[n])
          BY <2>5, <5>1
        <5> QED
          BY <5>1, <5>2
      <4> QED
        BY <4>1, <4>2
    <3> QED
      BY <3>1
  <2> QED
    BY <2>2, <2>6
<1>2. PICK g : Grows(g, T, lists)
  <2>1. Len(lists) \in 0..Len(lists)
    OBVIOUS
  <2>2. \E g : Upto(g, Len(lists))
    BY <1>1, <2>1
  <2> QED
    BY <2>2 DEF Grows
<1>3. Grows(CHOOSE f : Grows(f, T, lists), T, lists)
  BY <1>2
<1>4. Grown(T, lists) = (CHOOSE f : Grows(f, T, lists))[Len(lists)]
  BY DEF Grown, Grows
<1> QED
  BY <1>3, <1>4

\* Lists of labels as long as what is looked up: one after the other adds what
\* it matches.
LEMMA GrownFinds ==
  ASSUME NEW T \in SUBSET Seq(Labels), NEW lists \in Seq(Seq(Labels)),
         NEW r \in Seq(Labels), r # <<>>, \A i \in DOMAIN lists : Len(lists[i]) = Len(r)
  PROVE  /\ Grown(T, lists) \in SUBSET Seq(Labels)
         /\ Find(Grown(T, lists), r) <=> Find(T, r) \/ \E i \in DOMAIN lists : Matches(lists[i], r)
<1>1. PICK g : Grows(g, T, lists) /\ Grown(T, lists) = g[Len(lists)]
  BY GrownIs
<1> DEFINE Fine(n) ==
             /\ g[n] \in SUBSET Seq(Labels)
             /\ Find(g[n], r) <=> Find(T, r) \/ \E i \in 1..n : Matches(lists[i], r)
           Wrong == {n \in 0..Len(lists) : ~Fine(n)}
<1>2. g[0] = T /\ \A n \in 1..Len(lists) : g[n] = Insert(g[n - 1], lists[n])
  <2>1. g = [n \in 0..Len(lists) |-> IF n = 0 THEN T ELSE Insert(g[n - 1], lists[n])]
    BY <1>1 DEF Grows
  <2>2. \A n \in 0..Len(lists) : g[n] = IF n = 0 THEN T ELSE Insert(g[n - 1], lists[n])
    BY <2>1
  <2> QED
    BY <2>2
<1>3. Wrong = {}
  <2> SUFFICES ASSUME Wrong # {} PROVE FALSE
    OBVIOUS
  <2>1. PICK n \in Wrong : \A m \in Wrong : n <= m
    <3>1. Wrong \in SUBSET Nat
      OBVIOUS
    <3> HIDE DEF Wrong
    <3> QED
      BY <3>1, LeastOf
  <2>2. n \in 0..Len(lists) /\ ~Fine(n)
    BY <2>1
  <2>3. n # 0
    <3>1. Fine(0)
      BY <1>2
    <3> QED
      BY <2>2, <3>1
  <2>4. n - 1 \in 0..Len(lists) /\ n - 1 \notin Wrong /\ n \in 1..Len(lists)
    BY <2>1, <2>2, <2>3
  <2>5. Fine(n - 1)
    BY <2>4
  <2>6. lists[n] \in Seq(Labels) /\ Len(lists[n]) = Len(r) /\ lists[n] # <<>>
    BY <2>4
  <2>7. g[n] = Insert(g[n - 1], lists[n]) /\ g[n - 1] \in SUBSET Seq(Labels)
    BY <1>2, <2>4, <2>5
  <2>8. g[n] \in SUBSET Seq(Labels)
    BY <2>6, <2>7, InsertStays
  <2>9. Find(g[n], r) <=> Find(g[n - 1], r) \/ Matches(lists[n], r)
    BY <2>6, <2>7, InsertAddsExactly
  <2>10. 1..n = (1..(n - 1)) \cup {n}
    BY <2>4
  <2>11. Find(g[n], r) <=> Find(T, r) \/ \E i \in 1..n : Matches(lists[i], r)
    BY <2>5, <2>9, <2>10
  <2> QED
    BY <2>2, <2>8, <2>11
<1>4. Fine(Len(lists))
  <2>1. Len(lists) \in 0..Len(lists)
    OBVIOUS
  <2> QED
    BY <1>3, <2>1
<1> QED
  BY <1>1, <1>4

\* A valid scope of scope/basic has lists of four labels each (basic.go:99-114).
Lists(d) == {lists \in Seq(Seq(Labels)) : \A i \in DOMAIN lists : Len(lists[i]) = d}

LEMMA RowAndColumn ==
  ASSUME NEW m \in Nat, NEW n \in Nat, n > 0, NEW i \in 1..(m * n)
  PROVE  ((i - 1) \div n) + 1 \in 1..m /\ ((i - 1) % n) + 1 \in 1..n
<1>1. (i - 1) \div n < m
  OBVIOUS
<1> QED
  BY <1>1

LEMMA TimesAre ==
  ASSUME NEW d \in Nat, NEW before \in Lists(d), NEW s \in Seq(Labels), s # <<>>
  PROVE  Times(before, s) \in Lists(d + 1)
<1> DEFINE m == Len(before)
           n == Len(s)
           t == Times(before, s)
<1>0. before \in Seq(Seq(Labels)) /\ \A i \in DOMAIN before : Len(before[i]) = d
  BY DEF Lists
<1>1. m \in Nat /\ n \in Nat /\ n > 0
  BY <1>0
<1>2. m * n \in Nat
  BY <1>1
<1>3. ASSUME NEW i \in 1..(m * n)
      PROVE  t[i] \in Seq(Labels) /\ Len(t[i]) = d + 1
  <2>1. ((i - 1) \div n) + 1 \in 1..m /\ ((i - 1) % n) + 1 \in 1..n
    <3> HIDE DEF m, n
    <3> QED
      BY <1>1, RowAndColumn
  <2>3. t[i] = Append(before[((i - 1) \div n) + 1], s[((i - 1) % n) + 1])
    BY <1>3 DEF Times
  <2>4. before[((i - 1) \div n) + 1] \in Seq(Labels) /\ Len(before[((i - 1) \div n) + 1]) = d
    BY <1>0, <2>1
  <2>5. s[((i - 1) % n) + 1] \in Labels
    BY <2>1
  <2> QED
    BY <2>3, <2>4, <2>5
<1>4. t = [i \in 1..(m * n) |-> t[i]]
  BY DEF Times
<1>5. t \in Seq(Seq(Labels)) /\ DOMAIN t = 1..(m * n)
  <2> HIDE DEF t, m, n
  <2>1. t \in [1..(m * n) -> Seq(Labels)]
    BY <1>3, <1>4
  <2> QED
    BY <1>2, <2>1, SeqDef
<1> QED
  BY <1>3, <1>5 DEF Lists

LEMMA LabelsAre ==
  ASSUME NEW s \in Scopes, ScopeValid(s)
  PROVE  AsLabels(s) \in Lists(4)
<1>1. /\ s.teams \in Seq(Labels) /\ s.environments \in Seq(Labels)
      /\ s.actions \in Seq(Labels) /\ s.roles \in Seq(Labels)
      /\ s.teams # <<>> /\ s.environments # <<>> /\ s.actions # <<>> /\ s.roles # <<>>
  BY DEF Scopes, ScopeValid
<1> DEFINE A == Times(<<<<>>>>, s.teams)
           B == Times(A, s.environments)
           C == Times(B, s.actions)
           D == Times(C, s.roles)
<1>2. AsLabels(s) = D
  BY <1>1 DEF AsLabels
<1>3. <<<<>>>> \in Lists(0)
  BY DEF Lists
<1> HIDE DEF A, B, C, D
<1>4. A \in Lists(0 + 1)
  BY <1>1, <1>3, TimesAre DEF A
<1>5. B \in Lists(1 + 1)
  BY <1>1, <1>4, TimesAre DEF B
<1>6. C \in Lists(2 + 1)
  BY <1>1, <1>5, TimesAre DEF C
<1>7. D \in Lists(3 + 1)
  BY <1>1, <1>6, TimesAre DEF D
<1> QED
  BY <1>2, <1>7

\* The trees that come one after the other as scopes are inserted.
Roots(f, allowed) ==
  f = [n \in 0..Len(allowed) |-> IF n = 0 THEN {} ELSE Grown(f[n - 1], AsLabels(allowed[n]))]

LEMMA RootIs ==
  ASSUME NEW allowed \in Seq(Scopes)
  PROVE  \E f : Roots(f, allowed) /\ Root(allowed) = f[Len(allowed)]
<1>0. Len(allowed) \in Nat
  BY LenProperties
<1> DEFINE Upto(f, k) == f = [n \in 0..k |-> IF n = 0 THEN {} ELSE Grown(f[n - 1], AsLabels(allowed[n]))]
           Missing == {k \in 0..Len(allowed) : ~ \E f : Upto(f, k)}
<1>1. Missing = {}
  <2> SUFFICES ASSUME Missing # {} PROVE FALSE
    OBVIOUS
  <2>1. PICK k \in Missing : \A m \in Missing : k <= m
    <3>1. Missing \in SUBSET Nat
      OBVIOUS
    <3> HIDE DEF Missing
    <3> QED
      BY <3>1, LeastOf
  <2>2. k \in 0..Len(allowed) /\ ~ \E f : Upto(f, k)
    BY <2>1
  <2>3. k # 0
    <3> DEFINE h == [n \in 0..0 |-> {}]
    <3>1. Upto(h, 0)
      OBVIOUS
    <3> QED
      BY <2>2, <3>1
  <2>4. k - 1 \in 0..Len(allowed) /\ k - 1 \notin Missing
    <3>1. k - 1 \in 0..Len(allowed) /\ ~ (k <= k - 1)
      BY <1>0, <2>2, <2>3
    <3> HIDE DEF Missing
    <3> QED
      BY <2>1, <3>1
  <2>5. PICK f : Upto(f, k - 1)
    BY <2>4
  <2> DEFINE h == [n \in 0..k |-> IF n = k THEN Grown(f[k - 1], AsLabels(allowed[k])) ELSE f[n]]
  <2>6. Upto(h, k)
    <3>1. ASSUME NEW n \in 0..k PROVE h[n] = IF n = 0 THEN {} ELSE Grown(h[n - 1], AsLabels(allowed[n]))
      <4>1. CASE n = k
        BY <2>2, <2>3, <4>1
      <4>2. CASE n # k
        <5>1. n \in 0..(k - 1) /\ h[n] = f[n] /\ (n # 0 => n - 1 \in 0..k /\ n - 1 # k /\ h[n - 1] = f[n - 1])
          BY <2>2, <4>2
        <5>2. f[n] = IF n = 0 THEN {} ELSE Grown(f[n - 1], AsLabels(allowed[n]))
          BY <2>5, <5>1
        <5> QED
          BY <5>1, <5>2
      <4> QED
        BY <4>1, <4>2
    <3> QED
      BY <3>1
  <2> QED
    BY <2>2, <2>6
<1>2. PICK f : Roots(f, allowed)
  <2>1. Len(allowed) \in 0..Len(allowed)
    OBVIOUS
  <2>2. \E f : Upto(f, Len(allowed))
    BY <1>1, <2>1
  <2> QED
    BY <2>2 DEF Roots
<1>3. Roots(CHOOSE h : Roots(h, allowed), allowed)
  BY <1>2
<1>4. Root(allowed) = (CHOOSE h : Roots(h, allowed))[Len(allowed)]
  BY DEF Root, Roots
<1> QED
  BY <1>3, <1>4

\* A list of four labels is found if one of the scopes has one that matches it.
Grants(s, r) == \E i \in DOMAIN AsLabels(s) : Matches(AsLabels(s)[i], r)

LEMMA RootFinds ==
  ASSUME NEW allowed \in Seq(Scopes), \A i \in DOMAIN allowed : ScopeValid(allowed[i]),
         NEW r \in Seq(Labels), Len(r) = 4
  PROVE  Find(Root(allowed), r) <=> \E i \in DOMAIN allowed : Grants(allowed[i], r)
<1>0. r # <<>>
  <2>1. Len(<<>>) = 0 /\ 0 # 4
    OBVIOUS
  <2> QED
    BY <2>1, Zenon
<1>1. PICK f : Roots(f, allowed) /\ Root(allowed) = f[Len(allowed)]
  BY RootIs
<1> DEFINE Fine(n) ==
             /\ f[n] \in SUBSET Seq(Labels)
             /\ Find(f[n], r) <=> \E i \in 1..n : Grants(allowed[i], r)
           Wrong == {n \in 0..Len(allowed) : ~Fine(n)}
<1>2. f[0] = {} /\ \A n \in 1..Len(allowed) : f[n] = Grown(f[n - 1], AsLabels(allowed[n]))
  <2>1. f = [n \in 0..Len(allowed) |-> IF n = 0 THEN {} ELSE Grown(f[n - 1], AsLabels(allowed[n]))]
    BY <1>1 DEF Roots
  <2>2. \A n \in 0..Len(allowed) : f[n] = IF n = 0 THEN {} ELSE Grown(f[n - 1], AsLabels(allowed[n]))
    BY <2>1
  <2> QED
    BY <2>2
<1>3. Wrong = {}
  <2> SUFFICES ASSUME Wrong # {} PROVE FALSE
    OBVIOUS
  <2>1. PICK n \in Wrong : \A m \in Wrong : n <= m
    <3>1. Wrong \in SUBSET Nat
      OBVIOUS
    <3> HIDE DEF Wrong
    <3> QED
      BY <3>1, LeastOf
  <2>2. n \in 0..Len(allowed) /\ ~Fine(n)
    BY <2>1
  <2>3. n # 0
    <3>1. Fine(0)
      BY <1>2 DEF Find
    <3> QED
      BY <2>2, <3>1
  <2>4. n - 1 \in 0..Len(allowed) /\ n - 1 \notin Wrong /\ n \in 1..Len(allowed) /\ n \in DOMAIN allowed
    BY <2>1, <2>2, <2>3
  <2>5. Fine(n - 1)
    BY <2>4
  <2>6. AsLabels(allowed[n]) \in Lists(4)
    <3>1. allowed[n] \in Scopes /\ ScopeValid(allowed[n])
      BY <2>4
    <3> QED
      BY <3>1, LabelsAre
  <2>7. /\ AsLabels(allowed[n]) \in Seq(Seq(Labels)) /\ r # <<>>
        /\ \A i \in DOMAIN AsLabels(allowed[n]) : Len(AsLabels(allowed[n])[i]) = Len(r)
    BY <1>0, <2>6, Zenon DEF Lists
  <2>8. f[n] = Grown(f[n - 1], AsLabels(allowed[n])) /\ f[n - 1] \in SUBSET Seq(Labels)
    BY <1>2, <2>4, <2>5
  <2>9. /\ f[n] \in SUBSET Seq(Labels)
        /\ Find(f[n], r) <=> Find(f[n - 1], r) \/ Grants(allowed[n], r)
    BY <2>7, <2>8, GrownFinds DEF Grants
  <2>10. 1..n = (1..(n - 1)) \cup {n}
    BY <2>4
  <2>11. Find(f[n], r) <=> \E i \in 1..n : Grants(allowed[i], r)
    BY <2>5, <2>9, <2>10
  <2> QED
    BY <2>2, <2>9, <2>11
<1>4. Fine(Len(allowed))
  <2>1. Len(allowed) \in 0..Len(allowed)
    OBVIOUS
  <2> QED
    BY <1>3, <2>1
<1> QED
  BY <1>1, <1>4

\* The review computes what it is to compute (access.go:86-107, node.go:20-75): for
\* valid scopes, in any number and order, with any wildcards in them, all that is
\* requested is found exactly if each of it is granted by one of the scopes.
THEOREM MatchScopeIsExact ==
  ASSUME NEW allowed \in Seq(Scopes), \A i \in DOMAIN allowed : ScopeValid(allowed[i]),
         NEW requested \in Scopes, ScopeValid(requested)
  PROVE  MatchScope(allowed, requested) <=> Covers(allowed, requested)
<1> DEFINE R == AsLabels(requested)
<1>1. R \in Seq(Seq(Labels)) /\ \A j \in DOMAIN R : R[j] \in Seq(Labels) /\ Len(R[j]) = 4
  <2>1. R \in Lists(4)
    BY LabelsAre
  <2> HIDE DEF R
  <2> QED
    BY <2>1 DEF Lists
<1>2. ASSUME NEW i \in DOMAIN allowed, NEW r \in Seq(Labels), Len(r) = 4
      PROVE  Grants(allowed[i], r) <=> \E l \in Range(AsLabels(allowed[i])) : Len(l) >= Len(r) /\ Matches(l, r)
  <2>1. allowed[i] \in Scopes /\ ScopeValid(allowed[i])
    OBVIOUS
  <2>2. \A k \in DOMAIN AsLabels(allowed[i]) : Len(AsLabels(allowed[i])[k]) = 4
    BY <2>1, LabelsAre DEF Lists
  <2>3. 4 >= 4
    OBVIOUS
  <2>4. \A k \in DOMAIN AsLabels(allowed[i]) : Len(AsLabels(allowed[i])[k]) >= Len(r)
    BY <1>2, <2>2, <2>3, Zenon
  <2> QED
    BY <2>4, Zenon DEF Grants, Range
<1>3. ASSUME NEW j \in DOMAIN R
      PROVE  Find(Root(allowed), R[j]) <=>
               \E i \in DOMAIN allowed : \E l \in Range(AsLabels(allowed[i])) : Len(l) >= Len(R[j]) /\ Matches(l, R[j])
  <2>1. R[j] \in Seq(Labels) /\ Len(R[j]) = 4
    BY <1>1
  <2> HIDE DEF R
  <2>2. Find(Root(allowed), R[j]) <=> \E i \in DOMAIN allowed : Grants(allowed[i], R[j])
    BY <2>1, RootFinds
  <2> QED
    BY <1>2, <2>1, <2>2
<1>4. MatchScope(allowed, requested) <=> \A j \in DOMAIN R : Find(Root(allowed), R[j])
  BY DEF MatchScope
<1>5. Covers(allowed, requested) <=> \A j \in DOMAIN R :
        \E i \in DOMAIN allowed : \E l \in Range(AsLabels(allowed[i])) : Len(l) >= Len(R[j]) /\ Matches(l, R[j])
  BY DEF Covers, Range
<1> QED
  BY <1>3, <1>4, <1>5

-----------------------------------------------------------------------------
(***************************************************************************)
(* What run() says of its server when it returns, for every shutdown       *)
(* timeout, number of requests and bound on time.                          *)
(***************************************************************************)

(***************************************************************************)
(* A result that was waited for means that the listener has stopped: it    *)
(* can no longer fail, nor accept.  Without the second conjunct nothing    *)
(* keeps a listener from failing after a nil error.                        *)
(***************************************************************************)
Waited == result \in {"nil", "error"} => listen # "serving"
NilIsClean == result = "nil" => groupErr # "failed" /\ listen # "serving"
Inv == TypeOK /\ Waited /\ NilIsClean

LEMMA GroupErrorKeeps ==
  ASSUME NEW e \in {"closed", "failed", "expired"}, TypeOK, GroupError(e)
  PROVE  /\ groupErr' \in {"nil", "closed", "failed", "expired"}
         /\ groupErr' = "failed" => groupErr = "failed" \/ e = "failed"
  BY DEF TypeOK, GroupError

LEMMA InitInv == Init => Inv
  BY HttpServerAssumption DEF Init, Inv, TypeOK, Waited, NilIsClean

\* Type correctness: the state of run() stays well typed.
LEMMA TypeStep == TypeOK /\ [Next]_vars => TypeOK'
<1> SUFFICES ASSUME TypeOK, [Next]_vars PROVE TypeOK'
  OBVIOUS
<1> USE HttpServerAssumption
<1>1. CASE Tick
  BY <1>1 DEF Tick, TypeOK
<1>2. CASE Cancel
  BY <1>2 DEF Cancel, TypeOK
<1>3. CASE Request \/ Respond
  BY <1>3 DEF Request, Respond, TypeOK
<1>4. CASE ListenFails
  BY <1>4, GroupErrorKeeps DEF ListenFails, TypeOK
<1>5. CASE ListenClosed
  BY <1>5, GroupErrorKeeps DEF ListenClosed, TypeOK
<1>6. CASE ShutdownStarts \/ ShutdownDrained
  BY <1>6 DEF ShutdownStarts, ShutdownDrained, TypeOK
<1>7. CASE ShutdownExpires
  BY <1>7, GroupErrorKeeps DEF ShutdownExpires, TypeOK
<1>8. CASE Stop
  BY <1>8 DEF Stop, TypeOK
<1>9. CASE Return \/ GiveUp
  BY <1>9 DEF Return, GiveUp, TypeOK
<1>10. CASE Terminated \/ UNCHANGED vars
  BY <1>10 DEF Terminated, vars, TypeOK
<1> QED
  BY <1>1, <1>2, <1>3, <1>4, <1>5, <1>6, <1>7, <1>8, <1>9, <1>10 DEF Next

LEMMA ResultStep == Inv /\ [Next]_vars => Waited' /\ NilIsClean'
<1> SUFFICES ASSUME Inv, [Next]_vars PROVE Waited' /\ NilIsClean'
  OBVIOUS
<1> USE DEF Inv, Waited, NilIsClean
<1>1. CASE Tick \/ Cancel \/ Request \/ Respond \/ ShutdownStarts \/ ShutdownDrained \/ Stop
  BY <1>1 DEF Tick, Cancel, Request, Respond, ShutdownStarts, ShutdownDrained, Stop
\* A listener fails only while it accepts: no result was waited for.
<1>2. CASE ListenFails
  BY <1>2 DEF ListenFails, Accepting
<1>3. CASE ListenClosed
  BY <1>3, GroupErrorKeeps DEF ListenClosed
<1>4. CASE ShutdownExpires
  BY <1>4, GroupErrorKeeps DEF ShutdownExpires
<1>5. CASE Return
  BY <1>5 DEF Return, DoEnded
<1>6. CASE GiveUp
  BY <1>6 DEF GiveUp
<1>7. CASE Terminated \/ UNCHANGED vars
  BY <1>7 DEF Terminated, vars
<1> QED
  BY <1>1, <1>2, <1>3, <1>4, <1>5, <1>6, <1>7 DEF Next

\* What run() returns is true of its two goroutines (httpserver.go:197-203):
\* a failed listener is reported, and a result that was waited for means
\* that nothing is accepted any more.
THEOREM ResultIsSound == Spec => []ResultSound
<1>1. Inv /\ [Next]_vars => Inv'
  BY TypeStep, ResultStep DEF Inv
<1>2. Inv => ResultSound
  BY DEF Inv, Waited, NilIsClean, ResultSound, ListenErrorReported, ClosedOnReturn, Accepting
<1> QED
  BY InitInv, <1>1, <1>2, PTL DEF Spec

-----------------------------------------------------------------------------
(***************************************************************************)
(* One request on its way through the middleware, for any certificates,    *)
(* NPAs, headers and required scope.                                       *)
(***************************************************************************)

InGuards == {"certificate", "user", "npa", "oauth", "trust"}

\* Where the request is in its chain.
WayInv ==
  /\ chain \in Chains /\ at \in 0..Len(chain) /\ going \in {"in", "out", "done"}
  /\ going = "in" => at >= 1
  /\ going = "out" => at < Len(chain)
  /\ going = "done" => at = 0
  /\ raised \in BOOLEAN /\ ran \in BOOLEAN
  /\ going = "in" => raised = FALSE /\ ran = FALSE

LEMMA Places ==
  ASSUME chain \in Chains
  PROVE  /\ Len(chain) \in Nat /\ Len(chain) >= 1 /\ DOMAIN chain = 1..Len(chain)
         /\ chain[Len(chain)] = "handler"
         /\ \A i \in DOMAIN chain : chain[i] \in DOMAIN Place
         /\ \A j \in DOMAIN chain : \A i \in 1..(j - 1) : Place[chain[i]] < Place[chain[j]]
BY ChainsAssumption

\* No handler is in the chain twice, and the last one is the route's own.
LEMMA NoneTwice ==
  ASSUME chain \in Chains, NEW j \in DOMAIN chain
  PROVE  /\ \A i \in 1..(j - 1) : chain[i] # chain[j] /\ Place[chain[i]] < Place[chain[j]]
         /\ chain[j] # "handler" => j < Len(chain)
<1>1. ASSUME NEW i \in 1..(j - 1) PROVE Place[chain[i]] < Place[chain[j]] /\ chain[i] # chain[j]
  <2>1. Place[chain[i]] < Place[chain[j]] /\ chain[i] \in DOMAIN Place
    BY Places, <1>1
  <2>2. Place[chain[i]] \in Nat
    BY <2>1 DEF Place
  <2> QED
    BY <2>1, <2>2
<1>2. chain[j] # "handler" => j < Len(chain)
  BY Places
<1> QED
  BY <1>1, <1>2

\* The steps of the engine, by where they lead.
GoesOn == going = "in" /\ going' = "in" /\ at' = at + 1 /\ chain[at] # "handler"
TurnsBack == going = "in" /\ going' = "out" /\ at' = at - 1
Unwinds == going = "out" /\ at > 0 /\ going' = "out" /\ at' = at - 1
Refuses == going = "in" /\ going' = "out" /\ at' = at /\ chain[at] = "gzip"
Ends == going = "out" /\ at = 0 /\ going' = "done" /\ at' = at

LEMMA Ways ==
  ASSUME RequestNext
  PROVE  /\ GoesOn \/ TurnsBack \/ Unwinds \/ Refuses \/ Ends
         /\ UNCHANGED <<chain, options>>
<1> USE DEF Entering, Leaving, Onward, Back, TurnBack, GoesOn, TurnsBack, Unwinds, Refuses, Ends
<1>1. CASE Pass \/ GzipIn \/ Decompress \/ DecompressFails
  BY <1>1 DEF Pass, GzipIn, Decompress, DecompressFails
<1>2. CASE Certificate \/ User \/ Npa
  BY <1>2 DEF Certificate, User, Npa, SetTrust
<1>3. CASE Oauth \/ Trust
  BY <1>3 DEF Oauth, Trust
<1>4. CASE Handler
  BY <1>4 DEF Handler
<1>5. CASE Unwind \/ GzipOut \/ GzipLate
  BY <1>5 DEF Unwind, GzipOut, GzipLate
<1>6. CASE Count \/ Log \/ Recover \/ Answer
  BY <1>6 DEF Count, Log, Record, Recover, Answer
<1> QED
  BY <1>1, <1>2, <1>3, <1>4, <1>5, <1>6 DEF RequestNext

\* Only the handler panics, and only Recover makes an end of it.
LEMMA Panics ==
  ASSUME WayInv, RequestNext
  PROVE  /\ raised' \in BOOLEAN /\ ran' \in BOOLEAN
         /\ going' = "in" => raised' = FALSE /\ ran' = FALSE
         /\ Handler \/ ((raised' = raised \/ raised' = FALSE) /\ ran' = ran)
<1>1. CASE Handler
  BY <1>1 DEF Handler, TurnBack
<1>2. CASE ~Handler
  <2>1. (raised' = raised \/ raised' = FALSE) /\ ran' = ran
    BY <1>2 DEF RequestNext, Pass, GzipIn, Decompress, DecompressFails, Certificate, User, Npa, Oauth, Trust,
                Unwind, GzipOut, GzipLate, Count, Log, Record, Recover, Answer
  <2>2. going' = "in" => going = "in"
    BY Ways DEF GoesOn, TurnsBack, Unwinds, Refuses, Ends
  <2> QED
    BY <2>1, <2>2, Zenon DEF WayInv
<1> QED
  BY <1>1, <1>2

LEMMA WayStep ==
  ASSUME WayInv, [RequestNext]_requestVars
  PROVE  WayInv'
<1>1. CASE RequestNext
  <2>1. /\ chain' = chain /\ raised' \in BOOLEAN /\ ran' \in BOOLEAN
        /\ going' = "in" => raised' = FALSE /\ ran' = FALSE
    BY <1>1, Ways, Panics
  <2>2. Len(chain) \in Nat /\ Len(chain) >= 1 /\ chain[Len(chain)] = "handler"
    BY Places DEF WayInv
  <2>3. GoesOn \/ TurnsBack \/ Unwinds \/ Refuses \/ Ends
    BY <1>1, Ways
  <2>4. /\ at' \in 0..Len(chain) /\ going' \in {"in", "out", "done"}
        /\ going' = "in" => at' >= 1
        /\ going' = "out" => at' < Len(chain)
        /\ going' = "done" => at' = 0
    BY <2>2, <2>3 DEF WayInv, GoesOn, TurnsBack, Unwinds, Refuses, Ends
  <2> QED
    BY <2>1, <2>4 DEF WayInv
<1>2. CASE UNCHANGED requestVars
  BY <1>2 DEF requestVars, WayInv
<1> QED
  BY <1>1, <1>2

\* The bodies a response can have, piece by piece.
LEMMA PiecesTogether ==
  /\ <<>> \o <<"text">> = <<"text">> /\ <<>> \o <<"zip">> = <<"zip">>
  /\ <<>> \o <<"zip", "end">> = <<"zip", "end">> /\ <<"zip">> \o <<"end">> = <<"zip", "end">>
  /\ Append(<<>>, "end") = <<"end">> /\ Append(<<"zip">>, "end") = <<"zip", "end">>
<1> DEFINE S == {"text", "zip", "end"}
<1>1. /\ <<>> \in Seq(S) /\ <<"text">> \in Seq(S) /\ <<"zip">> \in Seq(S) /\ <<"end">> \in Seq(S)
      /\ <<"zip", "end">> \in Seq(S)
  OBVIOUS
<1>2. /\ <<>> \o <<"text">> = <<"text">> /\ <<>> \o <<"zip">> = <<"zip">>
      /\ <<>> \o <<"zip", "end">> = <<"zip", "end">>
  BY <1>1, ConcatEmptySeq
<1>3. <<"zip">> \o <<"end">> = <<"zip", "end">>
  <2> DEFINE t == <<"zip">> \o <<"end">>
  <2>1. /\ t \in Seq(S) /\ Len(t) = 2 /\ t[1] = "zip" /\ t[2] = "end"
    BY <1>1
  <2>2. Len(<<"zip", "end">>) = 2 /\ <<"zip", "end">>[1] = "zip" /\ <<"zip", "end">>[2] = "end"
    OBVIOUS
  <2> HIDE DEF t
  <2>3. \A i \in 1..Len(t) : t[i] = <<"zip", "end">>[i]
    BY <2>1, <2>2
  <2>4. t = <<"zip", "end">>
    BY <1>1, <2>1, <2>2, <2>3, SeqEqual
  <2> QED
    BY <2>4 DEF t
<1>4. Append(<<>>, "end") = <<"end">> /\ Append(<<"zip">>, "end") = <<"zip", "end">>
  <2>1. Append(<<>>, "end") = <<>> \o <<"end">> /\ Append(<<"zip">>, "end") = <<"zip">> \o <<"end">>
    BY <1>1, AppendIsConcat
  <2> QED
    BY <1>1, <1>3, <2>1, ConcatEmptySeq
<1> QED
  BY <1>2, <1>3, <1>4

\* A response without compression, one that is being compressed, and one that
\* has been.
Fields == {"status", "sent", "header", "encoding", "body"}
IsResponse(r) == DOMAIN r = Fields /\ r.sent \in BOOLEAN /\ r = [f \in Fields |-> r[f]]
Plain(r) ==
  r.header = "" /\ r.encoding = "" /\ r.body \in {<<>>, <<"text">>} /\ (r.body # <<>> => r.sent)
Zipping(r) ==
  /\ r.header = "gzip" /\ r.body \in {<<>>, <<"zip">>}
  /\ IF r.sent THEN r.encoding = "gzip" ELSE r.encoding = "" /\ r.body = <<>>
Zipped(r) == r.sent /\ r.header = "gzip" /\ r.encoding = "gzip" /\ r.body = <<"zip", "end">>

LEMMA StatusIsSet ==
  ASSUME NEW r, IsResponse(r), NEW s
  PROVE  /\ IsResponse(SetStatus(r, s)) /\ (r.sent => SetStatus(r, s) = r)
         /\ \A f \in Fields \ {"status"} : SetStatus(r, s)[f] = r[f]
BY DEF IsResponse, SetStatus, Fields

LEMMA HeaderIsWritten ==
  ASSUME NEW r, IsResponse(r)
  PROVE  /\ IsResponse(WriteHeaderNow(r)) /\ WriteHeaderNow(r).sent = TRUE
         /\ WriteHeaderNow(r).status = r.status /\ WriteHeaderNow(r).header = r.header
         /\ WriteHeaderNow(r).body = r.body
         /\ WriteHeaderNow(r).encoding = IF r.sent THEN r.encoding ELSE r.header
BY DEF IsResponse, WriteHeaderNow, Fields

LEMMA PiecesArePut ==
  ASSUME NEW r, IsResponse(r), NEW p
  PROVE  /\ IsResponse(Put(r, p)) /\ Put(r, p).sent = TRUE
         /\ Put(r, p).status = r.status /\ Put(r, p).header = r.header
         /\ Put(r, p).body = r.body \o p
         /\ Put(r, p).encoding = IF r.sent THEN r.encoding ELSE r.header
<1>1. Put(r, p) = [WriteHeaderNow(r) EXCEPT !.body = @ \o p]
  BY DEF Put
<1> QED
  <2> DEFINE w == WriteHeaderNow(r)
  <2>1. /\ IsResponse(w) /\ w.sent = TRUE /\ w.status = r.status /\ w.header = r.header /\ w.body = r.body
        /\ w.encoding = IF r.sent THEN r.encoding ELSE r.header
    BY HeaderIsWritten
  <2>2. Put(r, p) = [w EXCEPT !.body = w.body \o p]
    BY <1>1
  <2> HIDE DEF w
  <2> QED
    BY <2>1, <2>2 DEF IsResponse, Fields

\* An answer without a body leaves the response what it is; one that is there
\* is not changed.
LEMMA AbortKeeps ==
  ASSUME NEW r, IsResponse(r), NEW s
  PROVE  /\ IsResponse(AbortWithStatus(r, s)) /\ AbortWithStatus(r, s).sent = TRUE
         /\ (Plain(r) => Plain(AbortWithStatus(r, s))) /\ (Zipping(r) => Zipping(AbortWithStatus(r, s)))
         /\ (Zipped(r) => Zipped(AbortWithStatus(r, s)))
         /\ ~r.sent => AbortWithStatus(r, s).status = s
<1> DEFINE q == SetStatus(r, s)
<1>1. /\ IsResponse(q) /\ q.sent = r.sent /\ q.header = r.header /\ q.encoding = r.encoding /\ q.body = r.body
      /\ ~r.sent => q.status = s
  BY StatusIsSet DEF IsResponse, Fields, SetStatus
<1>2. AbortWithStatus(r, s) = WriteHeaderNow(q)
  BY DEF AbortWithStatus
<1> HIDE DEF q
<1>3. /\ IsResponse(WriteHeaderNow(q)) /\ WriteHeaderNow(q).sent = TRUE
      /\ WriteHeaderNow(q).status = q.status /\ WriteHeaderNow(q).header = r.header
      /\ WriteHeaderNow(q).body = r.body
      /\ WriteHeaderNow(q).encoding = IF r.sent THEN r.encoding ELSE r.header
  BY <1>1, HeaderIsWritten
<1> QED
  BY <1>1, <1>2, <1>3 DEF Plain, Zipping, Zipped

\* The first body is written by whoever compresses, if somebody does.
LEMMA PieceKeeps ==
  ASSUME NEW r, IsResponse(r), NEW p
  PROVE  /\ IsResponse(Put(r, p))
         /\ (Plain(r) /\ r.body \o p = <<"text">> => Plain(Put(r, p)))
         /\ (Zipping(r) /\ r.body \o p = <<"zip">> => Zipping(Put(r, p)))
<1> DEFINE w == Put(r, p)
<1>1. /\ IsResponse(w) /\ w.sent = TRUE
      /\ w.status = r.status /\ w.header = r.header
      /\ w.body = r.body \o p
      /\ w.encoding = IF r.sent THEN r.encoding ELSE r.header
  BY PiecesArePut, Zenon
<1> HIDE DEF w
<1>2. Plain(r) /\ r.body \o p = <<"text">> => Plain(w)
  BY <1>1 DEF Plain
<1>3. Zipping(r) /\ r.body \o p = <<"zip">> => Zipping(w)
  BY <1>1 DEF Zipping
<1> QED
  BY <1>1, <1>2, <1>3 DEF w

LEMMA WriteKeeps ==
  ASSUME NEW r, IsResponse(r), r.body = <<>>
  PROVE  /\ IsResponse(Write(r))
         /\ gz # "on" /\ Plain(r) => Plain(Write(r))
         /\ gz = "on" /\ Zipping(r) => Zipping(Write(r))
<1>1. Open(r) = <<"zip">>
  BY DEF Open, Range
<1>2. r.body \o <<"zip">> = <<"zip">> /\ r.body \o <<"text">> = <<"text">>
  BY PiecesTogether
<1>3. CASE gz = "on"
  BY <1>1, <1>2, <1>3, PieceKeeps, Zenon DEF Write
<1>4. CASE gz # "on"
  BY <1>2, <1>4, PieceKeeps, Zenon DEF Write
<1> QED
  BY <1>3, <1>4

LEMMA CloseEnds ==
  ASSUME NEW r, IsResponse(r), Zipping(r), r.sent
  PROVE  IsResponse(Close(r)) /\ Zipped(Close(r)) /\ Close(r).status = r.status
<1> DEFINE p == Append(Open(r), "end")
           w == Put(r, p)
<1>1. r.body \o p = <<"zip", "end">>
  <2>1. CASE r.body = <<>>
    <3>1. Open(r) = <<"zip">>
      BY <2>1 DEF Open, Range
    <3> QED
      BY <2>1, <3>1, PiecesTogether
  <2>2. CASE r.body = <<"zip">>
    <3>1. 1 \in DOMAIN <<"zip">> /\ <<"zip">>[1] = "zip"
      OBVIOUS
    <3>2. "zip" \in Range(<<"zip">>)
      BY <3>1 DEF Range
    <3>3. Open(r) = <<>>
      BY <2>2, <3>2 DEF Open
    <3> QED
      BY <2>2, <3>3, PiecesTogether
  <2> QED
    BY <2>1, <2>2 DEF Zipping
<1> HIDE DEF p
<1>2. /\ IsResponse(w) /\ w.sent = TRUE /\ w.status = r.status /\ w.header = r.header
      /\ w.body = <<"zip", "end">> /\ w.encoding = IF r.sent THEN r.encoding ELSE r.header
  BY <1>1, PiecesArePut
<1>3. Close(r) = w
  BY DEF Close, p
<1> HIDE DEF w
<1> QED
  BY <1>2, <1>3 DEF Zipping, Zipped

\* The response, as far as the gzip middleware has come with it.
BodyInv ==
  /\ IsResponse(response) /\ gz \in {"off", "inner", "on", "late"}
  /\ gz \in {"on", "inner"} => \E i \in 1..(IF going = "in" THEN at - 1 ELSE at) : chain[i] = "gzip"
  /\ going = "in" => response.sent = FALSE /\ response.body = <<>> /\ gz # "late"
  /\ gz = "on" => Zipping(response)
  /\ gz \in {"off", "inner"} => Plain(response) \/ Zipped(response)

LEMMA GzipStays ==
  ASSUME WayInv, BodyInv, RequestNext, gz' = gz, gz \in {"on", "inner"},
         ~(going = "out" /\ at > 0 /\ chain[at] = "gzip")
  PROVE  \E i \in 1..(IF going' = "in" THEN at' - 1 ELSE at') : chain'[i] = "gzip"
<1>1. PICK i \in 1..(IF going = "in" THEN at - 1 ELSE at) : chain[i] = "gzip"
  BY DEF BodyInv
<1>2. i \in 1..(IF going' = "in" THEN at' - 1 ELSE at')
  <2>1. at \in Nat /\ (going = "in" => at >= 1)
    BY Places DEF WayInv
  <2>2. CASE GoesOn \/ TurnsBack \/ Refuses
    BY <1>1, <2>1, <2>2 DEF GoesOn, TurnsBack, Refuses
  <2>3. CASE Unwinds
    BY <1>1, <2>1, <2>3 DEF Unwinds
  <2>4. CASE Ends
    BY <1>1, <2>1, <2>4 DEF Ends
  <2> QED
    BY <2>2, <2>3, <2>4, Ways
<1>3. chain' = chain
  BY Ways
<1> QED
  BY <1>1, <1>2, <1>3

LEMMA StatusKeeps ==
  ASSUME NEW r, IsResponse(r), NEW s
  PROVE  /\ IsResponse(SetStatus(r, s)) /\ SetStatus(r, s).body = r.body
         /\ (Plain(r) => Plain(SetStatus(r, s))) /\ (Zipping(r) => Zipping(SetStatus(r, s)))
         /\ (Zipped(r) => Zipped(SetStatus(r, s)))
<1> DEFINE q == SetStatus(r, s)
<1>1. IsResponse(q) /\ q.sent = r.sent /\ q.header = r.header /\ q.encoding = r.encoding /\ q.body = r.body
  BY StatusIsSet DEF IsResponse, Fields, SetStatus
<1> HIDE DEF q
<1>2. (Plain(r) => Plain(q)) /\ (Zipping(r) => Zipping(q)) /\ (Zipped(r) => Zipped(q))
  BY <1>1 DEF Plain, Zipping, Zipped
<1> QED
  BY <1>1, <1>2 DEF q

\* The steps that leave the gzip middleware what it is.
LEMMA BodyStays ==
  ASSUME WayInv, BodyInv, RequestNext, gz' = gz, ~(going = "out" /\ at > 0 /\ chain[at] = "gzip"),
         IsResponse(response'),
         gz # "on" /\ Plain(response) => Plain(response'),
         gz = "on" /\ Zipping(response) => Zipping(response'),
         going = "in" \/ (Zipped(response) => Zipped(response')),
         going' = "in" => response' = response
  PROVE  BodyInv'
<1>1. going' = "in" => going = "in"
  BY Ways DEF GoesOn, TurnsBack, Unwinds, Refuses, Ends
<1>2. going' = "in" => response'.sent = FALSE /\ response'.body = <<>> /\ gz' # "late"
  BY <1>1 DEF BodyInv
<1>3. gz \in {"off", "inner"} => Plain(response') \/ Zipped(response')
  BY DEF BodyInv, Zipped
<1>4. gz = "on" => Zipping(response')
  BY DEF BodyInv
<1>5. gz' \in {"on", "inner"} => \E i \in 1..(IF going' = "in" THEN at' - 1 ELSE at') : chain'[i] = "gzip"
  BY GzipStays
<1> QED
  BY <1>2, <1>3, <1>4, <1>5 DEF BodyInv

LEMMA BodyStep ==
  ASSUME WayInv, BodyInv, [RequestNext]_requestVars
  PROVE  BodyInv'
<1> USE DEF Entering, Leaving
<1>0. /\ at \in Nat /\ Len(chain) \in Nat /\ DOMAIN chain = 1..Len(chain)
      /\ going = "in" => at \in DOMAIN chain
      /\ IsResponse(response) /\ (going = "in" => response.sent = FALSE /\ response.body = <<>>)
  BY Places DEF WayInv, BodyInv
\* Entering the gzip middleware: nobody has been there.
<1>1. ASSUME Entering("gzip")
      PROVE  gz = "off" /\ Plain(response)
  <2>1. \A i \in 1..(at - 1) : chain[i] # "gzip"
    BY <1>0, <1>1, NoneTwice DEF WayInv
  <2> QED
    BY <1>0, <1>1, <2>1 DEF BodyInv, Zipped
<1>2. CASE Pass
  BY <1>2, BodyStays, <1>0 DEF RequestNext, Pass
<1>3. CASE GzipIn
  <2>1. gz = "off" /\ Plain(response)
    BY <1>1, <1>3 DEF GzipIn
  <2>2. /\ going' = "in" /\ at' = at + 1 /\ chain' = chain /\ chain[at] = "gzip" /\ going = "in"
    BY <1>3 DEF GzipIn, Onward
  <2>3. (gz' = "on" /\ response' = [response EXCEPT !.header = "gzip"]) \/ (gz' = "off" /\ response' = response)
    BY <1>3 DEF GzipIn
  <2>4. at \in 1..(at' - 1) /\ chain'[at] = "gzip"
    BY <1>0, <2>2
  <2>5. CASE gz' = "off" /\ response' = response
    BY <1>0, <2>1, <2>2, <2>5 DEF BodyInv
  <2>6. CASE gz' = "on" /\ response' = [response EXCEPT !.header = "gzip"]
    <3>1. /\ IsResponse(response') /\ response'.header = "gzip" /\ response'.sent = FALSE
          /\ response'.encoding = "" /\ response'.body = <<>>
      BY <1>0, <2>1, <2>2, <2>6 DEF IsResponse, Fields, Plain
    <3>2. Zipping(response')
      BY <3>1 DEF Zipping
    <3> QED
      BY <2>2, <2>4, <2>6, <3>1, <3>2 DEF BodyInv
  <2> QED
    BY <2>3, <2>5, <2>6
<1>4. CASE Decompress
  <2>1. gz = "off" /\ Plain(response)
    BY <1>1, <1>4 DEF Decompress
  <2>2. /\ going' = "in" /\ at' = at + 1 /\ chain' = chain /\ chain[at] = "gzip" /\ going = "in"
        /\ gz' = "inner" /\ response' = response
    BY <1>4 DEF Decompress, Onward
  <2>3. at \in 1..(at' - 1) /\ chain'[at] = "gzip"
    BY <1>0, <2>2
  <2> QED
    BY <1>0, <2>1, <2>2, <2>3 DEF BodyInv
<1>5. CASE DecompressFails
  <2>1. gz = "off" /\ Plain(response)
    BY <1>1, <1>5 DEF DecompressFails
  <2>2. /\ going' = "out" /\ at' = at /\ chain' = chain /\ chain[at] = "gzip" /\ going = "in" /\ gz' = "inner"
        /\ \E s : response' = AbortWithStatus(response, s)
    BY <1>5 DEF DecompressFails
  <2>3. IsResponse(response') /\ Plain(response')
    BY <1>0, <2>1, <2>2, AbortKeeps
  <2>4. at \in 1..at' /\ chain'[at] = "gzip"
    BY <1>0, <2>2
  <2> QED
    BY <2>2, <2>3, <2>4 DEF BodyInv
<1>6. CASE Certificate \/ User \/ Npa \/ Trust
  <2>1. /\ gz' = gz /\ going = "in"
        /\ response' = response \/ (going' = "out" /\ \E s : response' = AbortWithStatus(response, s))
    BY <1>6 DEF Certificate, User, Npa, Trust, SetTrust, TurnBack
  <2> QED
    BY <1>0, <1>6, <2>1, BodyStays, AbortKeeps DEF RequestNext
<1>7. CASE Oauth \/ Handler
  <2>1. /\ gz' = gz /\ going = "in"
        /\ \/ response' = response
           \/ going' = "out" /\ \E s : response' = Write(SetStatus(response, s)) \/ response' = SetStatus(response, s)
    BY <1>7 DEF Oauth, Handler, TurnBack
  <2>2. CASE response' = response
    BY <1>0, <1>7, <2>1, <2>2, BodyStays DEF RequestNext
  <2>3. CASE going' = "out" /\ \E s : response' = Write(SetStatus(response, s)) \/ response' = SetStatus(response, s)
    <3>1. PICK s : response' = Write(SetStatus(response, s)) \/ response' = SetStatus(response, s)
      BY <2>3
    <3> DEFINE q == SetStatus(response, s)
    <3>2. IsResponse(q) /\ q.body = <<>> /\ (Plain(response) => Plain(q)) /\ (Zipping(response) => Zipping(q))
      BY <1>0, <2>1, StatusKeeps
    <3> HIDE DEF q
    <3>3. /\ IsResponse(Write(q))
          /\ gz # "on" /\ Plain(q) => Plain(Write(q))
          /\ gz = "on" /\ Zipping(q) => Zipping(Write(q))
      BY <3>2, WriteKeeps, Zenon
    <3>4. response' = Write(q) \/ response' = q
      BY <3>1 DEF q
    <3>5. /\ IsResponse(response')
          /\ gz # "on" /\ Plain(response) => Plain(response')
          /\ gz = "on" /\ Zipping(response) => Zipping(response')
      BY <3>2, <3>3, <3>4
    <3> QED
      BY <1>7, <2>1, <2>3, <3>5, BodyStays DEF RequestNext
  <2> QED
    BY <2>1, <2>2, <2>3
<1>8. CASE Unwind \/ Count \/ Log
  BY <1>0, <1>8, BodyStays DEF RequestNext, Unwind, Count, Log, Record
<1>9. CASE GzipOut
  <2>1. going' = "out" /\ gz' = "off" /\ gz \in {"off", "on"}
    BY <1>9 DEF GzipOut, Back
  <2>2. IsResponse(response') /\ (Plain(response') \/ Zipped(response'))
    <3>1. CASE gz = "off"
      BY <1>0, <1>9, <3>1 DEF GzipOut, BodyInv
    <3>2. CASE gz = "on" /\ response.sent
      BY <1>0, <1>9, <3>2, CloseEnds DEF GzipOut, BodyInv
    <3>3. CASE gz = "on" /\ ~response.sent
      <4>1. response' = [response EXCEPT !.header = ""] /\ Zipping(response)
        BY <1>9, <3>3 DEF GzipOut, BodyInv
      <4> QED
        BY <1>0, <3>3, <4>1 DEF IsResponse, Fields, Zipping, Plain
    <3> QED
      BY <2>1, <3>1, <3>2, <3>3
  <2> QED
    BY <2>1, <2>2 DEF BodyInv
<1>10. CASE GzipLate
  <2>1. /\ going' = "out" /\ gz = "inner"
        /\ (gz' = "late" /\ response' = Close(response)) \/ (gz' = "off" /\ response' = response)
    BY <1>10 DEF GzipLate, Back
  <2>2. IsResponse(Close(response))
    BY <1>0, PiecesArePut DEF Close
  <2>3. IsResponse(response')
    BY <1>0, <2>1, <2>2
  <2>4. gz' = "off" => Plain(response') \/ Zipped(response')
    BY <2>1 DEF BodyInv
  <2>5. gz' \in {"late", "off"} /\ going' = "out"
    BY <2>1
  <2> QED
    BY <2>3, <2>4, <2>5 DEF BodyInv
<1>11. CASE Recover
  <2>1. gz' = gz /\ (response' = response \/ \E s : response' = AbortWithStatus(response, s)) /\ going' = "out"
    BY <1>11 DEF Recover, Back
  <2>2. chain[at] = "recovery" /\ RequestNext
    BY <1>11 DEF Recover, RequestNext
  <2>3. /\ IsResponse(response')
        /\ (Plain(response) => Plain(response')) /\ (Zipping(response) => Zipping(response'))
        /\ (Zipped(response) => Zipped(response'))
    <3>1. CASE response' = response
      BY <1>0, <3>1
    <3>2. CASE \E s : response' = AbortWithStatus(response, s)
      BY <1>0, <3>2, AbortKeeps
    <3> QED
      BY <2>1, <3>1, <3>2
  <2> QED
    BY <2>1, <2>2, <2>3, BodyStays
<1>12. CASE Answer
  <2>1. /\ gz' = gz /\ going' = "done" /\ going = "out" /\ at = 0
        /\ \/ response' = response \/ response' = WriteHeaderNow(response)
           \/ ~response.sent /\ response' = Put(response, <<"text">>)
    BY <1>12 DEF Answer
  <2>2. gz \notin {"on", "inner"}
    BY <2>1 DEF BodyInv
  <2>3. CASE response' = response
    BY <1>0, <1>12, <2>1, <2>3, BodyStays DEF RequestNext
  <2>4. CASE response' = WriteHeaderNow(response)
    <3>1. /\ IsResponse(response') /\ response'.sent = TRUE
          /\ response'.status = response.status /\ response'.header = response.header
          /\ response'.body = response.body
          /\ response'.encoding = IF response.sent THEN response.encoding ELSE response.header
      BY <1>0, <2>4, HeaderIsWritten
    <3>2. (Plain(response) => Plain(response')) /\ (Zipped(response) => Zipped(response'))
      BY <3>1 DEF Plain, Zipped
    <3> QED
      BY <1>12, <2>1, <2>2, <3>1, <3>2, BodyStays DEF RequestNext
  <2>5. CASE ~response.sent /\ response' = Put(response, <<"text">>)
    <3>1. Plain(response) => response.body \o <<"text">> = <<"text">>
      BY <2>5, PiecesTogether DEF Plain
    <3>2. IsResponse(response') /\ (Plain(response) => Plain(response'))
      BY <1>0, <2>5, <3>1, PieceKeeps, Zenon
    <3>3. ~Zipped(response)
      BY <2>5 DEF Zipped
    <3> QED
      BY <1>12, <2>1, <2>2, <3>2, <3>3, BodyStays DEF RequestNext
  <2> QED
    BY <2>1, <2>3, <2>4, <2>5
<1>13. CASE UNCHANGED requestVars
  BY <1>13 DEF requestVars, BodyInv
<1> QED
  BY <1>2, <1>3, <1>4, <1>5, <1>6, <1>7, <1>8, <1>9, <1>10, <1>11, <1>12, <1>13 DEF RequestNext

-----------------------------------------------------------------------------

\* What has been counted and logged is settled once it is written down.
RecordedInv ==
  /\ DOMAIN recorded = {"metrics", "logger"}
  /\ going = "in" => \A m \in DOMAIN recorded : recorded[m] = 0
  /\ \A m \in DOMAIN recorded : recorded[m] = 0 \/ (recorded[m] = response.status /\ raised = FALSE)

LEMMA RecordedStep ==
  ASSUME WayInv, BodyInv, RecordedInv, [RequestNext]_requestVars
  PROVE  RecordedInv'
<1>0. /\ (going' = "in" => going = "in")
      /\ IsResponse(response)
  <2>1. RequestNext => (going' = "in" => going = "in")
    BY Ways DEF GoesOn, TurnsBack, Unwinds, Refuses, Ends
  <2> QED
    BY <2>1 DEF requestVars, BodyInv
\* On the way in nothing is written down.
<1>1. ASSUME going = "in", recorded' = recorded PROVE RecordedInv'
  BY <1>1 DEF RecordedInv
<1>2. ASSUME recorded' = recorded, response'.status = response.status, raised' = raised \/ raised' = FALSE
      PROVE  RecordedInv'
  BY <1>0, <1>2 DEF RecordedInv
<1>3. CASE Pass \/ GzipIn \/ Decompress \/ DecompressFails \/ Certificate \/ User \/ Npa \/ Oauth \/ Trust \/ Handler
  BY <1>1, <1>3 DEF Pass, GzipIn, Decompress, DecompressFails, Certificate, User, Npa, Oauth, Trust, Handler, Entering
<1>4. CASE Unwind
  BY <1>2, <1>4 DEF Unwind
<1>5. CASE GzipOut \/ GzipLate
  <2>1. recorded' = recorded /\ raised' = raised
    BY <1>5 DEF GzipOut, GzipLate
  <2>2. response' = response \/ response' = Close(response) \/ response' = [response EXCEPT !.header = ""]
    BY <1>5 DEF GzipOut, GzipLate
  <2>3. Close(response).status = response.status
    BY <1>0, PiecesArePut DEF Close
  <2>4. response'.status = response.status
    BY <1>0, <2>2, <2>3 DEF IsResponse, Fields
  <2> QED
    BY <1>2, <2>1, <2>4
<1>6. CASE Count \/ Log
  <2>1. PICK m \in {"metrics", "logger"} : Record(m)
    BY <1>6 DEF Count, Log
  <2>2. response' = response /\ raised' = raised /\ going' = "out"
    BY <2>1 DEF Record, Back, Leaving
  <2>3. \/ recorded' = recorded
        \/ recorded' = [recorded EXCEPT ![m] = response.status] /\ ~raised
    BY <2>1 DEF Record
  <2> QED
    BY <2>2, <2>3 DEF RecordedInv, WayInv
<1>7. CASE Recover
  <2>1. recorded' = recorded /\ raised' = FALSE
    BY <1>7 DEF Recover
  <2>2. CASE raised
    BY <1>0, <2>1, <2>2, <1>7 DEF RecordedInv, Recover, Back, Leaving
  <2>3. CASE ~raised
    BY <1>2, <1>7, <2>1, <2>3 DEF Recover
  <2> QED
    BY <2>2, <2>3
<1>8. CASE Answer
  <2>1. recorded' = recorded /\ raised' = raised
    BY <1>8 DEF Answer
  <2>2. response' = response \/ response' = WriteHeaderNow(response) \/ response' = Put(response, <<"text">>)
    BY <1>8 DEF Answer
  <2>4. \A p : Put(response, p).status = response.status
    BY <1>0, PiecesArePut
  <2>5. WriteHeaderNow(response).status = response.status
    BY <1>0, HeaderIsWritten
  <2>3. response'.status = response.status
    BY <2>2, <2>4, <2>5
  <2> QED
    BY <1>2, <2>1, <2>3
<1>9. CASE UNCHANGED requestVars
  BY <1>9 DEF requestVars, RecordedInv
<1> QED
  BY <1>3, <1>4, <1>5, <1>6, <1>7, <1>8, <1>9 DEF RequestNext

\* The body of an answer is one that its header announces, and the status that
\* was counted and logged is the one that is sent, whatever the handlers in
\* front did and whether somebody panicked (gzip/handler.go:63, metrics.go:91).
LEMMA AnswerIsSound == WayInv /\ BodyInv /\ RecordedInv => AnswerSound
<1> SUFFICES ASSUME WayInv, BodyInv, RecordedInv PROVE BodyDecodes /\ RecordedAsSent
  BY DEF AnswerSound
<1>1. RecordedAsSent
  BY DEF RecordedInv, RecordedAsSent
<1>2. ASSUME going = "done", response.sent, gz # "late"
      PROVE  response.body \in IF response.encoding = "gzip" THEN {<<"zip", "end">>} ELSE {<<>>, <<"text">>}
  <2>1. gz = "off"
    BY <1>2 DEF WayInv, BodyInv
  <2> QED
    BY <2>1 DEF BodyInv, Plain, Zipped
<1> QED
  BY <1>1, <1>2 DEF BodyDecodes

-----------------------------------------------------------------------------

\* Handler m stands before the n-th one of chain c.
Before(c, n, m) == \E i \in 1..(n - 1) : c[i] = m

NpaNames == {AllowedNPAs[i].name : i \in DOMAIN AllowedNPAs}

\* The account of request q behind those of the authenticators that have run.
AccountOf(cert, npa, q) ==
  IF npa /\ q.npa \in NpaNames THEN Account("NPA", AllowedNPAs[Max(Lookup(q.npa))].scopes)
  ELSE IF q.named THEN Account("User", ParseUserHeader(q.teams))
  ELSE IF cert THEN Account("Certificate", MatchCertificate(q.names).scopes)
  ELSE NoTrust

Suffices(a) == ScopeValid(Required) /\ MatchScope(a.scopes, Required)

RequestFields == {"names", "named", "teams", "npa", "session", "health"}

\* What the handlers that request q has passed have found out about it.
Passed(c, n, o, q, w) ==
  /\ Before(c, n, "certificate") => Matching(q.names) # {}
  /\ Before(c, n, "oauth") => q.session \/ (o.bypass /\ q.health)
  /\ Before(c, n, "trust") => Suffices(w)
  /\ ~Before(c, n, "user") => ~q.named
  /\ w = AccountOf(Before(c, n, "certificate"), Before(c, n, "npa"), q)

IsRequest(q) == q = [f \in RequestFields |-> q[f]]
PassedInv == IsRequest(request) /\ (going = "in" => Passed(chain, at, options, request, who))

\* What is known once the handler at the end of chain c has run, or has been
\* refused.
RanWith(c, o, q, w) ==
  /\ "certificate" \in Range(c) => Matching(q.names) # {}
  /\ "oauth" \in Range(c) => q.session \/ (o.bypass /\ q.health)
  /\ "trust" \in Range(c) => Suffices(w)
  /\ w = AccountOf("certificate" \in Range(c), "npa" \in Range(c), q)

RanInv ==
  /\ ran => RanWith(chain, options, request, who)
  /\ going = "out" /\ ~ran /\ at > 0 => chain[at] # "trust"
  /\ going = "out" /\ ~ran /\ chain[at + 1] = "trust" /\ response.status = 401 => ~Suffices(who)

\* Nothing that comes later in the order has been passed.
LEMMA NotBefore ==
  ASSUME chain \in Chains, NEW n \in DOMAIN chain, NEW m \in DOMAIN Place, Place[m] >= Place[chain[n]]
  PROVE  ~Before(chain, n, m)
<1>1. \A i \in 1..(n - 1) : Place[chain[i]] < Place[chain[n]]
  BY NoneTwice
<1>2. Place[m] \in Nat /\ Place[chain[n]] \in Nat
  BY Places DEF Place
<1> QED
  BY <1>1, <1>2 DEF Before

\* What a step onward adds to what has been passed.
LEMMA OneMoreBefore ==
  ASSUME chain \in Chains, NEW n \in DOMAIN chain, NEW m
  PROVE  Before(chain, n + 1, m) <=> Before(chain, n, m) \/ chain[n] = m
<1>1. n \in Nat /\ n >= 1 /\ 1..((n + 1) - 1) = (1..(n - 1)) \cup {n}
  BY Places
<1> QED
  BY <1>1 DEF Before

\* Before the route's own handler comes all the rest.
LEMMA AllBefore ==
  ASSUME chain \in Chains, NEW n \in DOMAIN chain, chain[n] = "handler", NEW m, m # "handler"
  PROVE  Before(chain, n, m) <=> m \in Range(chain)
<1>1. n = Len(chain) /\ DOMAIN chain = 1..Len(chain) /\ Len(chain) \in Nat
  <2>1. n < Len(chain) => chain[n] # chain[Len(chain)]
    BY Places, NoneTwice
  <2> QED
    BY <2>1, Places
<1>2. DOMAIN chain = (1..(n - 1)) \cup {n}
  BY <1>1
<1> QED
  BY <1>2 DEF Before, Range

\* One handler after the other: what it adds to what has been found out.
LEMMA PassOne ==
  ASSUME chain \in Chains, NEW n \in DOMAIN chain, NEW o, NEW q, IsRequest(q), NEW w,
         Passed(chain, n, o, q, w), NEW r, IsRequest(r), r.health = q.health, NEW v,
         chain[n] # "certificate" => r.names = q.names,
         chain[n] # "oauth" => r.session = q.session,
         chain[n] # "user" => r.named = q.named /\ r.teams = q.teams,
         chain[n] # "npa" => r.npa = q.npa,
         chain[n] = "certificate" =>
           Matching(r.names) # {} /\ v = Account("Certificate", MatchCertificate(r.names).scopes),
         chain[n] = "user" => v = IF r.named THEN Account("User", ParseUserHeader(r.teams)) ELSE w,
         chain[n] = "npa" => v = IF r.npa \in NpaNames THEN Account("NPA", AllowedNPAs[Max(Lookup(r.npa))].scopes) ELSE w,
         chain[n] = "oauth" => r.session \/ (o.bypass /\ q.health),
         chain[n] = "trust" => Suffices(v),
         chain[n] \notin {"certificate", "user", "npa"} => v = w
  PROVE  Passed(chain, n + 1, o, r, v)
<1> DEFINE m == chain[n]
           B(x) == Before(chain, n, x)
           C(x) == Before(chain, n + 1, x)
<1>1. \A x : C(x) <=> B(x) \/ m = x
  BY OneMoreBefore
<1>2. m \in DOMAIN Place
  BY Places
<1>3. \A x \in DOMAIN Place : Place[x] >= Place[m] => ~B(x)
  BY NotBefore
<1>4. /\ m = "certificate" => ~B("user") /\ ~B("npa") /\ ~B("trust") /\ ~B("oauth") /\ ~B("certificate")
      /\ m = "user" => ~B("user") /\ ~B("npa") /\ ~B("trust") /\ ~B("oauth")
      /\ m = "npa" => ~B("npa") /\ ~B("trust") /\ ~B("oauth")
  BY <1>3 DEF Place
<1>5. /\ B("certificate") => Matching(q.names) # {}
      /\ B("oauth") => q.session \/ (o.bypass /\ q.health)
      /\ B("trust") => Suffices(w)
      /\ ~B("user") => ~q.named
      /\ w = AccountOf(B("certificate"), B("npa"), q)
  BY DEF Passed
<1> HIDE DEF B, C
<1>6. C("certificate") => Matching(r.names) # {}
  BY <1>1, <1>5
<1>7. C("oauth") => r.session \/ (o.bypass /\ r.health)
  BY <1>1, <1>5
<1>8. C("trust") => Suffices(v)
  BY <1>1, <1>4, <1>5
<1>9. ~C("user") => ~r.named
  BY <1>1, <1>5
<1>10. v = AccountOf(C("certificate"), C("npa"), r)
  <2>1. CASE m = "certificate"
    BY <1>1, <1>4, <1>5, <2>1 DEF AccountOf
  <2>2. CASE m = "user"
    BY <1>1, <1>4, <1>5, <2>2 DEF AccountOf
  <2>3. CASE m = "npa"
    BY <1>1, <1>4, <1>5, <2>3 DEF AccountOf
  <2>4. CASE m \notin {"certificate", "user", "npa"}
    BY <1>1, <1>5, <2>4 DEF AccountOf
  <2> QED
    BY <2>1, <2>2, <2>3, <2>4
<1> QED
  BY <1>6, <1>7, <1>8, <1>9, <1>10 DEF Passed, C

LEMMA PassedStep ==
  ASSUME WayInv, PassedInv, [RequestNext]_requestVars
  PROVE  PassedInv'
<1> USE DEF Entering
<1>1. ASSUME going' # "in", IsRequest(request')
      PROVE  PassedInv'
  BY <1>1 DEF PassedInv
<1>2. CASE UNCHANGED requestVars
  BY <1>2 DEF requestVars, PassedInv
<1> SUFFICES ASSUME RequestNext PROVE PassedInv'
  BY <1>2
<1>3. UNCHANGED <<chain, options>> /\ IsRequest(request) /\ chain \in Chains
  BY Ways DEF PassedInv, WayInv
<1>4. CASE going = "in"
  <2>1. at \in DOMAIN chain /\ Passed(chain, at, options, request, who)
    BY <1>4, Places DEF WayInv, PassedInv
  <2>2. going' = "in" => at' = at + 1
    BY Ways DEF GoesOn, TurnsBack, Unwinds, Refuses, Ends
  <2>3. SUFFICES IsRequest(request') /\ (going' = "in" => Passed(chain, at + 1, options, request', who'))
    BY <1>3, <2>2 DEF PassedInv
  <2>4. CASE Pass \/ GzipIn \/ Decompress \/ DecompressFails
    <3>1. UNCHANGED <<request, who>> /\ chain[at] \in {"recovery", "metrics", "logger", "gzip"}
      BY <2>4 DEF Pass, GzipIn, Decompress, DecompressFails
    <3> QED
      BY <1>3, <2>1, <3>1, PassOne
  <2>5. CASE Certificate
    <3>1. PICK names \in SUBSET Names : request' = [request EXCEPT !.names = names]
                                       /\ (going' = "in" => Matching(names) # {} /\ who' = Account("Certificate", MatchCertificate(names).scopes))
      BY <2>5 DEF Certificate, SetTrust, TurnBack
    <3>2. chain[at] = "certificate"
      BY <2>5 DEF Certificate
    <3>3. /\ IsRequest(request') /\ request'.names = names /\ request'.health = request.health
          /\ request'.session = request.session /\ request'.npa = request.npa
          /\ request'.named = request.named /\ request'.teams = request.teams
      BY <1>3, <3>1 DEF IsRequest, RequestFields
    <3> QED
      BY <1>3, <2>1, <3>1, <3>2, <3>3, PassOne
  <2>6. CASE User
    <3>1. chain[at] = "user"
      BY <2>6 DEF User
    <3>2. CASE UNCHANGED <<request, who>>
      <4>1. ~request.named
        <5>1. ~Before(chain, at, "user")
          BY <1>3, <2>1, <3>1, NotBefore DEF Place
        <5> QED
          BY <2>1, <5>1 DEF Passed
      <4> QED
        BY <1>3, <2>1, <3>1, <3>2, <4>1, PassOne
    <3>3. ASSUME NEW teams \in TeamHeaders, request' = [request EXCEPT !.named = TRUE, !.teams = teams],
                 going' = "in" => who' = Account("User", ParseUserHeader(teams))
          PROVE  IsRequest(request') /\ (going' = "in" => Passed(chain, at + 1, options, request', who'))
      <4>1. /\ IsRequest(request') /\ request'.named /\ request'.teams = teams /\ request'.health = request.health
            /\ request'.session = request.session /\ request'.names = request.names /\ request'.npa = request.npa
        BY <1>3, <3>3 DEF IsRequest, RequestFields
      <4> QED
        BY <1>3, <2>1, <3>1, <3>3, <4>1, PassOne
    <3> QED
      BY <2>6, <3>2, <3>3 DEF User, SetTrust, TurnBack
  <2>7. CASE Npa
    <3>1. PICK name \in Names \cup {""} : request' = [request EXCEPT !.npa = name]
             /\ (going' = "in" => who' = IF Lookup(name) = {} THEN who ELSE Account("NPA", AllowedNPAs[Max(Lookup(name))].scopes))
      BY <2>7 DEF Npa, SetTrust, TurnBack
    <3>2. chain[at] = "npa"
      BY <2>7 DEF Npa
    <3>3. /\ IsRequest(request') /\ request'.npa = name /\ request'.health = request.health
          /\ request'.session = request.session /\ request'.names = request.names
          /\ request'.named = request.named /\ request'.teams = request.teams
      BY <1>3, <3>1 DEF IsRequest, RequestFields
    <3>4. Lookup(name) = {} <=> name \notin NpaNames
      BY DEF Lookup, NpaNames
    <3> QED
      BY <1>3, <2>1, <3>1, <3>2, <3>3, <3>4, PassOne
  <2>8. CASE Oauth
    <3>1. PICK valid \in BOOLEAN : request' = [request EXCEPT !.session = valid] /\ (going' = "in" => valid \/ Bypassed)
      BY <2>8 DEF Oauth, TurnBack
    <3>2. chain[at] = "oauth" /\ who' = who
      BY <2>8 DEF Oauth
    <3>3. /\ IsRequest(request') /\ request'.session = valid /\ request'.health = request.health
          /\ request'.npa = request.npa /\ request'.names = request.names
          /\ request'.named = request.named /\ request'.teams = request.teams
      BY <1>3, <3>1 DEF IsRequest, RequestFields
    <3> QED
      BY <1>3, <2>1, <3>1, <3>2, <3>3, PassOne DEF Bypassed
  <2>9. CASE Trust
    <3>1. UNCHANGED <<request, who>> /\ chain[at] = "trust" /\ (going' = "in" => Suffices(who'))
      BY <2>9 DEF Trust, TurnBack, Suffices
    <3> QED
      BY <1>3, <2>1, <3>1, PassOne
  <2>10. CASE Handler
    BY <1>3, <2>10 DEF Handler, TurnBack
  <2>11. ~(Unwind \/ GzipOut \/ GzipLate \/ Count \/ Log \/ Recover \/ Answer)
    BY <1>4 DEF Unwind, GzipOut, GzipLate, Count, Log, Record, Recover, Answer, Leaving
  <2> QED
    BY <2>4, <2>5, <2>6, <2>7, <2>8, <2>9, <2>10, <2>11 DEF RequestNext
<1>5. CASE going # "in"
  <2>1. going' # "in"
    BY <1>5, Ways DEF GoesOn, TurnsBack, Unwinds, Refuses, Ends
  <2>2. request' = request
    BY <1>5 DEF RequestNext, Pass, GzipIn, Decompress, DecompressFails, Certificate, User, Npa, Oauth, Trust, Handler,
                Unwind, GzipOut, GzipLate, Count, Log, Record, Recover, Answer
  <2> QED
    BY <1>1, <1>3, <2>1, <2>2
<1> QED
  BY <1>4, <1>5

LEMMA RanStep ==
  ASSUME WayInv, BodyInv, PassedInv, RanInv, [RequestNext]_requestVars
  PROVE  RanInv'
<1> USE DEF Entering, Leaving
<1>1. CASE UNCHANGED requestVars
  <2>1. UNCHANGED <<chain, options, at, going, request, who, ran, response>>
    BY <1>1 DEF requestVars
  <2> QED
    BY <2>1 DEF RanInv
<1> SUFFICES ASSUME RequestNext PROVE RanInv'
  BY <1>1
<1>2. /\ UNCHANGED <<chain, options>> /\ chain \in Chains
      /\ at \in Nat /\ Len(chain) \in Nat /\ DOMAIN chain = 1..Len(chain)
  BY Ways, Places DEF WayInv
\* The handler: all the others have been passed.
<1>3. CASE Handler
  <2>1. /\ chain[at] = "handler" /\ going = "in" /\ ran' = TRUE /\ going' = "out"
        /\ UNCHANGED <<request, who>>
    BY <1>3 DEF Handler, TurnBack
  <2>2. at \in DOMAIN chain
    BY <1>2, <2>1 DEF WayInv
  <2>3. \A m : m # "handler" => (Before(chain, at, m) <=> m \in Range(chain))
    BY <1>2, <2>1, <2>2, AllBefore
  <2>4. Passed(chain, at, options, request, who)
    BY <2>1 DEF PassedInv
  <2>5. RanWith(chain, options, request, who)
    <3>1. /\ Before(chain, at, "certificate") = ("certificate" \in Range(chain))
          /\ Before(chain, at, "oauth") = ("oauth" \in Range(chain))
          /\ Before(chain, at, "trust") = ("trust" \in Range(chain))
          /\ Before(chain, at, "npa") = ("npa" \in Range(chain))
      <4>1. \A m : Before(chain, at, m) \in BOOLEAN
        BY DEF Before
      <4> QED
        BY <2>3, <4>1
    <3> QED
      BY <2>4, <3>1 DEF Passed, RanWith
  <2> QED
    BY <1>2, <2>1, <2>5 DEF RanInv
<1>4. CASE ~Handler
  <2>1. ran' = ran /\ (ran => going # "in") /\ ran \in BOOLEAN
    BY <1>4, Panics DEF WayInv
  <2>2. going # "in" => UNCHANGED <<request, who>>
    BY DEF RequestNext, Pass, GzipIn, Decompress, DecompressFails, Certificate, User, Npa, Oauth, Trust, Handler,
           Unwind, GzipOut, GzipLate, Count, Log, Record, Recover, Answer
  <2>3. ran' => RanWith(chain', options', request', who')
    BY <1>2, <2>1, <2>2 DEF RanInv
  <2>4. ASSUME ~ran', going' = "out"
        PROVE  /\ at' > 0 => chain[at'] # "trust"
               /\ chain[at' + 1] = "trust" /\ response'.status = 401 => ~Suffices(who')
    <3> SUFFICES ASSUME ~ran, going' = "out"
                 PROVE  /\ at' > 0 => chain[at'] # "trust"
                        /\ chain[at' + 1] = "trust" /\ response'.status = 401 => ~Suffices(who')
      BY <2>1, <2>4
    <3>1. ASSUME at \in DOMAIN chain, at' = at - 1, at' > 0, chain[at] # "handler"
          PROVE  chain[at'] # "trust"
      <4>1. Place[chain[at']] < Place[chain[at]] /\ chain[at] \in DOMAIN Place
        BY <1>2, <3>1, Places
      <4> QED
        BY <3>1, <4>1 DEF Place
    <3>2. CASE TurnsBack
      <4>1. at \in DOMAIN chain /\ at' = at - 1 /\ at' + 1 = at /\ going = "in"
        BY <1>2, <3>2 DEF TurnsBack, WayInv
      <4>2. chain[at] # "handler"
        BY <1>4, <4>1, <3>2 DEF RequestNext, Pass, GzipIn, Decompress, DecompressFails, Certificate, User, Npa, Oauth, Trust,
              Unwind, GzipOut, GzipLate, Count, Log, Record, Recover, Answer
      <4>3. chain[at] = "trust" => Trust
        BY <1>4, <4>1, <3>2 DEF RequestNext, Pass, GzipIn, Decompress, DecompressFails, Certificate, User, Npa, Oauth,
              Unwind, GzipOut, GzipLate, Count, Log, Record, Recover, Answer
      <4>4. Trust => ~Suffices(who')
        BY <3>2 DEF Trust, Suffices, Onward, TurnsBack
      <4> QED
        BY <3>1, <4>1, <4>2, <4>3, <4>4
    <3>3. CASE Unwinds
      <4>1. at \in DOMAIN chain /\ at' = at - 1 /\ at' + 1 = at /\ going = "out"
        BY <1>2, <3>3 DEF Unwinds, WayInv
      <4>2. chain[at] # "handler"
        BY <1>4, <4>1, <3>3 DEF RequestNext, Pass, GzipIn, Decompress, DecompressFails, Certificate, User, Npa, Oauth, Trust,
              Unwind, GzipOut, GzipLate, Count, Log, Record, Recover, Answer, Unwinds
      <4>3. chain[at] # "trust"
        BY <3>3 DEF RanInv, Unwinds
      <4> QED
        BY <3>1, <4>1, <4>2, <4>3
    <3>4. CASE Refuses
      <4>1. chain[at] = "gzip" /\ at' = at /\ DecompressFails
        BY <1>2, <1>4, <3>4 DEF Onward, TurnBack, SetTrust, Refuses, RequestNext, Pass, GzipIn, Decompress, Certificate, User, Npa, Oauth, Trust,
              Unwind, GzipOut, GzipLate, Count, Log, Record, Recover, Answer
      <4>2. PICK s : response' = AbortWithStatus(response, s) /\ s # 401
        BY <4>1 DEF DecompressFails
      <4>3. IsResponse(response) /\ ~response.sent
        BY <3>4 DEF Refuses, BodyInv
      <4>4. response'.status = s
        BY <4>2, <4>3, AbortKeeps
      <4> QED
        BY <4>1, <4>2, <4>4
    <3> QED
      BY <3>2, <3>3, <3>4, Ways DEF GoesOn, Ends
  <2> QED
    BY <1>2, <2>3, <2>4, Zenon DEF RanInv
<1> QED
  BY <1>3, <1>4

LEMMA RequestStarts == RequestInit => WayInv /\ BodyInv /\ RecordedInv /\ PassedInv /\ RanInv
<1> SUFFICES ASSUME RequestInit PROVE WayInv /\ BodyInv /\ RecordedInv /\ PassedInv /\ RanInv
  OBVIOUS
<1>1. WayInv
  <2>1. chain \in Chains
    BY DEF RequestInit
  <2>2. Len(chain) \in Nat /\ Len(chain) >= 1
    BY <2>1, Places
  <2>3. going = "in" /\ raised = FALSE /\ ran = FALSE /\ at = 1
    BY DEF RequestInit
  <2>4. at \in 0..Len(chain) /\ at >= 1
    BY <2>2, <2>3
  <2> QED
    BY <2>1, <2>3, <2>4, Zenon DEF WayInv
<1>2. BodyInv
  BY DEF RequestInit, NoResponse, BodyInv, IsResponse, Fields, Plain
<1>3. RecordedInv
  BY DEF RequestInit, RecordedInv
<1>4. PassedInv
  <2>1. IsRequest(request) /\ ~request.named
    BY DEF RequestInit, Unseen, IsRequest, RequestFields
  <2>2. \A m : ~Before(chain, at, m)
    BY DEF RequestInit, Before
  <2>3. who = AccountOf(FALSE, FALSE, request)
    BY <2>1 DEF RequestInit, AccountOf
  <2>4. Before(chain, at, "certificate") = FALSE /\ Before(chain, at, "npa") = FALSE
    BY <2>2 DEF Before
  <2> QED
    BY <2>1, <2>2, <2>3, <2>4 DEF PassedInv, Passed
<1>5. RanInv
  BY DEF RequestInit, RanInv
<1> QED
  BY <1>1, <1>2, <1>3, <1>4, <1>5

LEMMA RequestKeeps ==
  ASSUME WayInv, BodyInv, RecordedInv, PassedInv, RanInv, [RequestNext]_requestVars
  PROVE  (WayInv /\ BodyInv /\ RecordedInv /\ PassedInv /\ RanInv)'
BY WayStep, BodyStep, RecordedStep, PassedStep, RanStep

THEOREM AnswersAreSound == RequestSpec => []AnswerSound
BY RequestStarts, RequestKeeps, AnswerIsSound, PTL DEF RequestSpec

\* Who the request is, and whether the trust middleware let it pass.
Reviewed ==
  /\ ran /\ On("trust") => Suffices(Known)
  /\ going = "out" /\ chain[at + 1] = "trust" /\ ~ran /\ response.status = 401 => ~Suffices(who)

LEMMA GuardIsSound == WayInv /\ RanInv => Authenticated /\ Reviewed
<1> SUFFICES ASSUME WayInv, RanInv PROVE Authenticated /\ Reviewed
  OBVIOUS
<1>1. \A m : On(m) = (m \in Range(chain))
  <2>1. \A m : On(m) <=> m \in Range(chain)
    BY DEF On, Range
  <2>2. \A m : On(m) \in BOOLEAN
    BY DEF On
  <2> QED
    BY <2>1, <2>2
<1>2. ran => Known = AccountOf(On("certificate"), On("npa"), request)
  BY DEF Known, AccountOf, NpaNames
<1>3. ran => RanWith(chain, options, request, who)
  BY DEF RanInv
<1>4. ran => who = Known
  BY <1>1, <1>2, <1>3 DEF RanWith
<1>5. Authenticated
  BY <1>1, <1>3, <1>4 DEF Authenticated, RanWith, Matching
<1>6. Reviewed
  BY <1>1, <1>3, <1>4 DEF Reviewed, RanInv, RanWith
<1> QED
  BY <1>5, <1>6

\* The least and the greatest of a set of numbers are in it.
LEMMA MinIsIn ==
  ASSUME NEW S \in SUBSET Nat, S # {}
  PROVE  Min(S) \in S
BY LeastOf DEF Min

LEMMA MaxIsIn ==
  ASSUME NEW n \in Nat, NEW S \in SUBSET (1..n), S # {}
  PROVE  Max(S) \in S
<1> DEFINE R == {n - x : x \in S}
<1>1. R \in SUBSET Nat /\ R # {}
  <2>1. \A x \in 1..n : n - x \in Nat
    OBVIOUS
  <2> QED
    BY <2>1, Zenon
<1>2. PICK r \in R : \A q \in R : r <= q
  <2> HIDE DEF R
  <2> QED
    BY <1>1, LeastOf
<1>3. PICK x \in S : r = n - x
  BY <1>2
<1>4. ASSUME NEW y \in S PROVE x >= y
  <2>1. n - y \in R
    OBVIOUS
  <2>2. n - x <= n - y
    BY <1>2, <1>3, <2>1
  <2> QED
    BY <2>2
<1> QED
  BY <1>3, <1>4 DEF Max

\* The account of a request is none, or one whose scopes are valid ones
\* (context.go:25).
Granted(a) == a.scopes \in Seq(Scopes) /\ AccountValid(a)
GrantedInv == Granted(who)

LEMMA UserScopes ==
  ASSUME NEW teams \in TeamHeaders
  PROVE  ParseUserHeader(teams) \in Seq(Scopes)
<1>1. /\ teams \in Seq(Labels) /\ <<"dev", "tst">> \in Seq(Labels) /\ <<"acc", "prd">> \in Seq(Labels)
      /\ <<Wildcard>> \in Seq(Labels) /\ <<"user">> \in Seq(Labels)
  BY ScopesAssumption
<1>2. \A e \in Seq(Labels) : Scope(teams, e, <<Wildcard>>, <<"user">>) \in Scopes
  BY <1>1 DEF Scope, Scopes
<1> DEFINE a == Scope(teams, <<"dev", "tst">>, <<Wildcard>>, <<"user">>)
           b == Scope(teams, <<"acc", "prd">>, <<Wildcard>>, <<"user">>)
<1>3. a \in Scopes /\ b \in Scopes
  BY <1>1, <1>2
<1>4. ParseUserHeader(teams) = <<>> \/ ParseUserHeader(teams) = <<a, b>>
  BY DEF ParseUserHeader
<1> HIDE DEF a, b
<1>5. <<>> \in Seq(Scopes) /\ <<a, b>> \in Seq(Scopes)
  <2> HIDE DEF Scopes
  <2> QED
    BY <1>3
<1> QED
  BY <1>4, <1>5

LEMMA TrustIsGranted ==
  ASSUME GrantedInv, NEW t, NEW s \in Seq(Scopes), SetTrust(Account(t, s))
  PROVE  GrantedInv'
<1>1. CASE who' = who
  BY <1>1 DEF GrantedInv, Granted, AccountValid, ScopeValid
<1>2. CASE who' = Account(t, s) /\ AccountValid(Account(t, s))
  <2>1. Account(t, s).scopes = s
    BY DEF Account
  <2>2. Granted(Account(t, s))
    BY <1>2, <2>1, Zenon DEF Granted
  <2> QED
    BY <1>2, <2>2, Zenon DEF GrantedInv, Granted, AccountValid, ScopeValid
<1> QED
  BY <1>1, <1>2 DEF SetTrust

LEMMA GrantedStep ==
  ASSUME GrantedInv, [RequestNext]_requestVars
  PROVE  GrantedInv'
<1>1. CASE who' = who
  BY <1>1 DEF GrantedInv, Granted, AccountValid, ScopeValid
<1>2. CASE Certificate
  <2>1. PICK names \in SUBSET Names :
          who' = who \/ (Matching(names) # {} /\ SetTrust(Account("Certificate", MatchCertificate(names).scopes)))
    BY <1>2, Zenon DEF Certificate
  <2>2. ASSUME Matching(names) # {} PROVE MatchCertificate(names).scopes \in Seq(Scopes)
    <3>1. Matching(names) \in SUBSET Nat /\ Matching(names) \subseteq DOMAIN Certificates
      BY ScopesAssumption DEF Matching
    <3>2. Min(Matching(names)) \in DOMAIN Certificates
      BY <2>2, <3>1, MinIsIn
    <3> QED
      BY <3>2, ScopesAssumption, Zenon DEF MatchCertificate
  <2> QED
    BY <1>1, <2>1, <2>2, TrustIsGranted, Zenon
<1>3. CASE User
  <2>1. who' = who \/ \E teams \in TeamHeaders : SetTrust(Account("User", ParseUserHeader(teams)))
    BY <1>3, Zenon DEF User
  <2> QED
    BY <1>1, <2>1, UserScopes, TrustIsGranted, Zenon
<1>4. CASE Npa
  <2>1. PICK name \in Names \cup {""} :
          who' = who \/ (Lookup(name) # {} /\ SetTrust(Account("NPA", AllowedNPAs[Max(Lookup(name))].scopes)))
    BY <1>4, Zenon DEF Npa
  <2>2. ASSUME Lookup(name) # {} PROVE AllowedNPAs[Max(Lookup(name))].scopes \in Seq(Scopes)
    <3>1. Lookup(name) \subseteq 1..Len(AllowedNPAs) /\ Len(AllowedNPAs) \in Nat
          /\ 1..Len(AllowedNPAs) = DOMAIN AllowedNPAs
      BY ScopesAssumption, Zenon DEF Lookup
    <3>2. Max(Lookup(name)) \in DOMAIN AllowedNPAs
      BY <2>2, <3>1, MaxIsIn, Zenon
    <3> QED
      BY <3>2, ScopesAssumption, Zenon
  <2> QED
    BY <1>1, <2>1, <2>2, TrustIsGranted, Zenon
<1>5. CASE Pass \/ GzipIn \/ Decompress \/ DecompressFails \/ Oauth \/ Trust \/ Handler
  BY <1>1, <1>5 DEF Pass, GzipIn, Decompress, DecompressFails, Oauth, Trust, Handler
<1>6. CASE Unwind \/ GzipLate \/ Count \/ Log \/ Recover \/ Answer \/ UNCHANGED requestVars
  BY <1>1, <1>6 DEF Unwind, GzipLate, Count, Log, Record, Recover, Answer, requestVars
<1>7. CASE GzipOut
  <2>1. who' = who
    BY <1>7, Zenon DEF GzipOut
  <2> QED
    BY <1>1, <2>1
<1> QED
  BY <1>2, <1>3, <1>4, <1>5, <1>6, <1>7, Zenon DEF RequestNext

\* A handler runs only for a request that has passed the certificate and the
\* session middleware, as the account its authenticators make of it, and behind
\* the trust middleware exactly if that account covers all that is required
\* (certificate.go:97, user.go:25-40, npa.go, oauth.go:178, trust.go:72,
\* access.go:86), for any certificates, NPAs, headers and required scope.
THEOREM HandlersAreGuarded == RequestSpec => []HandlerGuarded
<1>1. WayInv /\ RanInv /\ GrantedInv => HandlerGuarded
  <2> SUFFICES ASSUME WayInv, RanInv, GrantedInv PROVE HandlerGuarded
    OBVIOUS
  <2>1. Authenticated /\ Reviewed
    BY GuardIsSound
  <2>2. ScopeValid(Required) => (MatchScope(who.scopes, Required) <=> Covers(who.scopes, Required))
    <3>1. Required \in Scopes
      BY ScopesAssumption
    <3> QED
      BY <3>1, MatchScopeIsExact DEF GrantedInv, Granted, AccountValid
  <2>3. Suffices(who) <=> ScopeValid(Required) /\ Covers(who.scopes, Required)
    BY <2>2, Zenon DEF Suffices
  <2>4. ran => who = Known
    BY <2>1 DEF Authenticated
  <2>5. Authorized
    BY <2>1, <2>3, <2>4, Zenon DEF Reviewed, Authorized
  <2> QED
    BY <2>1, <2>5 DEF HandlerGuarded
<1>2. RequestInit => GrantedInv
  BY DEF RequestInit, NoTrust, GrantedInv, Granted, AccountValid
<1> QED
  BY <1>1, <1>2, RequestStarts, RequestKeeps, GrantedStep, PTL DEF RequestSpec

-----------------------------------------------------------------------------
(***************************************************************************)
(* The tree of functions that Run starts.                                  *)
(***************************************************************************)

SlotStates == {"idle", "new", "open", "stopping", "ok", "error"}
WebRoot == <<"m", "web">>

ServersTyped ==
  /\ slot \in [Nodes -> SlotStates]
  /\ task \in [Tasks -> {"idle", "up", "serving", "draining", "ended"}]
  /\ told \in [Tasks -> {"none", "nil", "error"}]
  /\ root \in {NoRoot, <<>>, WebRoot}
  /\ returned \in {"none", "nil", "error"}

\* A slot is made for a member of a group of the tree, by a group that is run.
TreeInv ==
  /\ root = NoRoot =>
       /\ returned = "none"
       /\ \A n \in Nodes : slot[n] = "idle"
  /\ root = WebRoot =>
       /\ DOMAIN plan \subseteq {"web"}
       /\ \A n \in Nodes \ Tasks : slot[n] = "idle"
  /\ \A n \in Nodes : slot[n] # "idle" => n \in Members(Parent(n))
  /\ \A n \in Nodes \ {root} : slot[n] \in {"idle", "new"} => \A k \in Members(n) : slot[k] = "idle"

\* A task that has not been called has not begun, and one is over when it has
\* said how.
TaskInv ==
  \A t \in Tasks :
    /\ slot[t] \in {"idle", "new"} => task[t] = "idle"
    /\ task[t] = "ended" <=> told[t] # "none"

\* A slot that ended well has nothing below it that did not.
CleanInv ==
  /\ \A t \in Tasks : slot[t] = "ok" => told[t] = "nil"
  /\ \A n \in Nodes \ Tasks : slot[n] = "ok" => \A k \in Members(n) : slot[k] = "ok"

\* Run returns when its slots are done, and what they say.
ReturnInv ==
  /\ returned # "none" => \A n \in Members(root) : Finished(n)
  /\ returned = "nil" => \A n \in Members(root) : slot[n] = "ok"

ServersInv == ServersTyped /\ TreeInv /\ TaskInv /\ CleanInv /\ ReturnInv

LEMMA FrontOfTwo ==
  ASSUME NEW S, NEW a \in S, NEW b \in S
  PROVE  SubSeq(<<a, b>>, 1, 1) = <<a>>
<1> DEFINE s == <<a, b>>
           q == <<a>>
<1>1. s \in Seq(S) /\ Len(s) = 2 /\ s[1] = a
  OBVIOUS
<1>2. q \in Seq(S) /\ Len(q) = 1 /\ q[1] = a
  OBVIOUS
<1> HIDE DEF s, q
<1>3. SubSeq(s, 1, 1) \in Seq(S) /\ Len(SubSeq(s, 1, 1)) = 1 /\ SubSeq(s, 1, 1)[1] = a
  BY <1>1
<1>4. SubSeq(s, 1, 1) = q
  BY <1>2, <1>3, SeqEqual
<1> QED
  BY <1>4 DEF s, q

LEMMA FrontOfThree ==
  ASSUME NEW S, NEW a \in S, NEW b \in S, NEW c \in S
  PROVE  SubSeq(<<a, b, c>>, 1, 2) = <<a, b>>
<1> DEFINE s == <<a, b, c>>
           q == <<a, b>>
<1>1. s \in Seq(S) /\ Len(s) = 3 /\ s[1] = a /\ s[2] = b
  OBVIOUS
<1>2. q \in Seq(S) /\ Len(q) = 2 /\ q[1] = a /\ q[2] = b
  OBVIOUS
<1> HIDE DEF s, q
<1>3. /\ SubSeq(s, 1, 2) \in Seq(S) /\ Len(SubSeq(s, 1, 2)) = 2
      /\ SubSeq(s, 1, 2)[1] = a /\ SubSeq(s, 1, 2)[2] = b
  BY <1>1
<1>4. SubSeq(s, 1, 2) = q
  BY <1>2, <1>3, SeqEqual
<1> QED
  BY <1>4 DEF s, q

\* The paths of the tree.
LEMMA Paths ==
  /\ <<"m">> \in Nodes /\ <<"m">> \notin Tasks /\ Parent(<<"m">>) = <<>> /\ Len(<<"m">>) = 1
  /\ \A e \in EngineName :
       /\ <<"m", e>> \in Nodes /\ <<"m", e>> \notin Tasks
       /\ Parent(<<"m", e>>) = <<"m">> /\ Len(<<"m", e>>) = 2
  /\ \A e \in EngineName, k \in TaskName :
       /\ <<"m", e, k>> \in Tasks
       /\ Parent(<<"m", e, k>>) = <<"m", e>> /\ Len(<<"m", e, k>>) = 3
<1>1. Parent(<<"m">>) = <<>>
  BY DEF Parent
<1> DEFINE S == {"m"} \cup EngineName \cup TaskName
<1>2. ASSUME NEW e \in EngineName PROVE Parent(<<"m", e>>) = <<"m">>
  <2>1. "m" \in S /\ e \in S /\ Len(<<"m", e>>) - 1 = 1
    OBVIOUS
  <2> HIDE DEF S
  <2> QED
    BY <2>1, FrontOfTwo DEF Parent
<1>3. ASSUME NEW e \in EngineName, NEW k \in TaskName PROVE Parent(<<"m", e, k>>) = <<"m", e>>
  <2>1. "m" \in S /\ e \in S /\ k \in S /\ Len(<<"m", e, k>>) - 1 = 2
    OBVIOUS
  <2> HIDE DEF S
  <2> QED
    BY <2>1, FrontOfThree DEF Parent
<1>4. <<"m">> \in Nodes /\ <<"m">> \notin Tasks /\ Len(<<"m">>) = 1
  BY DEF Nodes, Groups, Tasks, EngineName, TaskName
<1>5. \A e \in EngineName : <<"m", e>> \in Nodes /\ <<"m", e>> \notin Tasks /\ Len(<<"m", e>>) = 2
  BY DEF Nodes, Groups, Tasks, EngineName, TaskName
<1>6. \A e \in EngineName, k \in TaskName : <<"m", e, k>> \in Tasks /\ Len(<<"m", e, k>>) = 3
  BY DEF Tasks
<1> QED
  BY <1>1, <1>2, <1>3, <1>4, <1>5, <1>6

\* Every node of the tree is one of these.
LEMMA NodesAre ==
  /\ Tasks \subseteq Nodes
  /\ \A n \in Nodes \ Tasks : n = <<"m">> \/ \E e \in EngineName : n = <<"m", e>>
  /\ \A t \in Tasks : \E e \in EngineName, k \in TaskName : t = <<"m", e, k>>
BY DEF Nodes, Groups, Tasks

LEMMA ParentsAre == \A k \in Nodes : Parent(k) # k /\ Parent(k) \notin Tasks
BY Paths, NodesAre

\* Below the webserver there are tasks only.
LEMMA WebParents == \A k \in Nodes : Parent(k) = <<"m", "web">> => k \in Tasks
BY Paths, NodesAre

\* No task has members, and no group is a member of its own.
LEMMA MembersAre ==
  ASSUME NEW n, NEW k \in Members(n)
  PROVE  k \in Nodes /\ Parent(k) = n /\ k # n /\ n \notin Tasks
BY ParentsAre DEF Members

LEMMA MembersStay == plan' = plan => \A g : Members(g)' = Members(g)
BY DEF Members

\* A step that leaves the tree and what has been returned alone.
LEMMA QuietStep ==
  ASSUME ServersInv, UNCHANGED <<plan, root, returned>>,
         slot' \in [Nodes -> SlotStates],
         \A n \in Nodes :
           \/ slot'[n] = slot[n]
           \/ slot[n] \in {"new", "open", "stopping"} /\ slot'[n] \in {"open", "stopping", "error"}
           \/ slot[n] \in {"open", "stopping"} /\ FirstValue(n) = "nil" /\ slot'[n] = "ok",
         ServersTyped', TaskInv',
         \A t \in Tasks : told[t] # "none" => told'[t] = told[t]
  PROVE  ServersInv'
<1> USE DEF ServersInv, ServersTyped
<1>0. \A g : Members(g)' = Members(g)
  BY MembersStay
<1>1. TreeInv'
  <2>1. \A n \in Nodes : slot'[n] = "idle" <=> slot[n] = "idle"
    OBVIOUS
  <2>2. \A n \in Nodes : slot'[n] \in {"idle", "new"} => slot[n] \in {"idle", "new"}
    OBVIOUS
  <2>3. \A n, k : k \in Members(n) => k \in Nodes
    BY MembersAre
  <2> QED
    BY <1>0, <2>1, <2>2, <2>3 DEF TreeInv
<1>2. CleanInv'
  <2>1. ASSUME NEW t \in Tasks, slot'[t] = "ok" PROVE told'[t] = "nil"
    <3>1. t \in Nodes
      BY NodesAre
    <3> QED
      BY <2>1, <3>1 DEF CleanInv, FirstValue
  <2>2. ASSUME NEW n \in Nodes \ Tasks, slot'[n] = "ok", NEW k \in Members(n) PROVE slot'[k] = "ok"
    <3>1. k \in Nodes
      BY MembersAre
    <3>2. slot[k] = "ok"
      BY <2>2 DEF CleanInv, FirstValue
    <3> QED
      BY <3>1, <3>2
  <2> QED
    BY <1>0, <2>1, <2>2 DEF CleanInv
<1>3. ReturnInv'
  <2>1. \A n \in Members(root) : n \in Nodes
    BY MembersAre
  <2> QED
    BY <1>0, <2>1 DEF ReturnInv, Finished
<1> QED
  BY <1>1, <1>2, <1>3

LEMMA StillStep ==
  ASSUME ServersInv, UNCHANGED <<plan, root, slot, task, told, returned>>
  PROVE  ServersInv'
<1>1. ServersTyped' /\ TaskInv'
  BY DEF ServersInv, ServersTyped, TaskInv
<1> QED
  BY <1>1, QuietStep DEF ServersInv, ServersTyped

LEMMA ServersStart == ServersInit => ServersInv
<1> SUFFICES ASSUME ServersInit PROVE ServersInv
  OBVIOUS
<1>1. ServersTyped
  BY DEF ServersInit, ServersTyped, SlotStates
<1>2. TreeInv
  BY MembersAre DEF ServersInit, TreeInv, NoRoot, WebRoot
<1>3. TaskInv /\ CleanInv /\ ReturnInv
  BY NodesAre DEF ServersInit, TaskInv, CleanInv, ReturnInv
<1> QED
  BY <1>1, <1>2, <1>3 DEF ServersInv

\* Run makes the slots of its root, all else is idle.
LEMMA RunStep ==
  ASSUME ServersInv, NEW r \in {<<>>, <<"m", "web">>}, Run(r)
  PROVE  ServersInv'
<1> USE DEF ServersInv, ServersTyped
<1>1. root = NoRoot /\ returned = "none" /\ \A n \in Nodes : slot[n] = "idle"
  BY DEF Run, Booting, TreeInv
<1>2. root' = r /\ UNCHANGED <<task, told, returned>>
  BY DEF Run
<1>3. slot' = [n \in Nodes |-> IF n \in Members(r)' THEN "new" ELSE "idle"]
  BY DEF Run
<1>4. \A g, k : k \in Members(g)' => k \in Nodes /\ Parent(k) = g /\ k # g /\ g \notin Tasks
  <2>1. ASSUME NEW g, NEW k, k \in Members(g)' PROVE k \in Nodes /\ Parent(k) = g
    BY <2>1 DEF Members
  <2>2. ASSUME NEW g, NEW k, k \in Members(g)' PROVE k # g /\ g \notin Tasks
    BY <2>1, <2>2, ParentsAre
  <2> QED
    BY <2>1, <2>2
<1>5. ServersTyped'
  BY <1>2, <1>3 DEF SlotStates, WebRoot
<1>6. TreeInv'
  <2>1. r = WebRoot => DOMAIN plan' \subseteq {"web"}
    BY DEF Run, WebRoot
  <2>2. r = WebRoot => \A n \in Nodes \ Tasks : slot'[n] = "idle"
    BY <1>3, <1>4, WebParents DEF WebRoot
  <2>3. \A n \in Nodes : slot'[n] # "idle" => n \in Members(Parent(n))'
    BY <1>3, <1>4
  <2>4. \A n \in Nodes \ {r} : \A k : k \in Members(n)' => slot'[k] = "idle"
    BY <1>3, <1>4
  <2>5. r # NoRoot
    BY DEF NoRoot
  <2> QED
    BY <1>2, <2>1, <2>2, <2>3, <2>4, <2>5 DEF TreeInv
<1>7. TaskInv'
  BY <1>1, <1>2, <1>3, NodesAre DEF TaskInv
<1>8. CleanInv' /\ ReturnInv'
  BY <1>1, <1>2, <1>3, NodesAre DEF CleanInv, ReturnInv
<1> QED
  BY <1>5, <1>6, <1>7, <1>8

LEMMA EnterStep ==
  ASSUME ServersInv, NEW n \in Nodes, Enter(n)
  PROVE  ServersInv'
<1> USE DEF ServersInv, ServersTyped
<1>1. slot[n] = "new" /\ UNCHANGED <<plan, root, told, returned>>
  BY DEF Enter, bootVars
<1>2. n # root /\ root # NoRoot
  <2>1. <<"m", "web">> \in Nodes \ Tasks /\ <<>> \notin Nodes
    BY Paths, NodesAre DEF EngineName
  <2> QED
    BY <1>1, <2>1 DEF TreeInv, WebRoot
<1>3. CASE ContextDone(n)
  <2>1. slot' = [slot EXCEPT ![n] = "error"] /\ task' = task
    BY <1>3 DEF Enter, EndSlot
  <2>2. ServersTyped'
    BY <1>1, <2>1 DEF SlotStates
  <2>3. TaskInv'
    BY <1>1, <2>1, NodesAre DEF TaskInv
  <2> QED
    BY <1>1, <2>1, <2>2, <2>3, QuietStep DEF SlotStates
<1>4. CASE ~ContextDone(n)
  <2>1. slot' = [k \in Nodes |-> IF k = n THEN "open" ELSE IF k \in Members(n) THEN "new" ELSE slot[k]]
    BY <1>4 DEF Enter
  <2>2. task' = IF n \notin Tasks THEN task
                ELSE [task EXCEPT ![n] = IF n[3] = "http" THEN "up" ELSE "serving"]
    BY <1>4 DEF Enter
  <2>3. \A k \in Members(n) : k \in Nodes /\ slot[k] = "idle" /\ k # n /\ n \notin Tasks
    BY <1>1, <1>2, MembersAre DEF TreeInv
  <2>4. \A k \in Nodes : slot'[k] = slot[k] \/ (k = n /\ slot'[k] = "open")
                             \/ (k \in Members(n) /\ slot[k] = "idle" /\ slot'[k] = "new")
    BY <2>1, <2>3
  <2>5. \A g : Members(g)' = Members(g)
    BY <1>1, MembersStay
  <2>6. ServersTyped'
    BY <1>1, <2>1, <2>2 DEF SlotStates
  <2>7. TreeInv'
    <3>1. root = WebRoot => n \in Tasks
      BY <1>1 DEF TreeInv
    <3>2. root = WebRoot => \A k \in Nodes \ Tasks : slot'[k] = "idle"
      BY <2>3, <2>4, <3>1 DEF TreeInv
    <3>3. \A k \in Nodes : slot'[k] # "idle" => k \in Members(Parent(k))
      BY <1>1, <2>4, MembersAre DEF TreeInv
    <3>4. ASSUME NEW m \in Nodes \ {root}, slot'[m] \in {"idle", "new"}, NEW k \in Members(m)
          PROVE  slot'[k] = "idle"
      <4>1. slot[m] \in {"idle", "new"} /\ m # n
        BY <2>1, <2>4, <3>4
      <4>2. slot[k] = "idle" /\ k \in Nodes /\ Parent(k) = m
        BY <4>1, MembersAre DEF TreeInv
      <4>3. k # n /\ k \notin Members(n)
        BY <1>1, <4>1, <4>2, MembersAre
      <4> QED
        BY <2>1, <4>2, <4>3
    <3> QED
      BY <1>1, <1>2, <2>5, <3>2, <3>3, <3>4 DEF TreeInv
  <2>8. TaskInv'
    <3>1. ASSUME NEW t \in Tasks PROVE (slot'[t] \in {"idle", "new"} => task'[t] = "idle") /\ t \in Nodes
      <4>1. t \in Nodes
        BY NodesAre
      <4>2. CASE t = n
        BY <2>1, <4>1, <4>2
      <4>3. CASE t # n
        BY <2>2, <2>4, <4>1, <4>3 DEF TaskInv
      <4> QED
        BY <4>1, <4>2, <4>3
    <3>2. \A t \in Tasks : task'[t] = "ended" <=> told[t] # "none"
      BY <1>1, <2>2, NodesAre DEF TaskInv
    <3> QED
      BY <1>1, <3>1, <3>2 DEF TaskInv
  <2>9. CleanInv' /\ ReturnInv'
    <3>1. \A k \in Nodes : (slot'[k] = "ok" <=> slot[k] = "ok") /\ (Finished(k) => Finished(k)')
      BY <1>1, <2>4 DEF Finished
    <3>2. \A g, k : k \in Members(g) => k \in Nodes
      BY MembersAre
    <3> QED
      BY <1>1, <2>5, <3>1, <3>2, NodesAre DEF CleanInv, ReturnInv
  <2> QED
    BY <2>6, <2>7, <2>8, <2>9
<1> QED
  BY <1>3, <1>4

LEMMA SlotStep ==
  ASSUME ServersInv, NEW n \in Nodes, StopSlot(n) \/ Finish(n) \/ Timeout(n)
  PROVE  ServersInv'
<1> USE DEF ServersInv, ServersTyped
<1>1. UNCHANGED <<plan, root, task, told, returned>>
  BY DEF StopSlot, Finish, Timeout, bootVars
<1>2. slot[n] \in {"open", "stopping"}
  BY DEF StopSlot, Finish, Timeout
<1>3. PICK s : /\ slot' = [slot EXCEPT ![n] = s]
               /\ s \in {"stopping", "error"} \/ (s = "ok" /\ FirstValue(n) \notin {"none", "error"})
  BY DEF StopSlot, Finish, Timeout, EndSlot
<1>4. FirstValue(n) \in {"none", "nil", "error"}
  BY DEF FirstValue
<1>5. ServersTyped'
  BY <1>1, <1>3 DEF SlotStates
<1>6. TaskInv'
  BY <1>1, <1>2, <1>3, NodesAre DEF TaskInv
<1> QED
  BY <1>1, <1>2, <1>3, <1>4, <1>5, <1>6, QuietStep DEF SlotStates

LEMMA TaskStep ==
  ASSUME ServersInv, NEW t \in Tasks, Serve(t) \/ TaskFails(t) \/ Drain(t) \/ Drained(t)
  PROVE  ServersInv'
<1> USE DEF ServersInv, ServersTyped
<1>1. UNCHANGED <<plan, root, slot, returned>>
  BY DEF Serve, TaskFails, Drain, Drained, End, bootVars
<1>2. task[t] \in {"up", "serving", "draining"}
  BY DEF Serve, TaskFails, Drain, Drained
<1>3. told[t] = "none"
  BY <1>2 DEF TaskInv
<1>4. PICK s, v : /\ task' = [task EXCEPT ![t] = s] /\ told' = [told EXCEPT ![t] = v]
                  /\ (s \in {"serving", "draining"} /\ v = "none") \/ (s = "ended" /\ v \in {"nil", "error"})
  BY <1>3 DEF Serve, TaskFails, Drain, Drained, End
<1>5. ServersTyped'
  BY <1>1, <1>4
<1>6. TaskInv'
  BY <1>1, <1>2, <1>3, <1>4 DEF TaskInv
<1>7. \A u \in Tasks : told[u] # "none" => told'[u] = told[u]
  BY <1>3, <1>4
<1> QED
  BY <1>1, <1>5, <1>6, <1>7, QuietStep

LEMMA ReturnStep ==
  ASSUME ServersInv, ReturnErrors
  PROVE  ServersInv'
<1> USE DEF ServersInv, ServersTyped
<1>1. UNCHANGED <<plan, root, slot, task, told>> /\ root # NoRoot
  BY DEF ReturnErrors, Running, bootVars
<1>2. \A g : Members(g)' = Members(g)
  BY <1>1, MembersStay
<1>3. ServersTyped' /\ TreeInv' /\ TaskInv' /\ CleanInv'
  BY <1>1, <1>2 DEF ReturnErrors, TreeInv, TaskInv, CleanInv
<1>4. ReturnInv'
  BY <1>1, <1>2 DEF ReturnErrors, ReturnInv, Finished
<1> QED
  BY <1>3, <1>4

LEMMA ServersStep ==
  ASSUME ServersInv, [ServersNext]_serversVars
  PROVE  ServersInv'
<1>1. CASE \E f \in Flags : Bind(f)
  BY <1>1, StillStep DEF Bind, runVars
<1>2. CASE Build
  BY <1>2, StillStep DEF Build, runVars
<1>3. CASE CallerCancels
  BY <1>3, StillStep DEF CallerCancels, bootVars
<1>4. CASE Signal
  BY <1>4, StillStep DEF Signal, bootVars
<1>5. CASE UNCHANGED serversVars
  BY <1>5, StillStep DEF serversVars, bootVars, runVars
<1>6. CASE \E r \in {<<>>, <<"m", "web">>} : Run(r)
  BY <1>6, RunStep
<1>7. CASE \E n \in Nodes : Enter(n)
  BY <1>7, EnterStep
<1>8. CASE (\E n \in Nodes : StopSlot(n)) \/ (\E n \in Nodes : Finish(n)) \/ (\E n \in Nodes : Timeout(n))
  BY <1>8, SlotStep
<1>9. CASE (\E t \in Tasks : Serve(t)) \/ (\E t \in Tasks : TaskFails(t)) \/ (\E t \in Tasks : Drain(t)) \/ (\E t \in Tasks : Drained(t))
  BY <1>9, TaskStep
<1>10. CASE ReturnErrors
  BY <1>10, ReturnStep
<1> QED
  BY <1>1, <1>2, <1>3, <1>4, <1>5, <1>6, <1>7, <1>8, <1>9, <1>10 DEF ServersNext

\* Where the slots of the root ended well, so did everything.
LEMMA CleanMeans == ServersInv => ReturnSound
<1> SUFFICES ASSUME ServersInv PROVE ReturnSound
  OBVIOUS
<1> USE DEF ServersInv, ServersTyped
<1>1. \A t \in Tasks : slot[t] = "ok" => told[t] = "nil" /\ Stopped(t)
  BY DEF CleanInv, TaskInv, Stopped
<1>2. NilMeansClean
  <2> SUFFICES ASSUME returned = "nil", NEW t \in Tasks PROVE Stopped(t) /\ told[t] # "error"
    BY DEF NilMeansClean
  <2>1. root # NoRoot /\ \A n \in Members(root) : slot[n] = "ok"
    BY DEF TreeInv, ReturnInv
  <2>2. PICK e \in EngineName, k \in TaskName : t = <<"m", e, k>>
    BY NodesAre
  <2>3. CASE slot[t] = "idle"
    BY <2>3 DEF TaskInv, Stopped
  <2>4. CASE slot[t] # "idle" /\ root = WebRoot
    <3>1. t \in Members(<<"m", e>>)
      BY <2>2, <2>4, NodesAre, Paths DEF TreeInv
    <3>2. e = "web"
      <4>1. t[2] \in DOMAIN plan
        BY <3>1, <2>2, Paths DEF Members
      <4> QED
        BY <2>2, <2>4, <4>1 DEF TreeInv
    <3> QED
      BY <1>1, <2>1, <2>4, <3>1, <3>2 DEF WebRoot
  <2>5. CASE slot[t] # "idle" /\ root = <<>>
    <3>1. t \in Members(<<"m", e>>)
      BY <2>2, <2>5, NodesAre, Paths DEF TreeInv
    <3>2. <<"m", e>> \in Members(<<"m">>)
      <4>1. t[2] \in DOMAIN plan
        BY <3>1, <2>2, Paths DEF Members
      <4> QED
        BY <2>2, <4>1, Paths DEF Members
    <3>3. <<"m">> \in Members(<<>>)
      BY Paths DEF Members
    <3>4. slot[<<"m", e>>] = "ok"
      BY <2>1, <2>5, <3>2, <3>3, Paths DEF CleanInv
    <3> QED
      BY <1>1, <3>1, <3>4, Paths DEF CleanInv
  <2> QED
    BY <2>1, <2>3, <2>4, <2>5
<1>3. EngineRunWaits
  <2> SUFFICES ASSUME returned # "none", root # <<>>, NEW n \in Members(root), ~Stopped(n)
               PROVE  slot[n] = "error"
    BY DEF EngineRunWaits
  <2>1. n \in Tasks
    BY MembersAre, WebParents DEF TreeInv, WebRoot
  <2> QED
    BY <1>1, <2>1 DEF ReturnInv, Finished
<1> QED
  BY <1>2, <1>3 DEF ReturnSound

\* What Manager.Run and Engine.Run return is true of the servers below them
\* (manager.go:344, ginserver.go:240): nil only when no task has failed and none
\* is left running, and Engine.Run returns only when every task is over or was
\* given up, for any configurations, builds and faults.
THEOREM RunsReturnSoundly == ServersSpec => []ReturnSound
BY ServersStart, ServersStep, CleanMeans, PTL DEF ServersSpec

-----------------------------------------------------------------------------
(***************************************************************************)
(* What NewManager makes of a configuration, and of the caller's.          *)
(***************************************************************************)

ConfigFields == {"port", "host", "limits", "tls", "auth", "certs", "watched", "mw", "svc",
                 "side", "sidePort", "probes", "proxy"}

IsConfig(c) ==
  /\ c = [f \in ConfigFields |-> c[f]]
  /\ c.port \in Nat /\ c.tls \in BOOLEAN
  /\ c.mw \in [MiddlewareName -> Section]
  /\ c.svc \in [ServiceName -> Section] /\ c.side \in [ServiceName -> Section]
  /\ c.proxy.mw \in [MiddlewareName -> Section] /\ c.proxy.port \in Nat

LEMMA SectionNames ==
  /\ "certificate" \in MiddlewareName /\ "trace" \in MiddlewareName /\ "oauth" \in MiddlewareName
  /\ "recovery" \in MiddlewareName
  /\ "metrics" \in ServiceName /\ "reloader" \in ServiceName /\ "proxy" \in ServiceName
  /\ "healthcheck" \in ServiceName
<1>1. /\ Middleware[1] = "recovery" /\ Middleware[2] = "trace" /\ Middleware[7] = "certificate" /\ Middleware[10] = "oauth"
      /\ DOMAIN Middleware = 1..10
  BY DEF Middleware
<1> QED
  BY <1>1 DEF MiddlewareName, ServiceName

LEMMA DefaultedAre ==
  ASSUME NEW N, NEW s \in [N -> Section], NEW on
  PROVE  /\ Defaulted(s, on) \in [N -> Section]
         /\ \A n \in N : /\ Defaulted(s, on)[n] # "absent"
                         /\ s[n] # "absent" => Defaulted(s, on)[n] = s[n]
                         /\ s[n] = "absent" => Defaulted(s, on)[n] = IF n \in on THEN "on" ELSE "off"
         /\ Defaulted(Defaulted(s, on), on) = Defaulted(s, on)
         /\ Kept(s, Defaulted(s, on)) = s
BY DEF Defaulted, Section, Kept

LEMMA DefaultsOf ==
  ASSUME NEW c, IsConfig(c)
  PROVE  LET d == ApplyDefaults(c) IN
         /\ IsConfig(d) /\ d.mw = MiddlewareDefaults(c.mw) /\ d.svc = ServiceDefaults(c.svc)
         /\ d.tls = c.tls /\ d.port = (IF c.port = 0 THEN WebPort ELSE c.port) /\ d.limits = TRUE
         /\ d.auth = (IF c.auth = "unset" THEN "none" ELSE c.auth)
         /\ d.side = c.side /\ d.proxy = c.proxy /\ d.probes = c.probes /\ d.host = c.host
<1>1. MiddlewareDefaults(c.mw) \in [MiddlewareName -> Section] /\ ServiceDefaults(c.svc) \in [ServiceName -> Section]
  BY DefaultedAre DEF IsConfig, MiddlewareDefaults, ServiceDefaults
<1> DEFINE a == [c EXCEPT !.mw = MiddlewareDefaults(@), !.svc = ServiceDefaults(@)]
           h == HttpDefaults(TlsDefaults(a))
           e == [h EXCEPT !.watched = @ \/ (h.svc["reloader"] = "on" /\ h.tls)]
<1>2. /\ IsConfig(a) /\ a.mw = MiddlewareDefaults(c.mw) /\ a.svc = ServiceDefaults(c.svc)
      /\ a.tls = c.tls /\ a.port = c.port /\ a.auth = c.auth
      /\ a.side = c.side /\ a.proxy = c.proxy /\ a.probes = c.probes /\ a.host = c.host
  BY <1>1 DEF IsConfig, ConfigFields
<1> HIDE DEF a
<1>3. /\ IsConfig(h) /\ h.mw = a.mw /\ h.svc = a.svc /\ h.tls = c.tls
      /\ h.port = (IF c.port = 0 THEN WebPort ELSE c.port) /\ h.limits = TRUE
      /\ h.auth = (IF c.auth = "unset" THEN "none" ELSE c.auth)
      /\ h.side = c.side /\ h.proxy = c.proxy /\ h.probes = c.probes /\ h.host = c.host
  BY <1>2, PortsAssumption DEF IsConfig, ConfigFields, HttpDefaults, TlsDefaults
<1> HIDE DEF h
<1>4. /\ IsConfig(e) /\ e.mw = h.mw /\ e.svc = h.svc /\ e.tls = h.tls /\ e.port = h.port
      /\ e.limits = h.limits /\ e.auth = h.auth
      /\ e.side = c.side /\ e.proxy = c.proxy /\ e.probes = c.probes /\ e.host = c.host
  BY <1>3 DEF IsConfig, ConfigFields
<1> HIDE DEF e
<1>5. ApplyDefaults(c) = IF e.tls /\ e.mw["certificate"] = "on" THEN [e EXCEPT !.certs = @ + 1] ELSE e
  BY DEF ApplyDefaults, InjectServerCNs, a, h, e
<1>6. LET i == [e EXCEPT !.certs = @ + 1] IN
      /\ IsConfig(i) /\ i.mw = h.mw /\ i.svc = h.svc /\ i.tls = h.tls /\ i.port = h.port
      /\ i.limits = h.limits /\ i.auth = h.auth
      /\ i.side = c.side /\ i.proxy = c.proxy /\ i.probes = c.probes /\ i.host = c.host
  BY <1>4 DEF IsConfig, ConfigFields
<1> QED
  BY <1>2, <1>3, <1>4, <1>5, <1>6

\* What the webserver takes from a configuration.
Settings(c) == [handlers |-> Handlers(MiddlewareDefaults(c.mw)), tls |-> c.tls,
                port |-> IF c.port = 0 THEN WebPort ELSE c.port]

LEMMA WantedIsSettings ==
  ASSUME NEW c, IsConfig(c)
  PROVE  Wanted(c) = Settings(c)
BY DefaultsOf DEF Wanted, Settings

LEMMA WebConfigIs ==
  ASSUME NEW c, IsConfig(c)
  PROVE  LET w == WebConfig(c) IN
         /\ IsConfig(w) /\ w.mw = MiddlewareDefaults(c.mw) /\ w.tls = c.tls
         /\ w.svc["metrics"] = "off" /\ w.port = (IF c.port = 0 THEN WebPort ELSE c.port)
<1> DEFINE d == ApplyDefaults(c)
<1>1. IsConfig(d) /\ d.mw = MiddlewareDefaults(c.mw) /\ d.tls = c.tls /\ d.port = (IF c.port = 0 THEN WebPort ELSE c.port)
  BY DefaultsOf
<1> HIDE DEF d
<1>2. LET w == [d EXCEPT !.svc["metrics"] = "off", !.probes = <<>>] IN
      /\ IsConfig(w) /\ w.mw = d.mw /\ w.tls = d.tls /\ w.port = d.port /\ w.svc["metrics"] = "off"
  BY <1>1, SectionNames DEF IsConfig, ConfigFields, Section
<1> QED
  BY <1>1, <1>2 DEF WebConfig, d

\* The webserver that is built is the one that the configuration asks for.
LEMMA WebIsAsConfigured ==
  ASSUME NEW c, IsConfig(c), Buildable(WebConfig(c))
  PROVE  LET web == NewCustomEngine(WebConfig(c)) IN
         /\ [handlers |-> web.handlers, tls |-> web.tls, port |-> web.port] = Settings(c)
         /\ "metrics" \notin web.services
<1> DEFINE w == WebConfig(c)
           d == ApplyDefaults(w)
<1>1. /\ IsConfig(w) /\ w.mw = MiddlewareDefaults(c.mw) /\ w.tls = c.tls
      /\ w.svc["metrics"] = "off" /\ w.port = (IF c.port = 0 THEN WebPort ELSE c.port)
  BY WebConfigIs
<1>2. d.mw = MiddlewareDefaults(w.mw) /\ d.tls = w.tls /\ d.port = (IF w.port = 0 THEN WebPort ELSE w.port)
      /\ d.svc = ServiceDefaults(w.svc)
  BY <1>1, DefaultsOf
<1>3. d.mw = w.mw
  BY <1>1, <1>2, DefaultedAre DEF MiddlewareDefaults, IsConfig
<1>4. d.svc["metrics"] = "off"
  BY <1>1, <1>2, DefaultedAre, SectionNames DEF ServiceDefaults, IsConfig
<1>5. d.port = w.port
  BY <1>1, <1>2, PortsAssumption
<1>6. NewCustomEngine(w) = Engine(d)
  BY DEF NewCustomEngine
<1> HIDE DEF w, d
<1>7. Engine(d).handlers = Handlers(d.mw) /\ Engine(d).tls = d.tls /\ Engine(d).port = d.port
      /\ Engine(d).services = {s \in ServiceName : d.svc[s] = "on"}
  BY DEF Engine
<1>8. "metrics" \notin Engine(d).services
  BY <1>4, <1>7
<1>9. [handlers |-> Engine(d).handlers, tls |-> Engine(d).tls, port |-> Engine(d).port] = Settings(c)
  BY <1>1, <1>2, <1>3, <1>5, <1>7 DEF Settings
<1> QED
  BY <1>6, <1>8, <1>9 DEF w

\* A copy with the middleware m and the services s leaves this of the caller's
\* configuration.
LEMMA SharedIs ==
  ASSUME NEW c, IsConfig(c), NEW d, IsConfig(d)
  PROVE  LET e == Shared(c, d) IN
         /\ IsConfig(e) /\ e.mw = Kept(c.mw, d.mw)
         /\ e.tls = c.tls /\ e.port = c.port /\ e.side = c.side /\ e.proxy = c.proxy
<1>1. \A N : \A s, r \in [N -> Section] : Kept(s, r) \in [N -> Section]
  BY DEF Kept, Section
<1>2. Kept(c.mw, d.mw) \in [MiddlewareName -> Section] /\ Kept(c.svc, d.svc) \in [ServiceName -> Section]
  BY <1>1 DEF IsConfig
<1> QED
  BY <1>2 DEF Shared, IsConfig, ConfigFields

\* ... and so nothing of the defaults.
LEMMA DefaultsStayApart ==
  ASSUME NEW c, IsConfig(c), NEW d, IsConfig(d), d.mw = MiddlewareDefaults(c.mw)
  PROVE  LET e == Shared(c, d) IN
         IsConfig(e) /\ e.mw = c.mw /\ e.tls = c.tls /\ e.port = c.port /\ e.side = c.side /\ e.proxy = c.proxy
<1>1. Kept(c.mw, d.mw) = c.mw
  BY DefaultedAre DEF MiddlewareDefaults, IsConfig
<1> QED
  BY <1>1, SharedIs

\* The certificates are switched off where there is a section for them.
SwitchedOff(mw) == [mw EXCEPT !["certificate"] = IF @ = "absent" THEN "absent" ELSE "off"]

LEMMA SwitchedDefaults ==
  ASSUME NEW mw \in [MiddlewareName -> Section]
  PROVE  /\ SwitchedOff(mw) \in [MiddlewareName -> Section]
         /\ SwitchedOff(SwitchedOff(mw)) = SwitchedOff(mw)
         /\ MiddlewareDefaults(SwitchedOff(mw)) = MiddlewareDefaults([mw EXCEPT !["certificate"] = "off"])
         /\ SwitchedOff(mw)["trace"] = mw["trace"]
BY SectionNames DEF SwitchedOff, MiddlewareDefaults, Defaulted, Section

LEMMA ProxySharedIs ==
  ASSUME NEW c, IsConfig(c)
  PROVE  LET d == ProxyShared(c) IN
         /\ IsConfig(d) /\ d.tls = c.tls /\ d.mw = [MiddlewareDefaults(c.mw) EXCEPT !["certificate"] = "off"]
         /\ d.limits = TRUE
         /\ LET e == Shared(c, d) IN
            IsConfig(e) /\ e.mw = SwitchedOff(c.mw) /\ e.tls = c.tls /\ e.port = c.port
            /\ e.side = c.side /\ e.proxy = c.proxy
<1> DEFINE a == ApplyDefaults(c)
           d == [a EXCEPT !.svc["metrics"] = "off", !.mw["certificate"] = "off"]
<1>1. IsConfig(a) /\ a.mw = MiddlewareDefaults(c.mw) /\ a.tls = c.tls /\ a.limits = TRUE
  BY DefaultsOf
<1> HIDE DEF a
<1>2. IsConfig(d) /\ d.tls = c.tls /\ d.mw = [a.mw EXCEPT !["certificate"] = "off"] /\ d.limits = TRUE
  BY <1>1, SectionNames DEF IsConfig, ConfigFields, Section
<1>3. ProxyShared(c) = d
  BY DEF ProxyShared, a
<1> HIDE DEF d
<1>4. Kept(c.mw, d.mw) = SwitchedOff(c.mw)
  <2>1. c.mw \in [MiddlewareName -> Section] /\ a.mw \in [MiddlewareName -> Section]
    BY <1>1 DEF IsConfig
  <2>2. \A n \in MiddlewareName : c.mw[n] # "absent" => a.mw[n] = c.mw[n]
    BY <1>1, <2>1, DefaultedAre DEF MiddlewareDefaults
  <2> QED
    BY <1>2, <2>1, <2>2, SectionNames DEF Kept, SwitchedOff
<1> QED
  BY <1>1, <1>2, <1>3, <1>4, SharedIs

\* A proxy can be built unless it is to ask for certificates or to trace
\* without a provider.
ProxyTraces(c) == (IF c.proxy.mw["trace"] # "absent" THEN c.proxy.mw["trace"] ELSE c.mw["trace"]) = "on"
ProxyCan(c) == c.proxy.mw["certificate"] # "on" /\ (ProxyTraces(c) => TracerRegistered)

LEMMA ProxyDefaultsAre ==
  ASSUME NEW c, IsConfig(c)
  PROVE  LET p == ProxyDefaults(c) IN
         /\ IsConfig(p) /\ p.probes = <<>> /\ p.svc["reloader"] = "absent"
         /\ p.tls => p.auth = "none"
         /\ p.mw["certificate"] = "on" <=> c.proxy.mw["certificate"] = "on"
         /\ MiddlewareDefaults(p.mw)["trace"] = "on" <=> ProxyTraces(c)
<1> DEFINE d == ProxyShared(c)
           m == [n \in MiddlewareName |-> IF c.proxy.mw[n] # "absent" THEN c.proxy.mw[n] ELSE d.mw[n]]
           s == [d.svc EXCEPT !["proxy"] = "absent", !["reloader"] = "absent"]
           q == IF c.proxy.port > 0 THEN c.proxy.port ELSE ProxyPort
           a == IF c.proxy.plain THEN "unset" ELSE IF d.tls THEN "none" ELSE d.auth
           k == IF c.proxy.mw["certificate"] # "absent" THEN 1 ELSE d.certs
           t == d.tls /\ ~c.proxy.plain
           p == [d EXCEPT !.svc = s, !.port = q, !.auth = a, !.tls = t, !.mw = m, !.certs = k, !.probes = <<>>]
<1>1. IsConfig(d) /\ d.mw = [MiddlewareDefaults(c.mw) EXCEPT !["certificate"] = "off"]
  BY ProxySharedIs
<1>2. p = ProxyDefaults(c)
  BY <1>1 DEF ProxyDefaults, IsConfig, ConfigFields
<1> HIDE DEF d
<1>3. m \in [MiddlewareName -> Section] /\ s \in [ServiceName -> Section] /\ s["reloader"] = "absent"
  BY <1>1, SectionNames DEF IsConfig, Section
<1>4. q \in Nat
  BY PortsAssumption, <1>1 DEF IsConfig
<1>5. t \in BOOLEAN /\ (t => a = "none")
  BY <1>1 DEF IsConfig
<1>6. m["certificate"] = "on" <=> c.proxy.mw["certificate"] = "on"
  BY <1>1, SectionNames DEF IsConfig
<1>7. MiddlewareDefaults(m)["trace"] = "on" <=> ProxyTraces(c)
  BY <1>1, <1>3, SectionNames DEF IsConfig, MiddlewareDefaults, Defaulted, ProxyTraces, Section
<1> HIDE DEF m, s, q, a, k, t
<1>8. IsConfig(p) /\ p.probes = <<>> /\ p.svc = s /\ p.tls = t /\ p.auth = a /\ p.mw = m
  BY <1>1, <1>3, <1>4, <1>5 DEF IsConfig, ConfigFields
<1> HIDE DEF p
<1> QED
  BY <1>2, <1>3, <1>5, <1>6, <1>7, <1>8

LEMMA ProxyIsBuildable ==
  ASSUME NEW c, IsConfig(c)
  PROVE  Buildable(ProxyDefaults(c)) <=> ProxyCan(c)
<1> DEFINE p == ProxyDefaults(c)
           d == ApplyDefaults(p)
<1>1. /\ IsConfig(p) /\ p.probes = <<>> /\ p.svc["reloader"] = "absent"
      /\ p.tls => p.auth = "none"
      /\ p.mw["certificate"] = "on" <=> c.proxy.mw["certificate"] = "on"
      /\ MiddlewareDefaults(p.mw)["trace"] = "on" <=> ProxyTraces(c)
  BY ProxyDefaultsAre
<1> HIDE DEF p
<1>2. /\ IsConfig(d) /\ d.mw = MiddlewareDefaults(p.mw) /\ d.svc = ServiceDefaults(p.svc) /\ d.tls = p.tls
      /\ d.limits = TRUE /\ d.auth = (IF p.auth = "unset" THEN "none" ELSE p.auth) /\ d.probes = p.probes
  BY <1>1, DefaultsOf
<1> HIDE DEF d
<1>3. d.svc["reloader"] # "on"
  BY <1>1, <1>2, DefaultedAre, SectionNames DEF ServiceDefaults, IsConfig
<1>4. d.mw["certificate"] = "on" <=> c.proxy.mw["certificate"] = "on"
  BY <1>1, <1>2, DefaultedAre, SectionNames DEF MiddlewareDefaults, IsConfig
<1>5. ServicesValid(d)
  BY <1>1, <1>2, <1>3 DEF ServicesValid
<1>6. Valid(d) <=> c.proxy.mw["certificate"] # "on"
  BY <1>1, <1>2, <1>4 DEF Valid, HttpValid
<1> QED
  BY <1>1, <1>2, <1>5, <1>6 DEF Buildable, ProxyCan, d, p

\* What NewManager has written into the caller's sections when it ends: the
\* certificates are off if it has come to a proxy, and nothing else that a
\* webserver asks for is changed.
LEMMA NewManagerWrites ==
  ASSUME NEW c, IsConfig(c)
  PROVE  LET m == NewManager(c) IN
         /\ IsConfig(m.conf) /\ m.conf.tls = c.tls /\ m.conf.port = c.port /\ m.conf.proxy = c.proxy
         /\ \/ m.conf.mw = c.mw
            \/ m.conf.mw = SwitchedOff(c.mw) /\ HasProxy(c) /\ (m.ok <=> ProxyCan(c))
         /\ m.ok /\ HasProxy(c) => ProxyCan(c)
         /\ m.ok => m.web = NewCustomEngine(WebConfig(c)) /\ Buildable(WebConfig(c))
<1> DEFINE w  == WebConfig(c)
           c1 == Shared(c, ApplyDefaults(w))
           s  == SidecarDefaults(c1)
           c2 == Shared(c1, ApplyDefaults(c1))
           c3 == IF c2.side["healthcheck"] = "absent" THEN c2
                 ELSE [c2 EXCEPT !.probes = InjectProbes(c2, w)]
           side == InjectConfig(s, c2, w)
           p  == ProxyDefaults(c3)
           c4 == Shared(c3, ProxyShared(c3))
           Like(d) == IsConfig(d) /\ d.tls = c.tls /\ d.port = c.port /\ d.side = c.side /\ d.proxy = c.proxy
           Failed(d) == [ok |-> FALSE, conf |-> d, web |-> NoEngine, side |-> NoEngine, proxy |-> NoEngine]
<1>1. Like(c1) /\ c1.mw = c.mw
  <2>1. IsConfig(w) /\ w.mw = MiddlewareDefaults(c.mw)
    BY WebConfigIs
  <2> HIDE DEF w
  <2>2. MiddlewareDefaults(MiddlewareDefaults(c.mw)) = MiddlewareDefaults(c.mw)
    BY DefaultedAre DEF MiddlewareDefaults, IsConfig
  <2>3. IsConfig(ApplyDefaults(w)) /\ ApplyDefaults(w).mw = MiddlewareDefaults(c.mw)
    BY <2>1, <2>2, DefaultsOf
  <2> QED
    BY <2>3, DefaultsStayApart
<1> HIDE DEF c1
<1>2. Like(c2) /\ c2.mw = c.mw
  <2>1. IsConfig(ApplyDefaults(c1)) /\ ApplyDefaults(c1).mw = MiddlewareDefaults(c1.mw)
    BY <1>1, DefaultsOf
  <2> QED
    BY <1>1, <2>1, DefaultsStayApart
<1> HIDE DEF c2
<1>3. Like(c3) /\ c3.mw = c.mw
  BY <1>2 DEF IsConfig, ConfigFields
<1> HIDE DEF c3
<1>4. Like(c4) /\ c4.mw = SwitchedOff(c.mw)
  BY <1>3, ProxySharedIs
<1>5. Buildable(p) <=> ProxyCan(c)
  <2>1. Buildable(p) <=> ProxyCan(c3)
    BY <1>3, ProxyIsBuildable
  <2>2. ProxyCan(c3) <=> ProxyCan(c)
    BY <1>3 DEF ProxyCan, ProxyTraces
  <2> QED
    BY <2>1, <2>2
<1>6. NewManager(c) =
        IF ~Buildable(w) THEN Failed(c1)
        ELSE IF ~Injectable(c2, w) THEN Failed(c2)
        ELSE IF ~Buildable(side) THEN Failed(c3)
        ELSE IF HasProxy(c) /\ ~Buildable(p) THEN Failed(c4)
        ELSE [ok |-> TRUE, conf |-> IF HasProxy(c) THEN c4 ELSE c3,
              web |-> NewCustomEngine(w), side |-> NewCustomEngine(side),
              proxy |-> IF HasProxy(c) THEN NewCustomEngine(p) ELSE NoEngine]
  BY DEF NewManager, w, c1, s, c2, c3, side, p, c4
<1> HIDE DEF w, s, side, p, c4
<1> DEFINE m == NewManager(c)
<1>7. \/ m.ok = FALSE /\ m.conf \in {c1, c2, c3}
      \/ m.ok = FALSE /\ m.conf = c4 /\ HasProxy(c) /\ ~Buildable(p)
      \/ /\ m.ok = TRUE /\ Buildable(w) /\ (HasProxy(c) => Buildable(p)) /\ m.web = NewCustomEngine(w)
         /\ m.conf = IF HasProxy(c) THEN c4 ELSE c3
  BY <1>6
<1> HIDE DEF m
<1> QED
  BY <1>1, <1>2, <1>3, <1>4, <1>5, <1>7 DEF m, w

LEMMA ConfigurationsAre == \A c \in Configuration : IsConfig(c)
BY DEF Configuration, IsConfig, ConfigFields

LEMMA BoundConfig ==
  ASSUME NEW c, IsConfig(c), NEW f \in Flags
  PROVE  IsConfig(BindFlags(c, f))
<1>1. FlagSections(c.mw, f.mw) \in [MiddlewareName -> Section]
  BY ConfigsAssumption DEF FlagSections, Section, IsConfig
<1>2. FlagSections(c.svc, f.svc) \in [ServiceName -> Section]
  BY ConfigsAssumption DEF FlagSections, Section, IsConfig
<1>3. HttpFlags(c.port, f.port) \in Nat
  BY ConfigsAssumption DEF HttpFlags, IsConfig
<1> QED
  BY <1>1, <1>2, <1>3 DEF BindFlags, MiddlewareFlags, ServiceFlags, IsConfig, ConfigFields

-----------------------------------------------------------------------------
(* Building engines, more than once.                                        *)

BootFields == {"given", "conf", "mgr", "webs", "tries", "bound", "proxied"}

\* By now the caller's configuration is what was given, or what is left of it
\* after a proxy; and if no webserver was built although there was a proxy,
\* none will be.
Left(given, conf) == conf.tls = given.tls /\ conf.port = given.port
LeftByProxy(b) ==
  /\ b.proxied /\ b.conf.mw = SwitchedOff(b.given.mw)
  /\ b.webs = <<>> => HasProxy(b.conf) /\ ~ProxyCan(b.conf)

WebAsConfigured(b, i) ==
  LET web == b.webs[i]
      got == [handlers |-> web.handlers, tls |-> web.tls, port |-> web.port]
      off == [b.given EXCEPT !.mw["certificate"] = "off"]
  IN  /\ got = Wanted(b.given) \/ (i > 1 /\ b.proxied /\ got = Wanted(off))
      /\ "metrics" \notin web.services

BootOK(b) ==
  /\ b = [f \in BootFields |-> b[f]]
  /\ IsConfig(b.given) /\ IsConfig(b.conf) /\ Left(b.given, b.conf)
  /\ b.conf.mw = b.given.mw \/ LeftByProxy(b)
  /\ b.tries \in Nat /\ (b.tries = 0 => b.webs = <<>> /\ b.conf = b.given)
  /\ \E S : b.webs \in Seq(S)
  /\ \A i \in DOMAIN b.webs : WebAsConfigured(b, i)

BootInv ==
  /\ root = NoRoot => BootOK(boot)
  /\ root # NoRoot => boot = NotBooted

LEMMA BootStart == ServersInit => BootInv
<1> SUFFICES ASSUME ServersInit PROVE BootInv
  OBVIOUS
<1>1. PICK c \in Configs : boot = [NotBooted EXCEPT !.given = c, !.conf = c]
  BY DEF ServersInit
<1>2. IsConfig(c)
  BY ConfigsAssumption, ConfigurationsAre
<1>3. boot = [f \in BootFields |-> boot[f]]
  BY <1>1 DEF NotBooted, BootFields
<1>4. boot.given = c /\ boot.conf = c /\ boot.tries = 0 /\ boot.webs = <<>>
  BY <1>1 DEF NotBooted
<1>5. \E S : boot.webs \in Seq(S)
  BY <1>4
<1>6. BootOK(boot)
  <2>1. DOMAIN boot.webs = {}
    BY <1>4
  <2> QED
    BY <1>2, <1>3, <1>4, <1>5, <2>1 DEF BootOK, Left
<1> QED
  BY <1>6 DEF BootInv, ServersInit

LEMMA BindStep ==
  ASSUME BootInv, NEW f \in Flags, Bind(f)
  PROVE  BootInv'
<1>1. root = NoRoot /\ root' = NoRoot /\ BootOK(boot) /\ boot.tries = 0
  BY DEF Bind, Booting, BootInv, runVars
<1>2. boot' = [boot EXCEPT !.conf = BindFlags(boot.conf, f), !.given = BindFlags(boot.given, f), !.bound = TRUE]
  BY DEF Bind
<1>3. IsConfig(BindFlags(boot.given, f)) /\ boot.conf = boot.given /\ boot.webs = <<>>
  BY <1>1, BoundConfig DEF BootOK
<1>4. boot' = [g \in BootFields |-> boot'[g]] /\ boot'.tries = 0 /\ boot'.webs = <<>>
      /\ boot'.given = BindFlags(boot.given, f) /\ boot'.conf = boot'.given
  BY <1>1, <1>2, <1>3 DEF BootOK, BootFields
<1>5. \E S : boot'.webs \in Seq(S)
  BY <1>4
<1>6. BootOK(boot')
  BY <1>3, <1>4, <1>5 DEF BootOK, Left
<1> QED
  BY <1>1, <1>6 DEF BootInv

LEMMA WantedWithout ==
  ASSUME NEW g, IsConfig(g)
  PROVE  LET off == [g EXCEPT !.mw["certificate"] = "off"] IN
         Wanted(off) = [Settings(g) EXCEPT !.handlers = Handlers(MiddlewareDefaults(SwitchedOff(g.mw)))]
<1> DEFINE off == [g EXCEPT !.mw["certificate"] = "off"]
<1>1. IsConfig(off) /\ off.mw = [g.mw EXCEPT !["certificate"] = "off"] /\ off.tls = g.tls /\ off.port = g.port
  BY SectionNames DEF IsConfig, ConfigFields, Section
<1> HIDE DEF off
<1>2. MiddlewareDefaults(off.mw) = MiddlewareDefaults(SwitchedOff(g.mw))
  BY <1>1, SwitchedDefaults DEF IsConfig
<1>3. Wanted(off) = Settings(off)
  BY <1>1, WantedIsSettings
<1>4. Settings(off) = [Settings(g) EXCEPT !.handlers = Handlers(MiddlewareDefaults(SwitchedOff(g.mw)))]
  BY <1>1, <1>2 DEF Settings
<1> QED
  BY <1>3, <1>4 DEF off

LEMMA BuildStep ==
  ASSUME BootInv, Build
  PROVE  BootInv'
<1> DEFINE m == NewManager(boot.conf)
           g == boot.given
           c == boot.conf
<1>1. root = NoRoot /\ root' = NoRoot /\ BootOK(boot)
  BY DEF Build, Booting, BootInv, runVars
<1>2. boot' = [boot EXCEPT !.conf = m.conf, !.mgr = m, !.tries = @ + 1,
                           !.webs = IF m.ok THEN Append(@, m.web) ELSE @,
                           !.proxied = @ \/ HasProxy(boot.conf)]
  BY DEF Build
<1>3. /\ boot' = [f \in BootFields |-> boot'[f]] /\ boot'.given = g /\ boot'.conf = m.conf
      /\ boot'.tries = boot.tries + 1
      /\ boot'.webs = IF m.ok THEN Append(boot.webs, m.web) ELSE boot.webs
      /\ boot'.proxied = (boot.proxied \/ HasProxy(c))
  BY <1>1, <1>2 DEF BootOK, BootFields
<1>4. /\ IsConfig(m.conf) /\ m.conf.tls = c.tls /\ m.conf.port = c.port /\ m.conf.proxy = c.proxy
      /\ \/ m.conf.mw = c.mw
         \/ m.conf.mw = SwitchedOff(c.mw) /\ HasProxy(c) /\ (m.ok <=> ProxyCan(c))
      /\ m.ok /\ HasProxy(c) => ProxyCan(c)
      /\ m.ok => m.web = NewCustomEngine(WebConfig(c)) /\ Buildable(WebConfig(c))
  BY <1>1, NewManagerWrites DEF BootOK
<1> HIDE DEF m
<1>5. IsConfig(g) /\ IsConfig(c) /\ Left(g, c) /\ boot.tries \in Nat
  BY <1>1 DEF BootOK
<1>6. PICK S : boot.webs \in Seq(S)
  BY <1>1 DEF BootOK
<1> DEFINE T == S \cup {m.web}
           webs == Append(boot.webs, m.web)
<1>7. /\ boot.webs \in Seq(T) /\ webs \in Seq(T)
      /\ Len(webs) = Len(boot.webs) + 1 /\ webs[Len(boot.webs) + 1] = m.web
      /\ \A i \in DOMAIN boot.webs : webs[i] = boot.webs[i]
      /\ DOMAIN webs = DOMAIN boot.webs \cup {Len(boot.webs) + 1}
  BY <1>6
<1> HIDE DEF T, webs
<1>8. SwitchedOff(SwitchedOff(g.mw)) = SwitchedOff(g.mw)
  BY <1>5, SwitchedDefaults DEF IsConfig
<1>9. m.conf.mw = g.mw \/ LeftByProxy(boot')
  <2>1. ProxyCan(m.conf) <=> ProxyCan(c)
    <3>1. m.conf.mw["trace"] = c.mw["trace"]
      BY <1>4, <1>5, SwitchedDefaults DEF IsConfig
    <3> QED
      BY <1>4, <3>1 DEF ProxyCan, ProxyTraces
  <2>2. HasProxy(m.conf) <=> HasProxy(c)
    BY <1>4 DEF HasProxy
  <2>3. m.ok => boot'.webs # <<>>
    BY <1>3, <1>7 DEF webs
  <2>4. CASE c.mw = g.mw
    BY <1>3, <1>4, <2>1, <2>2, <2>3, <2>4 DEF LeftByProxy
  <2>5. CASE LeftByProxy(boot)
    BY <1>3, <1>4, <1>8, <2>1, <2>2, <2>3, <2>5 DEF LeftByProxy
  <2> QED
    BY <1>1, <2>4, <2>5 DEF BootOK
<1>10. ASSUME NEW i \in DOMAIN boot'.webs PROVE WebAsConfigured(boot', i)
  <2>1. CASE i \in DOMAIN boot.webs
    <3>1. boot'.webs[i] = boot.webs[i]
      BY <1>3, <1>7, <2>1 DEF webs
    <3>2. WebAsConfigured(boot, i)
      BY <1>1, <2>1 DEF BootOK
    <3> QED
      BY <1>3, <3>1, <3>2 DEF WebAsConfigured
  <2>2. CASE i \notin DOMAIN boot.webs
    <3>1. m.ok /\ i = Len(boot.webs) + 1 /\ boot'.webs[i] = m.web
      BY <1>3, <1>7, <2>2 DEF webs
    <3>2. /\ [handlers |-> m.web.handlers, tls |-> m.web.tls, port |-> m.web.port] = Settings(c)
          /\ "metrics" \notin m.web.services
      BY <1>4, <1>5, <3>1, WebIsAsConfigured
    <3>3. CASE c.mw = g.mw
      <4>1. Settings(c) = Wanted(g)
        BY <1>5, <3>3, WantedIsSettings DEF Settings, Left
      <4> QED
        BY <1>3, <3>1, <3>2, <4>1 DEF WebAsConfigured
    <3>4. CASE LeftByProxy(boot)
      <4>1. boot.webs # <<>> /\ boot'.proxied
        BY <1>3, <1>4, <3>1, <3>4 DEF LeftByProxy
      <4>2. i > 1
        BY <1>6, <3>1, <4>1
      <4>3. Settings(c) = Wanted([g EXCEPT !.mw["certificate"] = "off"])
        <5>1. Wanted([g EXCEPT !.mw["certificate"] = "off"])
                = [Settings(g) EXCEPT !.handlers = Handlers(MiddlewareDefaults(SwitchedOff(g.mw)))]
          BY <1>5, WantedWithout
        <5>2. Settings(c) = [Settings(g) EXCEPT !.handlers = Handlers(MiddlewareDefaults(SwitchedOff(g.mw)))]
          BY <1>5, <3>4 DEF Settings, Left, LeftByProxy
        <5> QED
          BY <5>1, <5>2, Zenon
      <4> QED
        BY <1>3, <3>1, <3>2, <4>1, <4>2, <4>3 DEF WebAsConfigured
    <3> QED
      BY <1>1, <3>3, <3>4 DEF BootOK
  <2> QED
    BY <2>1, <2>2
<1>11. \E U : boot'.webs \in Seq(U)
  BY <1>3, <1>7 DEF webs
<1>12. BootOK(boot')
  <2>1. boot'.tries \in Nat /\ boot'.tries # 0
    BY <1>3, <1>5
  <2>2. Left(boot'.given, boot'.conf)
    BY <1>3, <1>4, <1>5 DEF Left
  <2> QED
    BY <1>3, <1>4, <1>5, <1>9, <1>10, <1>11, <2>1, <2>2 DEF BootOK
<1> QED
  BY <1>1, <1>12 DEF BootInv

LEMMA BootStep ==
  ASSUME BootInv, [ServersNext]_serversVars
  PROVE  BootInv'
<1>1. CASE \E f \in Flags : Bind(f)
  BY <1>1, BindStep
<1>2. CASE Build
  BY <1>2, BuildStep
<1>3. CASE \E r \in {<<>>, <<"m", "web">>} : Run(r)
  <2>1. boot' = NotBooted /\ root' # NoRoot
    BY <1>3 DEF Run, NoRoot
  <2> QED
    BY <2>1 DEF BootInv
<1>4. ASSUME UNCHANGED <<boot, root>> PROVE BootInv'
  BY <1>4 DEF BootInv
<1>5. CASE \/ \E n \in Nodes : Enter(n)
           \/ \E n \in Nodes : StopSlot(n)
           \/ \E n \in Nodes : Finish(n)
           \/ \E n \in Nodes : Timeout(n)
  BY <1>4, <1>5 DEF Enter, StopSlot, Finish, Timeout, bootVars
<1>6. CASE \/ \E t \in Tasks : Serve(t)
           \/ \E t \in Tasks : TaskFails(t)
           \/ \E t \in Tasks : Drain(t)
           \/ \E t \in Tasks : Drained(t)
  BY <1>4, <1>6 DEF Serve, TaskFails, Drain, Drained, bootVars
<1>7. CASE CallerCancels \/ Signal \/ ReturnErrors \/ UNCHANGED serversVars
  BY <1>4, <1>7 DEF CallerCancels, Signal, ReturnErrors, serversVars, bootVars, runVars
<1> QED
  BY <1>1, <1>2, <1>3, <1>5, <1>6, <1>7 DEF ServersNext

\* Every webserver that is built has the middleware, TLS and port that the
\* caller's first configuration asks for (manager.go:88), but for the
\* certificates that a proxy before it switched off (proxy.go:57), for
\* any configurations, command lines and number of builds.
THEOREM WebserversAreAsConfigured == ServersSpec => []WebserverAsConfigured
<1>1. BootInv => WebserverAsConfigured
  <2> SUFFICES ASSUME BootInv PROVE WebserverAsConfigured
    OBVIOUS
  <2>1. CASE root = NoRoot
    BY <2>1 DEF BootInv, BootOK, WebAsConfigured, WebserverAsConfigured
  <2>2. CASE root # NoRoot
    BY <2>2 DEF BootInv, NotBooted, WebserverAsConfigured
  <2> QED
    BY <2>1, <2>2
<1> QED
  BY <1>1, BootStart, BootStep, PTL DEF ServersSpec
=============================================================================
