--------------------------- MODULE FsNotesProofs ----------------------------
(***************************************************************************)
(* What is read was there, an archive leaves nothing out, and what was     *)
(* acknowledged stays: the theorems about notes, on top of those of        *)
(* FsRoutesProofs.                                                         *)
(***************************************************************************)
EXTENDS FsRoutesProofs

(* A path is its parent and its last name.                                 *)
LEMMA FrontLast ==
  ASSUME NEW S, NEW p \in Seq(S), p # <<>>
  PROVE  Append(Front(p), Last(p)) = p /\ Last(p) \in S
<1> DEFINE f == Front(p)
           x == Last(p)
           q == Append(f, x)
<1>1. /\ f \in Seq(S) /\ Len(f) = Len(p) - 1 /\ Len(p) \in Nat /\ Len(p) >= 1
      /\ \A k \in 1..(Len(p) - 1) : f[k] = p[k]
  BY FrontIs
<1>2. x = p[Len(p)] /\ x \in S
  BY <1>1, ElementOfSeq DEF Last
<1> HIDE DEF f, x
<1>3. /\ q \in Seq(S) /\ Len(q) = Len(f) + 1 /\ q[Len(f) + 1] = x
      /\ \A k \in 1..Len(f) : q[k] = f[k]
  BY <1>1, <1>2, AppendProperties
<1> HIDE DEF q
<1>4. Len(q) = Len(p)
  BY <1>1, <1>3
<1>5. ASSUME NEW k \in 1..Len(q) PROVE q[k] = p[k]
  <2>1. CASE k = Len(p)
    BY <1>1, <1>2, <1>3, <2>1
  <2>2. CASE k # Len(p)
    <3>1. k \in 1..(Len(p) - 1) /\ k \in 1..Len(f)
      BY <1>1, <1>4, <2>2
    <3> QED BY <1>1, <1>3, <3>1
  <2> QED BY <2>1, <2>2
<1>6. q = p
  BY <1>3, <1>4, <1>5, SeqEqual
<1> QED BY <1>2, <1>6 DEF q, f, x

(* No path is longer than there are inodes.                                *)
LEMMA PathsAreShort ==
  ASSUME NEW m, Shaped(m), NEW path \in Seq(Components), Walk(m, path) \in Ids
  PROVE  Len(path) <= Cardinality(Ids)
<1> DEFINE Passed(k, A) == /\ IsFiniteSet(A) /\ Cardinality(A) = k + 1
                           /\ \A id \in A : \E q \in Seq(Components) : Len(q) <= k /\ Walk(m, q) = id
           S == {k \in Nat : \A p \in Seq(Components) :
                               Len(p) = k /\ Walk(m, p) \in Ids => \E A \in SUBSET Ids : Passed(k, A)}
<1>0. IsFiniteSet(Ids) /\ Cardinality(Ids) \in Nat /\ Ids \cap Errors = {}
  BY IdsAssumption, FS_CardinalityType
<1>1. 0 \in S
  <2> SUFFICES ASSUME NEW p \in Seq(Components), Len(p) = 0, Walk(m, p) \in Ids
               PROVE  \E A \in SUBSET Ids : Passed(0, A)
    OBVIOUS
  <2> DEFINE A == {Walk(m, p)}
  <2>1. IsFiniteSet(A) /\ Cardinality(A) = 1
    BY FS_Singleton
  <2>a. Len(p) <= 0
    OBVIOUS
  <2>2. \A id \in A : \E q \in Seq(Components) : Len(q) <= 0 /\ Walk(m, q) = id
    BY <2>a, Zenon
  <2> HIDE DEF A
  <2>3. Passed(0, A)
    BY <2>1, <2>2
  <2>4. A \in SUBSET Ids
    BY DEF A
  <2> QED BY <2>3, <2>4
<1>2. ASSUME NEW k \in S PROVE k + 1 \in S
  <2> SUFFICES ASSUME NEW p \in Seq(Components), Len(p) = k + 1, Walk(m, p) \in Ids
               PROVE  \E A \in SUBSET Ids : Passed(k + 1, A)
    OBVIOUS
  <2>1. p # <<>> /\ k \in Nat
    OBVIOUS
  <2>2. Front(p) \in Seq(Components) /\ Len(Front(p)) = k
    BY <2>1, FrontIs
  <2>3. Walk(m, Front(p)) \in Ids
    BY <1>0, <2>1, LastLook DEF LeadsTo
  <2>4. PICK A \in SUBSET Ids : Passed(k, A)
    BY <2>2, <2>3
  <2> DEFINE id == Walk(m, p)
             B == A \cup {id}
  <2>5. id \notin A
    <3> SUFFICES ASSUME id \in A PROVE FALSE
      OBVIOUS
    <3>1. PICK q \in Seq(Components) : Len(q) <= k /\ Walk(m, q) = id
      BY <2>4
    <3>2. q = p
      BY <3>1, WalkInjective
    <3> QED BY <2>1, <3>1, <3>2
  <2>6. \A i \in B : \E q \in Seq(Components) : Len(q) <= k + 1 /\ Walk(m, q) = i
    <3>1. ASSUME NEW i \in A PROVE \E q \in Seq(Components) : Len(q) <= k + 1 /\ Walk(m, q) = i
      <4>1. PICK q \in Seq(Components) : Len(q) <= k /\ Walk(m, q) = i
        BY <2>4
      <4>2. Len(q) <= k + 1
        BY <2>1, <4>1
      <4> QED BY <4>1, <4>2
    <3>2. Len(p) <= k + 1
      BY <2>1
    <3> QED BY <3>1, <3>2
  <2> HIDE DEF id
  <2>7. IsFiniteSet(B) /\ Cardinality(B) = (k + 1) + 1
    BY <2>1, <2>4, <2>5, FS_AddElement
  <2>8. B \in SUBSET Ids
    BY DEF id
  <2> HIDE DEF B
  <2> QED BY <2>6, <2>7, <2>8
<1>3. S \subseteq Nat
  OBVIOUS
<1> HIDE DEF S
<1>4. S = Nat
  BY <1>1, <1>2, <1>3, NatSets
<1>5. Len(path) \in Nat
  OBVIOUS
<1>6. Len(path) \in S
  BY <1>4, <1>5
<1>7. PICK A \in SUBSET Ids : Passed(Len(path), A)
  BY <1>6 DEF S
<1>8. Cardinality(A) <= Cardinality(Ids) /\ Cardinality(A) = Len(path) + 1
  BY <1>0, <1>7, FS_Subset
<1> QED BY <1>0, <1>5, <1>8

(* A round looks at every entry of what has been found.                    *)
LEMMA RoundsGrow ==
  ASSUME NEW m, NEW found, NEW t \in found, NEW x \in Names(m, t[2])
  PROVE  <<Append(t[1], x), m[t[2]].at[x]>> \in Rounds(m, found)
<1> DEFINE Below(u) == {<<Append(u[1], n), m[u[2]].at[n]>> : n \in Names(m, u[2])}
<1>1. <<Append(t[1], x), m[t[2]].at[x]>> \in Below(t)
  OBVIOUS
<1>2. Rounds(m, found) = found \cup UNION {Below(u) : u \in found}
  BY DEF Rounds
<1> HIDE DEF Below
<1> QED BY <1>1, <1>2

(* So Tree finds whatever Walk finds.                                      *)
LEMMA TreeFinds ==
  ASSUME NEW m, Shaped(m), NEW path \in Seq(Components), Walk(m, path) \in Ids
  PROVE  <<path, Walk(m, path)>> \in Tree(m)
<1> DEFINE n == Cardinality(Ids)
           start == {<<<<>>, Top>>}
<1>0. n \in Nat /\ Ids \cap Errors = {}
  BY IdsAssumption, FS_CardinalityType
<1>1. PICK h : TreeBy(m, h)
  BY TreeRounds
<1>2. (\A k \in 0..n : h[k] = IF k = 0 THEN start ELSE Rounds(m, h[k - 1])) /\ Tree(m) = h[n]
  BY <1>1 DEF TreeBy
<1>3. Len(path) <= n /\ Len(path) \in Nat
  BY PathsAreShort
<1> HIDE DEF n
<1> DEFINE S == {k \in Nat : k <= n => \A p \in Seq(Components) :
                               Len(p) <= k /\ Walk(m, p) \in Ids => <<p, Walk(m, p)>> \in h[k]}
<1>4. 0 \in S
  <2> SUFFICES ASSUME NEW p \in Seq(Components), Len(p) <= 0 PROVE <<p, Walk(m, p)>> \in h[0]
    OBVIOUS
  <2>1. p = <<>>
    OBVIOUS
  <2>2. h[0] = start
    BY <1>0, <1>2
  <2> QED BY <2>1, <2>2, WalkEmpty
<1>5. ASSUME NEW k \in S PROVE k + 1 \in S
  <2> SUFFICES ASSUME k + 1 <= n, NEW p \in Seq(Components), Len(p) <= k + 1, Walk(m, p) \in Ids
               PROVE  <<p, Walk(m, p)>> \in h[k + 1]
    OBVIOUS
  <2>1. k \in Nat /\ k <= n /\ k + 1 \in 0..n /\ k + 1 # 0 /\ (k + 1) - 1 = k /\ Len(p) \in Nat
    BY <1>0
  <2>2. h[k + 1] = Rounds(m, h[k])
    BY <1>2, <2>1
  <2>3. CASE Len(p) <= k
    BY <2>1, <2>2, <2>3 DEF Rounds
  <2>4. CASE Len(p) = k + 1
    <3> DEFINE d == Walk(m, Front(p))
               x == Last(p)
               t == <<Front(p), d>>
    <3>1. p # <<>>
      BY <2>1, <2>4
    <3>2. Front(p) \in Seq(Components) /\ Len(Front(p)) = k
      BY <2>1, <2>4, <3>1, FrontIs
    <3>3. LeadsTo(m, d, x, Walk(m, p))
      BY <1>0, <3>1, LastLook
    <3>4. d \in Ids /\ x \in Names(m, d) /\ Walk(m, p) = m[d].at[x]
      <4> HIDE DEF d, x
      <4> QED BY <3>3 DEF LeadsTo
    <3>5. t \in h[k]
      BY <2>1, <3>2, <3>4
    <3>6. Append(Front(p), x) = p
      BY <3>1, FrontLast
    <3>7. t[1] = Front(p) /\ t[2] = d
      OBVIOUS
    <3> HIDE DEF t, d, x
    <3>8. <<Append(t[1], x), m[t[2]].at[x]>> \in Rounds(m, h[k])
      <4>1. x \in Names(m, t[2])
        BY <3>4, <3>7
      <4> QED BY <3>5, <4>1, RoundsGrow
    <3> QED BY <2>2, <3>4, <3>6, <3>7, <3>8
  <2> QED BY <2>1, <2>3, <2>4
<1>6. S \subseteq Nat
  OBVIOUS
<1> HIDE DEF S
<1>7. S = Nat
  BY <1>4, <1>5, <1>6, NatSets
<1>8. n \in S
  BY <1>0, <1>7
<1> QED BY <1>0, <1>2, <1>3, <1>8 DEF S

(* What a path leads to is what is seen there, and the other way round.    *)
LEMMA SightHas ==
  ASSUME NEW m, Shaped(m), NEW p
  PROVE  /\ p \in Seq(Components) /\ Walk(m, p) \in Ids <=> p \in DOMAIN Sight(m)
         /\ p \in DOMAIN Sight(m) =>
              Sight(m)[p] = [id |-> Walk(m, p), type |-> m[Walk(m, p)].type, bytes |-> m[Walk(m, p)].bytes]
<1> DEFINE D == {t[1] : t \in Tree(m)}
<1>1. Sight(m) = [x \in D |-> [id |-> Walk(m, x), type |-> m[Walk(m, x)].type, bytes |-> m[Walk(m, x)].bytes]]
  BY DEF Sight
<1>2. ASSUME p \in D PROVE p \in Seq(Components) /\ Walk(m, p) \in Ids
  <2>1. PICK t \in Tree(m) : p = t[1]
    BY <1>2
  <2>2. t \in Places(m)
    BY TreeIsPlaces
  <2> QED BY <2>1, <2>2 DEF Places
<1>3. ASSUME p \in Seq(Components), Walk(m, p) \in Ids PROVE p \in D
  <2> DEFINE t == <<p, Walk(m, p)>>
  <2>1. t \in Tree(m)
    BY <1>3, TreeFinds
  <2>2. t[1] = p
    OBVIOUS
  <2> HIDE DEF t
  <2> QED BY <2>1, <2>2
<1> HIDE DEF D
<1> QED BY <1>1, <1>2, <1>3

(* q is the beginning of p.                                                *)
Begins(q, p) == Len(q) <= Len(p) /\ \A i \in 1..Len(q) : q[i] = p[i]

(* The first n of a sequence.                                              *)
LEMMA FirstOnes ==
  ASSUME NEW S, NEW s \in Seq(S), NEW n \in Nat, n <= Len(s)
  PROVE  SubSeq(s, 1, n) \in Seq(S) /\ Len(SubSeq(s, 1, n)) = n /\ \A i \in 1..n : SubSeq(s, 1, n)[i] = s[i]
<1> DEFINE a == SubSeq(s, 1, n)
<1>1. n - 1 + 1 = n /\ (\A i \in 1..n : 1 + i - 1 = i) /\ (IF 1 <= n THEN n - 1 + 1 ELSE 0) = n
  OBVIOUS
<1>2. \A i \in 1..n : s[i] \in S
  BY ElementOfSeq
<1>3. /\ a \in Seq(S) /\ Len(a) = (IF 1 <= n THEN n - 1 + 1 ELSE 0)
      /\ \A i \in 1..(n - 1 + 1) : a[i] = s[1 + i - 1]
  BY <1>2, SubSeqProperties
<1> HIDE DEF a
<1>4. a \in Seq(S) /\ Len(a) = n /\ \A i \in 1..n : a[i] = s[i]
  BY <1>1, <1>3
<1> QED BY <1>4 DEF a

(* IsPrefix, component by component.                                       *)
LEMMA PrefixIs ==
  ASSUME NEW S, NEW q \in Seq(S), NEW p \in Seq(S)
  PROVE  IsPrefix(q, p) <=> Begins(q, p)
<1> DEFINE n == Len(q)
           a == SubSeq(q, 1, n)
           b == SubSeq(p, 1, n)
<1>1. n \in Nat /\ Len(p) \in Nat /\ n <= n
  OBVIOUS
<1> SUFFICES ASSUME n <= Len(p) PROVE a = b <=> \A i \in 1..n : q[i] = p[i]
  BY DEF IsPrefix, Begins
<1>2. a \in Seq(S) /\ Len(a) = n /\ \A i \in 1..n : a[i] = q[i]
  BY <1>1, FirstOnes
<1> HIDE DEF n
<1>3. b \in Seq(S) /\ Len(b) = n /\ \A i \in 1..n : b[i] = p[i]
  BY <1>1, FirstOnes
<1> HIDE DEF a, b
<1>4. ASSUME a = b PROVE \A i \in 1..n : q[i] = p[i]
  BY <1>2, <1>3, <1>4
<1>5. ASSUME \A i \in 1..n : q[i] = p[i] PROVE a = b
  <2>1. \A i \in 1..Len(a) : a[i] = b[i]
    BY <1>2, <1>3, <1>5
  <2> QED BY <1>2, <1>3, <2>1, SeqEqual
<1> QED BY <1>4, <1>5

(* A lookup goes through folders.                                          *)
LEMMA WalkDown ==
  ASSUME NEW m, Shaped(m), NEW path \in Seq(Components), Walk(m, path) \in Ids,
         NEW q \in Seq(Components), Begins(q, path), q # path
  PROVE  /\ Walk(m, q) \in Ids /\ IsDir(m, Walk(m, q)) /\ Len(q) + 1 \in 1..Len(path)
         /\ path[Len(q) + 1] \in Names(m, Walk(m, q))
<1>0. Ids \cap Errors = {} /\ IsFs(m)
  BY IdsAssumption DEF Shaped
<1> DEFINE Holds(p, x) == /\ Walk(m, x) \in Ids /\ IsDir(m, Walk(m, x)) /\ p[Len(x) + 1] \in Names(m, Walk(m, x))
           S == {k \in Nat : \A p \in Seq(Components) : Len(p) = k /\ Walk(m, p) \in Ids =>
                   \A x \in Seq(Components) : Len(x) < Len(p) /\ Begins(x, p) => Holds(p, x)}
<1>1. 0 \in S
  <2> SUFFICES ASSUME NEW x \in Seq(Components), Len(x) < 0 PROVE FALSE
    OBVIOUS
  <2> QED OBVIOUS
<1>2. ASSUME NEW k \in S PROVE k + 1 \in S
  <2> SUFFICES ASSUME NEW p \in Seq(Components), Len(p) = k + 1, Walk(m, p) \in Ids,
                      NEW x \in Seq(Components), Len(x) < Len(p), Begins(x, p)
               PROVE  Holds(p, x)
    OBVIOUS
  <2> DEFINE f == Front(p)
  <2>1. p # <<>> /\ k \in Nat /\ Len(x) \in Nat /\ Len(x) <= k
    OBVIOUS
  <2>2. f \in Seq(Components) /\ Len(f) = k /\ \A i \in 1..k : f[i] = p[i]
    <3>1. /\ f \in Seq(Components) /\ Len(f) = Len(p) - 1
          /\ \A i \in 1..(Len(p) - 1) : f[i] = p[i]
      BY <2>1, FrontIs
    <3>2. Len(p) - 1 = k
      BY <2>1
    <3> QED BY <3>1, <3>2
  <2>3. LeadsTo(m, Walk(m, f), Last(p), Walk(m, p))
    BY <1>0, <2>1, LastLook
  <2>4. Last(p) = p[k + 1]
    BY DEF Last
  <2> HIDE DEF f
  <2>5. Walk(m, f) \in Ids /\ p[k + 1] \in Names(m, Walk(m, f))
    BY <2>3, <2>4 DEF LeadsTo
  <2>6. CASE Len(x) = k
    <3>1. \A i \in 1..Len(x) : x[i] = f[i]
      BY <2>2, <2>6 DEF Begins
    <3>2. x = f
      BY <2>2, <2>6, <3>1, SeqEqual
    <3>3. IsDir(m, Walk(m, f))
      BY <1>0, <2>5, EntriesAreIds DEF IsDir
    <3> QED BY <2>5, <2>6, <3>2, <3>3
  <2>7. CASE Len(x) < k
    <3>1. Begins(x, f)
      <4>1. \A i \in 1..Len(x) : x[i] = p[i] /\ i \in 1..k
        BY <2>1 DEF Begins
      <4>2. \A i \in 1..Len(x) : x[i] = f[i]
        BY <2>2, <4>1
      <4> QED BY <2>1, <2>2, <4>2 DEF Begins
    <3>2. Holds(f, x)
      BY <2>2, <2>5, <2>7, <3>1
    <3>3. f[Len(x) + 1] = p[Len(x) + 1]
      BY <2>1, <2>2, <2>7
    <3> QED BY <3>2, <3>3
  <2> QED BY <2>1, <2>6, <2>7
<1>3. S \subseteq Nat
  OBVIOUS
<1> HIDE DEF S
<1>4. S = Nat
  BY <1>1, <1>2, <1>3, NatSets
<1>5. Len(path) \in Nat /\ Len(q) \in Nat
  OBVIOUS
<1>6. Len(path) \in S
  BY <1>4, <1>5
<1>7. Len(q) < Len(path)
  <2> SUFFICES ASSUME Len(q) = Len(path) PROVE FALSE
    BY <1>5 DEF Begins
  <2>1. \A i \in 1..Len(q) : q[i] = path[i]
    BY DEF Begins
  <2> QED BY <2>1, SeqEqual
<1>8. Holds(path, q)
  BY <1>6, <1>7 DEF S
<1>9. Len(q) + 1 \in 1..Len(path)
  BY <1>5, <1>7
<1> QED BY <1>8, <1>9

(* What a path leads to is something.                                      *)
LEMMA WalkThere ==
  ASSUME NEW m, Shaped(m), NEW p \in Seq(Components), Walk(m, p) \in Ids
  PROVE  m[Walk(m, p)].type \in {"dir", "file"}
<1> DEFINE id == Walk(m, p)
<1>1. m[id].type # "none"
  <2>1. CASE p = <<>>
    BY <2>1, WalkEmpty DEF Shaped
  <2>2. CASE p # <<>>
    <3> DEFINE d == Walk(m, Front(p))
    <3>1. LeadsTo(m, d, Last(p), id)
      BY <2>2, IdsAssumption, LastLook
    <3> HIDE DEF d, id
    <3> QED BY <3>1 DEF LeadsTo, Shaped
  <2> QED BY <2>1, <2>2
<1>2. m[id].type \in {"dir", "file", "none"}
  BY DEF Shaped, IsFs, IsInode
<1> QED BY <1>1, <1>2

-----------------------------------------------------------------------------
(* Writes that stay.  Two file systems that differ in some entries: a path *)
(* leads to the same in both unless it meets one of these.                 *)
Strays(m, n, E) ==
  \A id \in Ids : \A c \in Names(n, id) :
    <<id, c>> \in E \/ (c \in Names(m, id) /\ n[id].at[c] = m[id].at[c])
Meets(m, n, p, E) ==
  \E q \in Seq(Components) :
    /\ q # <<>> /\ Begins(q, p) /\ Walk(m, Front(q)) \in Ids
    /\ Walk(n, Front(q)) = Walk(m, Front(q)) /\ <<Walk(m, Front(q)), Last(q)>> \in E

(* Nothing meets no difference.                                            *)
LEMMA MeetsNone ==
  ASSUME NEW m, NEW n, NEW p PROVE ~Meets(m, n, p, {})
BY DEF Meets

(* A path begins with itself, and with what its parent begins with.        *)
LEMMA BeginsUp ==
  ASSUME NEW p \in Seq(Components)
  PROVE  /\ Begins(p, p)
         /\ p # <<>> => \A q \in Seq(Components) : Begins(q, Front(p)) => Begins(q, p)
         /\ p # <<>> => Front(p) \in Seq(Components) /\ Begins(Front(p), p)
<1>1. Begins(p, p)
  BY DEF Begins
<1>2. ASSUME p # <<>> PROVE Front(p) \in Seq(Components) /\ Begins(Front(p), p)
  BY <1>2, FrontIs DEF Begins
<1>3. ASSUME p # <<>>, NEW q \in Seq(Components), Begins(q, Front(p)) PROVE Begins(q, p)
  <2>1. Len(Front(p)) = Len(p) - 1 /\ (\A k \in 1..(Len(p) - 1) : Front(p)[k] = p[k]) /\ Len(p) \in Nat
    BY <1>3, FrontIs
  <2>2. Len(q) \in Nat /\ Len(q) <= Len(p) - 1 /\ \A i \in 1..Len(q) : q[i] = Front(p)[i]
    BY <1>3, <2>1 DEF Begins
  <2> QED BY <2>1, <2>2 DEF Begins
<1> QED BY <1>1, <1>2, <1>3

(* The prefixes of a prefix.                                               *)
LEMMA BeginsOn ==
  ASSUME NEW p \in Seq(Components), NEW q \in Seq(Components), NEW x \in Seq(Components), Begins(x, q), Begins(q, p)
  PROVE  Begins(x, p)
BY DEF Begins

(* A path is where it was, or meets a difference.                          *)
LEMMA StrayWalk ==
  ASSUME NEW m, NEW n, Shaped(m), Shaped(n), NEW E, Strays(m, n, E), NEW path \in Seq(Components), Walk(n, path) \in Ids
  PROVE  Walk(n, path) = Walk(m, path) \/ Meets(m, n, path, E)
<1> DEFINE Holds(p) == Walk(n, p) \in Ids => Walk(n, p) = Walk(m, p) \/ Meets(m, n, p, E)
           S == {k \in Nat : \A p \in Seq(Components) : Len(p) = k => Holds(p)}
<1>1. 0 \in S
  <2> SUFFICES ASSUME NEW p \in Seq(Components), Len(p) = 0 PROVE Holds(p)
    OBVIOUS
  <2>1. p = <<>>
    OBVIOUS
  <2> QED BY <2>1, WalkEmpty
<1>2. ASSUME NEW k \in S PROVE k + 1 \in S
  <2> SUFFICES ASSUME NEW p \in Seq(Components), Len(p) = k + 1, Walk(n, p) \in Ids
               PROVE  Walk(n, p) = Walk(m, p) \/ Meets(m, n, p, E)
    OBVIOUS
  <2> DEFINE f == Front(p)
             d == Walk(n, f)
             e == Walk(m, f)
             name == Last(p)
  <2>1. p # <<>>
    OBVIOUS
  <2>2. f \in Seq(Components) /\ Len(f) = k /\ Begins(p, p) /\ \A q \in Seq(Components) : Begins(q, f) => Begins(q, p)
    BY <2>1, FrontIs, BeginsUp
  <2>3. Walk(n, p) \notin Errors
    BY IdsAssumption
  <2>4. d \in Ids /\ name \in Names(n, d) /\ Walk(n, p) = n[d].at[name]
    BY <2>1, <2>3, LastLook DEF LeadsTo
  <2>5. d = e \/ Meets(m, n, f, E)
    BY <2>2, <2>4
  <2>6. Walk(m, p) = Entry(m, e, name)
    BY <2>1, WalkFront
  <2>7. CASE Meets(m, n, f, E)
    BY <2>2, <2>7 DEF Meets
  <2>8. CASE d = e /\ <<d, name>> \in E
    BY <2>1, <2>2, <2>4, <2>8 DEF Meets
  <2>9. CASE d = e /\ <<d, name>> \notin E
    <3> HIDE DEF d, e, name
    <3>1. name \in Names(m, d) /\ n[d].at[name] = m[d].at[name]
      BY <2>4, <2>9 DEF Strays
    <3>2. IsDir(m, d)
      <4>1. IsInode(m[d])
        BY <2>4 DEF Shaped, IsFs
      <4>2. m[d].at # <<>>
        BY <3>1 DEF Names
      <4> QED BY <4>1, <4>2 DEF IsInode, IsDir
    <3>3. d \notin Errors
      BY <2>4, IdsAssumption
    <3> QED BY <2>4, <2>6, <2>9, <3>1, <3>2, <3>3 DEF Entry
  <2> QED BY <2>5, <2>7, <2>8, <2>9
<1>3. S \subseteq Nat
  OBVIOUS
<1> HIDE DEF S
<1>4. S = Nat
  BY <1>1, <1>2, <1>3, NatSets
<1>5. Len(path) \in Nat
  OBVIOUS
<1>6. Len(path) \in S
  BY <1>4, <1>5
<1> QED BY <1>6 DEF S

(* Looking up in what is kept.                                             *)
LEMMA WalkKept ==
  ASSUME NEW m, Shaped(m), NEW R, Top \in R, \A id \in R : \A c \in Names(m, id) : m[id].at[c] \in R,
         NEW path \in Seq(Components), Walk(m, path) \in Ids
  PROVE  Walk(m, path) \in R
<1> DEFINE Holds(p) == Walk(m, p) \in Ids => Walk(m, p) \in R
           S == {k \in Nat : \A p \in Seq(Components) : Len(p) = k => Holds(p)}
<1>1. 0 \in S
  <2> SUFFICES ASSUME NEW p \in Seq(Components), Len(p) = 0 PROVE Holds(p)
    OBVIOUS
  <2>1. p = <<>>
    OBVIOUS
  <2> QED BY <2>1, WalkEmpty
<1>2. ASSUME NEW k \in S PROVE k + 1 \in S
  <2> SUFFICES ASSUME NEW p \in Seq(Components), Len(p) = k + 1, Walk(m, p) \in Ids PROVE Walk(m, p) \in R
    OBVIOUS
  <2>1. p # <<>>
    OBVIOUS
  <2>2. Front(p) \in Seq(Components) /\ Len(Front(p)) = k
    BY <2>1, FrontIs
  <2>3. LeadsTo(m, Walk(m, Front(p)), Last(p), Walk(m, p))
    BY <2>1, LastLook, IdsAssumption
  <2>4. Walk(m, Front(p)) \in R
    BY <2>2, <2>3 DEF LeadsTo
  <2> QED BY <2>3, <2>4 DEF LeadsTo
<1>3. S \subseteq Nat
  OBVIOUS
<1> HIDE DEF S
<1>4. S = Nat
  BY <1>1, <1>2, <1>3, NatSets
<1>5. Len(path) \in Nat
  OBVIOUS
<1>6. Len(path) \in S
  BY <1>4, <1>5
<1> QED BY <1>6 DEF S

(* A path leads to the same in what is kept of m.                          *)
Leads(m, c, p) ==
  /\ Walk(c, p) \in Ids => Walk(m, p) = Walk(c, p)
  /\ Walk(m, p) \in Ids => Walk(c, p) = Walk(m, p) /\ c[Walk(m, p)] = m[Walk(m, p)]

(* Collecting what nothing leads to changes nothing that a path leads to.  *)
LEMMA CollectWalks ==
  ASSUME NEW m, NEW o, Safe(m, o), NEW held \in SUBSET Ids, NEW p \in Seq(Components)
  PROVE  Leads(m, Collect(m, held), p)
<1> DEFINE c == Collect(m, held)
<1>1. Shaped(m) /\ IsFs(m) /\ Safe(c, o) /\ Shaped(c)
  BY CollectSafe DEF Safe, Shaped
<1>2. PICK R \in SUBSET Ids : Collected(m, held, R, c)
  BY <1>1, CollectIs
<1> HIDE DEF c
<1>3. Top \in R /\ (\A id \in R : \A x \in Names(m, id) : m[id].at[x] \in R)
  BY <1>2 DEF Collected, Covers
<1>4. (\A id \in R : c[id] = m[id]) /\ (\A id \in Ids \ R : c[id] = NoInode)
  BY <1>2 DEF Collected
<1>5. \A id \in Ids \ R : Names(c, id) = {}
  BY <1>4 DEF NoInode, Names
<1>6. Strays(m, c, {})
  BY <1>4, <1>5 DEF Strays, Names
<1>7. ASSUME Walk(c, p) \in Ids PROVE Walk(m, p) = Walk(c, p)
  BY <1>1, <1>6, <1>7, StrayWalk, MeetsNone
<1>8. ASSUME Walk(m, p) \in Ids PROVE Walk(c, p) = Walk(m, p) /\ c[Walk(m, p)] = m[Walk(m, p)]
  <2> DEFINE E == (Ids \ R) \X Components
  <2>1. \A id \in Ids : \A x \in Names(m, id) : x \in Components
    BY <1>1, EntriesAreIds
  <2>2. Strays(c, m, E)
    <3> SUFFICES ASSUME NEW id \in Ids, NEW x \in Names(m, id), <<id, x>> \notin E
                 PROVE  x \in Names(c, id) /\ m[id].at[x] = c[id].at[x]
      BY DEF Strays
    <3>1. id \in R
      BY <2>1
    <3> QED BY <1>4, <3>1 DEF Names
  <2>3. ~Meets(c, m, p, E)
    <3> SUFFICES ASSUME NEW q \in Seq(Components), q # <<>>, Walk(m, Front(q)) = Walk(c, Front(q)),
                        Walk(c, Front(q)) \in Ids, <<Walk(c, Front(q)), Last(q)>> \in E
                 PROVE  FALSE
      BY DEF Meets
    <3>1. Front(q) \in Seq(Components)
      BY FrontIs
    <3>2. Walk(m, Front(q)) \in R
      BY <1>1, <1>3, <3>1, WalkKept
    <3> QED BY <3>2
  <2> HIDE DEF E
  <2>4. Walk(m, p) = Walk(c, p)
    BY <1>1, <1>8, <2>2, <2>3, StrayWalk
  <2>5. Walk(m, p) \in R
    BY <1>1, <1>3, <1>8, WalkKept
  <2> QED BY <1>4, <2>4, <2>5
<1> QED BY <1>7, <1>8 DEF Leads, c

(* What is at p stays, and where p leads is where it led or new.           *)
Still(m, n, p) ==
  Walk(m, p) \in Ids /\ ~IsDir(m, Walk(m, p))
    => /\ Walk(n, p) = Walk(m, p)
       /\ n[Walk(m, p)].type = m[Walk(m, p)].type /\ n[Walk(m, p)].bytes = m[Walk(m, p)].bytes
Lags(m, n, p) ==
  \A q \in Seq(Components) : Begins(q, p) /\ Walk(n, q) \in Ids
    => Walk(n, q) = Walk(m, q) \/ m[Walk(n, q)].type = "none"

(* That does not depend on what is collected.                              *)
LEMMA CollectStill ==
  ASSUME NEW m, NEW n, NEW o, Safe(n, o), NEW held \in SUBSET Ids, NEW p \in Seq(Components)
  PROVE  /\ Still(m, n, p) => Still(m, Collect(n, held), p)
         /\ Lags(m, n, p) => Lags(m, Collect(n, held), p)
<1> DEFINE c == Collect(n, held)
<1>1. \A q \in Seq(Components) : Leads(n, c, q)
  BY CollectWalks
<1> HIDE DEF c
<1>2. ASSUME Still(m, n, p) PROVE Still(m, c, p)
  BY <1>1, <1>2 DEF Still, Leads
<1>3. ASSUME Lags(m, n, p) PROVE Lags(m, c, p)
  BY <1>1, <1>3 DEF Lags, Leads
<1> QED BY <1>2, <1>3 DEF c

(* Nothing is changed.                                                     *)
LEMMA SameStill ==
  ASSUME NEW m, NEW p
  PROVE  Still(m, m, p) /\ Lags(m, m, p)
BY DEF Still, Lags

(* mkdir(2), and open(2) that creates.                                     *)
LEMMA MadeStill ==
  ASSUME NEW m, NEW o, Safe(m, o), NEW d, NEW name, InVault(m, o, d, name), name \notin Names(m, d),
         NEW id \in Ids, m[id].type = "none", NEW node \in {Folder, Note(<<>>)}, NEW p \in Seq(Components)
  PROVE  Still(m, Made(m, d, name, id, node), p) /\ Lags(m, Made(m, d, name, id, node), p)
<1> DEFINE k == [m EXCEPT ![id] = node]
           n == Made(m, d, name, id, node)
<1>1. Shaped(m) /\ IsFs(m) /\ Safe(n, o) /\ Shaped(n) /\ Added(m, o, id, node, k)
  <2>1. Safe(n, o) /\ Added(m, o, id, node, k)
    BY MadeSafe, NodeSafe
  <2> HIDE DEF n, k
  <2> QED BY <2>1 DEF Safe, Shaped
<1>2. d \in Ids /\ IsDir(m, d) /\ d # id /\ n = Link(k, d, name, id)
  BY DEF InVault, IsDir, Made
<1> HIDE DEF k
<1>3. /\ IsFs(k) /\ k[id] = node /\ \A e \in Ids \ {id} : k[e] = m[e]
  BY <1>1 DEF Added, Safe, Shaped
<1>4. Refilled(k, d, LinkedAt(k, d, name, id), n)
  BY <1>2, <1>3, LinkIs
<1> HIDE DEF n
<1>5. /\ \A e \in Ids \ {d} : n[e] = k[e]
      /\ n[d].at = LinkedAt(m, d, name, id)
  BY <1>2, <1>3, <1>4 DEF Refilled, LinkedAt
<1>6. node.at = <<>> /\ m[id].at = <<>>
  BY <1>1 DEF Folder, Note, IsFs, IsInode
<1>7. /\ \A e \in Ids \ {d, id} : n[e] = m[e]
      /\ Names(n, id) = {} /\ Names(m, id) = {}
      /\ Names(n, d) = {name} \cup Names(m, d) /\ n[d].at[name] = id
      /\ \A x \in Names(m, d) : x # name /\ n[d].at[x] = m[d].at[x]
  BY <1>2, <1>3, <1>5, <1>6 DEF LinkedAt, Names
<1>8. Strays(n, m, {}) /\ Strays(m, n, {<<d, name>>})
  <2>1. ASSUME NEW e \in Ids, NEW x \in Names(m, e) PROVE x \in Names(n, e) /\ m[e].at[x] = n[e].at[x]
    BY <1>7 DEF Names
  <2>2. ASSUME NEW e \in Ids, NEW x \in Names(n, e), ~(e = d /\ x = name) PROVE x \in Names(m, e) /\ n[e].at[x] = m[e].at[x]
    BY <1>7, <2>2 DEF Names
  <2> QED BY <2>1, <2>2 DEF Strays
<1>9. ASSUME Walk(m, p) \in Ids, ~IsDir(m, Walk(m, p))
      PROVE  Walk(n, p) = Walk(m, p) /\ n[Walk(m, p)] = m[Walk(m, p)]
  <2>1. Walk(m, p) = Walk(n, p)
    BY <1>1, <1>8, <1>9, StrayWalk, MeetsNone
  <2>2. m[Walk(m, p)].type \in {"dir", "file"}
    BY <1>1, <1>9, WalkThere
  <2>3. Walk(m, p) # id /\ Walk(m, p) # d
    BY <1>2, <1>9, <2>2
  <2> QED BY <1>7, <1>9, <2>1, <2>3
<1>10. ASSUME NEW q \in Seq(Components), Walk(n, q) \in Ids, Walk(n, q) # Walk(m, q) PROVE Walk(n, q) = id
  <2>1. Meets(m, n, q, {<<d, name>>})
    BY <1>1, <1>8, <1>10, StrayWalk
  <2>2. PICK x \in Seq(Components) : /\ x # <<>> /\ Begins(x, q) /\ Walk(n, Front(x)) = Walk(m, Front(x))
                                     /\ <<Walk(m, Front(x)), Last(x)>> \in {<<d, name>>}
    BY <2>1 DEF Meets
  <2>3. Walk(n, x) = Entry(n, d, name)
    BY <2>2, WalkFront
  <2>4. d \notin Errors /\ IsDir(n, d)
    <3>1. n[d].at # <<>> /\ IsInode(n[d])
      BY <1>1, <1>2, <1>7 DEF Names, Shaped, IsFs
    <3> QED BY <1>2, <3>1, IdsAssumption DEF IsInode, IsDir
  <2>5. Walk(n, x) = id
    BY <1>7, <2>3, <2>4 DEF Entry
  <2>6. x = q
    BY <1>1, <1>7, <1>10, <2>2, <2>5, WalkDown
  <2> QED BY <2>5, <2>6
<1>11. Still(m, n, p)
  BY <1>9 DEF Still
<1>12. Lags(m, n, p)
  BY <1>10 DEF Lags
<1> QED BY <1>11, <1>12 DEF n

(* Other bytes or another time, for another inode or the same bytes.       *)
LEMMA TouchedStill ==
  ASSUME NEW m, NEW o, Safe(m, o), NEW id \in Ids \ {o}, NEW n, Touched(m, id, n), NEW p \in Seq(Components),
         Walk(m, p) # id \/ n[id].bytes = m[id].bytes
  PROVE  Still(m, n, p)
<1>1. Shaped(m) /\ Shaped(n)
  BY TouchedSafe DEF Safe
<1>2. \A e \in Ids : n[e].type = m[e].type /\ n[e].at = m[e].at /\ Names(n, e) = Names(m, e)
  BY DEF Touched, Names
<1>3. Strays(n, m, {})
  BY <1>2 DEF Strays
<1>4. Walk(m, p) \in Ids => Walk(m, p) = Walk(n, p)
  BY <1>1, <1>3, StrayWalk, MeetsNone
<1>5. Walk(m, p) \in Ids => n[Walk(m, p)].bytes = m[Walk(m, p)].bytes
  BY DEF Touched
<1> QED BY <1>2, <1>4, <1>5 DEF Still

(* No path leads elsewhere then.                                           *)
LEMMA TouchedLags ==
  ASSUME NEW m, NEW o, Safe(m, o), NEW id \in Ids \ {o}, NEW n, Touched(m, id, n), NEW p \in Seq(Components)
  PROVE  Lags(m, n, p)
<1>1. Shaped(m) /\ Shaped(n)
  BY TouchedSafe DEF Safe
<1>2. \A e \in Ids : n[e].at = m[e].at /\ Names(n, e) = Names(m, e)
  BY DEF Touched, Names
<1>3. Strays(m, n, {})
  BY <1>2 DEF Strays
<1>4. \A q \in Seq(Components) : Walk(n, q) \in Ids => Walk(n, q) = Walk(m, q)
  BY <1>1, <1>3, StrayWalk, MeetsNone
<1> QED BY <1>4 DEF Lags

(* One entry less, which is not on the way.                                *)
LEMMA UnlinkStill ==
  ASSUME NEW m, NEW o, Safe(m, o), NEW d \in Ids \ {o}, NEW name, d = Top => name = Vault, NEW p \in Seq(Components)
  PROVE  /\ Lags(m, Unlink(m, d, name), p)
         /\ (\A q \in Seq(Components) : q # <<>> /\ Begins(q, p) => Walk(m, Front(q)) # d \/ Last(q) # name)
              => Still(m, Unlink(m, d, name), p)
<1> DEFINE n == Unlink(m, d, name)
<1>1. Shaped(m) /\ IsFs(m) /\ Shaped(n)
  BY UnlinkSafe DEF Safe, Shaped
<1>2. Refilled(m, d, UnlinkedAt(m, d, name), n)
  BY <1>1, UnlinkIs
<1> HIDE DEF n
<1>3. /\ \A e \in Ids \ {d} : n[e] = m[e]
      /\ Names(n, d) = Names(m, d) \ {name}
      /\ \A x \in Names(n, d) : n[d].at[x] = m[d].at[x]
  BY <1>2 DEF Refilled, UnlinkedAt, Names
<1>4. \A e \in Ids : n[e].type = m[e].type /\ n[e].bytes = m[e].bytes
  BY <1>2 DEF Refilled
<1>5. Strays(m, n, {})
  BY <1>3 DEF Strays, Names
<1>6. Strays(n, m, {<<d, name>>})
  <2> SUFFICES ASSUME NEW e \in Ids, NEW x \in Names(m, e), ~(e = d /\ x = name)
               PROVE  x \in Names(n, e) /\ m[e].at[x] = n[e].at[x]
    BY DEF Strays
  <2> QED BY <1>3 DEF Names
<1>7. Lags(m, n, p)
  <2>1. \A q \in Seq(Components) : Walk(n, q) \in Ids => Walk(n, q) = Walk(m, q)
    BY <1>1, <1>5, StrayWalk, MeetsNone
  <2> QED BY <2>1 DEF Lags
<1>8. ASSUME \A q \in Seq(Components) : q # <<>> /\ Begins(q, p) => Walk(m, Front(q)) # d \/ Last(q) # name
      PROVE  Still(m, n, p)
  <2>1. ~Meets(n, m, p, {<<d, name>>})
    BY <1>8 DEF Meets
  <2>2. Walk(m, p) \in Ids => Walk(m, p) = Walk(n, p)
    BY <1>1, <1>6, <2>1, StrayWalk
  <2> QED BY <1>4, <2>2 DEF Still
<1> QED BY <1>7, <1>8 DEF n

(* Two looks at one entry are one path.                                    *)
LEMMA SameEntry ==
  ASSUME NEW m, Shaped(m), NEW p \in Seq(Components), NEW q \in Seq(Components), p # <<>>, q # <<>>,
         Walk(m, Front(p)) = Walk(m, Front(q)), Walk(m, Front(p)) \in Ids, Last(p) = Last(q)
  PROVE  p = q
<1>1. Front(p) \in Seq(Components) /\ Front(q) \in Seq(Components)
  BY FrontIs
<1>2. Front(p) = Front(q)
  BY <1>1, WalkInjective
<1>3. p = Append(Front(p), Last(p)) /\ q = Append(Front(q), Last(q))
  BY FrontLast
<1> QED BY <1>2, <1>3

(* remove_file of another path.                                            *)
LEMMA UnlinkOther ==
  ASSUME NEW m, NEW o, Safe(m, o), NEW x \in VaultPaths, NEW p \in Seq(Components), x # p,
         UnlinkError(m, ParentOf(m, x), Last(x)) = None
  PROVE  Still(m, Unlink(m, ParentOf(m, x), Last(x)), p)
<1> DEFINE d == ParentOf(m, x)
           name == Last(x)
           id == Entry(m, d, name)
<1>1. Shaped(m) /\ x \in Seq(Components) /\ x # <<>>
  BY DEF Safe, VaultPaths
<1>2. d \notin Errors /\ id \notin Errors /\ ~IsDir(m, id)
  <2>1. UnlinkError(m, d, name) = None
    OBVIOUS
  <2> HIDE DEF d, name
  <2>2. d \notin Errors
    BY <2>1, RemovalErrorIs
  <2>3. id \notin Errors /\ ~IsDir(m, id)
    BY <2>1, IdsAssumption DEF UnlinkError, Errors
  <2> QED BY <2>2, <2>3
<1>3. InVault(m, o, d, name) /\ d = Walk(m, Front(x))
  <2>1. InVault(m, o, d, name)
    BY <1>2, ParentInVault
  <2>2. d = Walk(m, Front(x))
    BY <1>2 DEF ParentOf, Errors
  <2> QED BY <2>1, <2>2
<1>4. Walk(m, x) = id
  BY <1>1, <1>3, WalkFront
<1>5. d \in Ids \ {o} /\ (d = Top => name = Vault)
  BY <1>3 DEF InVault
<1>6. ASSUME NEW q \in Seq(Components), q # <<>>, Begins(q, p), Walk(m, Front(q)) = d, Last(q) = name,
             Walk(m, p) \in Ids
      PROVE  FALSE
  <2>1. q = x
    BY <1>1, <1>3, <1>5, <1>6, SameEntry
  <2>2. ~IsDir(m, Walk(m, q))
    BY <1>2, <1>4, <2>1
  <2>3. q = p
    BY <1>1, <1>6, <2>2, WalkDown
  <2> QED BY <2>1, <2>3
<1> HIDE DEF d, name
<1>7. CASE Walk(m, p) \in Ids
  <2>1. \A q \in Seq(Components) : q # <<>> /\ Begins(q, p) => Walk(m, Front(q)) # d \/ Last(q) # name
    BY <1>6, <1>7
  <2>2. Still(m, Unlink(m, d, name), p)
    BY <1>5, <2>1, UnlinkStill
  <2> QED BY <2>2 DEF d, name
<1>8. CASE Walk(m, p) \notin Ids
  BY <1>8 DEF Still
<1> QED BY <1>7, <1>8

(* remove_dir: nothing is in an empty folder.                              *)
LEMMA RmdirStill ==
  ASSUME NEW m, NEW o, Safe(m, o), NEW d \in Ids \ {o}, NEW name, d = Top => name = Vault,
         NEW p \in Seq(Components), RmdirError(m, d, name) = None
  PROVE  Still(m, Unlink(m, d, name), p)
<1> DEFINE id == Entry(m, d, name)
<1>1. Shaped(m)
  BY DEF Safe
<1>2. id \notin Errors /\ IsDir(m, id) /\ Names(m, id) = {}
  BY IdsAssumption DEF RmdirError, Errors
<1>3. ASSUME NEW q \in Seq(Components), q # <<>>, Begins(q, p), Walk(m, Front(q)) = d, Last(q) = name,
             Walk(m, p) \in Ids, ~IsDir(m, Walk(m, p))
      PROVE  FALSE
  <2>1. Walk(m, q) = id
    BY <1>3, WalkFront
  <2>2. q # p
    BY <1>2, <1>3, <2>1
  <2> QED BY <1>1, <1>2, <1>3, <2>1, <2>2, WalkDown
<1>4. CASE Walk(m, p) \in Ids /\ ~IsDir(m, Walk(m, p))
  <2>1. \A q \in Seq(Components) : q # <<>> /\ Begins(q, p) => Walk(m, Front(q)) # d \/ Last(q) # name
    BY <1>3, <1>4
  <2> QED BY <2>1, UnlinkStill
<1>5. CASE ~(Walk(m, p) \in Ids /\ ~IsDir(m, Walk(m, p)))
  BY <1>5 DEF Still
<1> QED BY <1>4, <1>5

(* rename(2), entry by entry.                                              *)
Renamed(m, n, a, x, d, y) ==
  /\ Strays(m, n, {<<d, y>>}) /\ Strays(n, m, {<<a, x>>, <<d, y>>})
  /\ \A e \in Ids : n[e].type = m[e].type /\ n[e].bytes = m[e].bytes

(* What Unlink and Link make of it.                                        *)
LEMMA RenameIs ==
  ASSUME NEW m, NEW o, Safe(m, o), NEW a \in Ids \ {o}, NEW x, a = Top => x = Vault, NEW d \in Ids \ {o}, NEW y, NEW id
  PROVE  Renamed(m, Link(Unlink(m, a, x), d, y, id), a, x, d, y)
<1> DEFINE k == Unlink(m, a, x)
           n == Link(k, d, y, id)
<1>1. IsFs(m) /\ Safe(k, o)
  BY UnlinkSafe DEF Safe, Shaped
<1>2. IsFs(k)
  BY <1>1 DEF Safe, Shaped
<1>3. Refilled(m, a, UnlinkedAt(m, a, x), k)
  BY <1>1, UnlinkIs
<1>4. Refilled(k, d, LinkedAt(k, d, y, id), n)
  BY <1>2, LinkIs
<1> HIDE DEF k, n
<1>5. /\ \A e \in Ids \ {a} : k[e] = m[e]
      /\ Names(k, a) = Names(m, a) \ {x}
      /\ \A c \in Names(k, a) : k[a].at[c] = m[a].at[c]
      /\ \A e \in Ids : k[e].type = m[e].type /\ k[e].bytes = m[e].bytes
  BY <1>3 DEF Refilled, UnlinkedAt, Names
<1>6. /\ \A e \in Ids \ {d} : n[e] = k[e]
      /\ Names(n, d) = {y} \cup Names(k, d)
      /\ \A c \in Names(k, d) : c # y => n[d].at[c] = k[d].at[c]
      /\ \A e \in Ids : n[e].type = k[e].type /\ n[e].bytes = k[e].bytes
  BY <1>4 DEF Refilled, LinkedAt, Names
<1>7. ASSUME NEW e \in Ids, NEW c \in Names(n, e), ~(e = d /\ c = y)
      PROVE  c \in Names(m, e) /\ n[e].at[c] = m[e].at[c]
  <2>1. c \in Names(k, e) /\ n[e].at[c] = k[e].at[c]
    BY <1>6, <1>7 DEF Names
  <2> QED BY <1>5, <2>1 DEF Names
<1>8. ASSUME NEW e \in Ids, NEW c \in Names(m, e), ~(e = d /\ c = y), ~(e = a /\ c = x)
      PROVE  c \in Names(n, e) /\ m[e].at[c] = n[e].at[c]
  <2>1. c \in Names(k, e) /\ k[e].at[c] = m[e].at[c]
    BY <1>5, <1>8 DEF Names
  <2> QED BY <1>6, <1>8, <2>1 DEF Names
<1>9. Strays(m, n, {<<d, y>>})
  BY <1>7 DEF Strays
<1>10. Strays(n, m, {<<a, x>>, <<d, y>>})
  BY <1>8 DEF Strays
<1>11. \A e \in Ids : n[e].type = m[e].type /\ n[e].bytes = m[e].bytes
  BY <1>5, <1>6
<1> QED BY <1>9, <1>10, <1>11 DEF Renamed, n, k

(* The folder of a path's last name, where there is one.                   *)
LEMMA ParentIs ==
  ASSUME NEW m, NEW x, ParentOf(m, x) \notin Errors
  PROVE  ParentOf(m, x) = Walk(m, Front(x))
BY DEF ParentOf, Errors

(* rename(2): what replaces a folder finds it empty, and what is renamed   *)
(* was not on the way.                                                     *)
LEMMA RenameStill ==
  ASSUME NEW m, NEW o, Safe(m, o), NEW x \in VaultPaths, NEW y \in VaultPaths, RenameError(m, x, y) = None,
         NEW p \in Seq(Components)
  PROVE  /\ ~Begins(x, p) /\ y # p => Still(m, Rename(m, x, y), p)
         /\ ~Begins(y, p) => Lags(m, Rename(m, x, y), p)
<1> DEFINE a == ParentOf(m, x)
           d == ParentOf(m, y)
           id == Walk(m, x)
           n == Rename(m, x, y)
           old == Walk(m, y)
<1>1. Shaped(m) /\ x \in Seq(Components) /\ y \in Seq(Components) /\ x # <<>> /\ y # <<>>
  BY DEF Safe, VaultPaths
<1>2. id \notin Errors /\ d \notin Errors
  BY RenameErrorIs
<1>3. CASE x = y
  <2>1. n = m
    BY <1>3 DEF Rename
  <2> QED BY <2>1, SameStill
<1>4. CASE x # y
  <2>1. id \in Ids /\ InVault(m, o, a, Last(x)) /\ a \in Ids
    BY <1>2, WalkEntry
  <2>2. InVault(m, o, d, Last(y))
    BY <1>2, ParentInVault
  <2>3. a = Walk(m, Front(x)) /\ d = Walk(m, Front(y))
    <3>1. a \notin Errors
      BY <2>1, IdsAssumption
    <3> QED BY <1>2, <3>1, ParentIs
  <2>4. Safe(n, o)
    BY <1>2, RenameSafe
  <2>5. n = Link(Unlink(m, a, Last(x)), d, Last(y), id)
    BY <1>4 DEF Rename
  <2>6. old \in Ids => ~IsDir(m, old) \/ Names(m, old) = {}
    <3> SUFFICES ASSUME old \in Ids PROVE ~IsDir(m, old) \/ Names(m, old) = {}
      OBVIOUS
    <3>1. old # id
      BY <1>1, <1>4, WalkInjective
    <3>2. old \notin Errors /\ None \notin Errors
      BY IdsAssumption
    <3>3. RenameError(m, x, y) = None
      OBVIOUS
    <3>4. None \notin {"EINVAL", "ENOTDIR", "EISDIR", "ENOTEMPTY"}
      BY IdsAssumption DEF Errors
    <3> HIDE DEF id, old
    <3>5. \/ IsStrictPrefix(x, y)
          \/ /\ ~(IsDir(m, id) /\ ~IsDir(m, old)) /\ ~(~IsDir(m, id) /\ IsDir(m, old))
             /\ ~(IsDir(m, id) /\ Names(m, old) # {})
      BY <1>2, <3>1, <3>2, <3>3, <3>4 DEF RenameError, id, old, d
    <3>6. ~IsStrictPrefix(x, y)
      BY <1>2, <3>3, <3>4 DEF RenameError, id, d
    <3> QED BY <3>5, <3>6
  <2> HIDE DEF a, d, id, n, old
  <2>7. a \in Ids \ {o} /\ (a = Top => Last(x) = Vault) /\ d \in Ids \ {o}
    BY <2>1, <2>2 DEF InVault
  <2>8. Renamed(m, n, a, Last(x), d, Last(y))
    BY <2>5, <2>7, RenameIs
  <2>9. Shaped(n)
    BY <2>4 DEF Safe
  <2>10. ASSUME ~Begins(x, p), y # p, Walk(m, p) \in Ids, ~IsDir(m, Walk(m, p)) PROVE Walk(n, p) = Walk(m, p)
    <3> SUFFICES ASSUME Meets(n, m, p, {<<a, Last(x)>>, <<d, Last(y)>>}) PROVE FALSE
      BY <1>1, <2>8, <2>9, <2>10, StrayWalk DEF Renamed
    <3>1. PICK q \in Seq(Components) :
            /\ q # <<>> /\ Begins(q, p)
            /\ (Walk(m, Front(q)) = a /\ Last(q) = Last(x)) \/ (Walk(m, Front(q)) = d /\ Last(q) = Last(y))
      BY DEF Meets
    <3>2. q = x \/ q = y
      BY <1>1, <2>3, <2>7, <3>1, SameEntry
    <3>3. q = y
      BY <2>10, <3>1, <3>2
    <3>4. Walk(m, y) \in Ids /\ IsDir(m, Walk(m, y)) /\ Names(m, Walk(m, y)) # {}
      BY <1>1, <2>10, <3>1, <3>3, WalkDown
    <3> QED BY <2>6, <3>4 DEF old
  <2>11. ASSUME ~Begins(x, p), y # p PROVE Still(m, n, p)
    BY <2>8, <2>10, <2>11 DEF Still, Renamed
  <2>12. ASSUME ~Begins(y, p), NEW q \in Seq(Components), Begins(q, p), Walk(n, q) \in Ids PROVE Walk(n, q) = Walk(m, q)
    <3> SUFFICES ASSUME Meets(m, n, q, {<<d, Last(y)>>}) PROVE FALSE
      BY <1>1, <2>8, <2>9, <2>12, StrayWalk DEF Renamed
    <3>1. PICK z \in Seq(Components) : z # <<>> /\ Begins(z, q) /\ Walk(m, Front(z)) = d /\ Last(z) = Last(y)
      BY DEF Meets
    <3>2. z = y
      BY <1>1, <2>3, <2>7, <3>1, SameEntry
    <3> QED BY <2>12, <3>1, <3>2, BeginsOn
  <2>13. ~Begins(y, p) => Lags(m, n, p)
    BY <2>12 DEF Lags
  <2> QED BY <2>11, <2>13 DEF n
<1> QED BY <1>3, <1>4

(* What a handler has open is not on the way to p; the bytes there are;    *)
(* and what the calls of a handler may make of the file system.            *)
Writing == {"write", "append"}
Away(s, p) ==
  /\ req[s].op \in Writing => loc[s].fd # Walk(mem, p)
  /\ req[s].op = "copy" => loc[s].dest # Walk(mem, p)
  /\ req[s].op = "rm" => \A i \in 1..Len(loc[s].frames), q \in Seq(Components) :
                           Begins(q, p) => loc[s].frames[i].dir # Walk(mem, q)
Bytes == Requests \cup {Zero} \cup UNION {Range(m[id].bytes) : m \in Starts, id \in Ids}
Filled(m) == \A id \in Ids : m[id].bytes \in Seq(Bytes)
Full == Filled(mem) /\ \A r \in Requests : loc[r].got \in Seq(Bytes)
Tame(s, n) ==
  /\ Full => Filled(n)
  /\ \A id \in Ids : mem[id].type # "none" => n[id].type = mem[id].type
  /\ \A p \in VaultPaths : /\ ~MayTouch(req[s], p) /\ Away(s, p) => Still(mem, n, p)
                           /\ ~MovesOnto(req[s], p) => Lags(mem, n, p)

(* Nothing is changed.                                                     *)
LEMMA SameTame ==
  ASSUME NEW s PROVE Tame(s, mem)
BY SameStill DEF Tame, Full

(* A new folder or note.                                                   *)
LEMMA MadeTame ==
  ASSUME NEW o, FilesInv(o), NEW s, NEW x \in VaultPaths, ParentOf(mem, x) \notin Errors,
         Last(x) \notin Names(mem, ParentOf(mem, x)), Unused # {}, NEW node \in {Folder, Note(<<>>)}
  PROVE  Tame(s, Made(mem, ParentOf(mem, x), Last(x), Free, node))
<1> DEFINE d == ParentOf(mem, x)
           name == Last(x)
           k == [mem EXCEPT ![Free] = node]
           n == Made(mem, d, name, Free, node)
<1>1. Free \in Ids /\ mem[Free].type = "none"
  BY DEF Free, Unused
<1>2. Safe(mem, o) /\ InVault(mem, o, d, name)
  BY ParentInVault DEF FilesInv
<1>3. name \notin Names(mem, d)
  OBVIOUS
<1> HIDE DEF d, name
<1>4. \A p \in VaultPaths : Still(mem, n, p) /\ Lags(mem, n, p)
  BY <1>1, <1>2, <1>3, MadeStill DEF VaultPaths
<1>5. Added(mem, o, Free, node, k) /\ d \in Ids
  BY <1>1, <1>2, NodeSafe DEF InVault
<1> HIDE DEF k
<1>6. IsFs(k) /\ \A e \in Ids \ {Free} : k[e] = mem[e]
  BY <1>5 DEF Added, Safe, Shaped
<1>7. Refilled(k, d, LinkedAt(k, d, name, Free), Link(k, d, name, Free))
  BY <1>5, <1>6, LinkIs
<1>8. n = Link(k, d, name, Free)
  BY DEF Made, k
<1> HIDE DEF n
<1>9. \A e \in Ids : n[e].type = k[e].type
  BY <1>7, <1>8 DEF Refilled
<1>10. \A e \in Ids : mem[e].type # "none" => n[e].type = mem[e].type
  BY <1>1, <1>6, <1>9
<1>11. Filled(mem) => Filled(n)
  <2>1. node.bytes = <<>> /\ <<>> \in Seq(Bytes) /\ k[Free] = node
    BY <1>5 DEF Folder, Note, Added
  <2>2. Filled(mem) => \A e \in Ids : k[e].bytes \in Seq(Bytes)
    BY <1>6, <2>1 DEF Filled
  <2>3. \A e \in Ids : n[e].bytes = k[e].bytes
    BY <1>7, <1>8 DEF Refilled
  <2> QED BY <2>2, <2>3 DEF Filled
<1> QED BY <1>4, <1>10, <1>11 DEF Tame, Full, n, d, name

(* Other bytes or another time.                                            *)
LEMMA TouchedTame ==
  ASSUME NEW o, FilesInv(o), NEW s, NEW id \in Ids \ {o}, NEW n, Touched(mem, id, n),
         \A p \in VaultPaths : ~MayTouch(req[s], p) /\ Away(s, p) => Walk(mem, p) # id \/ n[id].bytes = mem[id].bytes,
         Full => n[id].bytes \in Seq(Bytes)
  PROVE  Tame(s, n)
<1>1. Safe(mem, o) /\ \A p \in VaultPaths : p \in Seq(Components)
  BY DEF FilesInv, VaultPaths
<1>2. \A p \in VaultPaths : ~MayTouch(req[s], p) /\ Away(s, p) => Still(mem, n, p)
  BY <1>1, TouchedStill
<1>3. \A p \in VaultPaths : Lags(mem, n, p)
  BY <1>1, TouchedLags
<1>4. \A e \in Ids : n[e].type = mem[e].type
  BY DEF Touched
<1>5. Full => Filled(n)
  BY DEF Touched, Filled, Full
<1> QED BY <1>2, <1>3, <1>4, <1>5 DEF Tame

(* The bytes are the new ones.                                             *)
LEMMA NewBytes ==
  ASSUME NEW m, IsFs(m), NEW id \in Ids, NEW bytes
  PROVE  WithBytes(m, id, bytes)[id].bytes = bytes
<1> DEFINE first == [m[id] EXCEPT !.bytes = bytes]
<1>1. m[id] = [type |-> m[id].type, at |-> m[id].at, bytes |-> m[id].bytes, mtime |-> m[id].mtime]
  BY DEF IsFs, IsInode
<1>2. first = [type |-> m[id].type, at |-> m[id].at, bytes |-> bytes, mtime |-> m[id].mtime]
  BY <1>1
<1>3. WithBytes(m, id, bytes)[id] = [first EXCEPT !.mtime = None]
  BY DEF WithBytes, IsFs
<1> HIDE DEF first
<1>4. [first EXCEPT !.mtime = None].bytes = bytes
  BY <1>2
<1> QED BY <1>3, <1>4

(* Bytes that a handler writes to what it has open.                        *)
LEMMA BytesTame ==
  ASSUME NEW o, FilesInv(o), NEW s, NEW h \in Handles(o), NEW bytes,
         \A p \in VaultPaths : ~MayTouch(req[s], p) /\ Away(s, p) => Walk(mem, p) # h,
         h # None /\ Full => bytes \in Seq(Bytes)
  PROVE  Tame(s, WithBytes(mem, h, bytes))
<1>1. Safe(mem, o) /\ IsFs(mem)
  BY DEF FilesInv, Safe, Shaped
<1>2. CASE h = None
  <2>1. None \notin Ids
    BY IdsAssumption
  <2>2. WithBytes(mem, h, bytes) = mem
    BY <1>1, <1>2, <2>1 DEF WithBytes, IsFs
  <2> QED BY <2>2, SameTame
<1>3. CASE h # None
  <2>1. h \in Ids \ {o}
    BY <1>3 DEF Handles
  <2>2. Touched(mem, h, WithBytes(mem, h, bytes))
    BY <1>1, <2>1, WithBytesIs
  <2>3. WithBytes(mem, h, bytes)[h].bytes = bytes
    BY <1>1, <2>1, NewBytes
  <2> QED BY <1>3, <2>1, <2>2, <2>3, TouchedTame
<1> QED BY <1>2, <1>3

(* An entry less: what remove_file and remove_dir may do.                  *)
LEMMA UnlinkTame ==
  ASSUME NEW o, FilesInv(o), NEW s, NEW d \in Ids \ {o}, NEW name, d = Top => name = Vault,
         \A p \in VaultPaths : ~MayTouch(req[s], p) /\ Away(s, p) => Still(mem, Unlink(mem, d, name), p)
  PROVE  Tame(s, Unlink(mem, d, name))
<1> DEFINE n == Unlink(mem, d, name)
<1>1. Safe(mem, o) /\ IsFs(mem) /\ \A p \in VaultPaths : p \in Seq(Components)
  BY DEF FilesInv, Safe, Shaped, VaultPaths
<1>2. \A p \in VaultPaths : Lags(mem, n, p)
  BY <1>1, UnlinkStill
<1>3. Refilled(mem, d, UnlinkedAt(mem, d, name), n)
  BY <1>1, UnlinkIs
<1> HIDE DEF n
<1>4. \A e \in Ids : n[e].type = mem[e].type /\ n[e].bytes = mem[e].bytes
  BY <1>3 DEF Refilled
<1> QED BY <1>2, <1>4 DEF Tame, Full, Filled, n

(* rename(2).                                                              *)
LEMMA RenameTame ==
  ASSUME NEW o, FilesInv(o), NEW s, Path(s) \in VaultPaths, To(s) \in VaultPaths, req[s].op = "rename",
         RenameError(mem, Path(s), To(s)) = None
  PROVE  Tame(s, Rename(mem, Path(s), To(s)))
<1> DEFINE x == Path(s)
           y == To(s)
           n == Rename(mem, x, y)
<1>1. Safe(mem, o) /\ IsFs(mem) /\ \A p \in VaultPaths : p \in Seq(Components)
  BY DEF FilesInv, Safe, Shaped, VaultPaths
<1>2. x \in VaultPaths /\ y \in VaultPaths /\ RenameError(mem, x, y) = None
  OBVIOUS
<1>3. ASSUME NEW p \in VaultPaths
      PROVE  /\ ~MayTouch(req[s], p) => ~Begins(x, p) /\ y # p
             /\ ~MovesOnto(req[s], p) => ~Begins(y, p)
  <2>1. IsPrefix(x, p) <=> Begins(x, p)
    BY <1>1, <1>2, PrefixIs
  <2>2. IsPrefix(y, p) <=> Begins(y, p)
    BY <1>1, <1>2, PrefixIs
  <2>3. ~MayTouch(req[s], p) => ~IsPrefix(x, p) /\ y # p
    BY DEF MayTouch, Path, To
  <2>4. ~MovesOnto(req[s], p) => ~IsPrefix(y, p)
    BY DEF MovesOnto, To
  <2> QED BY <2>1, <2>2, <2>3, <2>4
<1> HIDE DEF x, y
<1>4. \A p \in VaultPaths : (~Begins(x, p) /\ y # p => Still(mem, n, p)) /\ (~Begins(y, p) => Lags(mem, n, p))
  BY <1>1, <1>2, RenameStill
<1>5. \A e \in Ids : n[e].type = mem[e].type /\ n[e].bytes = mem[e].bytes
  <2>1. CASE x = y
    BY <2>1 DEF Rename
  <2>2. CASE x # y
    <3> DEFINE a == ParentOf(mem, x)
               d == ParentOf(mem, y)
               id == Walk(mem, x)
    <3>1. id \notin Errors /\ d \notin Errors
      BY <1>2, RenameErrorIs
    <3>2. InVault(mem, o, a, Last(x)) /\ InVault(mem, o, d, Last(y))
      BY <1>1, <1>2, <3>1, WalkEntry, ParentInVault
    <3>3. n = Link(Unlink(mem, a, Last(x)), d, Last(y), id)
      BY <2>2 DEF Rename
    <3> HIDE DEF a, d, id, n
    <3>4. Renamed(mem, n, a, Last(x), d, Last(y))
      BY <1>1, <3>2, <3>3, RenameIs DEF InVault
    <3> QED BY <3>4 DEF Renamed
  <2> QED BY <2>1, <2>2
<1> HIDE DEF n
<1>6. Tame(s, n)
  BY <1>3, <1>4, <1>5 DEF Tame, Full, Filled
<1> QED BY <1>6 DEF n, x, y

(* A call of a handler makes no more of the file system than that.         *)
Tames(s, o) == mem' = mem \/ \E n : Store(n) /\ Safe(n, o) /\ Tame(s, n)

(* open(2) for writing: another path leads elsewhere.                      *)
LEMMA OpenedTame ==
  ASSUME NEW o, FilesInv(o), NEW s, NEW x \in VaultPaths, OpenError(mem, x) = None, Unused # {},
         \A p \in VaultPaths : ~MayTouch(req[s], p) => x # p
  PROVE  Safe(Opened(x, <<>>), o) /\ Tame(s, Opened(x, <<>>))
<1>1. Safe(Opened(x, <<>>), o)
  BY OpenedFair DEF Fair
<1>2. Safe(mem, o) /\ Shaped(mem) /\ IsFs(mem) /\ \A p \in VaultPaths : p \in Seq(Components) /\ p # <<>>
  BY DEF FilesInv, Safe, Shaped, VaultPaths
<1>3. CASE Walk(mem, x) \in Errors
  <2> DEFINE d == ParentOf(mem, x)
             name == Last(x)
  <2>1. d \notin Errors
    BY ErrorsAre
  <2>2. d = Walk(mem, Front(x)) /\ InVault(mem, o, d, name)
    BY <1>2, <2>1, ParentIs, ParentInVault
  <2>3. Walk(mem, x) = Entry(mem, d, name)
    BY <1>2, <2>2, WalkFront
  <2>4. Opened(x, <<>>) = Made(mem, d, name, Free, Note(<<>>))
    BY <1>3 DEF Opened, Made
  <2> HIDE DEF d, name
  <2>5. name \notin Names(mem, d)
    <3> SUFFICES ASSUME name \in Names(mem, d) PROVE FALSE
      OBVIOUS
    <3>1. mem[d].at[name] \in Ids /\ IsDir(mem, d)
      BY <1>2, <2>2, EntriesAreIds DEF InVault
    <3>2. Walk(mem, x) = mem[d].at[name]
      BY <2>1, <2>3, <3>1 DEF Entry
    <3> QED BY <1>3, <3>1, <3>2, IdsAssumption
  <2>6. Tame(s, Made(mem, d, name, Free, Note(<<>>)))
    BY <2>1, <2>5, MadeTame DEF d, name
  <2> QED BY <1>1, <2>4, <2>6
<1>4. CASE Walk(mem, x) \notin Errors
  <2>1. Walk(mem, x) \in Ids \ {Top, o}
    BY <1>2, <1>4, WalkEntry
  <2>2. Opened(x, <<>>) = WithBytes(mem, Walk(mem, x), <<>>)
    BY <1>4 DEF Opened
  <2>3. \A p \in VaultPaths : ~MayTouch(req[s], p) => Walk(mem, p) # Walk(mem, x)
    BY <1>2, <2>1, WalkInjective
  <2>4. Tame(s, WithBytes(mem, Walk(mem, x), <<>>))
    <3>1. <<>> \in Seq(Bytes)
      OBVIOUS
    <3> QED BY <2>1, <2>3, <3>1, BytesTame DEF Handles
  <2> QED BY <1>1, <2>2, <2>4
<1> QED BY <1>3, <1>4

(* create_dir_all.                                                         *)
LEMMA MakeDirsTames ==
  ASSUME NEW o, FilesInv(o), ControlInv(o), NEW s \in Requests, MakeDirs(s)
  PROVE  Tames(s, o)
<1> DEFINE l == loc[s]
           d == Head(l.dirs)
           made == Link([mem EXCEPT ![Free] = Folder], ParentOf(mem, d.path), Last(d.path), Free)
<1>1. \/ MkdirError(mem, d.path) = None /\ Unused # {} /\ Store(made)
      \/ Same
  BY DEF MakeDirs
<1>2. Busy(s, "mkdirs", o)
  BY Busies DEF MakeDirs
<1>3. l.dirs \in Seq(Dirs) /\ l.dirs # <<>> /\ d \in Dirs
  BY <1>2 DEF Busy, Ready, IsLoc
<1> HIDE DEF d
<1>4. CASE MkdirError(mem, d.path) = None /\ Unused # {} /\ Store(made)
  <2> DEFINE x == d.path
  <2>1. x # <<>> /\ ParentOf(mem, x) \notin Errors
    BY <1>4, ErrorsAre
  <2>2. x \in VaultPaths
    BY <1>3, <2>1 DEF Dirs
  <2>3. Last(x) \notin Names(mem, ParentOf(mem, x))
    <3>1. None # "EEXIST"
      BY IdsAssumption DEF Errors
    <3> QED BY <1>4, <2>1, <3>1 DEF MkdirError
  <2>4. made = Made(mem, ParentOf(mem, x), Last(x), Free, Folder)
    BY DEF Made
  <2> HIDE DEF x
  <2>5. Tame(s, Made(mem, ParentOf(mem, x), Last(x), Free, Folder))
    BY <1>4, <2>1, <2>2, <2>3, MadeTame
  <2>6. InVault(mem, o, ParentOf(mem, x), Last(x))
    BY <2>1, <2>2, ParentInVault DEF FilesInv
  <2>7. Safe(Made(mem, ParentOf(mem, x), Last(x), Free, Folder), o)
    BY <1>4, <2>6, MadeFair DEF Fair
  <2> QED BY <1>4, <2>4, <2>5, <2>7 DEF Tames
<1> QED BY <1>1, <1>4 DEF Same, Tames, d

(* mkdir without the recursive flag.                                       *)
LEMMA MkdirTames ==
  ASSUME NEW o, FilesInv(o), ControlInv(o), NEW s \in Requests, Mkdir(s)
  PROVE  Tames(s, o)
<1> DEFINE x == Path(s)
           made == Link([mem EXCEPT ![Free] = Folder], ParentOf(mem, x), Last(x), Free)
<1>1. \/ MkdirError(mem, x) = None /\ Unused # {} /\ Store(made)
      \/ Same
  BY DEF Mkdir
<1>2. Busy(s, "mkdir", o)
  BY Busies DEF Mkdir
<1>3. x \in VaultPaths
  BY <1>2, PathsStay
<1> HIDE DEF x
<1>4. CASE MkdirError(mem, x) = None /\ Unused # {} /\ Store(made)
  <2>1. x # <<>> /\ ParentOf(mem, x) \notin Errors
    BY <1>4, ErrorsAre
  <2>3. Last(x) \notin Names(mem, ParentOf(mem, x))
    <3>1. None # "EEXIST"
      BY IdsAssumption DEF Errors
    <3> QED BY <1>4, <2>1, <3>1 DEF MkdirError
  <2>4. made = Made(mem, ParentOf(mem, x), Last(x), Free, Folder)
    BY DEF Made
  <2>5. Tame(s, Made(mem, ParentOf(mem, x), Last(x), Free, Folder))
    BY <1>3, <1>4, <2>1, <2>3, MadeTame
  <2>6. InVault(mem, o, ParentOf(mem, x), Last(x))
    BY <1>3, <2>1, ParentInVault DEF FilesInv
  <2>7. Safe(Made(mem, ParentOf(mem, x), Last(x), Free, Folder), o)
    BY <1>4, <2>6, MadeFair DEF Fair
  <2> QED BY <1>4, <2>4, <2>5, <2>7 DEF Tames
<1> QED BY <1>1, <1>4 DEF Same, Tames

(* The opens of writeFile, appendFile and copyFile.                        *)
LEMMA OpensTame ==
  ASSUME NEW o, FilesInv(o), ControlInv(o), NEW s \in Requests, Create(s) \/ OpenAppend(s) \/ CreateDest(s)
  PROVE  Tames(s, o)
<1>1. CASE Create(s) \/ OpenAppend(s)
  <2>1. \/ OpenError(mem, Path(s)) = None /\ Unused # {} /\ Store(Opened(Path(s), <<>>))
        \/ Same
    BY <1>1 DEF Create, OpenAppend
  <2>2. PICK step \in {"create", "open_append"} : Busy(s, step, o)
    BY <1>1, Busies DEF Create, OpenAppend
  <2>3. Path(s) \in VaultPaths
    BY <2>2, PathsStay
  <2>4. req[s].op \in {"write", "append"}
    BY <2>2 DEF Busy, Ready, Fits, Reading
  <2>5. \A p \in VaultPaths : ~MayTouch(req[s], p) => Path(s) # p
    BY <2>4 DEF MayTouch, Path
  <2>6. OpenError(mem, Path(s)) = None /\ Unused # {} => Safe(Opened(Path(s), <<>>), o) /\ Tame(s, Opened(Path(s), <<>>))
    BY <2>3, <2>5, OpenedTame
  <2> QED BY <2>1, <2>6 DEF Same, Tames
<1>2. CASE CreateDest(s)
  <2>1. \/ OpenError(mem, To(s)) = None /\ Unused # {} /\ Store(Opened(To(s), <<>>))
        \/ Same
    BY <1>2 DEF CreateDest
  <2>2. Busy(s, "create_dest", o)
    BY <1>2, Busies DEF CreateDest
  <2>3. To(s) \in VaultPaths
    BY <2>2, PathsStay
  <2>4. req[s].op = "copy"
    BY <2>2 DEF Busy, Ready, Fits, Reading
  <2>5. \A p \in VaultPaths : ~MayTouch(req[s], p) => To(s) # p
    BY <2>4 DEF MayTouch, To
  <2>6. OpenError(mem, To(s)) = None /\ Unused # {} => Safe(Opened(To(s), <<>>), o) /\ Tame(s, Opened(To(s), <<>>))
    BY <2>3, <2>5, OpenedTame
  <2> QED BY <2>1, <2>6 DEF Same, Tames
<1> QED BY <1>1, <1>2

(* The bytes of a request.                                                 *)
LEMMA ContentIs ==
  ASSUME NEW s \in Requests, req[s].size \in Nat
  PROVE  Content(s) \in Seq(Bytes) /\ Len(Content(s)) = req[s].size
<1> DEFINE n == req[s].size
           c == [i \in 1..n |-> s]
<1>1. s \in Bytes /\ n \in Nat /\ Content(s) = c
  BY DEF Bytes, Content
<1> HIDE DEF n
<1>2. c \in Seq(Bytes) /\ Len(c) = n
  BY <1>1
<1> QED BY <1>1, <1>2 DEF n

(* Some of a sequence from a place on.                                     *)
LEMMA SomeOnes ==
  ASSUME NEW S, NEW s \in Seq(S), NEW a \in Nat, NEW n \in Nat, n <= Len(s)
  PROVE  /\ SubSeq(s, a + 1, n) \in Seq(S) /\ Len(SubSeq(s, a + 1, n)) = IF a < n THEN n - a ELSE 0
         /\ \A i \in 1 .. n - a : SubSeq(s, a + 1, n)[i] = s[a + i]
<1>1. Len(s) \in Nat
  OBVIOUS
<1>2. CASE a < n
  <2> DEFINE t == SubSeq(s, a + 1, n)
             b == a + 1
  <2>1. b \in 1..Len(s) + 1 /\ n \in b - 1 .. Len(s) /\ b <= n /\ b \in Int /\ n \in Int /\ n - b + 1 = n - a
    BY <1>1, <1>2
  <2>2. \A i \in b..n : s[i] \in S
    <3>1. \A i \in b..n : i \in 1..Len(s)
      BY <1>1, <2>1
    <3> QED BY <3>1, ElementOfSeq
  <2> HIDE DEF b
  <2>3. SubSeq(s, b, n) \in Seq(S) /\ Len(SubSeq(s, b, n)) = n - b + 1
        /\ \A i \in 1..(n - b + 1) : SubSeq(s, b, n)[i] = s[b + i - 1]
    BY <2>1, <2>2, SubSeqProperties
  <2>4. \A i \in 1..(n - a) : b + i - 1 = a + i
    BY DEF b
  <2>5. t = SubSeq(s, b, n)
    BY DEF b
  <2> HIDE DEF t
  <2>6. t \in Seq(S) /\ Len(t) = n - a /\ \A i \in 1..(n - a) : t[i] = s[a + i]
    BY <2>1, <2>3, <2>4, <2>5
  <2> QED BY <1>2, <2>6 DEF t
<1>3. CASE n <= a
  <2>1. SubSeq(s, a + 1, n) = <<>>
    BY <1>3
  <2>2. 1 .. n - a = {}
    BY <1>3
  <2> QED BY <1>3, <2>1, <2>2
<1> QED BY <1>2, <1>3

(* Bytes in the place of bytes.                                            *)
LEMMA OverlayIs ==
  ASSUME NEW old \in Seq(Bytes), NEW new \in Seq(Bytes), NEW n \in Nat
  PROVE  Overlay(old, n, new) \in Seq(Bytes) /\ old \o new \in Seq(Bytes)
<1> DEFINE rest == SubSeq(old, n + Len(new) + 1, Len(old))
           zeros == [i \in 1..n |-> Zero]
           first == SubSeq(old \o zeros, 1, n)
<1>1. rest \in Seq(Bytes)
  BY SomeOnes
<1>2. zeros \in Seq(Bytes) /\ Len(zeros) = n
  BY DEF Bytes
<1> HIDE DEF rest, zeros
<1>3. first \in Seq(Bytes)
  <2>1. old \o zeros \in Seq(Bytes) /\ n <= Len(old \o zeros)
    BY <1>2
  <2> QED BY <2>1, FirstOnes
<1> HIDE DEF first
<1>4. first \o new \o rest \in Seq(Bytes) /\ old \o new \in Seq(Bytes)
  BY <1>1, <1>3
<1> QED BY <1>4 DEF Overlay, first, rest, zeros

(* The bytes of writeFile, appendFile and copyFile.                        *)
LEMMA WritesTame ==
  ASSUME NEW o, FilesInv(o), ControlInv(o), NEW s \in Requests, WriteAll(s) \/ WriteFails(s) \/ Transfer(s)
  PROVE  Tames(s, o)
<1>1. CASE WriteAll(s) \/ WriteFails(s)
  <2>1. Busy(s, "write_all", o)
    BY <1>1, Busies DEF WriteAll, WriteFails, At, Busy, ControlInv, HandlerInv, Running
  <2>2. loc[s].fd \in Handles(o) /\ req[s].op \in Writing
    BY <2>1 DEF Busy, Ready, Fits, Reading, IsLoc, Writing
  <2>3. PICK n \in 0..req[s].size : Store(Written(s, n))
    <3>1. req[s].size \in Nat
      BY <2>1, QueriesAssumption DEF Busy, Ready
    <3>2. CASE WriteAll(s)
      BY <3>1, <3>2 DEF WriteAll
    <3>3. CASE WriteFails(s)
      BY <3>1, <3>3 DEF WriteFails
    <3> QED BY <1>1, <3>2, <3>3
  <2> DEFINE old == mem[loc[s].fd].bytes
             new == SubSeq(Content(s), 1, n)
             b == IF req[s].op = "append" THEN old \o new ELSE Overlay(old, 0, new)
  <2>4. Written(s, n) = WithBytes(mem, loc[s].fd, b)
    BY DEF Written
  <2>5. loc[s].fd # None /\ Full => b \in Seq(Bytes)
    <3> SUFFICES ASSUME loc[s].fd # None, Full PROVE b \in Seq(Bytes)
      OBVIOUS
    <3>1. old \in Seq(Bytes)
      BY <2>2 DEF Handles, Filled, Full
    <3>2. req[s].size \in Nat
      BY <2>1, QueriesAssumption DEF Busy, Ready
    <3>3. Content(s) \in Seq(Bytes) /\ Len(Content(s)) = req[s].size
      BY <3>2, ContentIs
    <3>4. new \in Seq(Bytes)
      BY <3>2, <3>3, FirstOnes
    <3> HIDE DEF old, new
    <3> QED BY <3>1, <3>4, OverlayIs
  <2> HIDE DEF b
  <2>6. Safe(WithBytes(mem, loc[s].fd, b), o)
    BY <2>2, WithBytesFair DEF Fair
  <2>7. \A p \in VaultPaths : Away(s, p) => Walk(mem, p) # loc[s].fd
    BY <2>2 DEF Away
  <2>8. Tame(s, WithBytes(mem, loc[s].fd, b))
    BY <2>2, <2>5, <2>7, BytesTame
  <2> QED BY <2>3, <2>4, <2>6, <2>8 DEF Tames
<1>2. CASE Transfer(s)
  <2>1. Busy(s, "transfer", o)
    BY <1>2, Busies DEF Transfer
  <2>2. loc[s].dest \in Handles(o) /\ loc[s].fd \in Ids /\ req[s].op = "copy"
    BY <2>1 DEF Busy, Ready, Fits, Reading, IsLoc, Handles
  <2> DEFINE bytes == mem[loc[s].fd].bytes
             got == loc[s].got
             some(n) == SubSeq(bytes, Len(got) + 1, n)
             over(n) == Overlay(mem[loc[s].dest].bytes, Len(got), some(n))
  <2>a. Same \/ \E n \in Len(got) + 1 .. Len(bytes) : Store(WithBytes(mem, loc[s].dest, over(n)))
    BY <1>2 DEF Transfer
  <2> SUFFICES ASSUME NEW n \in Len(got) + 1 .. Len(bytes), Store(WithBytes(mem, loc[s].dest, over(n)))
               PROVE  Tames(s, o)
    BY <2>a DEF Same, Tames
  <2> DEFINE b == over(n)
  <2>3. Store(WithBytes(mem, loc[s].dest, b))
    OBVIOUS
  <2>4. loc[s].dest # None /\ Full => b \in Seq(Bytes)
    <3> SUFFICES ASSUME loc[s].dest # None, Full PROVE b \in Seq(Bytes)
      OBVIOUS
    <3>1. mem[loc[s].dest].bytes \in Seq(Bytes) /\ bytes \in Seq(Bytes) /\ got \in Seq(Bytes)
      BY <2>2 DEF Full, Filled, Handles
    <3> HIDE DEF bytes, got
    <3>2. Len(got) \in Nat /\ n \in Nat /\ n <= Len(bytes)
      BY <3>1
    <3>3. some(n) \in Seq(Bytes)
      BY <3>1, <3>2, SomeOnes
    <3> HIDE DEF some
    <3> QED BY <3>1, <3>2, <3>3, OverlayIs
  <2> HIDE DEF b
  <2>5. Safe(WithBytes(mem, loc[s].dest, b), o)
    BY <2>2, WithBytesFair DEF Fair
  <2>6. \A p \in VaultPaths : Away(s, p) => Walk(mem, p) # loc[s].dest
    BY <2>2 DEF Away
  <2>7. Tame(s, WithBytes(mem, loc[s].dest, b))
    BY <2>2, <2>4, <2>6, BytesTame
  <2> QED BY <2>3, <2>5, <2>7 DEF Tames
<1> QED BY <1>1, <1>2

(* rename.                                                                 *)
LEMMA MoveTames ==
  ASSUME NEW o, FilesInv(o), ControlInv(o), NEW s \in Requests, Move(s)
  PROVE  Tames(s, o)
<1>1. Busy(s, "rename", o)
  BY Busies DEF Move
<1>2. Path(s) \in VaultPaths /\ To(s) \in VaultPaths /\ req[s].op = "rename"
  BY <1>1, PathsStay DEF Busy, Ready, Fits, Reading
<1>3. Same \/ (RenameError(mem, Path(s), To(s)) = None /\ Store(Rename(mem, Path(s), To(s))))
  BY DEF Move
<1>4. CASE RenameError(mem, Path(s), To(s)) = None /\ Store(Rename(mem, Path(s), To(s)))
  <2>1. Tame(s, Rename(mem, Path(s), To(s)))
    BY <1>2, <1>4, RenameTame
  <2>2. Walk(mem, Path(s)) \notin Errors /\ ParentOf(mem, To(s)) \notin Errors
    BY <1>4, RenameErrorIs
  <2>3. Safe(Rename(mem, Path(s), To(s)), o)
    BY <1>2, <2>2, RenameSafe DEF FilesInv
  <2> QED BY <1>4, <2>1, <2>3 DEF Tames
<1> QED BY <1>3, <1>4 DEF Same, Tames

(* utimes leaves the bytes.                                                *)
LEMMA UtimesTames ==
  ASSUME NEW o, FilesInv(o), ControlInv(o), NEW s \in Requests, Utimes(s)
  PROVE  Tames(s, o)
<1> DEFINE id == Walk(mem, Path(s))
           time == FtFromMs(req[s].mtime)
           n == [mem EXCEPT ![id].mtime = time]
<1>1. Busy(s, "utimes", o)
  BY Busies DEF Utimes
<1>2. Path(s) \in VaultPaths /\ Safe(mem, o) /\ IsFs(mem)
  BY <1>1, PathsStay DEF FilesInv, Safe, Shaped
<1>3. Same \/ (id \notin Errors /\ Store(n))
  BY DEF Utimes
<1>4. id \notin Errors => id \in Ids \ {Top, o}
  BY <1>2, WalkEntry
<1> HIDE DEF id
<1>6. CASE id \notin Errors /\ Store(n)
  <2> HIDE DEF time
  <2>1. Touched(mem, id, n)
    BY <1>2, <1>4, <1>6, WithTimeIs
  <2>2. n[id].bytes = mem[id].bytes
    <3>1. mem[id] = [type |-> mem[id].type, at |-> mem[id].at, bytes |-> mem[id].bytes, mtime |-> mem[id].mtime]
      BY <1>2, <1>4, <1>6 DEF IsFs, IsInode
    <3> DEFINE node == mem[id]
    <3>2. n[id] = [node EXCEPT !.mtime = time]
      BY <1>2, <1>4, <1>6 DEF IsFs
    <3> HIDE DEF node
    <3>3. [node EXCEPT !.mtime = time].bytes = node.bytes
      BY <3>1 DEF node
    <3> QED BY <3>2, <3>3 DEF node
  <2> HIDE DEF n
  <2>3. Safe(n, o)
    BY <1>2, <1>4, <1>6, <2>1, TouchedSafe
  <2>4. Tame(s, n)
    BY <1>4, <1>6, <2>1, <2>2, TouchedTame DEF Filled, Full
  <2> QED BY <1>6, <2>3, <2>4 DEF Tames
<1> QED BY <1>3, <1>6 DEF Same, Tames

(* unlink, and rm of a file.                                               *)
LEMMA UnlinksTame ==
  ASSUME NEW o, FilesInv(o), ControlInv(o), NEW s \in Requests, UnlinkFile(s) \/ RemoveFile(s)
  PROVE  Tames(s, o)
<1> DEFINE x == Path(s)
           d == ParentOf(mem, x)
           name == Last(x)
<1>1. PICK step \in {"unlink", "remove_file"} : Busy(s, step, o)
  BY Busies DEF UnlinkFile, RemoveFile
<1>2. x \in VaultPaths /\ req[s].op \in {"unlink", "rm"}
  BY <1>1, PathsStay DEF Busy, Ready, Fits, Reading
<1>3. Same \/ (UnlinkError(mem, d, name) = None /\ Store(Unlink(mem, d, name)))
  BY DEF UnlinkFile, RemoveFile, FileError, RemoveEntry
<1>4. \A p \in VaultPaths : ~MayTouch(req[s], p) => x # p
  BY <1>2 DEF MayTouch, Path
<1> HIDE DEF x
<1>5. CASE UnlinkError(mem, d, name) = None /\ Store(Unlink(mem, d, name))
  <2>1. Safe(mem, o) /\ \A p \in VaultPaths : p \in Seq(Components)
    BY DEF FilesInv, VaultPaths
  <2>2. \A p \in VaultPaths : ~MayTouch(req[s], p) => Still(mem, Unlink(mem, d, name), p)
    BY <1>2, <1>4, <1>5, <2>1, UnlinkOther
  <2>3. InVault(mem, o, d, name)
    <3>1. d \notin Errors
      BY <1>5, RemovalErrorIs
    <3> QED BY <1>2, <2>1, <3>1, ParentInVault
  <2> HIDE DEF d, name
  <2>4. d \in Ids \ {o} /\ (d = Top => name = Vault)
    BY <2>3 DEF InVault
  <2>5. Tame(s, Unlink(mem, d, name))
    BY <2>2, <2>4, UnlinkTame
  <2>6. Safe(Unlink(mem, d, name), o)
    BY <2>1, <2>4, UnlinkSafe
  <2> QED BY <1>5, <2>5, <2>6 DEF Tames
<1> QED BY <1>3, <1>5 DEF Same, Tames

(* remove_dir: an empty folder, by its path or in the folder above.        *)
LEMMA RmdirTames ==
  ASSUME NEW o, FilesInv(o), NEW s, NEW d \in Ids \ {o}, NEW name, d = Top => name = Vault,
         RmdirError(mem, d, name) = None, Store(Unlink(mem, d, name))
  PROVE  Tames(s, o)
<1>1. Safe(mem, o) /\ \A p \in VaultPaths : p \in Seq(Components)
  BY DEF FilesInv, VaultPaths
<1>2. \A p \in VaultPaths : Still(mem, Unlink(mem, d, name), p)
  BY <1>1, RmdirStill
<1>3. Tame(s, Unlink(mem, d, name))
  BY <1>2, UnlinkTame
<1>4. Safe(Unlink(mem, d, name), o)
  BY <1>1, UnlinkSafe
<1> QED BY <1>3, <1>4 DEF Tames

(* rmdir, and rm of an empty folder.                                       *)
LEMMA RemoveDirTames ==
  ASSUME NEW o, FilesInv(o), ControlInv(o), NEW s \in Requests, NEW step \in {"rmdir", "remove_dir"}, RemoveDir(s, step)
  PROVE  Tames(s, o)
<1> DEFINE d == ParentOf(mem, Path(s))
           name == Last(Path(s))
<1>1. Busy(s, step, o)
  BY Busies DEF RemoveDir
<1>2. Path(s) \in VaultPaths
  BY <1>1, PathsStay
<1>3. Same \/ (RmdirError(mem, d, name) = None /\ Store(Unlink(mem, d, name)))
  BY DEF RemoveDir, DirError, RemoveEntry
<1>4. d \notin Errors => InVault(mem, o, d, name)
  BY <1>2, ParentInVault DEF FilesInv
<1> HIDE DEF d, name
<1>5. CASE RmdirError(mem, d, name) = None /\ Store(Unlink(mem, d, name))
  <2>1. d \notin Errors
    BY <1>5, RemovalErrorIs
  <2>2. d \in Ids \ {o} /\ (d = Top => name = Vault)
    BY <1>4, <2>1 DEF InVault
  <2> QED BY <1>5, <2>2, RmdirTames
<1> QED BY <1>3, <1>5 DEF Same, Tames

(* One entry of a folder that is being emptied.                            *)
LEMMA RemoveChildTames ==
  ASSUME NEW o, FilesInv(o), ControlInv(o), NEW s \in Requests, RemoveChild(s)
  PROVE  Tames(s, o)
<1> DEFINE t == loc[s].frames
           f == t[Len(t)]
<1>1. Busy(s, "empty", o)
  BY Busies DEF RemoveChild
<1>2. t \in Seq(Frames(o)) /\ t # <<>> /\ req[s].op = "rm"
  BY <1>1 DEF Busy, Ready, IsLoc, Fits, Reading
<1>3. Stack(t, o)
  BY <1>2, StackIs
<1>4. f \in Frames(o) /\ Len(t) \in 1..Len(t)
  BY <1>3 DEF Stack
<1>5. f.dir \in Ids \ {Top, o}
  <2> HIDE DEF f
  <2> QED BY <1>4 DEF Frames
<1>6. Same \/ \E c \in f.left : Store(Unlink(mem, f.dir, c.name))
  BY DEF RemoveChild
<1>7. \A p \in VaultPaths : Away(s, p) => \A q \in Seq(Components) : Begins(q, p) => Walk(mem, q) # f.dir
  BY <1>2, <1>4 DEF Away
<1> HIDE DEF f
<1>8. ASSUME NEW c \in f.left, Store(Unlink(mem, f.dir, c.name)) PROVE Tames(s, o)
  <2> DEFINE d == f.dir
             name == c.name
  <2>1. Safe(mem, o) /\ (\A p \in VaultPaths : p \in Seq(Components)) /\ d \in Ids \ {o} /\ d # Top
    BY <1>5 DEF FilesInv, VaultPaths
  <2> HIDE DEF d, name
  <2>2. ASSUME NEW p \in VaultPaths, Away(s, p) PROVE Still(mem, Unlink(mem, d, name), p)
    <3>1. ASSUME NEW q \in Seq(Components), q # <<>>, Begins(q, p) PROVE Walk(mem, Front(q)) # d
      <4>1. Front(q) \in Seq(Components) /\ Begins(Front(q), q)
        BY <3>1, BeginsUp
      <4>2. Begins(Front(q), p)
        BY <2>1, <3>1, <4>1, BeginsOn
      <4> QED BY <1>7, <2>2, <4>1, <4>2 DEF d
    <3> QED BY <2>1, <3>1, UnlinkStill
  <2>3. Tame(s, Unlink(mem, d, name))
    BY <2>1, <2>2, UnlinkTame
  <2>4. Safe(Unlink(mem, d, name), o)
    BY <2>1, UnlinkSafe
  <2> QED BY <1>8, <2>3, <2>4 DEF Tames, d, name
<1> QED BY <1>6, <1>8 DEF Same, Tames

(* The folder that has been emptied.                                       *)
LEMMA RemoveEmptiedTames ==
  ASSUME NEW o, FilesInv(o), ControlInv(o), NEW r \in Requests, RemoveEmptied(r)
  PROVE  Tames(r, o)
<1> DEFINE s == loc[r].frames
           n == Len(s)
           d == IF n = 1 THEN ParentOf(mem, Path(r)) ELSE s[n - 1].dir
           name == Last(s[n].path)
<1>1. Busy(r, "empty", o)
  BY Busies DEF RemoveEmptied
<1>2. s \in Seq(Frames(o)) /\ s # <<>> /\ s[1].path = Path(r) /\ Path(r) \in VaultPaths
  BY <1>1, PathsStay DEF Busy, Ready, IsLoc, Path
<1>3. n # 1 => s[n - 1] \in Frames(o)
  BY <1>2, StackIs, StackPops
<1>4. Same \/ (RmdirError(mem, d, name) = None /\ Store(Unlink(mem, d, name)))
  BY DEF RemoveEmptied
<1>5. d \notin Errors => d \in Ids \ {o} /\ (d = Top => name = Vault)
  <2>1. CASE n = 1
    <3>1. d = ParentOf(mem, Path(r)) /\ name = Last(Path(r))
      BY <1>2, <2>1
    <3>2. ParentOf(mem, Path(r)) \notin Errors => InVault(mem, o, ParentOf(mem, Path(r)), Last(Path(r)))
      BY <1>2, ParentInVault DEF FilesInv
    <3> HIDE DEF d, name
    <3> QED BY <3>1, <3>2 DEF InVault
  <2>2. CASE n # 1
    <3>1. d = s[n - 1].dir
      BY <2>2
    <3>2. s[n - 1].dir \in Ids \ {Top, o}
      BY <1>3, <2>2 DEF Frames
    <3> QED BY <3>1, <3>2
  <2> QED BY <2>1, <2>2
<1> HIDE DEF d, name
<1>6. CASE RmdirError(mem, d, name) = None /\ Store(Unlink(mem, d, name))
  <2>1. d \notin Errors
    BY <1>6, RemovalErrorIs
  <2> QED BY <1>5, <1>6, <2>1, RmdirTames
<1> QED BY <1>4, <1>6 DEF Same, Tames

(* Every call of a handler.                                                *)
LEMMA ActsTame ==
  ASSUME NEW o, FilesInv(o), ControlInv(o), NEW s \in Requests, Acts(s)
  PROVE  Tames(s, o)
<1>1. CASE \/ MakeDirs(s) \/ Mkdir(s) \/ Create(s) \/ OpenAppend(s) \/ CreateDest(s) \/ WriteAll(s) \/ WriteFails(s)
           \/ Transfer(s) \/ Move(s) \/ Utimes(s) \/ UnlinkFile(s) \/ RemoveFile(s)
  BY <1>1, MakeDirsTames, MkdirTames, OpensTame, WritesTame, MoveTames, UtimesTames, UnlinksTame
<1>2. CASE Rmdir(s) \/ RemoveDir(s, "remove_dir") \/ RemoveChild(s) \/ RemoveEmptied(s)
  BY <1>2, RemoveDirTames, RemoveChildTames, RemoveEmptiedTames DEF Rmdir
<1>3. CASE \/ SyncAll(s) \/ ReadBack(s) \/ OpenSource(s) \/ Lstat(s) \/ OpenTree(s) \/ Stat(s) \/ Access(s)
           \/ Metadata(s) \/ OpenNote(s) \/ Read(s) \/ ReadDir(s) \/ ZipWalk(s) \/ BatchRead(s) \/ CallFails(s)
  <2>1. mem' = mem
    BY <1>3 DEF SyncAll, ReadBack, OpenSource, Lstat, OpenTree, Stat, Access, Metadata, OpenNote, Read, ReadUpTo,
                Finish, ReadDir, ZipWalk, BatchRead, CallFails, Same
  <2> QED BY <2>1 DEF Tames
<1> QED BY <1>1, <1>2, <1>3 DEF Acts

(* What a call leaves: types of what is held, and what is at a path.       *)
Quiet(s) ==
  /\ Full => Filled(mem')
  /\ \A h \in Held : mem[h].type # "none" => mem'[h].type = mem[h].type
  /\ \A p \in VaultPaths : /\ ~MayTouch(req[s], p) /\ Away(s, p) => Still(mem, mem', p)
                           /\ ~MovesOnto(req[s], p) => Lags(mem, mem', p)

(* Collecting takes nothing of that away.                                  *)
LEMMA TamesQuiet ==
  ASSUME NEW o, FilesInv(o), ControlInv(o), NEW s \in Requests, Acts(s)
  PROVE  Quiet(s)
<1>1. Tames(s, o)
  BY ActsTame
<1>2. CASE mem' = mem
  <2>1. \A p : Still(mem, mem', p) /\ Lags(mem, mem', p)
    BY <1>2, SameStill
  <2> QED BY <1>2, <2>1 DEF Quiet, Full, Filled
<1>3. ASSUME NEW n, Store(n), Safe(n, o), Tame(s, n) PROVE Quiet(s)
  <2> DEFINE c == Collect(n, Held)
  <2>1. Held \in SUBSET Ids /\ IsFs(n) /\ mem' = c /\ \A p \in VaultPaths : p \in Seq(Components)
    BY <1>3, HeldIds DEF Store, Safe, Shaped, VaultPaths
  <2>2. \A p \in VaultPaths : (Still(mem, n, p) => Still(mem, c, p)) /\ (Lags(mem, n, p) => Lags(mem, c, p))
    BY <1>3, <2>1, CollectStill
  <2>3. PICK R \in SUBSET Ids : Collected(n, Held, R, c)
    BY <2>1, CollectIs
  <2> HIDE DEF c
  <2>4. \A h \in Held : c[h] = n[h]
    BY <2>3 DEF Collected, Covers
  <2>5. \A h \in Held : mem[h].type # "none" => c[h].type = mem[h].type
    BY <1>3, <2>1, <2>4 DEF Tame
  <2>6. \A p \in VaultPaths : /\ ~MayTouch(req[s], p) /\ Away(s, p) => Still(mem, c, p)
                              /\ ~MovesOnto(req[s], p) => Lags(mem, c, p)
    BY <1>3, <2>2 DEF Tame
  <2>7. Filled(n) => Filled(c)
    <3>1. NoInode.bytes \in Seq(Bytes)
      BY DEF NoInode
    <3>2. \A id \in Ids : c[id] = n[id] \/ c[id] = NoInode
      BY <2>3 DEF Collected
    <3> QED BY <3>1, <3>2 DEF Filled
  <2>8. Full => Filled(c)
    BY <1>3, <2>7 DEF Tame
  <2> QED BY <2>1, <2>5, <2>6, <2>8 DEF Quiet
<1> QED BY <1>1, <1>2, <1>3 DEF Tames

(* A handler that goes on has these local variables.                       *)
LEMMA GotoLoc ==
  ASSUME NEW r \in Requests, Shapes, NEW step, NEW l, Goto(r, step, l)
  PROVE  pc'[r] = step /\ loc'[r] = l
BY DEF Goto, Shapes

(* A request that begins makes its first call, with nothing open or read.  *)
LEMMA BeginLoc ==
  ASSUME NEW o, Invariant(o), NEW t \in Requests, NEW q \in Queries, Begin(t, q)
  PROVE  /\ loc'[t].fd = None /\ loc'[t].dest = None /\ loc'[t].frames = <<>>
         /\ loc'[t].got = <<>> /\ loc'[t].files = {}
         /\ t \in Running' => /\ pc'[t] = FirstCall(q) /\ loc'[t].left = LookingAt(q)
                              /\ q.op = "vault_file" => loc'[t].reading = ResolveInVault(q.path).out
<1> DEFINE step == FirstCall(q)
           dirs == IF step = "mkdirs" THEN <<[path |-> Wanted(q), again |-> FALSE]>> ELSE <<>>
           left == LookingAt(q)
           reading == IF q.op = "vault_file" THEN ResolveInVault(q.path).out ELSE None
           l == [Nothing EXCEPT !.dirs = dirs, !.reading = reading, !.left = left]
<1>1. Shapes
  BY DEF Invariant, ControlInv
<1>2. CASE Rejection(q) # None
  <2>1. Answer(t, Rejection(q), {})
    BY <1>2 DEF Begin, Err
  <2>2. loc'[t] = Nothing /\ pc'[t] = "done"
    BY <1>1, <2>1 DEF Answer, Shapes
  <2>3. t \notin Running'
    BY <2>2 DEF Running
  <2> QED BY <2>2, <2>3 DEF Nothing
<1>3. CASE Rejection(q) = None
  <2>1. Goto(t, step, l)
    BY <1>3 DEF Begin, LookingAt
  <2> HIDE DEF dirs, left, reading
  <2>2. l.fd = None /\ l.dest = None /\ l.frames = <<>> /\ l.got = <<>> /\ l.files = {}
        /\ l.left = left /\ l.reading = reading
    BY DEF Nothing
  <2> HIDE DEF l, step
  <2>3. pc'[t] = step /\ loc'[t] = l
    BY <1>1, <2>1, GotoLoc
  <2> QED BY <2>2, <2>3 DEF step, left, reading
<1> QED BY <1>2, <1>3

(* What a handler has read or copied is bytes.                             *)
LEMMA GotIs ==
  ASSUME NEW o, NEW l, IsLoc(l, o), NEW x, NEW y
  PROVE  /\ [l EXCEPT !.fd = x].got = l.got /\ [l EXCEPT !.dest = x].got = l.got
         /\ [l EXCEPT !.dirs = x].got = l.got /\ [l EXCEPT !.frames = x].got = l.got
         /\ [l EXCEPT !.left = x].got = l.got /\ [l EXCEPT !.reading = x].got = l.got
         /\ [l EXCEPT !.frames = x, !.reading = y].got = l.got
         /\ [l EXCEPT !.left = x, !.reading = y].got = l.got
         /\ [l EXCEPT !.got = x].got = x
         /\ [l EXCEPT !.reading = None, !.fd = None, !.got = <<>>].got = <<>>
         /\ [l EXCEPT !.got = <<>>, !.fd = None, !.reading = None, !.files = x].got = <<>>
<1>0. l = [fd |-> l.fd, dest |-> l.dest, got |-> l.got, dirs |-> l.dirs, frames |-> l.frames,
           reading |-> l.reading, left |-> l.left, files |-> l.files]
  BY DEF IsLoc
<1>1. [l EXCEPT !.fd = x].got = l.got /\ [l EXCEPT !.dest = x].got = l.got
  BY <1>0
<1>2. [l EXCEPT !.dirs = x].got = l.got /\ [l EXCEPT !.frames = x].got = l.got
  BY <1>0
<1>3. [l EXCEPT !.left = x].got = l.got /\ [l EXCEPT !.reading = x].got = l.got
  BY <1>0
<1>4. [l EXCEPT !.frames = x, !.reading = y].got = l.got
  BY <1>0
<1>5. [l EXCEPT !.left = x, !.reading = y].got = l.got
  BY <1>0
<1>6. [l EXCEPT !.got = x].got = x
  BY <1>0
<1>7. [l EXCEPT !.reading = None, !.fd = None, !.got = <<>>].got = <<>>
  BY <1>0
<1>8. [l EXCEPT !.got = <<>>, !.fd = None, !.reading = None, !.files = x].got = <<>>
  BY <1>0
<1> QED BY <1>1, <1>2, <1>3, <1>4, <1>5, <1>6, <1>7, <1>8

(* What the turn of a handler makes of its local variables.                *)
Settles(r) ==
  LET l == loc[r] IN
  \/ \E e, out : Answer(r, e, out)
  \/ \E step : \/ \E x : \/ Goto(r, step, [l EXCEPT !.fd = x]) \/ Goto(r, step, [l EXCEPT !.dest = x])
                         \/ Goto(r, step, [l EXCEPT !.dirs = x]) \/ Goto(r, step, [l EXCEPT !.frames = x])
                         \/ Goto(r, step, [l EXCEPT !.left = x]) \/ Goto(r, step, [l EXCEPT !.reading = x])
               \/ \E x, y : \/ Goto(r, step, [l EXCEPT !.frames = x, !.reading = y])
                            \/ Goto(r, step, [l EXCEPT !.left = x, !.reading = y])
               \/ Goto(r, step, l)
               \/ Goto(r, step, [l EXCEPT !.reading = None, !.fd = None, !.got = <<>>])
               \/ \E x : Goto(r, step, [l EXCEPT !.got = <<>>, !.fd = None, !.reading = None, !.files = x])
               \/ \E n \in Nat, id \in Ids :
                    /\ n <= Len(mem[id].bytes) /\ Len(l.got) + 1 <= n
                    /\ Goto(r, step, [l EXCEPT !.got = @ \o SubSeq(mem[id].bytes, Len(l.got) + 1, n)])

(* Every call does one of these.                                           *)
LEMMA ActsSettle ==
  ASSUME NEW o, Invariant(o), Full, NEW r \in Requests, Acts(r)
  PROVE  Settles(r)
<1> DEFINE l == loc[r]
<1>0. ControlInv(o) /\ Shapes /\ IsLoc(l, o)
  BY DEF Invariant, ControlInv, HandlerInv
<1>1. CASE MakeDirs(r)
  <2> DEFINE e == MkdirError(mem, Head(l.dirs).path)
             rest == [l EXCEPT !.dirs = Tail(@)]
  <2>1. \/ \E step : Goto(r, step, rest)
        \/ \E t : Goto(r, "mkdirs", [l EXCEPT !.dirs = t])
        \/ Err(r, e) \/ Ok(r)
    BY <1>1 DEF MakeDirs
  <2>2. rest = [l EXCEPT !.dirs = Tail(l.dirs)]
    OBVIOUS
  <2> HIDE DEF e, rest
  <2> QED BY <2>1, <2>2 DEF Settles, Err, Ok
<1>2. CASE Create(r) \/ OpenAppend(r) \/ OpenSource(r) \/ CreateDest(r)
  BY <1>2 DEF Create, OpenAppend, OpenSource, CreateDest, Settles, Err
<1>3. CASE WriteAll(r) \/ WriteFails(r) \/ SyncAll(r) \/ ReadBack(r)
  BY <1>3 DEF WriteAll, WriteFails, SyncAll, ReadBack, Settles, Err, Ok
<1>4. CASE Transfer(r)
  <2>1. Busy(r, "transfer", o)
    BY <1>0, <1>4, Busies DEF Transfer
  <2>2. l.fd \in Ids
    BY <2>1 DEF Busy, Ready, IsLoc, Handles
  <2>3. mem[l.fd].bytes \in Seq(Bytes) /\ l.got \in Seq(Bytes)
    BY <2>2 DEF Full, Filled
  <2>4. \/ \E n \in Len(l.got) + 1 .. Len(mem[l.fd].bytes) :
             Goto(r, "transfer", [l EXCEPT !.got = @ \o SubSeq(mem[l.fd].bytes, Len(l.got) + 1, n)])
        \/ Ok(r)
    BY <1>4 DEF Transfer
  <2>5. ASSUME NEW n \in Len(l.got) + 1 .. Len(mem[l.fd].bytes)
        PROVE  n \in Nat /\ n <= Len(mem[l.fd].bytes) /\ Len(l.got) + 1 <= n
    BY <2>3, <2>5
  <2> HIDE DEF l
  <2> QED BY <2>2, <2>4, <2>5 DEF Settles, Ok, l
<1>5. CASE \/ Mkdir(r) \/ Move(r) \/ Utimes(r) \/ UnlinkFile(r) \/ Rmdir(r) \/ Lstat(r)
           \/ RemoveFile(r) \/ RemoveDir(r, "remove_dir")
  BY <1>5 DEF Mkdir, Move, Utimes, UnlinkFile, Rmdir, Lstat, RemoveFile, RemoveDir, Settles, Err, Ok
<1>6. CASE OpenTree(r)
  BY <1>6 DEF OpenTree, Settles, Err
<1>7. CASE RemoveChild(r)
  <2> DEFINE n == Len(l.frames)
             f == l.frames[n]
  <2>1. PICK c \in f.left :
          LET id == Entry(mem, f.dir, c.name)
              rest == [l EXCEPT !.frames[n].left = @ \ {c}]
          IN \/ Goto(r, "empty", rest)
             \/ Goto(r, "empty", [rest EXCEPT !.frames = Append(@, Frame(id, Append(f.path, c.name)))])
             \/ Err(r, "EISDIR")
    BY <1>7 DEF RemoveChild
  <2> DEFINE t == [l.frames EXCEPT ![n].left = @ \ {c}]
             rest == [l EXCEPT !.frames = t]
             u == Append(t, Frame(Entry(mem, f.dir, c.name), Append(f.path, c.name)))
             more == [l EXCEPT !.frames = u]
  <2>2. rest = [l EXCEPT !.frames[n].left = @ \ {c}]
    BY <1>0 DEF IsLoc
  <2>3. [rest EXCEPT !.frames = Append(@, Frame(Entry(mem, f.dir, c.name), Append(f.path, c.name)))] = more
    <3> HIDE DEF t, f
    <3> QED BY <1>0 DEF IsLoc
  <2>4. Goto(r, "empty", rest) \/ Goto(r, "empty", more) \/ Err(r, "EISDIR")
    BY <2>1, <2>2, <2>3
  <2> HIDE DEF t, u
  <2> QED BY <2>4 DEF Settles, Err
<1>8. CASE RemoveEmptied(r)
  <2>1. \/ \E e : Err(r, e)
        \/ Ok(r)
        \/ Goto(r, "empty", [l EXCEPT !.frames = Front(l.frames)])
    BY <1>8 DEF RemoveEmptied
  <2> QED BY <2>1 DEF Settles, Err, Ok
<1>9. CASE Stat(r) \/ Access(r) \/ Metadata(r) \/ ReadDir(r)
  <2>1. CASE Stat(r) \/ Access(r)
    BY <2>1 DEF Stat, Access, Settles, Err, Ok
  <2>2. CASE Metadata(r)
    BY <2>2 DEF Metadata, Settles, Err
  <2>3. CASE ReadDir(r)
    BY <2>3 DEF ReadDir, Settles, Err
  <2> QED BY <1>9, <2>1, <2>2, <2>3
<1>a. \A err : Missed(r, err) => Settles(r)
  BY DEF Missed, Settles, Err
<1>10. CASE OpenNote(r)
  BY <1>10, <1>a DEF OpenNote, Settles
<1>11. CASE CallFails(r)
  BY <1>11, <1>a DEF CallFails, Settles, Err
<1>12. CASE Read(r)
  <2>1. Busy(r, "read", o)
    BY <1>0, <1>12, Busies DEF Read
  <2>2. l.fd \in Ids
    BY <2>1 DEF Busy, Ready, IsLoc, Handles
  <2>3. mem[l.fd].bytes \in Seq(Bytes) /\ l.got \in Seq(Bytes)
    BY <2>2 DEF Full, Filled
  <2>4. \/ \E n \in Len(l.got) + 1 .. Len(mem[l.fd].bytes) :
             Goto(r, "read", [l EXCEPT !.got = @ \o SubSeq(mem[l.fd].bytes, Len(@) + 1, n)])
        \/ Finish(r, [l EXCEPT !.got = <<>>])
    BY <1>12 DEF Read, ReadUpTo
  <2>5. ASSUME NEW n \in Len(l.got) + 1 .. Len(mem[l.fd].bytes)
        PROVE  n \in Nat /\ n <= Len(mem[l.fd].bytes) /\ Len(l.got) + 1 <= n
    BY <2>3, <2>5
  <2>6. ASSUME NEW n PROVE [l EXCEPT !.got = @ \o SubSeq(mem[l.fd].bytes, Len(@) + 1, n)]
                           = [l EXCEPT !.got = @ \o SubSeq(mem[l.fd].bytes, Len(l.got) + 1, n)]
    BY <1>0 DEF IsLoc
  <2>7. CASE Finish(r, [l EXCEPT !.got = <<>>])
    <3>1. \/ \E out : Answer(r, None, out)
          \/ \E step, x : Goto(r, step, [[l EXCEPT !.got = <<>>] EXCEPT !.fd = None, !.reading = None, !.files = x])
      BY <2>7 DEF Finish
    <3>2. ASSUME NEW x PROVE [[l EXCEPT !.got = <<>>] EXCEPT !.fd = None, !.reading = None, !.files = x]
                             = [l EXCEPT !.got = <<>>, !.fd = None, !.reading = None, !.files = x]
      OBVIOUS
    <3> QED BY <3>1, <3>2 DEF Settles
  <2> HIDE DEF l
  <2> QED BY <2>2, <2>4, <2>5, <2>6, <2>7 DEF Settles, l
<1>13. CASE ZipWalk(r)
  <2> DEFINE n == Len(l.frames)
             f == l.frames[n]
  <2>1. \/ \E c \in f.left : \E step :
             LET path == Append(f.path, c.name)
                 rest == [l EXCEPT !.frames[n].left = @ \ {c}, !.reading = path]
             IN Goto(r, step, rest)
        \/ \E e : Err(r, e)
        \/ Goto(r, "zip", [l EXCEPT !.frames = Front(@)])
        \/ Answer(r, None, l.files)
    BY <1>13 DEF ZipWalk
  <2>2. ASSUME NEW c, NEW path
        PROVE  [l EXCEPT !.frames[n].left = @ \ {c}, !.reading = path]
               = [l EXCEPT !.frames = [l.frames EXCEPT ![n].left = @ \ {c}], !.reading = path]
    BY <1>0 DEF IsLoc
  <2>3. [l EXCEPT !.frames = Front(@)] = [l EXCEPT !.frames = Front(l.frames)]
    BY <1>0 DEF IsLoc
  <2> HIDE DEF n, f
  <2> QED BY <2>1, <2>2, <2>3 DEF Settles, Err
<1>14. CASE BatchRead(r)
  <2>1. \/ Answer(r, None, l.files)
        \/ Goto(r, "batch_read", [l EXCEPT !.left = Tail(l.left)])
        \/ Goto(r, "open", [l EXCEPT !.left = Tail(l.left), !.reading = ResolveInVault(Head(l.left)).out])
    BY <1>14 DEF BatchRead
  <2> QED BY <2>1 DEF Settles
<1> QED BY <1>1, <1>2, <1>3, <1>4, <1>5, <1>6, <1>7, <1>8, <1>9, <1>10, <1>11, <1>12, <1>13, <1>14 DEF Acts

(* So it stays bytes.                                                      *)
LEMMA GotStays ==
  ASSUME NEW o, Invariant(o), Full, NEW r \in Requests, Acts(r)
  PROVE  loc'[r].got \in Seq(Bytes)
<1> DEFINE l == loc[r]
<1>0. Shapes /\ IsLoc(l, o) /\ l.got \in Seq(Bytes) /\ Settles(r)
  BY ActsSettle DEF Invariant, ControlInv, HandlerInv, Full
<1>1. ASSUME NEW step, NEW k, Goto(r, step, k) PROVE loc'[r] = k
  BY <1>0, <1>1, GotoLoc
<1>2. ASSUME NEW e, NEW out, Answer(r, e, out) PROVE loc'[r].got = <<>>
  BY <1>0, <1>2 DEF Answer, Shapes, Nothing
<1>3. ASSUME NEW step, NEW n \in Nat, NEW id \in Ids, n <= Len(mem[id].bytes),
             Goto(r, step, [l EXCEPT !.got = @ \o SubSeq(mem[id].bytes, Len(l.got) + 1, n)])
      PROVE  loc'[r].got \in Seq(Bytes)
  <2> DEFINE some == SubSeq(mem[id].bytes, Len(l.got) + 1, n)
             x == l.got \o some
             k == [l EXCEPT !.got = x]
  <2>1. mem[id].bytes \in Seq(Bytes)
    BY <1>3 DEF Full, Filled
  <2>2. some \in Seq(Bytes)
    BY <1>0, <1>3, <2>1, SomeOnes
  <2> HIDE DEF some
  <2>3. x \in Seq(Bytes)
    <3>1. l.got \in Seq(Bytes)
      BY <1>0
    <3> HIDE DEF l
    <3> QED BY <2>2, <3>1
  <2>4. Goto(r, step, k)
    BY <1>3 DEF some
  <2> HIDE DEF x
  <2>5. k.got = x
    BY <1>0, GotIs
  <2> HIDE DEF k
  <2> QED BY <1>1, <2>3, <2>4, <2>5
<1>4. <<>> \in Seq(Bytes)
  OBVIOUS
<1> HIDE DEF l
<1>5. ASSUME NEW step, NEW x, NEW y, \/ Goto(r, step, [l EXCEPT !.fd = x]) \/ Goto(r, step, [l EXCEPT !.dest = x])
                         \/ Goto(r, step, [l EXCEPT !.dirs = x]) \/ Goto(r, step, [l EXCEPT !.frames = x])
                         \/ Goto(r, step, [l EXCEPT !.left = x]) \/ Goto(r, step, [l EXCEPT !.reading = x])
                            \/ Goto(r, step, [l EXCEPT !.frames = x, !.reading = y])
                            \/ Goto(r, step, [l EXCEPT !.left = x, !.reading = y])
               \/ Goto(r, step, l)
               \/ Goto(r, step, [l EXCEPT !.reading = None, !.fd = None, !.got = <<>>])
               \/ Goto(r, step, [l EXCEPT !.got = <<>>, !.fd = None, !.reading = None, !.files = x])
      PROVE  loc'[r].got \in {l.got, <<>>}
  <2> DEFINE ka == [l EXCEPT !.fd = x]
             kb == [l EXCEPT !.dest = x]
             kc == [l EXCEPT !.dirs = x]
             kd == [l EXCEPT !.frames = x]
             ke == [l EXCEPT !.left = x]
             kf == [l EXCEPT !.reading = x]
             kg == [l EXCEPT !.frames = x, !.reading = y]
             kh == [l EXCEPT !.left = x, !.reading = y]
  <2>1. /\ ka.got = l.got /\ kb.got = l.got /\ kc.got = l.got /\ kd.got = l.got
        /\ ke.got = l.got /\ kf.got = l.got /\ kg.got = l.got /\ kh.got = l.got
    BY <1>0, GotIs
  <2> HIDE DEF ka, kb, kc, kd, ke, kf, kg, kh
  <2>2. CASE \/ Goto(r, step, ka) \/ Goto(r, step, kb) \/ Goto(r, step, kc) \/ Goto(r, step, kd)
             \/ Goto(r, step, ke) \/ Goto(r, step, kf) \/ Goto(r, step, kg) \/ Goto(r, step, kh)
    BY <1>1, <2>1, <2>2
  <2>3. CASE Goto(r, step, l)
    BY <1>1, <2>3
  <2>4. CASE Goto(r, step, [l EXCEPT !.reading = None, !.fd = None, !.got = <<>>])
    <3>1. loc'[r] = [l EXCEPT !.reading = None, !.fd = None, !.got = <<>>]
      BY <1>1, <2>4
    <3>2. [l EXCEPT !.reading = None, !.fd = None, !.got = <<>>].got = <<>>
      BY <1>0, GotIs
    <3> QED BY <3>1, <3>2
  <2>5. CASE Goto(r, step, [l EXCEPT !.got = <<>>, !.fd = None, !.reading = None, !.files = x])
    <3>1. loc'[r] = [l EXCEPT !.got = <<>>, !.fd = None, !.reading = None, !.files = x]
      BY <1>1, <2>5
    <3>2. [l EXCEPT !.got = <<>>, !.fd = None, !.reading = None, !.files = x].got = <<>>
      BY <1>0, GotIs
    <3> QED BY <3>1, <3>2
  <2> QED BY <1>5, <2>2, <2>3, <2>4, <2>5 DEF ka, kb, kc, kd, ke, kf, kg, kh
<1> QED BY <1>0, <1>2, <1>3, <1>4, <1>5 DEF l, Settles

(* The bytes stay bytes, in memory and on the disk.                        *)
FullInv == Full /\ Filled(disk)

LEMMA FilledStays ==
  ASSUME NEW o, Invariant(o), FullInv, [Next]_vars
  PROVE  FullInv'
<1>0. /\ FilesInv(o) /\ ControlInv(o) /\ {} \in SUBSET Ids /\ Full /\ Filled(disk) /\ Filled(mem)
      /\ NoInode.bytes \in Seq(Bytes) /\ Note(<<>>).bytes \in Seq(Bytes) /\ <<>> \in Seq(Bytes)
  BY DEF Invariant, NoInode, Note, FullInv, Full
<1>1. ASSUME NEW n, IsFs(n), Filled(n) PROVE Filled(Collect(n, {}))
  <2>1. PICK R \in SUBSET Ids : Collected(n, {}, R, Collect(n, {}))
    BY <1>0, <1>1, CollectIs
  <2> QED BY <1>0, <1>1, <2>1 DEF Collected, Filled
<1>2. \A ids : Filled(Flushed(ids))
  BY <1>0 DEF Flushed, Filled
<1>3. \A files : Filled(Collect(Journaled(files), {}))
  <2>1. ASSUME NEW files PROVE Filled(Journaled(files)) /\ IsFs(Journaled(files))
    BY <1>0, JournaledSafe DEF Journaled, Filled
  <2> QED BY <1>1, <2>1
<1>4. ASSUME NEW t \in Requests, Acts(t), Works(t, o) PROVE FullInv'
  <2>1. Filled(mem')
    BY <1>0, <1>4, TamesQuiet DEF Quiet
  <2>2. disk' = disk \/ \E ids : disk' = Flushed(ids)
    BY <1>4 DEF Works, Files, AtRest, Store
  <2>3. Filled(disk')
    BY <1>0, <1>2, <2>2
  <2>4. ASSUME NEW s \in Requests PROVE loc'[s].got \in Seq(Bytes)
    <3>1. CASE s = t
      BY <1>0, <1>4, <3>1, GotStays
    <3>2. CASE s # t
      BY <1>0, <1>4, <3>2 DEF Works, Turn, Full
    <3> QED BY <3>1, <3>2
  <2> QED BY <2>1, <2>3, <2>4 DEF FullInv, Full, Filled
<1>5. ASSUME NEW r \in Requests, NEW q \in Queries, Begin(r, q) PROVE FullInv'
  <2>1. mem' = mem /\ disk' = disk
    BY <1>5 DEF Begin
  <2>2. loc'[r].got = <<>>
    BY <1>0, <1>5, BeginLoc
  <2>3. \A s \in Requests \ {r} : loc'[s] = loc[s]
    BY <1>0, <1>5, BeginTurns DEF Turn
  <2>4. \A s \in Requests : loc'[s].got \in Seq(Bytes)
    <3>1. <<>> \in Seq(Bytes) /\ \A s \in Requests : loc[s].got \in Seq(Bytes)
      BY <1>0 DEF Full
    <3> QED BY <2>2, <2>3, <3>1
  <2> QED BY <1>0, <2>1, <2>4 DEF FullInv, Full
<1>6. CASE WriteBack
  <2>1. mem' = mem /\ loc' = loc /\ \E files : disk' = Flushed(files) \/ disk' = Collect(Journaled(files), {})
    BY <1>6 DEF WriteBack
  <2> QED BY <1>0, <1>2, <1>3, <2>1 DEF FullInv, Full
<1>7. CASE Crash
  <2>1. mem' = Collect(disk, {}) /\ disk' = mem' /\ loc' = [r \in Requests |-> Nothing] /\ IsFs(disk)
    BY <1>0, <1>7 DEF Crash, FilesInv, Safe, Shaped
  <2>2. Filled(mem')
    BY <1>0, <1>1, <2>1
  <2>3. Nothing.got = <<>>
    BY DEF Nothing
  <2>4. \A r \in Requests : loc'[r].got \in Seq(Bytes)
    BY <1>0, <2>1, <2>3
  <2> QED BY <2>1, <2>2, <2>4 DEF FullInv, Full, Filled
<1>8. CASE UNCHANGED vars
  BY <1>0, <1>8 DEF FullInv, Full, Filled, vars
<1> QED BY <1>4, <1>5, <1>6, <1>7, <1>8, NextIs

-----------------------------------------------------------------------------
(* Reads.  What is given was in the note while it was read, and what stays *)
(* as it was is given.                                                     *)
SeenIn(W, f) ==
  /\ \E b \in f.held, V \in W : f.path \in DOMAIN V /\ V[f.path].type = "file" /\ V[f.path].bytes = b
  /\ \A i \in DOMAIN f.bytes : \E b \in f.held : i \in DOMAIN b /\ b[i] = f.bytes[i]
  /\ \E b \in f.held : Len(b) <= Len(f.bytes)
Steadfast(W, p, e) == e.type = "file" /\ \A V \in W : p \in DOMAIN V /\ V[p] = e
Has(files, p) == \E f \in files : f.path = p

(* A path that stays what it was leads to a note.                          *)
LEMMA SteadyLeads ==
  ASSUME NEW m, Shaped(m), NEW W, Sight(m) \in W, NEW p, NEW e, Steadfast(W, p, e)
  PROVE  /\ p \in Seq(Components) /\ Walk(m, p) \in Ids /\ ~IsDir(m, Walk(m, p))
         /\ e.id = Walk(m, p) /\ e.bytes = m[Walk(m, p)].bytes
<1> DEFINE V == Sight(m)
           id == Walk(m, p)
           n == m[id]
           x == [id |-> id, type |-> n.type, bytes |-> n.bytes]
<1>1. p \in DOMAIN V /\ V[p] = e /\ e.type = "file"
  BY DEF Steadfast
<1>2. p \in Seq(Components) /\ id \in Ids /\ V[p] = x
  BY <1>1, SightHas
<1>3. x.id = id /\ x.type = n.type /\ x.bytes = n.bytes
  OBVIOUS
<1> HIDE DEF V, x, n
<1>4. e.id = id /\ n.type = "file" /\ e.bytes = n.bytes
  BY <1>1, <1>2, <1>3
<1> QED BY <1>2, <1>4 DEF IsDir, n

(* What is opened now is seen now.                                         *)
LEMMA OpenIsSeen ==
  ASSUME NEW m, Shaped(m), NEW p \in Seq(Components), Walk(m, p) \notin Errors, ~IsDir(m, Walk(m, p))
  PROVE  /\ Walk(m, p) \in Ids /\ p \in DOMAIN Sight(m)
         /\ Sight(m)[p].id = Walk(m, p) /\ Sight(m)[p].type = "file" /\ Sight(m)[p].bytes = m[Walk(m, p)].bytes
<1> DEFINE id == Walk(m, p)
           n == m[id]
           x == [id |-> id, type |-> n.type, bytes |-> n.bytes]
<1>1. id \in Ids
  BY WalkIs
<1>2. n.type = "file"
  BY <1>1, WalkThere DEF IsDir
<1>3. p \in DOMAIN Sight(m) /\ Sight(m)[p] = x
  BY <1>1, SightHas
<1>4. x.id = id /\ x.type = n.type /\ x.bytes = n.bytes
  OBVIOUS
<1> QED BY <1>1, <1>2, <1>3, <1>4

(* The beginning of a path that leads to a note is the note or a folder in *)
(* which the path goes on.                                                 *)
LEMMA GoesOn ==
  ASSUME NEW m, Shaped(m), NEW p \in Seq(Components), Walk(m, p) \in Ids, ~IsDir(m, Walk(m, p)),
         NEW x \in Seq(Components), Begins(x, p)
  PROVE  /\ ~IsDir(m, Walk(m, x)) => x = p
         /\ IsDir(m, Walk(m, x)) => \E name \in Names(m, Walk(m, x)) : Begins(Append(x, name), p)
<1>1. ~IsDir(m, Walk(m, x)) => x = p
  BY WalkDown
<1>2. ASSUME IsDir(m, Walk(m, x)) PROVE \E name \in Names(m, Walk(m, x)) : Begins(Append(x, name), p)
  <2> DEFINE name == p[Len(x) + 1]
             y == Append(x, name)
  <2>1. x # p
    BY <1>2
  <2>2. Len(x) + 1 \in 1..Len(p) /\ name \in Names(m, Walk(m, x))
    BY <2>1, WalkDown
  <2>3. Len(x) \in Nat /\ Len(p) \in Nat /\ name \in Components
    BY <2>2, ElementOfSeq
  <2>4. Len(y) = Len(x) + 1 /\ y[Len(x) + 1] = name /\ \A i \in 1..Len(x) : y[i] = x[i]
    <3> HIDE DEF name
    <3> QED BY <2>3, AppendProperties
  <2>5. Len(y) <= Len(p)
    BY <2>2, <2>3, <2>4
  <2>6. ASSUME NEW i \in 1..Len(y) PROVE y[i] = p[i]
    <3>1. CASE i = Len(x) + 1
      BY <2>4, <3>1
    <3>2. CASE i # Len(x) + 1
      <4>1. i \in 1..Len(x)
        BY <2>3, <2>4, <3>2
      <4> HIDE DEF y, name
      <4> QED BY <2>4, <4>1 DEF Begins
    <3> QED BY <3>1, <3>2
  <2>7. Begins(y, p)
    <3> HIDE DEF y
    <3> QED BY <2>5, <2>6 DEF Begins
  <2> HIDE DEF name
  <2> QED BY <2>2, <2>7
<1> QED BY <1>1, <1>2

(* What is left of the folders being walked will come to p.                *)
Ahead(s, p) == \E i \in 1..Len(s) : \E c \in s[i].left : Begins(Append(s[i].path, c.name), p)

(* Taking an entry from the innermost folder.                              *)
LEMMA AheadTaken ==
  ASSUME NEW o, NEW s, Stack(s, o), NEW c, NEW p, Ahead(s, p)
  PROVE  \/ Ahead([s EXCEPT ![Len(s)].left = @ \ {c}], p)
         \/ Begins(Append(s[Len(s)].path, c.name), p)
<1> DEFINE n == Len(s)
           t == [s EXCEPT ![Len(s)].left = @ \ {c}]
<1>1. s \in Seq(Frames(o)) /\ n \in Nat /\ n >= 1 /\ s[n] \in Frames(o)
  BY DEF Stack
<1>2. Len(t) = n /\ \A i \in 1..n : i # n => t[i] = s[i]
  BY <1>1
<1>3. t[n].path = s[n].path /\ t[n].left = s[n].left \ {c}
  <2> DEFINE x == s[n]
             y == [x EXCEPT !.left = @ \ {c}]
  <2>1. x = [dir |-> x.dir, path |-> x.path, left |-> x.left]
    BY <1>1 DEF Frames
  <2>2. t = [s EXCEPT ![n] = y] /\ n \in 1..n
    BY <1>1
  <2> HIDE DEF x, y, t
  <2>4. t[n] = y
    BY <1>1, <2>2
  <2> USE DEF y
  <2>3. y.path = x.path /\ y.left = x.left \ {c}
    BY <2>1
  <2> HIDE DEF y
  <2> QED BY <2>3, <2>4 DEF x
<1>4. PICK i \in 1..n : \E e \in s[i].left : Begins(Append(s[i].path, e.name), p)
  BY DEF Ahead
<1>5. PICK e \in s[i].left : Begins(Append(s[i].path, e.name), p)
  BY <1>4
<1> HIDE DEF t
<1> SUFFICES ASSUME ~Begins(Append(s[n].path, c.name), p) PROVE Ahead(t, p)
  BY DEF t
<1>6. CASE i = n
  <2>1. e # c
    BY <1>5, <1>6
  <2>2. e \in t[i].left /\ t[i].path = s[i].path
    BY <1>3, <1>6, <2>1
  <2> QED BY <1>2, <1>5, <2>2 DEF Ahead
<1>7. CASE i # n
  BY <1>2, <1>5, <1>7 DEF Ahead
<1> QED BY <1>6, <1>7

(* Leaving a folder of which nothing is left.                              *)
LEMMA AheadPopped ==
  ASSUME NEW o, NEW s, Stack(s, o), s[Len(s)].left = {}, NEW p, Ahead(s, p)
  PROVE  Len(s) # 1 /\ Ahead(Front(s), p)
<1> DEFINE n == Len(s)
           t == Front(s)
<1>1. s \in Seq(Frames(o)) /\ n \in Nat /\ n >= 1 /\ s # <<>>
  BY DEF Stack
<1>2. Len(t) = n - 1 /\ \A k \in 1..(n - 1) : t[k] = s[k]
  BY <1>1, FrontIs
<1>3. PICK i \in 1..n : \E e \in s[i].left : Begins(Append(s[i].path, e.name), p)
  BY DEF Ahead
<1>4. i # n
  BY <1>3
<1> HIDE DEF n, t
<1>5. i \in 1..(n - 1) /\ n # 1
  BY <1>1, <1>4
<1>6. Ahead(t, p)
  BY <1>2, <1>3, <1>5 DEF Ahead
<1> QED BY <1>5, <1>6 DEF n, t

(* Entering a folder.                                                      *)
LEMMA AheadPushed ==
  ASSUME NEW o, NEW s \in Seq(Frames(o)), NEW f \in Frames(o), NEW p,
         Ahead(s, p) \/ \E c \in f.left : Begins(Append(f.path, c.name), p)
  PROVE  Ahead(Append(s, f), p)
<1> DEFINE t == Append(s, f)
<1>1. /\ Len(t) = Len(s) + 1 /\ t[Len(s) + 1] = f /\ Len(s) \in Nat
      /\ \A i \in 1..Len(s) : t[i] = s[i]
  BY AppendProperties
<1> HIDE DEF t
<1>2. CASE Ahead(s, p)
  <2>1. PICK i \in 1..Len(s) : \E e \in s[i].left : Begins(Append(s[i].path, e.name), p)
    BY <1>2 DEF Ahead
  <2>2. i \in 1..Len(t) /\ t[i] = s[i]
    BY <1>1
  <2>3. Ahead(t, p)
    BY <2>1, <2>2 DEF Ahead
  <2> QED BY <2>3 DEF t
<1>3. CASE \E c \in f.left : Begins(Append(f.path, c.name), p)
  <2>1. Len(s) + 1 \in 1..Len(t)
    BY <1>1
  <2>2. Ahead(t, p)
    BY <1>1, <1>3, <2>1 DEF Ahead
  <2> QED BY <2>2 DEF t
<1> QED BY <1>2, <1>3

(* A folder that has just been listed leads to every note below it.        *)
LEMMA FrameLeads ==
  ASSUME NEW o, FilesInv(o), NEW x \in Seq(Components), NEW p \in Seq(Components), Walk(mem, p) \in Ids,
         ~IsDir(mem, Walk(mem, p)), Begins(x, p), IsDir(mem, Walk(mem, x))
  PROVE  \E c \in Frame(Walk(mem, x), x).left : Begins(Append(Frame(Walk(mem, x), x).path, c.name), p)
<1> DEFINE d == Walk(mem, x)
           Item(n) == [name |-> n, folder |-> IsDir(mem, mem[d].at[n])]
           left == {Item(n) : n \in Names(mem, d)}
<1>0. Shaped(mem)
  BY DEF FilesInv, Safe
<1>1. PICK name \in Names(mem, d) : Begins(Append(x, name), p)
  BY <1>0, GoesOn
<1>2. Frame(d, x) = [dir |-> d, path |-> x, left |-> left]
  BY DEF Frame
<1>3. Item(name) \in left /\ Item(name).name = name
  OBVIOUS
<1> HIDE DEF Item, left, d
<1>4. Frame(d, x).path = x /\ Frame(d, x).left = left
  BY <1>2
<1>5. \E c \in left : Begins(Append(x, c.name), p)
  BY <1>1, <1>3
<1> QED BY <1>4, <1>5 DEF d

(* What an assignment to local variables leaves of the others.             *)
LEMMA LocParts ==
  ASSUME NEW o, NEW l, IsLoc(l, o), NEW x, NEW y
  PROVE  /\ LET k == [l EXCEPT !.reading = x] IN
            k.reading = x /\ k.files = l.files /\ k.frames = l.frames /\ k.left = l.left /\ k.fd = l.fd
         /\ LET k == [l EXCEPT !.frames = x] IN k.frames = x /\ k.files = l.files /\ k.left = l.left
         /\ LET k == [l EXCEPT !.left = x] IN k.left = x /\ k.files = l.files /\ k.frames = l.frames
         /\ LET k == [l EXCEPT !.frames = x, !.reading = y] IN k.frames = x /\ k.reading = y /\ k.files = l.files
         /\ LET k == [l EXCEPT !.left = x, !.reading = y] IN k.left = x /\ k.reading = y /\ k.files = l.files
<1>0. l = [fd |-> l.fd, dest |-> l.dest, got |-> l.got, dirs |-> l.dirs, frames |-> l.frames,
           reading |-> l.reading, left |-> l.left, files |-> l.files]
  BY DEF IsLoc
<1> DEFINE k1 == [l EXCEPT !.reading = x]
           k2 == [l EXCEPT !.frames = x]
           k3 == [l EXCEPT !.left = x]
           k4 == [l EXCEPT !.frames = x, !.reading = y]
           k5 == [l EXCEPT !.left = x, !.reading = y]
<1>1. k1.reading = x /\ k1.files = l.files /\ k1.frames = l.frames /\ k1.left = l.left /\ k1.fd = l.fd
  BY <1>0
<1>2. k2.frames = x /\ k2.files = l.files /\ k2.left = l.left
  BY <1>0
<1>3. k3.left = x /\ k3.files = l.files /\ k3.frames = l.frames
  BY <1>0
<1>4. k4.frames = x /\ k4.reading = y /\ k4.files = l.files
  BY <1>0
<1>5. k5.left = x /\ k5.reading = y /\ k5.files = l.files
  BY <1>0
<1> HIDE DEF k1, k2, k3, k4, k5
<1> QED BY <1>1, <1>2, <1>3, <1>4, <1>5 DEF k1, k2, k3, k4, k5

(* The same for those of a note that is opened, read, missed or finished.  *)
LEMMA NoteParts ==
  ASSUME NEW o, NEW l, IsLoc(l, o), NEW x
  PROVE  /\ LET k == [l EXCEPT !.fd = x] IN
            k.fd = x /\ k.reading = l.reading /\ k.files = l.files /\ k.frames = l.frames /\ k.left = l.left
         /\ LET k == [l EXCEPT !.got = x] IN
            /\ k.got = x /\ k.fd = l.fd /\ k.reading = l.reading
            /\ k.files = l.files /\ k.frames = l.frames /\ k.left = l.left
         /\ LET k == [l EXCEPT !.reading = None, !.fd = None, !.got = <<>>] IN k.files = l.files /\ k.left = l.left
         /\ LET k == [l EXCEPT !.got = <<>>, !.fd = None, !.reading = None, !.files = x] IN
            k.files = x /\ k.frames = l.frames /\ k.left = l.left
<1>0. l = [fd |-> l.fd, dest |-> l.dest, got |-> l.got, dirs |-> l.dirs, frames |-> l.frames,
           reading |-> l.reading, left |-> l.left, files |-> l.files]
  BY DEF IsLoc
<1> DEFINE k1 == [l EXCEPT !.fd = x]
           k2 == [l EXCEPT !.got = x]
           k3 == [l EXCEPT !.reading = None, !.fd = None, !.got = <<>>]
           k4 == [l EXCEPT !.got = <<>>, !.fd = None, !.reading = None, !.files = x]
<1>1. k1.fd = x /\ k1.reading = l.reading /\ k1.files = l.files /\ k1.frames = l.frames /\ k1.left = l.left
  BY <1>0
<1>2. /\ k2.got = x /\ k2.fd = l.fd /\ k2.reading = l.reading
      /\ k2.files = l.files /\ k2.frames = l.frames /\ k2.left = l.left
  BY <1>0
<1>3. k3.files = l.files /\ k3.left = l.left
  BY <1>0
<1>4. k4.files = x /\ k4.frames = l.frames /\ k4.left = l.left
  BY <1>0
<1> HIDE DEF k1, k2, k3, k4
<1> QED BY <1>1, <1>2, <1>3, <1>4 DEF k1, k2, k3, k4

(* The calls made by a request that reads.                                 *)
LEMMA OnlyReading ==
  ASSUME NEW r, Acts(r), NEW q, Ready(q, loc[r], pc[r]), q.op \in Reading
  PROVE  Metadata(r) \/ OpenNote(r) \/ Read(r) \/ ReadDir(r) \/ ZipWalk(r) \/ BatchRead(r) \/ CallFails(r)
<1>0. pc[r] \in {"metadata", "open", "read", "read_dir", "zip", "batch_read"}
  BY DEF Ready, Fits, Reading
<1>1. /\ ~MakeDirs(r) /\ ~Create(r) /\ ~OpenAppend(r) /\ ~WriteAll(r) /\ ~WriteFails(r)
      /\ ~SyncAll(r) /\ ~ReadBack(r) /\ ~OpenSource(r) /\ ~CreateDest(r) /\ ~Transfer(r)
  BY <1>0 DEF At, MakeDirs, Create, OpenAppend, WriteAll, WriteFails, SyncAll, ReadBack, OpenSource,
         CreateDest, Transfer
<1>2. /\ ~Mkdir(r) /\ ~Move(r) /\ ~Utimes(r) /\ ~UnlinkFile(r) /\ ~Rmdir(r) /\ ~Lstat(r)
      /\ ~RemoveFile(r) /\ ~RemoveDir(r, "remove_dir") /\ ~OpenTree(r)
      /\ ~RemoveChild(r) /\ ~RemoveEmptied(r) /\ ~Stat(r) /\ ~Access(r)
  BY <1>0 DEF At, Mkdir, Move, Utimes, UnlinkFile, Rmdir, RemoveDir, Lstat, RemoveFile, OpenTree, RemoveChild,
         RemoveEmptied, Stat, Access
<1> QED BY <1>1, <1>2 DEF Acts

-----------------------------------------------------------------------------
(* What a handler knows of the note it has open: what has been read of it  *)
(* was in it, and if the note at the path stays what it is, so did this.   *)
Follows(m, l, C, W) ==
  /\ m[l.fd].bytes \in C
  /\ \E V \in W : l.reading \in DOMAIN V /\ V[l.reading].type = "file" /\ V[l.reading].bytes \in C
  /\ \A e : Steadfast(W, l.reading, e) => l.fd = e.id /\ \A b \in C : b = e.bytes
  /\ \A i \in DOMAIN l.got : \E b \in C : i \in DOMAIN b /\ b[i] = l.got[i]
Unread(r) == r \in Running /\ req[r].op \in Reading /\ pc[r] # "read" => loc[r].got = <<>>
FollowInv ==
  /\ contents = [r \in Requests |-> contents[r]]
  /\ \A r \in Requests : Unread(r)
  /\ \A r \in Requests : pc[r] = "read" => Follows(mem, loc[r], contents[r], views[r])

(* How a call changes what notes have held.                                *)
Stored == contents' = [s \in Requests |-> IF pc[s] = "read"
                                          THEN contents[s] \cup {mem'[loc[s].fd].bytes} ELSE contents[s]]
LEMMA ActsHold ==
  ASSUME NEW r, Acts(r)
  PROVE  \/ Stored
         \/ mem' = mem /\ contents' = contents
         \/ mem' = mem /\ \E C : contents' = [contents EXCEPT ![r] = C]
<1>a. ASSUME NEW n, Store(n) PROVE Stored
  BY <1>a DEF Store, Stored
<1>b. Same => mem' = mem /\ contents' = contents
  BY DEF Same
<1>1. CASE MakeDirs(r)
  BY <1>1, <1>a, <1>b DEF MakeDirs
<1>2. CASE Create(r) \/ OpenAppend(r) \/ CreateDest(r)
  BY <1>2, <1>a, <1>b DEF Create, OpenAppend, CreateDest
<1>3. CASE WriteAll(r) \/ WriteFails(r) \/ SyncAll(r) \/ ReadBack(r) \/ OpenSource(r)
  BY <1>3, <1>a, <1>b DEF WriteAll, WriteFails, SyncAll, ReadBack, OpenSource
<1>4. CASE Transfer(r)
  BY <1>4, <1>a, <1>b DEF Transfer
<1>5. CASE Mkdir(r) \/ Move(r) \/ Utimes(r)
  BY <1>5, <1>a, <1>b DEF Mkdir, Move, Utimes
<1>6. CASE UnlinkFile(r) \/ RemoveFile(r) \/ Rmdir(r) \/ RemoveDir(r, "remove_dir")
  BY <1>6, <1>a, <1>b DEF UnlinkFile, RemoveFile, Rmdir, RemoveDir, RemoveEntry
<1>7. CASE RemoveChild(r)
  BY <1>7, <1>a, <1>b DEF RemoveChild
<1>8. CASE RemoveEmptied(r)
  BY <1>8, <1>a, <1>b DEF RemoveEmptied
<1>9. CASE Lstat(r) \/ OpenTree(r) \/ Stat(r) \/ Access(r) \/ Metadata(r) \/ ReadDir(r) \/ ZipWalk(r) \/ BatchRead(r)
  BY <1>9, <1>a, <1>b DEF Lstat, OpenTree, Stat, Access, Metadata, ReadDir, ZipWalk, BatchRead
<1>10. CASE OpenNote(r) \/ Read(r) \/ CallFails(r)
  BY <1>10, <1>a, <1>b DEF OpenNote, Read, ReadUpTo, Finish, CallFails, Same
<1> QED BY <1>1, <1>2, <1>3, <1>4, <1>5, <1>6, <1>7, <1>8, <1>9, <1>10 DEF Acts

(* Every byte of x is one that some of the contents C has at its place.    *)
PiecedFrom(x, C) == \A i \in DOMAIN x : \E b \in C : i \in DOMAIN b /\ b[i] = x[i]

(* What is read now is in the note.                                        *)
LEMMA MoreIsRead ==
  ASSUME NEW S, NEW s \in Seq(S), NEW got \in Seq(S), NEW n \in Nat, n <= Len(s), NEW C, s \in C,
         PiecedFrom(got, C),
         NEW x, x = got \o SubSeq(s, Len(got) + 1, n)
  PROVE  PiecedFrom(x, C)
<1> DEFINE a == Len(got)
           t == SubSeq(s, a + 1, n)
<1>1. a \in Nat /\ Len(s) \in Nat /\ DOMAIN s = 1..Len(s) /\ DOMAIN got = 1..a
  OBVIOUS
<1>2. t \in Seq(S) /\ Len(t) = (IF a < n THEN n - a ELSE 0) /\ \A i \in 1 .. n - a : t[i] = s[a + i]
  <2>1. a \in Nat
    BY <1>1
  <2> HIDE DEF a
  <2> QED BY <2>1, SomeOnes
<1> HIDE DEF t, a
<1>3. /\ x \in Seq(S) /\ Len(x) = a + Len(t)
      /\ \A i \in 1 .. a + Len(t) : x[i] = IF i <= a THEN got[i] ELSE t[i - a]
  BY <1>2, ConcatProperties DEF a, t
<1>4. ASSUME NEW i \in DOMAIN x PROVE \E b \in C : i \in DOMAIN b /\ b[i] = x[i]
  <2>1. i \in 1 .. a + Len(t) /\ i \in Nat /\ Len(t) \in Nat
    BY <1>1, <1>2, <1>3
  <2>2. CASE i <= a
    BY <1>1, <1>3, <2>1, <2>2 DEF PiecedFrom
  <2>3. CASE ~(i <= a)
    <3>1. i - a \in 1 .. n - a /\ i \in DOMAIN s /\ a + (i - a) = i
      BY <1>1, <1>2, <2>1, <2>3
    <3>2. x[i] = t[i - a] /\ t[i - a] = s[a + (i - a)]
      BY <1>2, <1>3, <2>1, <2>3, <3>1
    <3> QED BY <3>1, <3>2
  <2> QED BY <2>2, <2>3
<1> QED BY <1>4 DEF PiecedFrom

(* A handler that reads, at its turn.                                      *)
Heeds(r) ==
  /\ pc'[r] = "read" => Follows(mem', loc'[r], contents'[r], views'[r])
  /\ pc'[r] \notin {"read", "done"} => loc'[r].got = <<>>
LEMMA FollowsTurn ==
  ASSUME NEW o, Invariant(o), FullInv, GoneInv, FollowInv, NEW r \in Requests, r \in Running, Acts(r),
         req[r].op \in Reading
  PROVE  Heeds(r)
<1> DEFINE l == loc[r]
<1>0. /\ ControlInv(o) /\ Shapes /\ IsLoc(l, o) /\ Ready(req[r], l, pc[r]) /\ Shaped(mem)
      /\ pc[r] # "read" => l.got = <<>>
  BY DEF Invariant, ControlInv, HandlerInv, FollowInv, Unread, FilesInv, Safe
<1>a. ASSUME NEW step, step \notin {"read", "done"}, NEW k, k.got = <<>>, Goto(r, step, k) PROVE Heeds(r)
  <2>1. pc'[r] = step /\ loc'[r] = k
    BY <1>0, <1>a, GotoLoc
  <2> QED BY <1>a, <2>1 DEF Heeds
<1>b. ASSUME NEW e, NEW out, Answer(r, e, out) PROVE Heeds(r)
  BY <1>0, <1>b DEF Answer, Shapes, Heeds
<1>c. ASSUME NEW e, Missed(r, e) PROVE Heeds(r)
  <2> DEFINE k == [l EXCEPT !.reading = None, !.fd = None, !.got = <<>>]
  <2>1. k.got = <<>>
    BY <1>0, GotIs
  <2>2. Goto(r, "batch_read", k) \/ Err(r, "ENOENT") \/ Err(r, e)
    BY <1>c DEF Missed
  <2> HIDE DEF k
  <2> QED BY <1>a, <1>b, <2>1, <2>2 DEF Err
<1>1. CASE Metadata(r)
  <2> DEFINE step == IF req[r].op \in {"read", "download"} THEN "open" ELSE "read_dir"
             k == [l EXCEPT !.reading = Path(r)]
  <2>1. k.got = <<>>
    BY <1>0, <1>1, GotIs DEF Metadata, At
  <2>2. Goto(r, step, k) \/ (\E e : Err(r, e))
    BY <1>1 DEF Metadata
  <2>3. step \notin {"read", "done"}
    OBVIOUS
  <2> HIDE DEF k, step
  <2> QED BY <1>a, <1>b, <2>1, <2>2, <2>3 DEF Err
<1>2. CASE ReadDir(r)
  <2> DEFINE t == Append(l.frames, Frame(Walk(mem, l.reading), l.reading))
             k == [l EXCEPT !.frames = t]
  <2>1. k.got = <<>>
    <3> HIDE DEF t
    <3> QED BY <1>0, <1>2, GotIs DEF ReadDir, At
  <2>2. Goto(r, "zip", k) \/ (\E e, out : Answer(r, e, out))
    BY <1>2 DEF ReadDir, Err
  <2> HIDE DEF k
  <2> QED BY <1>a, <1>b, <2>1, <2>2
<1>3. CASE ZipWalk(r)
  <2> DEFINE n == Len(l.frames)
             f == l.frames[n]
             Into(c) == [l EXCEPT !.frames = [l.frames EXCEPT ![n].left = @ \ {c}],
                                   !.reading = Append(f.path, c.name)]
             up == [l EXCEPT !.frames = Front(l.frames)]
  <2>1. \/ \E c \in f.left : \E step \in {"read_dir", "open"} :
             LET path == Append(f.path, c.name)
                 rest == [l EXCEPT !.frames[n].left = @ \ {c}, !.reading = path]
             IN Goto(r, step, rest)
        \/ \E e : Err(r, e)
        \/ Goto(r, "zip", [l EXCEPT !.frames = Front(@)])
        \/ Answer(r, None, l.files)
    BY <1>3 DEF ZipWalk
  <2>2. ASSUME NEW c, NEW path
        PROVE  [l EXCEPT !.frames[n].left = @ \ {c}, !.reading = path]
               = [l EXCEPT !.frames = [l.frames EXCEPT ![n].left = @ \ {c}], !.reading = path]
    BY <1>0 DEF IsLoc
  <2>3. [l EXCEPT !.frames = Front(@)] = up
    BY <1>0 DEF IsLoc
  <2>4. \/ \E c \in f.left : \E step \in {"read_dir", "open"} : Goto(r, step, Into(c))
        \/ \E e, out : Answer(r, e, out)
        \/ Goto(r, "zip", up)
    BY <2>1, <2>2, <2>3 DEF Err
  <2>5. l.got = <<>>
    BY <1>0, <1>3 DEF ZipWalk, At
  <2>6. up.got = <<>> /\ \A c : Into(c).got = <<>>
    BY <1>0, <2>5, GotIs
  <2> HIDE DEF Into, up, f
  <2> QED BY <1>a, <1>b, <2>4, <2>5, <2>6
<1>4. CASE BatchRead(r)
  <2> DEFINE a == [l EXCEPT !.left = Tail(l.left)]
             b == [l EXCEPT !.left = Tail(l.left), !.reading = ResolveInVault(Head(l.left)).out]
  <2>1. \/ Answer(r, None, l.files)
        \/ Goto(r, "batch_read", a)
        \/ Goto(r, "open", b)
    BY <1>4 DEF BatchRead
  <2>0. l.got = <<>>
    BY <1>0, <1>4 DEF BatchRead, At
  <2>2. a.got = <<>> /\ b.got = <<>>
    BY <1>0, <2>0, GotIs
  <2> HIDE DEF a, b
  <2> QED BY <1>a, <1>b, <2>1, <2>2
<1>5. CASE CallFails(r)
  <2>1. (\E e : Missed(r, e)) \/ \E e : Err(r, e)
    BY <1>5 DEF CallFails
  <2> QED BY <1>b, <1>c, <2>1 DEF Err
<1>6. CASE OpenNote(r)
  <2> DEFINE p == l.reading
             id == Walk(mem, p)
             k == [l EXCEPT !.fd = id]
             C == {mem[id].bytes}
  <2>1. Busy(r, "open", o)
    BY <1>0, <1>6, Busies DEF OpenNote
  <2>2. /\ pc[r] = "open" /\ p \in Seq(Components) /\ mem' = mem /\ views' = views
        /\ req[r].op \in Watched
    BY <1>6, <2>1 DEF Busy, Ready, VaultPaths, OpenNote, Watched, Reading
  <2>3. \/ (\E e : Missed(r, e))
        \/ /\ id \notin Errors /\ ~IsDir(mem, id) /\ Goto(r, "read", k)
           /\ contents' = [contents EXCEPT ![r] = C]
    BY <1>6 DEF OpenNote
  <2>4. CASE /\ id \notin Errors /\ ~IsDir(mem, id) /\ Goto(r, "read", k)
             /\ contents' = [contents EXCEPT ![r] = C]
    <3>1. pc'[r] = "read" /\ loc'[r] = k
      BY <1>0, <2>4, GotoLoc
    <3>2. k.fd = id /\ k.reading = p /\ k.got = <<>>
      <4> HIDE DEF id
      <4> QED BY <1>0, <2>2, NoteParts, GotIs
    <3>3. Sight(mem) \in views[r]
      BY <2>2 DEF GoneInv, Watching
    <3>4. /\ id \in Ids /\ p \in DOMAIN Sight(mem)
          /\ Sight(mem)[p].id = id /\ Sight(mem)[p].type = "file" /\ Sight(mem)[p].bytes = mem[id].bytes
      BY <1>0, <2>2, <2>4, OpenIsSeen
    <3>5. \A e : Steadfast(views[r], p, e) => id = e.id /\ mem[id].bytes = e.bytes
      BY <1>0, <3>3, SteadyLeads
    <3>6. contents'[r] = C
      <4> HIDE DEF C
      <4> QED BY <2>4 DEF FollowInv
    <3> HIDE DEF k, p, id
    <3>7. \A i \in DOMAIN k.got : \E b \in C : i \in DOMAIN b /\ b[i] = k.got[i]
      BY <3>2
    <3>8. Follows(mem, k, C, views[r])
      BY <3>2, <3>3, <3>4, <3>5, <3>7 DEF Follows
    <3> QED BY <2>2, <3>1, <3>6, <3>8 DEF Heeds
  <2> QED BY <1>c, <2>3, <2>4
<1>7. CASE Read(r)
  <2>1. Busy(r, "read", o)
    BY <1>0, <1>7, Busies DEF Read
  <2>2. l.fd \in Ids
    BY <2>1 DEF Busy, Ready, IsLoc, Handles
  <2>3. mem[l.fd].bytes \in Seq(Bytes) /\ l.got \in Seq(Bytes)
    BY <2>2 DEF FullInv, Full, Filled
  <2>4. Follows(mem, l, contents[r], views[r]) /\ mem' = mem /\ views' = views
    BY <1>7, <2>1 DEF Busy, FollowInv, Read, ReadUpTo, Finish, Same
  <2>5. \/ \E n \in Len(l.got) + 1 .. Len(mem[l.fd].bytes) : ReadUpTo(r, n)
        \/ Finish(r, [l EXCEPT !.got = <<>>])
    BY <1>7 DEF Read
  <2>6. ASSUME NEW n \in Len(l.got) + 1 .. Len(mem[l.fd].bytes), ReadUpTo(r, n) PROVE Heeds(r)
    <3> DEFINE s == mem[l.fd].bytes
               x == l.got \o SubSeq(s, Len(l.got) + 1, n)
               k == [l EXCEPT !.got = x]
    <3>1. Goto(r, "read", k) /\ contents' = contents
      BY <2>6 DEF ReadUpTo, Same
    <3>2. pc'[r] = "read" /\ loc'[r] = k
      BY <1>0, <3>1, GotoLoc
    <3>3. k.got = x /\ k.fd = l.fd /\ k.reading = l.reading
      <4> HIDE DEF x
      <4> QED BY <1>0, NoteParts
    <3>4. n \in Nat /\ n <= Len(s)
      BY <2>3, <2>6
    <3>5. \A i \in DOMAIN x : \E b \in contents[r] : i \in DOMAIN b /\ b[i] = x[i]
      <4> DEFINE got == l.got
                 C == contents[r]
      <4>1. s \in C /\ PiecedFrom(got, C)
        BY <2>4 DEF Follows, PiecedFrom
      <4>2. s \in Seq(Bytes) /\ got \in Seq(Bytes)
        BY <2>3
      <4>3. x = got \o SubSeq(s, Len(got) + 1, n)
        OBVIOUS
      <4> HIDE DEF s, x, got, C
      <4>4. n \in Nat /\ n <= Len(s)
        BY <3>4
      <4>5. PiecedFrom(x, C)
        BY <4>1, <4>2, <4>3, <4>4, MoreIsRead
      <4> QED BY <4>5 DEF C, PiecedFrom
    <3> HIDE DEF k, x
    <3>6. Follows(mem, k, contents[r], views[r])
      BY <2>4, <3>3, <3>5 DEF Follows
    <3> QED BY <2>4, <3>1, <3>2, <3>6 DEF Heeds
  <2>7. CASE Finish(r, [l EXCEPT !.got = <<>>])
    <3> DEFINE K(x) == [l EXCEPT !.got = <<>>, !.fd = None, !.reading = None, !.files = x]
    <3>1. \/ \E e, out : Answer(r, e, out)
          \/ \E step \in {"zip", "batch_read"} :
             \E x : Goto(r, step, [[l EXCEPT !.got = <<>>] EXCEPT !.fd = None, !.reading = None, !.files = x])
      BY <2>7 DEF Finish
    <3>2. ASSUME NEW x PROVE [[l EXCEPT !.got = <<>>] EXCEPT !.fd = None, !.reading = None, !.files = x] = K(x)
      OBVIOUS
    <3>3. \A x : K(x).got = <<>>
      BY <1>0, GotIs
    <3>4. \/ \E e, out : Answer(r, e, out)
          \/ \E step \in {"zip", "batch_read"} : \E x : Goto(r, step, K(x))
      BY <3>1, <3>2
    <3> HIDE DEF K
    <3> QED BY <1>a, <1>b, <3>3, <3>4
  <2> QED BY <2>5, <2>6, <2>7
<1> QED BY <1>0, <1>1, <1>2, <1>3, <1>4, <1>5, <1>6, <1>7, OnlyReading

(* One that reads, beside the call of another request.                     *)
LEMMA FollowsBeside ==
  ASSUME NEW o, Invariant(o), GoneInv, FollowInv, NEW t \in Requests, Acts(t), Works(t, o), Shaped(mem'),
         NEW r \in Requests, r # t, pc[r] = "read", req[r].op \in Watched
  PROVE  Follows(mem', loc[r], contents'[r], views'[r])
<1> DEFINE l == loc[r]
           p == l.reading
           C == contents[r]
           D == contents'[r]
           W == views[r]
           X == views'[r]
<1>1. Follows(mem, l, C, W) /\ r \in Running
  BY DEF FollowInv, Running
<1>2. W \subseteq X /\ Sight(mem') \in X
  BY <1>1, ViewsKeep
<1>3. \/ mem' = mem /\ D = C
      \/ D = C \cup {mem'[l.fd].bytes}
  BY ActsHold DEF Stored, FollowInv
<1> HIDE DEF l, p, C, D, W, X
<1>4. mem'[l.fd].bytes \in D /\ C \subseteq D
  BY <1>1, <1>3 DEF Follows
<1>5. ASSUME NEW e, Steadfast(X, p, e) PROVE l.fd = e.id /\ \A b \in D : b = e.bytes
  <2>1. Steadfast(W, p, e)
    BY <1>2, <1>5 DEF Steadfast
  <2>2. l.fd = e.id /\ \A b \in C : b = e.bytes
    BY <1>1, <2>1 DEF Follows, p
  <2>3. e.id = Walk(mem', p) /\ e.bytes = mem'[Walk(mem', p)].bytes
    BY <1>2, <1>5, SteadyLeads
  <2> QED BY <1>3, <2>2, <2>3
<1>6. Follows(mem', l, D, X)
  BY <1>1, <1>2, <1>4, <1>5 DEF Follows, p
<1> QED BY <1>6 DEF l, D, X

(* Every step of the file system keeps what the readers know.              *)
LEMMA FollowStays ==
  ASSUME NEW o, Invariant(o), FullInv, GoneInv, FollowInv, [Next]_vars
  PROVE  FollowInv'
<1>0. /\ Invariant(o)' /\ ControlInv(o) /\ Shapes /\ Shaped(mem')
  BY StepKeeps DEF Invariant, ControlInv, FilesInv, Safe
<1>1. contents' = [r \in Requests |-> contents'[r]]
  <2>1. ASSUME NEW r \in Requests, Acts(r) PROVE contents' = [s \in Requests |-> contents'[s]]
    BY <2>1, ActsHold DEF Stored, FollowInv
  <2>2. ASSUME NEW r \in Requests, NEW q \in Queries, Begin(r, q) PROVE contents' = contents
    BY <2>2 DEF Begin
  <2>3. CASE WriteBack \/ Crash \/ UNCHANGED vars
    BY <2>3 DEF WriteBack, Crash, vars, FollowInv
  <2> QED BY <2>1, <2>2, <2>3, NextIs DEF FollowInv
<1>2. ASSUME NEW r \in Requests,
             /\ pc'[r] = pc[r] /\ loc'[r] = loc[r] /\ req'[r] = req[r] /\ views'[r] = views[r]
             /\ contents'[r] = contents[r] /\ mem' = mem
      PROVE  Unread(r)' /\ (pc'[r] = "read" => Follows(mem', loc'[r], contents'[r], views'[r]))
  BY <1>2 DEF FollowInv, Unread, Running
<1>3. ASSUME NEW t \in Requests, NEW q \in Queries, Begin(t, q), NEW r \in Requests
      PROVE  Unread(r)' /\ (pc'[r] = "read" => Follows(mem', loc'[r], contents'[r], views'[r]))
  <2>1. CASE r = t
    <3>1. loc'[t].got = <<>> /\ (t \in Running' => pc'[t] = FirstCall(q))
      BY <1>3, BeginLoc
    <3>2. FirstCall(q) # "read" /\ q.op \in Operations
      BY QueriesAssumption DEF FirstCall, Operations
    <3>3. pc'[t] = "read" => t \in Running'
      BY DEF Running
    <3> QED BY <2>1, <3>1, <3>2, <3>3 DEF Unread
  <2>2. CASE r # t
    <3>1. pc'[r] = pc[r] /\ loc'[r] = loc[r]
      BY <1>0, <1>3, <2>2, BeginTurns DEF Turn, Invariant
    <3>2. req'[r] = req[r] /\ contents' = contents /\ mem' = mem
      BY <1>0, <1>3, <2>2 DEF Begin, Shapes
    <3>3. views'[r] = views[r]
      BY <1>3, <2>2, BeginTold DEF GoneInv
    <3> QED BY <1>2, <3>1, <3>2, <3>3
  <2> QED BY <2>1, <2>2
<1>4. ASSUME NEW t \in Requests, Acts(t), Works(t, o), NEW r \in Requests
      PROVE  Unread(r)' /\ (pc'[r] = "read" => Follows(mem', loc'[r], contents'[r], views'[r]))
  <2>1. req' = req /\ t \in Running /\ \A s \in Requests \ {t} : pc'[s] = pc[s] /\ loc'[s] = loc[s]
    BY <1>4 DEF Works, Turn
  <2>2. CASE r # t
    <3>1. Unread(r)'
      BY <2>1, <2>2 DEF FollowInv, Unread, Running
    <3>2. ASSUME pc[r] = "read" PROVE Follows(mem', loc[r], contents'[r], views'[r])
      <4>1. Ready(req[r], loc[r], pc[r])
        BY <1>0, <3>2 DEF ControlInv, HandlerInv, Running
      <4>2. req[r].op \in Watched
        BY <3>2, <4>1 DEF Ready, Fits, Reading, Watched
      <4> QED BY <1>0, <1>4, <2>2, <3>2, <4>2, FollowsBeside
    <3> QED BY <2>1, <2>2, <3>1, <3>2
  <2>3. CASE r = t
    <3>1. req[r].op \in Reading => Heeds(r)
      BY <1>4, <2>1, <2>3, FollowsTurn
    <3>2. pc'[r] = "read" => req[r].op \in Reading
      <4>1. pc'[r] = "read" => Ready(req[r], loc'[r], pc'[r])
        BY <1>4, <2>3 DEF Works, Turn
      <4> QED BY <4>1 DEF Ready, Fits, Reading
    <3> QED BY <2>1, <3>1, <3>2 DEF Heeds, Unread, Running
  <2> QED BY <2>2, <2>3
<1>5. ASSUME Crash, NEW r \in Requests
      PROVE  Unread(r)' /\ (pc'[r] = "read" => Follows(mem', loc'[r], contents'[r], views'[r]))
  <2>1. pc'[r] \in {"idle", "done", "lost"}
    BY <1>5 DEF Crash, Running
  <2> QED BY <2>1 DEF Unread, Running
<1>6. ASSUME WriteBack \/ UNCHANGED vars, NEW r \in Requests
      PROVE  Unread(r)' /\ (pc'[r] = "read" => Follows(mem', loc'[r], contents'[r], views'[r]))
  BY <1>2, <1>6 DEF WriteBack, vars
<1>7. ASSUME NEW r \in Requests
      PROVE  Unread(r)' /\ (pc'[r] = "read" => Follows(mem', loc'[r], contents'[r], views'[r]))
  BY <1>3, <1>4, <1>5, <1>6, NextIs
<1> QED BY <1>1, <1>7 DEF FollowInv

(* A note that has been read to its end.                                   *)
LEMMA NoteSeen ==
  ASSUME NEW m, NEW l, NEW C, NEW W, Follows(m, l, C, W), Len(m[l.fd].bytes) <= Len(l.got)
  PROVE  SeenIn(W, [path |-> l.reading, bytes |-> l.got, held |-> C])
<1> DEFINE f == [path |-> l.reading, bytes |-> l.got, held |-> C]
<1>1. f.path = l.reading /\ f.bytes = l.got /\ f.held = C
  OBVIOUS
<1> HIDE DEF f
<1>2. \E b \in f.held, V \in W : f.path \in DOMAIN V /\ V[f.path].type = "file" /\ V[f.path].bytes = b
  BY <1>1 DEF Follows
<1>3. \E b \in f.held : Len(b) <= Len(f.bytes)
  BY <1>1 DEF Follows
<1>4. SeenIn(W, f)
  BY <1>1, <1>2, <1>3 DEF SeenIn, Follows
<1> QED BY <1>4 DEF f

(* If what is read is not UTF-8, the note did not stay a text.             *)
LEMMA TextStays ==
  ASSUME NEW m, NEW l, NEW C, NEW W, Follows(m, l, C, W), ~IsText(l.got), NEW e, Steadfast(W, l.reading, e)
  PROVE  ~IsText(e.bytes)
<1>1. \A b \in C : b = e.bytes
  BY DEF Follows
<1>2. \A i \in DOMAIN l.got : i \in DOMAIN e.bytes /\ e.bytes[i] = l.got[i]
  BY <1>1 DEF Follows
<1>3. PICK i \in DOMAIN l.got : l.got[i] \in Binary
  BY DEF IsText, Range
<1> QED BY <1>2, <1>3 DEF IsText, Range

-----------------------------------------------------------------------------
(* The paths a batch-read looks at.                                        *)
Looked(q) == {q.paths[i] : i \in {i \in DOMAIN q.paths : i <= BatchLimit}}

(* A handler that reads still comes to everything it has to give, and what *)
(* it has was seen.                                                        *)
Due(step, l, p) ==
  \/ step = "metadata"
  \/ step \in {"open", "read_dir"} /\ Begins(l.reading, p)
  \/ step = "read" /\ l.reading = p
  \/ Ahead(l.frames, p)
ZipSees(q, step, l, W) ==
  \A p, e : IsPrefix(ResolveInVault(q.path).out, p) /\ Steadfast(W, p, e) => Has(l.files, p) \/ Due(step, l, p)
Awaits(step, l, rel) ==
  \/ step \in {"open", "read"} /\ l.reading = ResolveInVault(rel).out
  \/ \E j \in 1..Len(l.left) : l.left[j] = rel
BatchSees(q, step, l, W) ==
  \A rel \in Looked(q) : \A e :
    ResolveInVault(rel).ok /\ Steadfast(W, ResolveInVault(rel).out, e) /\ IsText(e.bytes)
      => Has(l.files, ResolveInVault(rel).out) \/ Awaits(step, l, rel)
Gathers(r, q, step, l, F) ==
  /\ \A f \in l.files : SeenIn(views[r], f)
  /\ q.op = "zip" => ZipSees(q, step, l, views[r])
  /\ q.op = "batch_read" /\ r \notin F => BatchSees(q, step, l, views[r])

(* One that has answered has given everything.                             *)
ZipHas(q, out, W) ==
  \A p, e : IsPrefix(ResolveInVault(q.path).out, p) /\ Steadfast(W, p, e) => Has(out, p)
BatchHas(q, out, W) ==
  \A rel \in Looked(q) : \A e :
    ResolveInVault(rel).ok /\ Steadfast(W, ResolveInVault(rel).out, e) /\ IsText(e.bytes)
      => Has(out, ResolveInVault(rel).out)
Gives(r, q, out, F) ==
  /\ \A f \in out : SeenIn(views[r], f)
  /\ q.op = "zip" => ZipHas(q, out, views[r])
  /\ q.op = "batch_read" /\ r \notin F => BatchHas(q, out, views[r])

HonestInv ==
  /\ \A r \in Requests : r \in Running /\ req[r].op \in Reading => Gathers(r, req[r], pc[r], loc[r], failed)
  /\ \A r \in Requests : Succeeded(r, Reading) => Gives(r, req[r], answer[r].out, failed)

(* What all of these need to know.                                         *)
Knows(o) == Invariant(o) /\ FullInv /\ GoneInv /\ FollowInv /\ HonestInv

(* What a turn of a handler that reads comes to.                           *)
Gathered(r) ==
  \/ \E step, l : step # "done" /\ pc'[r] = step /\ loc'[r] = l /\ Gathers(r, req[r], step, l, failed')
  \/ \E out : pc'[r] = "done" /\ answer'[r].err = None /\ answer'[r].out = out /\ Gives(r, req[r], out, failed')
  \/ pc'[r] = "done" /\ answer'[r].err # None

(* It goes on, answers or fails.                                           *)
LEMMA GatheredBy ==
  ASSUME NEW r \in Requests, Shapes,
         \/ \E step, l : step # "done" /\ Goto(r, step, l) /\ Gathers(r, req[r], step, l, failed')
         \/ \E out : Answer(r, None, out) /\ Gives(r, req[r], out, failed')
         \/ \E e \in Errors \cup {"bad"} : Err(r, e)
  PROVE  Gathered(r)
<1>1. ASSUME NEW step, NEW l, step # "done", Goto(r, step, l), Gathers(r, req[r], step, l, failed')
      PROVE  Gathered(r)
  <2>1. pc'[r] = step /\ loc'[r] = l
    BY <1>1, GotoLoc
  <2> QED BY <1>1, <2>1 DEF Gathered
<1>2. ASSUME NEW out, Answer(r, None, out), Gives(r, req[r], out, failed') PROVE Gathered(r)
  <2>1. pc'[r] = "done" /\ answer'[r] = [err |-> None, out |-> out]
    BY <1>2, AnswerTurns DEF Codes
  <2>2. answer'[r].err = None /\ answer'[r].out = out
    BY <2>1
  <2> QED BY <1>2, <2>1, <2>2 DEF Gathered
<1>3. ASSUME NEW e \in Errors \cup {"bad"}, Err(r, e) PROVE Gathered(r)
  <2>1. pc'[r] = "done" /\ answer'[r].err = e
    BY <1>3, AnswerTold DEF Codes, Err
  <2> QED BY <2>1, IdsAssumption DEF Gathered
<1> QED BY <1>1, <1>2, <1>3

(* A handler that reads, before its call.                                  *)
Reader(r, step, o) ==
  /\ FilesInv(o) /\ Busy(r, step, o) /\ Shaped(mem) /\ Sight(mem) \in views[r]
  /\ Gathers(r, req[r], step, loc[r], failed) /\ req[r].op \in Reading /\ failed \subseteq failed'
  /\ step = "read" => Follows(mem, loc[r], contents[r], views[r])

(* It is one.                                                              *)
LEMMA ReaderIs ==
  ASSUME NEW o, Knows(o), NEW r \in Requests, NEW step, step \notin {"idle", "done", "lost"},
         At(r, step) \/ (CallFails(r) /\ pc[r] = step), req[r].op \in Reading
  PROVE  Reader(r, step, o)
<1>1. FilesInv(o) /\ ControlInv(o) /\ Shaped(mem)
  BY DEF Knows, Invariant, FilesInv, Safe
<1>2. r \in Running /\ pc[r] = step /\ failed \subseteq failed' /\ req' = req /\ rivals' = rivals
  BY DEF At, CallFails, Running
<1>3. Busy(r, step, o)
  BY <1>1, <1>2 DEF Busy, ControlInv, HandlerInv
<1>4. Sight(mem) \in views[r]
  BY <1>2 DEF Knows, GoneInv, Watching, Watched, Reading
<1>5. Gathers(r, req[r], step, loc[r], failed)
  BY <1>2 DEF Knows, HonestInv
<1>6. step = "read" => Follows(mem, loc[r], contents[r], views[r])
  BY <1>2 DEF Knows, FollowInv
<1> QED BY <1>1, <1>2, <1>3, <1>4, <1>5, <1>6 DEF Reader

(* metadata: the read or the walk begins.                                  *)
LEMMA MetadataGathers ==
  ASSUME NEW o, Knows(o), NEW r \in Requests, Metadata(r), req[r].op \in Reading
  PROVE  Gathered(r)
<1> DEFINE id == Walk(mem, Path(r))
           file == req[r].op \in {"read", "download"}
           next == IF file THEN "open" ELSE "read_dir"
           l == [loc[r] EXCEPT !.reading = Path(r)]
<1>1. Reader(r, "metadata", o)
  BY ReaderIs DEF Metadata
<1>2. Shapes /\ IsLoc(loc[r], o) /\ Path(r) \in VaultPaths
  BY <1>1, PathsStay DEF Reader, Busy
<1>3. \/ id \in Errors /\ Err(r, id)
      \/ Err(r, "bad")
      \/ Goto(r, next, l)
  BY DEF Metadata
<1>4. next # "done" /\ next \in {"open", "read_dir"}
  OBVIOUS
<1>5. l.reading = Path(r) /\ l.files = loc[r].files
  BY <1>2, LocParts
<1> HIDE DEF id, file, l, next
<1>6. Gathers(r, req[r], next, l, failed')
  <2>1. \A f \in l.files : SeenIn(views[r], f)
    BY <1>1, <1>5 DEF Reader, Gathers
  <2>2. ASSUME NEW p, NEW e, IsPrefix(Path(r), p), Steadfast(views[r], p, e) PROVE Due(next, l, p)
    <3>1. p \in Seq(Components)
      BY <1>1, <2>2, SteadyLeads DEF Reader
    <3>2. Path(r) \in Seq(Components)
      BY <1>2 DEF VaultPaths
    <3>3. Begins(Path(r), p)
      BY <2>2, <3>1, <3>2, PrefixIs
    <3> QED BY <1>4, <1>5, <3>3 DEF Due
  <2>3. req[r].op # "batch_read"
    BY <1>1 DEF Reader, Busy, Ready, Fits, Reading
  <2> QED BY <2>1, <2>2, <2>3 DEF Gathers, ZipSees, Path
<1> QED BY <1>2, <1>3, <1>4, <1>6, GatheredBy

(* A note that cannot be read: in a batch that no call of has failed it is *)
(* none that stayed what it was.                                           *)
LEMMA MissedGathers ==
  ASSUME NEW o, NEW r \in Requests, NEW step \in {"open", "read"}, Reader(r, step, o), NEW err \in Errors,
         Missed(r, err), r \in failed' \/ \A e : ~Steadfast(views[r], loc[r].reading, e)
  PROVE  Gathered(r)
<1> DEFINE l == [loc[r] EXCEPT !.reading = None, !.fd = None, !.got = <<>>]
<1>1. Shapes /\ IsLoc(loc[r], o) /\ "ENOENT" \in Errors
  BY DEF Reader, Busy, Errors
<1>2. (req[r].op = "batch_read" /\ Goto(r, "batch_read", l)) \/ Err(r, "ENOENT") \/ Err(r, err)
  BY DEF Missed
<1>3. l.files = loc[r].files /\ l.left = loc[r].left
  BY <1>1, NoteParts
<1> HIDE DEF l
<1>4. ASSUME req[r].op = "batch_read" PROVE Gathers(r, req[r], "batch_read", l, failed')
  <2>1. ASSUME r \notin failed', NEW rel \in Looked(req[r]), NEW e, ResolveInVault(rel).ok,
               Steadfast(views[r], ResolveInVault(rel).out, e), IsText(e.bytes)
        PROVE  Has(l.files, ResolveInVault(rel).out) \/ Awaits("batch_read", l, rel)
    <3>1. Has(loc[r].files, ResolveInVault(rel).out) \/ Awaits(step, loc[r], rel)
      BY <1>4, <2>1 DEF Reader, Gathers, BatchSees
    <3> QED BY <1>3, <2>1, <3>1 DEF Awaits
  <2>2. \A f \in l.files : SeenIn(views[r], f)
    BY <1>3 DEF Reader, Gathers
  <2> QED BY <1>4, <2>1, <2>2 DEF Gathers, BatchSees
<1> QED BY <1>1, <1>2, <1>4, GatheredBy

(* A failing call.                                                         *)
LEMMA CallFailsGathers ==
  ASSUME NEW o, Knows(o), NEW r \in Requests, CallFails(r), req[r].op \in Reading
  PROVE  Gathered(r)
<1>1. /\ r \in Running /\ r \in failed' /\ Shapes /\ "EIO" \in Errors /\ "ENOENT" \in Errors
  BY DEF CallFails, Knows, Invariant, ControlInv, Errors
<1>2. CASE pc[r] \in {"open", "read"}
  <2>1. Reader(r, pc[r], o)
    BY <1>2, ReaderIs
  <2>2. Missed(r, "EIO")
    BY <1>2 DEF CallFails
  <2> QED BY <1>1, <1>2, <2>1, <2>2, MissedGathers
<1>3. CASE pc[r] \notin {"open", "read"}
  <2>1. Err(r, "ENOENT") \/ Err(r, "EIO")
    BY <1>3 DEF CallFails
  <2> QED BY <1>1, <2>1, GatheredBy
<1> QED BY <1>2, <1>3

(* The open of a note.                                                     *)
LEMMA OpenNoteGathers ==
  ASSUME NEW o, Knows(o), NEW r \in Requests, OpenNote(r), req[r].op \in Reading
  PROVE  Gathered(r)
<1> DEFINE x == loc[r].reading
           id == Walk(mem, x)
           l == [loc[r] EXCEPT !.fd = id]
<1>1. Reader(r, "open", o)
  BY ReaderIs DEF OpenNote
<1>2. Shapes /\ IsLoc(loc[r], o) /\ x \in Seq(Components) /\ Shaped(mem) /\ "EISDIR" \in Errors
  BY <1>1 DEF Reader, Busy, Ready, VaultPaths, Errors
<1>3. \/ (id \in Errors \/ IsDir(mem, id)) /\ \E e \in Errors : Missed(r, e)
      \/ id \notin Errors /\ ~IsDir(mem, id) /\ Goto(r, "read", l)
  BY <1>2 DEF OpenNote
<1>4. ASSUME id \in Errors \/ IsDir(mem, id), NEW e \in Errors, Missed(r, e) PROVE Gathered(r)
  <2>1. \A n : ~Steadfast(views[r], x, n)
    BY <1>1, <1>4, SteadyLeads, IdsAssumption DEF Reader
  <2> QED BY <1>1, <1>4, <2>1, MissedGathers
<1>5. CASE id \notin Errors /\ ~IsDir(mem, id) /\ Goto(r, "read", l)
  <2>1. l.files = loc[r].files /\ l.frames = loc[r].frames /\ l.left = loc[r].left /\ l.reading = x
    <3> HIDE DEF id
    <3> QED BY <1>2, NoteParts
  <2>2. ASSUME req[r].op = "zip", NEW p, NEW e, IsPrefix(ResolveInVault(req[r].path).out, p),
               Steadfast(views[r], p, e)
        PROVE  Has(l.files, p) \/ Due("read", l, p)
    <3>1. Has(loc[r].files, p) \/ Begins(x, p) \/ Ahead(loc[r].frames, p)
      BY <1>1, <2>2 DEF Reader, Gathers, ZipSees, Due
    <3>2. p \in Seq(Components) /\ Walk(mem, p) \in Ids /\ ~IsDir(mem, Walk(mem, p))
      BY <1>1, <2>2, SteadyLeads DEF Reader
    <3>3. Begins(x, p) => x = p
      BY <1>2, <1>5, <3>2, GoesOn
    <3> HIDE DEF l, x
    <3> QED BY <2>1, <3>1, <3>3 DEF Due
  <2>3. \A rel : Awaits("open", loc[r], rel) => Awaits("read", l, rel)
    BY <2>1 DEF Awaits
  <2> HIDE DEF l
  <2>4. Gathers(r, req[r], "read", l, failed')
    BY <1>1, <2>1, <2>2, <2>3 DEF Reader, Gathers, ZipSees, BatchSees
  <2> QED BY <1>2, <1>5, <2>4, GatheredBy
<1> QED BY <1>3, <1>4, <1>5

(* A read of the note.                                                     *)
LEMMA ReadGathers ==
  ASSUME NEW o, Knows(o), NEW r \in Requests, Read(r), req[r].op \in Reading
  PROVE  Gathered(r)
<1> DEFINE x == loc[r].reading
           got == loc[r].got
<1>1. Reader(r, "read", o)
  BY ReaderIs DEF Read
<1>2. /\ Shapes /\ IsLoc(loc[r], o) /\ x \in VaultPaths /\ Follows(mem, loc[r], contents[r], views[r])
  BY <1>1 DEF Reader, Busy, Ready
<1>3. ASSUME NEW n, ReadUpTo(r, n) PROVE Gathered(r)
  <2> DEFINE more == got \o SubSeq(mem[loc[r].fd].bytes, Len(got) + 1, n)
             l == [loc[r] EXCEPT !.got = more]
  <2>1. Goto(r, "read", l)
    BY <1>3 DEF ReadUpTo
  <2>2. l.files = loc[r].files /\ l.frames = loc[r].frames /\ l.left = loc[r].left /\ l.reading = x
    <3> HIDE DEF more
    <3> QED BY <1>2, NoteParts
  <2> HIDE DEF l, x
  <2>3. \A p : Due("read", loc[r], p) => Due("read", l, p)
    BY <2>2 DEF Due, x
  <2>4. \A rel : Awaits("read", loc[r], rel) => Awaits("read", l, rel)
    BY <2>2 DEF Awaits, x
  <2>5. Gathers(r, req[r], "read", l, failed')
    BY <1>1, <2>2, <2>3, <2>4 DEF Reader, Gathers, ZipSees, BatchSees
  <2> QED BY <1>2, <2>1, <2>5, GatheredBy
<1>4. ASSUME Len(mem[loc[r].fd].bytes) <= Len(got), Finish(r, [loc[r] EXCEPT !.got = <<>>]) PROVE Gathered(r)
  <2> DEFINE note == [path |-> x, bytes |-> got, held |-> contents[r]]
             skip == req[r].op = "batch_read" /\ ~IsText(note.bytes)
             files == IF skip THEN loc[r].files ELSE loc[r].files \cup {note}
             l == [loc[r] EXCEPT !.got = <<>>, !.fd = None, !.reading = None, !.files = files]
  <2>1. \/ req[r].op \in {"zip", "batch_read"} /\ Goto(r, req[r].op, l)
        \/ req[r].op \notin {"zip", "batch_read"} /\ Answer(r, None, files)
    <3>1. l = [[loc[r] EXCEPT !.got = <<>>] EXCEPT !.fd = None, !.reading = None, !.files = files]
      OBVIOUS
    <3> HIDE DEF l
    <3> QED BY <1>4, <3>1 DEF Finish
  <2>2. note.path = x /\ note.bytes = got
    OBVIOUS
  <2>3. SeenIn(views[r], note)
    BY <1>2, <1>4, NoteSeen
  <2>4. \A f \in loc[r].files : SeenIn(views[r], f)
    BY <1>1 DEF Reader, Gathers
  <2> HIDE DEF note
  <2>5. (\A f \in files : SeenIn(views[r], f)) /\ \A p : Has(loc[r].files, p) => Has(files, p)
    BY <2>3, <2>4 DEF Has
  <2>6. ~skip => Has(files, x)
    BY <2>2 DEF Has
  <2>7. ASSUME skip, NEW e, Steadfast(views[r], x, e) PROVE ~IsText(e.bytes)
    BY <1>2, <2>2, <2>7, TextStays
  <2>8. skip => req[r].op = "batch_read"
    OBVIOUS
  <2> HIDE DEF files, skip
  <2>9. l.files = files /\ l.frames = loc[r].frames /\ l.left = loc[r].left
    BY <1>2, NoteParts
  <2> HIDE DEF l
  <2>10. CASE req[r].op = "zip" /\ Goto(r, "zip", l)
    <3>1. ASSUME NEW p, NEW e, IsPrefix(ResolveInVault(req[r].path).out, p), Steadfast(views[r], p, e)
          PROVE  Has(l.files, p) \/ Due("zip", l, p)
      <4>1. Has(loc[r].files, p) \/ x = p \/ Ahead(loc[r].frames, p)
        BY <1>1, <2>10, <3>1 DEF Reader, Gathers, ZipSees, Due
      <4> QED BY <2>5, <2>6, <2>8, <2>9, <2>10, <4>1 DEF Due
    <3>2. Gathers(r, req[r], "zip", l, failed')
      BY <2>5, <2>9, <2>10, <3>1 DEF Gathers, ZipSees
    <3> QED BY <1>2, <2>10, <3>2, GatheredBy
  <2>11. CASE req[r].op = "batch_read" /\ Goto(r, "batch_read", l)
    <3>1. ASSUME r \notin failed', NEW rel \in Looked(req[r]), NEW e, ResolveInVault(rel).ok,
                 Steadfast(views[r], ResolveInVault(rel).out, e), IsText(e.bytes)
          PROVE  Has(l.files, ResolveInVault(rel).out) \/ Awaits("batch_read", l, rel)
      <4>1. Has(loc[r].files, ResolveInVault(rel).out) \/ Awaits("read", loc[r], rel)
        BY <1>1, <2>11, <3>1 DEF Reader, Gathers, BatchSees
      <4> QED BY <2>5, <2>6, <2>7, <2>9, <3>1, <4>1 DEF Awaits
    <3>2. Gathers(r, req[r], "batch_read", l, failed')
      BY <2>5, <2>9, <2>11, <3>1 DEF Gathers, BatchSees
    <3> QED BY <1>2, <2>11, <3>2, GatheredBy
  <2>12. CASE req[r].op \notin {"zip", "batch_read"} /\ Answer(r, None, files)
    <3>1. Gives(r, req[r], files, failed')
      BY <2>5, <2>12 DEF Gives
    <3> QED BY <1>2, <2>12, <3>1, GatheredBy
  <2> QED BY <2>1, <2>10, <2>11, <2>12
<1>5. \/ \E n : ReadUpTo(r, n)
      \/ Len(mem[loc[r].fd].bytes) <= Len(got) /\ Finish(r, [loc[r] EXCEPT !.got = <<>>])
  BY DEF Read
<1> QED BY <1>3, <1>4, <1>5

(* read_dir: the folder's notes are ahead.                                 *)
LEMMA ReadDirGathers ==
  ASSUME NEW o, Knows(o), NEW r \in Requests, ReadDir(r), req[r].op \in Reading
  PROVE  Gathered(r)
<1> DEFINE x == loc[r].reading
           id == Walk(mem, x)
           f == Frame(id, x)
           s == Append(loc[r].frames, f)
           l == [loc[r] EXCEPT !.frames = s]
<1>1. Reader(r, "read_dir", o)
  BY ReaderIs DEF ReadDir
<1>2. /\ Shapes /\ IsLoc(loc[r], o) /\ x \in VaultPaths /\ x \in Seq(Components) /\ loc[r].frames \in Seq(Frames(o))
  BY <1>1 DEF Reader, Busy, Ready, VaultPaths, IsLoc
<1>3. req[r].op = "zip"
  BY <1>1 DEF Reader, Busy, Ready, Fits, Reading
<1>4. \/ id \in Errors /\ Err(r, id)
      \/ Err(r, "ENOTDIR")
      \/ id \notin Errors /\ IsDir(mem, id) /\ Goto(r, "zip", l)
  BY <1>3 DEF ReadDir
<1>5. "ENOTDIR" \in Errors
  BY DEF Errors
<1>6. CASE id \notin Errors /\ IsDir(mem, id) /\ Goto(r, "zip", l)
  <2>1. id \in Ids \ {Top, o}
    BY <1>1, <1>2, <1>6, WalkEntry DEF Reader, FilesInv
  <2>2. f \in Frames(o)
    <3> HIDE DEF x
    <3> QED BY <1>1, <1>2, <1>6, <2>1, FrameIs DEF Reader
  <2>3. l.files = loc[r].files /\ l.frames = s
    <3> HIDE DEF s
    <3> QED BY <1>2, LocParts
  <2>4. ASSUME NEW p, NEW e, IsPrefix(ResolveInVault(req[r].path).out, p), Steadfast(views[r], p, e)
        PROVE  Has(l.files, p) \/ Due("zip", l, p)
    <3>1. Has(loc[r].files, p) \/ Begins(x, p) \/ Ahead(loc[r].frames, p)
      BY <1>1, <1>3, <2>4 DEF Reader, Gathers, ZipSees, Due
    <3>2. CASE Has(loc[r].files, p)
      BY <2>3, <3>2
    <3>3. CASE Begins(x, p)
      <4>1. p \in Seq(Components) /\ Walk(mem, p) \in Ids /\ ~IsDir(mem, Walk(mem, p))
        BY <1>1, <2>4, SteadyLeads DEF Reader
      <4>2. \E c \in f.left : Begins(Append(f.path, c.name), p)
        BY <1>1, <1>2, <1>6, <3>3, <4>1, FrameLeads DEF Reader
      <4> HIDE DEF f
      <4>3. Ahead(s, p)
        BY <1>2, <2>2, <4>2, AheadPushed
      <4> QED BY <2>3, <4>3 DEF Due
    <3>4. CASE Ahead(loc[r].frames, p)
      <4> HIDE DEF f
      <4>1. Ahead(s, p)
        BY <1>2, <2>2, <3>4, AheadPushed
      <4> QED BY <2>3, <4>1 DEF Due
    <3> QED BY <3>1, <3>2, <3>3, <3>4
  <2> HIDE DEF l, s, f, id, x
  <2>5. Gathers(r, req[r], "zip", l, failed')
    BY <1>1, <1>3, <2>3, <2>4 DEF Reader, Gathers, ZipSees
  <2> QED BY <1>2, <1>6, <2>5, GatheredBy
<1> HIDE DEF id, l
<1> QED BY <1>2, <1>4, <1>5, <1>6, GatheredBy

(* zip_walk.                                                               *)
LEMMA ZipWalkGathers ==
  ASSUME NEW o, Knows(o), NEW r \in Requests, ZipWalk(r), req[r].op \in Reading
  PROVE  Gathered(r)
<1> DEFINE s == loc[r].frames
           n == Len(s)
           f == s[n]
           l == [loc[r] EXCEPT !.frames = Front(@)]
<1>1. Reader(r, "zip", o)
  BY ReaderIs DEF ZipWalk
<1>2. /\ Shapes /\ IsLoc(loc[r], o) /\ s \in Seq(Frames(o)) /\ s # <<>>
  BY <1>1 DEF Reader, Busy, Ready, IsLoc
<1>3. Stack(s, o) /\ (n # 1 => Stack(Front(s), o)) /\ n \in Nat
  BY <1>2, StackIs, StackPops DEF Stack
<1>4. req[r].op = "zip"
  BY <1>1 DEF Reader, Busy, Ready, Fits, Reading
<1>5. \/ \E c \in f.left :
           LET path == Append(f.path, c.name)
               id == Walk(mem, path)
               rest == [loc[r] EXCEPT !.frames[n].left = @ \ {c}, !.reading = path]
           IN IF id \in Errors THEN Err(r, id)
              ELSE Goto(r, IF IsDir(mem, id) THEN "read_dir" ELSE "open", rest)
      \/ f.left = {} /\ n > 1 /\ Goto(r, "zip", l)
      \/ f.left = {} /\ n = 1 /\ Answer(r, None, loc[r].files)
  BY DEF ZipWalk
<1>6. ASSUME NEW c \in f.left,
             LET path == Append(f.path, c.name)
                 id == Walk(mem, path)
                 rest == [loc[r] EXCEPT !.frames[n].left = @ \ {c}, !.reading = path]
             IN IF id \in Errors THEN Err(r, id)
                ELSE Goto(r, IF IsDir(mem, id) THEN "read_dir" ELSE "open", rest)
      PROVE  Gathered(r)
  <2> DEFINE x == Append(f.path, c.name)
             id == Walk(mem, x)
             t == [s EXCEPT ![Len(s)].left = @ \ {c}]
             rest == [loc[r] EXCEPT !.frames = t, !.reading = x]
             next == IF IsDir(mem, id) THEN "read_dir" ELSE "open"
  <2>1. rest = [loc[r] EXCEPT !.frames[n].left = @ \ {c}, !.reading = x]
    BY <1>2 DEF IsLoc
  <2>2. (id \in Errors /\ Err(r, id)) \/ (id \notin Errors /\ Goto(r, next, rest))
    BY <1>6, <2>1
  <2>3. rest.files = loc[r].files /\ rest.frames = t /\ rest.reading = x
    <3> HIDE DEF t, x
    <3> QED BY <1>2, LocParts
  <2>4. next \in {"open", "read_dir"} /\ next # "done"
    OBVIOUS
  <2>5. ASSUME id \notin Errors PROVE Gathers(r, req[r], next, rest, failed')
    <3>1. ASSUME NEW p, NEW e, IsPrefix(ResolveInVault(req[r].path).out, p), Steadfast(views[r], p, e)
          PROVE  Has(rest.files, p) \/ Due(next, rest, p)
      <4>1. Has(loc[r].files, p) \/ Ahead(s, p)
        BY <1>1, <1>4, <3>1 DEF Reader, Gathers, ZipSees, Due
      <4>2. ASSUME Ahead(s, p) PROVE Ahead(t, p) \/ Begins(x, p)
        <5> HIDE DEF s
        <5> QED BY <1>3, <4>2, AheadTaken
      <4> HIDE DEF s, f, x, id, t, next, rest
      <4> QED BY <2>3, <2>4, <4>1, <4>2 DEF Due
    <3> HIDE DEF s, f, x, id, t, next, rest
    <3> QED BY <1>1, <1>4, <2>3, <3>1 DEF Reader, Gathers, ZipSees
  <2> HIDE DEF id, rest, next
  <2> QED BY <1>2, <2>2, <2>4, <2>5, GatheredBy
<1>7. CASE f.left = {} /\ n > 1 /\ Goto(r, "zip", l)
  <2>1. l.files = loc[r].files /\ l.frames = Front(s)
    <3> DEFINE t == Front(s)
    <3>1. l = [loc[r] EXCEPT !.frames = t]
      OBVIOUS
    <3> HIDE DEF t, l
    <3>2. l.files = loc[r].files /\ l.frames = t
      BY <1>2, <3>1, LocParts
    <3> QED BY <3>2 DEF t
  <2>2. ASSUME NEW p, NEW e, IsPrefix(ResolveInVault(req[r].path).out, p), Steadfast(views[r], p, e)
        PROVE  Has(l.files, p) \/ Due("zip", l, p)
    <3>1. Has(loc[r].files, p) \/ Ahead(s, p)
      BY <1>1, <1>4, <2>2 DEF Reader, Gathers, ZipSees, Due
    <3> HIDE DEF s, l
    <3>2. Ahead(s, p) => Ahead(Front(s), p)
      BY <1>3, <1>7, AheadPopped
    <3> QED BY <2>1, <3>1, <3>2 DEF Due
  <2> HIDE DEF l, s, f
  <2>3. Gathers(r, req[r], "zip", l, failed')
    BY <1>1, <1>4, <2>1, <2>2 DEF Reader, Gathers, ZipSees
  <2> QED BY <1>2, <1>7, <2>3, GatheredBy
<1>8. CASE f.left = {} /\ n = 1 /\ Answer(r, None, loc[r].files)
  <2>1. ASSUME NEW p, NEW e, IsPrefix(ResolveInVault(req[r].path).out, p), Steadfast(views[r], p, e)
        PROVE  Has(loc[r].files, p)
    <3>1. Has(loc[r].files, p) \/ Ahead(s, p)
      BY <1>1, <1>4, <2>1 DEF Reader, Gathers, ZipSees, Due
    <3> HIDE DEF s
    <3>2. ~Ahead(s, p)
      BY <1>3, <1>8, AheadPopped
    <3> QED BY <3>1, <3>2
  <2>2. Gives(r, req[r], loc[r].files, failed')
    BY <1>1, <1>4, <2>1 DEF Reader, Gathers, Gives, ZipHas
  <2> QED BY <1>2, <1>8, <2>2, GatheredBy
<1> HIDE DEF f, l, n
<1> QED BY <1>5, <1>6, <1>7, <1>8

(* The first of the paths that are left, and the others.                   *)
LEMMA HeadOrTail ==
  ASSUME NEW S, NEW s \in Seq(S), s # <<>>
  PROVE  /\ Head(s) \in S /\ Tail(s) \in Seq(S)
         /\ \A j \in 1..Len(s) : s[j] = Head(s) \/ \E k \in 1..Len(Tail(s)) : Tail(s)[k] = s[j]
<1> DEFINE t == Tail(s)
<1>1. /\ Head(s) \in S /\ t \in Seq(S) /\ Len(t) = Len(s) - 1 /\ Len(s) \in Nat
      /\ \A i \in 1..Len(t) : t[i] = s[i + 1]
  BY HeadTailProperties
<1>2. Head(s) = s[1]
  OBVIOUS
<1> HIDE DEF t
<1>3. ASSUME NEW j \in 1..Len(s), j # 1 PROVE \E k \in 1..Len(t) : t[k] = s[j]
  <2>1. j - 1 \in 1..Len(t) /\ j - 1 + 1 = j
    BY <1>1, <1>3
  <2>2. t[j - 1] = s[j]
    BY <1>1, <2>1
  <2> QED BY <2>1, <2>2
<1>4. \A j \in 1..Len(s) : s[j] = Head(s) \/ \E k \in 1..Len(t) : t[k] = s[j]
  BY <1>2, <1>3
<1> QED BY <1>1, <1>4 DEF t

(* One path of a batch-read.                                               *)
LEMMA BatchReadGathers ==
  ASSUME NEW o, Knows(o), NEW r \in Requests, BatchRead(r), req[r].op \in Reading
  PROVE  Gathered(r)
<1> DEFINE s == loc[r].left
           rel == ResolveInVault(Head(s))
           t == Tail(s)
           rest == [loc[r] EXCEPT !.left = t]
           x == rel.out
           more == [loc[r] EXCEPT !.left = t, !.reading = x]
<1>1. Reader(r, "batch_read", o)
  BY ReaderIs DEF BatchRead
<1>2. Shapes /\ IsLoc(loc[r], o) /\ s \in Seq(Relative)
  BY <1>1 DEF Reader, Busy, IsLoc
<1>3. req[r].op = "batch_read"
  BY <1>1 DEF Reader, Busy, Ready, Fits, Reading
<1>4. \/ s = <<>> /\ Answer(r, None, loc[r].files)
      \/ s # <<>> /\ ~rel.ok /\ Goto(r, "batch_read", rest)
      \/ s # <<>> /\ rel.ok /\ Goto(r, "open", more)
  BY DEF BatchRead
<1>5. /\ \A f \in loc[r].files : SeenIn(views[r], f)
      /\ r \notin failed' => r \notin failed /\ BatchSees(req[r], "batch_read", loc[r], views[r])
  BY <1>1, <1>3 DEF Reader, Gathers
<1>6. /\ rest.left = t /\ rest.files = loc[r].files
      /\ more.left = t /\ more.files = loc[r].files /\ more.reading = x
  <2> HIDE DEF t, x
  <2> QED BY <1>2, LocParts
<1>7. ASSUME s # <<>>
      PROVE  \A j \in 1..Len(s) : s[j] = Head(s) \/ \E k \in 1..Len(t) : t[k] = s[j]
  <2> HIDE DEF s
  <2> QED BY <1>2, <1>7, HeadOrTail
<1>8. ASSUME r \notin failed', NEW p \in Looked(req[r]), NEW e, ResolveInVault(p).ok,
             Steadfast(views[r], ResolveInVault(p).out, e), IsText(e.bytes)
      PROVE  Has(loc[r].files, ResolveInVault(p).out) \/ \E j \in 1..Len(s) : s[j] = p
  BY <1>5, <1>8 DEF BatchSees, Awaits
<1>9. CASE s = <<>> /\ Answer(r, None, loc[r].files)
  <2>1. Len(s) = 0
    BY <1>9
  <2> HIDE DEF s
  <2>2. Gives(r, req[r], loc[r].files, failed')
    BY <1>3, <1>5, <1>8, <2>1 DEF Gives, BatchHas
  <2> QED BY <1>2, <1>9, <2>2, GatheredBy
<1>10. CASE s # <<>> /\ ~rel.ok /\ Goto(r, "batch_read", rest)
  <2>1. ASSUME r \notin failed', NEW p \in Looked(req[r]), NEW e, ResolveInVault(p).ok,
               Steadfast(views[r], ResolveInVault(p).out, e), IsText(e.bytes)
        PROVE  Has(rest.files, ResolveInVault(p).out) \/ Awaits("batch_read", rest, p)
    <3>1. p # Head(s)
      BY <1>10, <2>1
    <3>2. Has(loc[r].files, ResolveInVault(p).out) \/ \E j \in 1..Len(s) : s[j] = p
      BY <1>8, <2>1
    <3> HIDE DEF s, t, rest, rel
    <3> QED BY <1>6, <1>7, <1>10, <3>1, <3>2 DEF Awaits
  <2> HIDE DEF rest, s, t, rel
  <2>2. Gathers(r, req[r], "batch_read", rest, failed')
    BY <1>3, <1>5, <1>6, <2>1 DEF Gathers, BatchSees
  <2> QED BY <1>2, <1>10, <2>2, GatheredBy
<1>11. CASE s # <<>> /\ rel.ok /\ Goto(r, "open", more)
  <2>1. ASSUME r \notin failed', NEW p \in Looked(req[r]), NEW e, ResolveInVault(p).ok,
               Steadfast(views[r], ResolveInVault(p).out, e), IsText(e.bytes)
        PROVE  Has(more.files, ResolveInVault(p).out) \/ Awaits("open", more, p)
    <3>1. p = Head(s) => x = ResolveInVault(p).out
      OBVIOUS
    <3>2. Has(loc[r].files, ResolveInVault(p).out) \/ \E j \in 1..Len(s) : s[j] = p
      BY <1>8, <2>1
    <3> HIDE DEF s, t, more, rel, x
    <3> QED BY <1>6, <1>7, <1>11, <3>1, <3>2 DEF Awaits
  <2> HIDE DEF more, s, t, rel, x
  <2>2. Gathers(r, req[r], "open", more, failed')
    BY <1>3, <1>5, <1>6, <2>1 DEF Gathers, BatchSees
  <2> QED BY <1>2, <1>11, <2>2, GatheredBy
<1> QED BY <1>4, <1>9, <1>10, <1>11

(* The turn of a handler that reads.                                       *)
LEMMA ReadTurn ==
  ASSUME NEW o, Knows(o), NEW r \in Requests, r \in Running, Acts(r), req[r].op \in Reading
  PROVE  Gathered(r)
<1>1. Ready(req[r], loc[r], pc[r])
  BY DEF Knows, Invariant, ControlInv, HandlerInv
<1>2. Metadata(r) \/ OpenNote(r) \/ Read(r) \/ ReadDir(r) \/ ZipWalk(r) \/ BatchRead(r) \/ CallFails(r)
  BY <1>1, OnlyReading
<1> QED BY <1>2, MetadataGathers, OpenNoteGathers, ReadGathers, ReadDirGathers, ZipWalkGathers,
           BatchReadGathers, CallFailsGathers

(* With more to see, more was seen and less stayed as it was.              *)
LEMMA SeeingMore ==
  ASSUME NEW W, NEW X, W \subseteq X
  PROVE  /\ \A f : SeenIn(W, f) => SeenIn(X, f)
         /\ \A p, e : Steadfast(X, p, e) => Steadfast(W, p, e)
BY DEF SeenIn, Steadfast

(* Who else acts only lets a reader see more.                              *)
LEMMA GathersLater ==
  ASSUME NEW r \in Requests, NEW step, NEW l, NEW F, Gathers(r, req[r], step, l, F), req'[r] = req[r],
         pc'[r] = step, loc'[r] = l, views[r] \subseteq views'[r], F \subseteq failed'
  PROVE  Gathers(r, req[r], pc[r], loc[r], failed)'
<1>1. /\ \A f : SeenIn(views[r], f) => SeenIn(views'[r], f)
      /\ \A p, e : Steadfast(views'[r], p, e) => Steadfast(views[r], p, e)
  BY SeeingMore
<1>2. \A f \in l.files : SeenIn(views'[r], f)
  BY <1>1 DEF Gathers
<1>3. req[r].op = "zip" => ZipSees(req[r], step, l, views'[r])
  BY <1>1 DEF Gathers, ZipSees
<1>4. req[r].op = "batch_read" /\ r \notin failed' => BatchSees(req[r], step, l, views'[r])
  BY <1>1 DEF Gathers, BatchSees
<1> QED BY <1>2, <1>3, <1>4 DEF Gathers

(* The same for what has been given.                                       *)
LEMMA GivesLater ==
  ASSUME NEW r \in Requests, NEW out, NEW F, Gives(r, req[r], out, F), req'[r] = req[r], answer'[r].out = out,
         views[r] \subseteq views'[r], F \subseteq failed'
  PROVE  Gives(r, req[r], answer[r].out, failed)'
<1>1. /\ \A f : SeenIn(views[r], f) => SeenIn(views'[r], f)
      /\ \A p, e : Steadfast(views'[r], p, e) => Steadfast(views[r], p, e)
  BY SeeingMore
<1>2. \A f \in out : SeenIn(views'[r], f)
  BY <1>1 DEF Gives
<1>3. req[r].op = "zip" => ZipHas(req[r], out, views'[r])
  BY <1>1 DEF Gives, ZipHas
<1>4. req[r].op = "batch_read" /\ r \notin failed' => BatchHas(req[r], out, views'[r])
  BY <1>1 DEF Gives, BatchHas
<1> QED BY <1>2, <1>3, <1>4 DEF Gives

(* No handler forgets a call that failed.                                  *)
LEMMA ActsLeave ==
  ASSUME NEW r, Acts(r)
  PROVE  failed \subseteq failed'
<1>1. CASE \/ MakeDirs(r) \/ Create(r) \/ OpenAppend(r) \/ WriteAll(r) \/ WriteFails(r)
           \/ SyncAll(r) \/ ReadBack(r) \/ OpenSource(r) \/ CreateDest(r) \/ Transfer(r)
  BY <1>1 DEF At, MakeDirs, Create, OpenAppend, WriteAll, WriteFails, SyncAll, ReadBack, OpenSource,
              CreateDest, Transfer
<1>2. CASE \/ Mkdir(r) \/ Move(r) \/ Utimes(r) \/ UnlinkFile(r) \/ Rmdir(r) \/ Lstat(r)
           \/ RemoveFile(r) \/ RemoveDir(r, "remove_dir") \/ OpenTree(r)
           \/ RemoveChild(r) \/ RemoveEmptied(r)
  BY <1>2 DEF At, Mkdir, Move, Utimes, UnlinkFile, Rmdir, RemoveDir, Lstat, RemoveFile, OpenTree, RemoveChild,
              RemoveEmptied
<1>3. CASE \/ Stat(r) \/ Access(r) \/ Metadata(r) \/ OpenNote(r) \/ Read(r) \/ ReadDir(r)
           \/ ZipWalk(r) \/ BatchRead(r) \/ CallFails(r)
  BY <1>3 DEF At, Stat, Access, Metadata, OpenNote, Read, ReadDir, ZipWalk, BatchRead, CallFails
<1> QED BY <1>1, <1>2, <1>3 DEF Acts

(* A reader that begins.                                                   *)
LEMMA BeginGathers ==
  ASSUME NEW o, Knows(o), NEW r \in Requests, NEW q \in Queries, Begin(r, q), r \in Running', q.op \in Reading
  PROVE  Gathers(r, req[r], pc[r], loc[r], failed)'
<1>1. /\ loc'[r].files = {} /\ loc'[r].frames = <<>> /\ pc'[r] = FirstCall(q) /\ loc'[r].left = LookingAt(q)
  BY BeginLoc DEF Knows
<1>2. req'[r] = q
  BY DEF Begin, Knows, Invariant, ControlInv, Shapes
<1>3. q.op = "zip" => FirstCall(q) = "metadata"
  BY DEF FirstCall
<1>4. q.op = "zip" => ZipSees(q, pc'[r], loc'[r], views'[r])
  BY <1>1, <1>3 DEF ZipSees, Due
<1>5. ASSUME q.op = "batch_read", NEW rel \in Looked(q) PROVE \E j \in 1..Len(LookingAt(q)) : LookingAt(q)[j] = rel
  <2>1. PICK i \in DOMAIN q.paths : i <= BatchLimit /\ rel = q.paths[i]
    BY DEF Looked
  <2>2. i \in 1..Len(LookingAt(q)) /\ LookingAt(q)[i] = q.paths[i]
    BY <1>5, <2>1, LookedAt
  <2> QED BY <2>1, <2>2
<1>6. q.op = "batch_read" => BatchSees(q, pc'[r], loc'[r], views'[r])
  BY <1>1, <1>5 DEF BatchSees, Awaits
<1> QED BY <1>1, <1>2, <1>4, <1>6 DEF Gathers

(* What is read and given, in one step.                                    *)
LEMMA HonestStays ==
  ASSUME NEW o, Knows(o), [Next]_vars
  PROVE  HonestInv'
<1>0. Invariant(o) /\ FilesInv(o) /\ ControlInv(o) /\ Shapes /\ GoneInv
  BY DEF Knows, Invariant, ControlInv
<1>2. ASSUME NEW r \in Requests, NEW q \in Queries, Begin(r, q), NEW s \in Requests, s # r
      PROVE  /\ pc'[s] = pc[s] /\ loc'[s] = loc[s] /\ answer'[s] = answer[s] /\ req'[s] = req[s]
             /\ views'[s] = views[s] /\ failed' = failed
  <2>1. Turn(r, q, o)
    BY <1>0, <1>2, BeginTurns
  <2>2. req' = [req EXCEPT ![r] = q] /\ failed' = failed
    BY <1>2 DEF Begin
  <2>3. views'[s] = views[s]
    BY <1>0, <1>2, BeginTold DEF GoneInv
  <2>4. req'[s] = req[s]
    BY <1>0, <1>2, <2>2 DEF Shapes
  <2> QED BY <1>2, <2>1, <2>2, <2>3, <2>4 DEF Turn
<1>3. ASSUME NEW s \in Requests, s \in Running', req'[s].op \in Reading
      PROVE  Gathers(s, req[s], pc[s], loc[s], failed)'
  <2>0. pc'[s] \notin {"idle", "done", "lost"}
    BY <1>3 DEF Running
  <2>1. ASSUME pc'[s] = pc[s], loc'[s] = loc[s], req'[s] = req[s], views[s] \subseteq views'[s],
               failed \subseteq failed'
        PROVE  Gathers(s, req[s], pc[s], loc[s], failed)'
    <3>1. PICK step, l : step = pc[s] /\ l = loc[s]
      OBVIOUS
    <3>2. s \in Running /\ req[s].op \in Reading
      BY <1>3, <2>0, <2>1 DEF Running
    <3>3. Gathers(s, req[s], step, l, failed)
      BY <3>1, <3>2 DEF Knows, HonestInv
    <3> QED BY <2>1, <3>1, <3>3, GathersLater
  <2>2. ASSUME NEW r \in Requests, NEW q \in Queries, Begin(r, q)
        PROVE  Gathers(s, req[s], pc[s], loc[s], failed)'
    <3>1. CASE s # r
      BY <1>2, <2>1, <2>2, <3>1
    <3>2. CASE s = r
      <4>1. req'[r] = q
        BY <1>0, <2>2 DEF Begin, Shapes
      <4> QED BY <1>3, <2>2, <3>2, <4>1, BeginGathers
    <3> QED BY <3>1, <3>2
  <2>3. ASSUME NEW r \in Requests, Acts(r), Works(r, o)
        PROVE  Gathers(s, req[s], pc[s], loc[s], failed)'
    <3>1. Turn(r, req[r], o) /\ req' = req /\ r \in Running
      BY <2>3 DEF Works
    <3>2. failed \subseteq failed' /\ views[s] \subseteq views'[s]
      BY <1>0, <2>3, ActsLeave, ViewsKeep
    <3>3. CASE s # r
      <4>1. pc'[s] = pc[s] /\ loc'[s] = loc[s]
        BY <3>1, <3>3 DEF Turn
      <4> QED BY <2>1, <3>1, <3>2, <4>1
    <3>4. CASE s = r
      <4>1. Gathered(r)
        BY <1>3, <2>3, <3>1, <3>4, ReadTurn
      <4>2. PICK step, l : /\ step # "done" /\ pc'[r] = step /\ loc'[r] = l
                           /\ Gathers(r, req[r], step, l, failed')
        BY <2>0, <3>4, <4>1 DEF Gathered
      <4> QED BY <3>1, <3>2, <3>4, <4>2, GathersLater
    <3> QED BY <3>3, <3>4
  <2>4. CASE WriteBack \/ UNCHANGED vars
    <3>1. pc' = pc /\ loc' = loc /\ req' = req /\ views' = views /\ failed' = failed
      BY <2>4 DEF WriteBack, vars
    <3> QED BY <2>1, <3>1
  <2>5. CASE Crash
    <3>1. pc'[s] = IF s \in Running THEN "lost" ELSE pc[s]
      BY <2>5 DEF Crash
    <3> QED BY <2>0, <3>1 DEF Running
  <2> QED BY <1>0, <2>2, <2>3, <2>4, <2>5, NextIs
<1>4. ASSUME NEW s \in Requests, pc'[s] = "done", req'[s].op \in Reading, answer'[s].err = None
      PROVE  Gives(s, req[s], answer[s].out, failed)'
  <2>1. ASSUME pc[s] = "done", failed \subseteq failed'
        PROVE  Gives(s, req[s], answer[s].out, failed)'
    <3>1. req'[s] = req[s] /\ answer'[s] = answer[s] /\ views'[s] = views[s]
      BY <1>0, <2>1, DoneStays, DoneViewsStay
    <3>2. PICK out : out = answer[s].out
      OBVIOUS
    <3>3. Succeeded(s, Reading)
      BY <1>4, <2>1, <3>1 DEF Succeeded
    <3>4. Gives(s, req[s], out, failed)
      BY <3>2, <3>3 DEF Knows, HonestInv
    <3> QED BY <2>1, <3>1, <3>2, <3>4, GivesLater
  <2>2. ASSUME NEW r \in Requests, NEW q \in Queries, Begin(r, q)
        PROVE  Gives(s, req[s], answer[s].out, failed)'
    <3>1. s # r
      BY <1>0, <1>4, <2>2, BeginTold
    <3> QED BY <1>2, <1>4, <2>1, <2>2, <3>1
  <2>3. ASSUME NEW r \in Requests, Acts(r), Works(r, o)
        PROVE  Gives(s, req[s], answer[s].out, failed)'
    <3>1. Turn(r, req[r], o) /\ req' = req /\ r \in Running
      BY <2>3 DEF Works
    <3>2. failed \subseteq failed' /\ views[s] \subseteq views'[s]
      BY <1>0, <2>3, ActsLeave, ViewsKeep
    <3>3. CASE s # r
      BY <1>4, <2>1, <3>1, <3>2, <3>3 DEF Turn
    <3>4. CASE s = r
      <4>1. Gathered(r)
        BY <1>4, <2>3, <3>1, <3>4, ReadTurn
      <4>2. PICK out : answer'[r].out = out /\ Gives(r, req[r], out, failed')
        BY <1>4, <3>4, <4>1 DEF Gathered
      <4> QED BY <3>1, <3>2, <3>4, <4>2, GivesLater
    <3> QED BY <3>3, <3>4
  <2>4. CASE WriteBack \/ Crash \/ UNCHANGED vars
    <3>1. failed' = failed /\ (pc'[s] = "done" => pc[s] = "done")
      BY <2>4 DEF WriteBack, Crash, vars
    <3> QED BY <1>4, <2>1, <3>1
  <2> QED BY <1>0, <2>2, <2>3, <2>4, NextIs
<1>5. \A s \in Requests : Succeeded(s, Reading)' => Gives(s, req[s], answer[s].out, failed)'
  BY <1>4 DEF Succeeded
<1> QED BY <1>3, <1>5 DEF HonestInv

(* Before anything is asked for.                                           *)
LEMMA InitKnows ==
  ASSUME Init
  PROVE  FullInv /\ GoneInv /\ FollowInv /\ HonestInv
<1>1. /\ views = [r \in Requests |-> {}] /\ contents = [r \in Requests |-> {}] /\ mem \in Starts /\ disk = mem
      /\ \A r \in Requests : pc[r] = "idle" /\ loc[r] = Nothing
  BY DEF Init
<1>2. \A r \in Requests : Watching(r) /\ Unread(r)
  BY <1>1 DEF Watching, Unread, Running
<1>3. RemovedMeansGone
  BY <1>1 DEF RemovedMeansGone, Succeeded
<1>4. HonestInv
  BY <1>1 DEF HonestInv, Running, Succeeded
<1>5. Nothing.got = <<>> /\ <<>> \in Seq(Bytes)
  BY DEF Nothing
<1>6. ASSUME NEW id \in Ids PROVE mem[id].bytes \in Seq(Bytes)
  <2> DEFINE b == mem[id].bytes
  <2>1. b \in Seq(Range(b)) /\ Range(b) \subseteq Bytes
    BY <1>1, StartsAssumption DEF Bytes
  <2> HIDE DEF b
  <2>2. Len(b) \in Nat /\ b \in [1..Len(b) -> Bytes]
    BY <2>1
  <2> QED BY <2>2 DEF b
<1>7. FullInv
  BY <1>1, <1>5, <1>6 DEF FullInv, Full, Filled
<1>8. FollowInv
  BY <1>1, <1>2 DEF FollowInv
<1> QED BY <1>1, <1>2, <1>3, <1>4, <1>7, <1>8 DEF GoneInv

(* All of it stays.                                                        *)
KnownInv == FullInv /\ GoneInv /\ FollowInv /\ HonestInv
LEMMA AllKnown ==
  ASSUME Inv, KnownInv, [Next]_vars
  PROVE  KnownInv'
<1>1. PICK o \in Ids : Invariant(o)
  BY DEF Inv
<1>2. Knows(o)
  BY <1>1 DEF Knows, KnownInv
<1>3. FullInv' /\ GoneInv' /\ FollowInv' /\ HonestInv'
  BY <1>1, <1>2, FilledStays, GoneStays, FollowStays, HonestStays DEF KnownInv
<1> QED BY <1>3 DEF KnownInv

(* readFile, download, vault-files, batch-read and download-zip: what they *)
(* give as a note was the note at its path, byte by byte and to its end,   *)
(* while they read it, whatever others write, cut off, move or remove      *)
(* between any two reads.                                                  *)
THEOREM ReadsGiveWhatWas == Spec => []ReadsAreHonest
<1>1. Init => KnownInv
  BY InitKnows DEF KnownInv
<1>2. Inv /\ KnownInv /\ [Next]_vars => KnownInv'
  BY AllKnown
<1>3. KnownInv => ReadsAreHonest
  BY DEF KnownInv, HonestInv, Gives, SeenIn, Reading, ReadsAreHonest
<1> QED BY <1>1, <1>2, <1>3, InvCorrect, PTL DEF Spec

(* download-zip and batch-read: a note that stayed what it was from the    *)
(* beginning to the end is given, however many folders have been walked    *)
(* through; in a batch, if it is UTF-8 and within the limit.               *)
THEOREM NothingIsLeftOut == Spec => []ArchivesAreComplete
<1>1. Init => KnownInv
  BY InitKnows DEF KnownInv
<1>2. Inv /\ KnownInv /\ [Next]_vars => KnownInv'
  BY AllKnown
<1>3. ASSUME KnownInv PROVE ArchivesAreComplete
  <2> DEFINE Sought(r) == {p \in UNION {DOMAIN V : V \in views[r]} :
                     IF req[r].op = "zip" THEN IsPrefix(Path(r), p)
                     ELSE \E i \in DOMAIN req[r].paths :
                            /\ i <= BatchLimit /\ ResolveInVault(req[r].paths[i]).ok
                            /\ p = ResolveInVault(req[r].paths[i]).out}
             Steady(r, p) == \E V \in views[r] :
                        /\ p \in DOMAIN V /\ V[p].type = "file"
                        /\ req[r].op = "batch_read" => IsText(V[p].bytes)
                        /\ \A W \in views[r] : p \in DOMAIN W /\ W[p] = V[p]
  <2>1. ASSUME NEW r \in Requests, Succeeded(r, {"batch_read", "zip"}), r \notin failed, NEW p \in Sought(r),
               Steady(r, p)
        PROVE  Has(answer[r].out, p)
    <3>1. Gives(r, req[r], answer[r].out, failed) /\ req[r].op \in {"batch_read", "zip"}
      BY <1>3, <2>1 DEF Succeeded, KnownInv, HonestInv, Reading
    <3>2. PICK V \in views[r] : /\ p \in DOMAIN V /\ V[p].type = "file"
                                /\ req[r].op = "batch_read" => IsText(V[p].bytes)
                                /\ \A W \in views[r] : p \in DOMAIN W /\ W[p] = V[p]
      BY <2>1
    <3>3. Steadfast(views[r], p, V[p])
      BY <3>2 DEF Steadfast
    <3> HIDE DEF Steady
    <3>4. CASE req[r].op = "zip"
      <4>1. IsPrefix(ResolveInVault(req[r].path).out, p)
        BY <2>1, <3>4 DEF Path
      <4> HIDE DEF Sought
      <4> QED BY <3>1, <3>3, <3>4, <4>1 DEF Gives, ZipHas
    <3>5. CASE req[r].op = "batch_read"
      <4>1. PICK i \in DOMAIN req[r].paths : /\ i <= BatchLimit /\ ResolveInVault(req[r].paths[i]).ok
                                             /\ p = ResolveInVault(req[r].paths[i]).out
        BY <2>1, <3>5
      <4> HIDE DEF Sought
      <4>2. req[r].paths[i] \in Looked(req[r])
        BY <4>1 DEF Looked
      <4> QED BY <2>1, <3>1, <3>2, <3>3, <3>5, <4>1, <4>2 DEF Gives, BatchHas
    <3> QED BY <3>1, <3>4, <3>5
  <2>2. ASSUME NEW r \in Requests, Succeeded(r, {"batch_read", "zip"}), r \notin failed
        PROVE  {p \in Sought(r) : Steady(r, p)} \subseteq {f.path : f \in answer[r].out}
    <3> HIDE DEF Sought, Steady
    <3> QED BY <2>1, <2>2 DEF Has
  <2> QED BY <2>2 DEF ArchivesAreComplete
<1> QED BY <1>1, <1>2, <1>3, InvCorrect, PTL DEF Spec

-----------------------------------------------------------------------------
(* A path leads to a note with these bytes.                                *)
Opens(m, x, id, bytes) == Walk(m, x) = id /\ id \in Ids /\ m[id].type = "file" /\ m[id].bytes = bytes

(* An opened path leads to what was opened.                                *)
LEMMA OpenedLeads ==
  ASSUME NEW o, FilesInv(o), ControlInv(o), NEW x \in VaultPaths, OpenError(mem, x) = None, Unused # {},
         Store(Opened(x, <<>>))
  PROVE  Opens(mem', x, OpenedId(x), <<>>)
<1> DEFINE n == Opened(x, <<>>)
           d == ParentOf(mem, x)
           name == Last(x)
           id == OpenedId(x)
<1>1. Safe(mem, o) /\ Shaped(mem) /\ IsFs(mem) /\ x \in Seq(Components) /\ x # <<>>
  BY DEF FilesInv, Safe, Shaped, VaultPaths
<1>2. Safe(n, o) /\ Shaped(n) /\ IsFs(n) /\ id \in Ids \ {Top, o}
  <2>1. Safe(n, o) /\ id \in Ids \ {Top, o}
    BY OpenedFair DEF Fair
  <2> HIDE DEF n
  <2> QED BY <2>1 DEF Safe, Shaped
<1>3. d \notin Errors /\ d = Walk(mem, Front(x)) /\ InVault(mem, o, d, name)
  BY <1>1, ErrorsAre, ParentIs, ParentInVault
<1>4. Opens(n, x, id, <<>>)
  <2>1. CASE Walk(mem, x) \in Errors
    <3> DEFINE k == [mem EXCEPT ![Free] = Note(<<>>)]
    <3>1. n = Link(k, d, name, Free) /\ id = Free
      BY <2>1 DEF Opened, OpenedId
    <3>2. Free \in Ids /\ mem[Free].type = "none"
      BY DEF Free, Unused
    <3>3. Added(mem, o, Free, Note(<<>>), k)
      BY <1>1, <3>2, NodeSafe
    <3> HIDE DEF k, n, d, name, id
    <3>4. IsFs(k) /\ k[Free] = Note(<<>>) /\ (\A e \in Ids \ {Free} : k[e] = mem[e]) /\ d \in Ids /\ IsDir(mem, d) /\ d # Free
      BY <1>3, <3>2, <3>3 DEF Added, Safe, Shaped, InVault, IsDir
    <3>5. Refilled(k, d, LinkedAt(k, d, name, Free), n)
      BY <3>1, <3>4, LinkIs
    <3>6. n[Free] = Note(<<>>) /\ IsDir(n, d) /\ name \in Names(n, d) /\ n[d].at[name] = Free
      BY <3>2, <3>4, <3>5 DEF Refilled, LinkedAt, Names, IsDir
    <3>7. Walk(n, Front(x)) = d
      <4>1. Strays(n, mem, {})
        <5> SUFFICES ASSUME NEW e \in Ids, NEW c \in Names(mem, e) PROVE c \in Names(n, e) /\ mem[e].at[c] = n[e].at[c]
          BY DEF Strays
        <5>1. e # Free
          <6>1. mem[e].type = "dir"
            BY <1>1, EntriesAreIds
          <6> QED BY <3>2, <6>1
        <5>2. CASE e = d
          <6>1. c # name
            <7> SUFFICES ASSUME c = name PROVE FALSE
              OBVIOUS
            <7>1. Walk(mem, x) = Entry(mem, d, name)
              BY <1>1, <1>3, WalkFront DEF name
            <7>2. Walk(mem, x) = mem[d].at[name] /\ mem[d].at[name] \in Ids
              BY <1>1, <1>3, <3>4, <5>2, <7>1, EntriesAreIds DEF Entry
            <7> QED BY <2>1, <7>2, IdsAssumption
          <6> QED BY <3>4, <3>5, <5>2, <6>1 DEF Refilled, LinkedAt, Names
        <5>3. CASE e # d
          BY <3>4, <3>5, <5>1, <5>3 DEF Refilled, Names
        <5> QED BY <5>2, <5>3
      <4>2. Front(x) \in Seq(Components)
        BY <1>1, FrontIs
      <4>3. Walk(mem, Front(x)) \in Ids
        BY <1>3, <3>4
      <4>4. Walk(mem, Front(x)) = Walk(n, Front(x))
        BY <1>1, <1>2, <4>1, <4>2, <4>3, StrayWalk, MeetsNone
      <4> QED BY <1>3, <4>4
    <3>8. Walk(n, x) = Entry(n, d, name)
      BY <1>1, <3>7, WalkFront DEF name
    <3>9. Walk(n, x) = Free
      BY <1>3, <3>6, <3>8 DEF Entry
    <3> QED BY <3>1, <3>2, <3>6, <3>9 DEF Opens, Note
  <2>2. CASE Walk(mem, x) \notin Errors
    <3>1. id = Walk(mem, x) /\ n = WithBytes(mem, id, <<>>)
      BY <2>2 DEF Opened, OpenedId
    <3> HIDE DEF id, n
    <3>2. Touched(mem, id, n)
      BY <1>1, <1>2, <3>1, WithBytesIs
    <3>3. n[id].bytes = <<>>
      BY <1>1, <1>2, <3>1, NewBytes
    <3>4. Strays(n, mem, {})
      BY <3>2 DEF Strays, Touched, Names
    <3>5. Walk(n, x) = id
      BY <1>1, <1>2, <3>1, <3>4, StrayWalk, MeetsNone
    <3>6. ~IsDir(mem, id)
      <4>1. name \in Names(mem, d)
        BY <1>1, <2>2, WalkEntry
      <4>2. None # "EISDIR"
        BY IdsAssumption DEF Errors
      <4> QED BY <1>3, <3>1, <4>1, <4>2 DEF OpenError
    <3>7. mem[id].type \in {"dir", "file"}
      BY <1>1, <1>2, <3>1, WalkThere
    <3>8. n[id].type = "file"
      BY <3>2, <3>6, <3>7 DEF Touched, IsDir
    <3> QED BY <1>2, <3>3, <3>5, <3>8 DEF Opens
  <2> QED BY <2>1, <2>2
<1>5. mem' = Collect(n, Held) /\ Held \in SUBSET Ids
  BY HeldIds DEF Store
<1> HIDE DEF n, id
<1>6. Leads(n, Collect(n, Held), x)
  BY <1>1, <1>2, <1>5, CollectWalks
<1> QED BY <1>4, <1>5, <1>6 DEF Opens, Leads, id

(* What open(2) does not refuse is a note.                                 *)
LEMMA OpenIsNote ==
  ASSUME NEW m, NEW o, Safe(m, o), NEW x \in VaultPaths, OpenError(m, x) = None, Walk(m, x) \notin Errors
  PROVE  Opens(m, x, Walk(m, x), m[Walk(m, x)].bytes)
<1> DEFINE id == Walk(m, x)
<1>1. Shaped(m) /\ x \in Seq(Components)
  BY DEF Safe, VaultPaths
<1>2. id \in Ids /\ Last(x) \in Names(m, ParentOf(m, x))
  BY WalkEntry
<1>3. ParentOf(m, x) \notin Errors
  BY ErrorsAre
<1>4. ~IsDir(m, id)
  <2>1. None # "EISDIR"
    BY IdsAssumption DEF Errors
  <2> QED BY <1>2, <1>3, <2>1 DEF OpenError
<1>5. m[id].type \in {"dir", "file"}
  BY <1>1, <1>2, WalkThere
<1> HIDE DEF id
<1>6. Opens(m, x, id, m[id].bytes)
  BY <1>2, <1>4, <1>5 DEF Opens, IsDir, id
<1> QED BY <1>6 DEF id

(* Which of them an assignment leaves.                                     *)
LEMMA LocHandles ==
  ASSUME NEW o, NEW l, IsLoc(l, o), NEW x
  PROVE  /\ [l EXCEPT !.fd = x].fd = x /\ [l EXCEPT !.dirs = x].fd = l.fd
         /\ [l EXCEPT !.dest = x].dest = x /\ [l EXCEPT !.dirs = x].dest = l.dest /\ [l EXCEPT !.fd = x].dest = l.dest
         /\ [l EXCEPT !.got = x].dest = l.dest
<1>0. l = [fd |-> l.fd, dest |-> l.dest, got |-> l.got, dirs |-> l.dirs, frames |-> l.frames,
           reading |-> l.reading, left |-> l.left, files |-> l.files]
  BY DEF IsLoc
<1> DEFINE k1 == [l EXCEPT !.fd = x]
           k2 == [l EXCEPT !.dest = x]
           k3 == [l EXCEPT !.dirs = x]
           k4 == [l EXCEPT !.got = x]
<1>1. k1.fd = x /\ k1.dest = l.dest
  BY <1>0
<1>2. k2.dest = x
  BY <1>0
<1>3. k3.fd = l.fd /\ k3.dest = l.dest
  BY <1>0
<1>4. k4.dest = l.dest
  BY <1>0
<1> QED BY <1>1, <1>2, <1>3, <1>4

(* create_dir_all keeps what is open, and goes on or fails.                *)
LEMMA MakeDirsKeeps ==
  ASSUME NEW o, ControlInv(o), NEW r \in Requests, MakeDirs(r), req[r].op \in {"write", "copy"}
  PROVE  \/ pc'[r] = "done" /\ answer'[r].err # None
         \/ pc'[r] \in {"mkdirs", "create", "open_source"} /\ loc'[r].fd = loc[r].fd /\ loc'[r].dest = loc[r].dest
<1> DEFINE l == loc[r]
           e == MkdirError(mem, Head(l.dirs).path)
           rest == [l EXCEPT !.dirs = Tail(@)]
<1>1. \/ \E step \in {"mkdirs", "create", "open_source"} : Goto(r, step, rest)
      \/ \E t : Goto(r, "mkdirs", [l EXCEPT !.dirs = t])
      \/ e # None /\ Err(r, e)
  BY DEF MakeDirs
<1>2. Busy(r, "mkdirs", o)
  BY Busies DEF MakeDirs
<1>3. Shapes /\ IsLoc(l, o) /\ e \in Errors \cup {None}
  BY <1>2, ErrorsAre DEF Busy
<1>4. rest = [l EXCEPT !.dirs = Tail(l.dirs)]
  OBVIOUS
<1> HIDE DEF l, e, rest
<1>5. CASE \E step \in {"mkdirs", "create", "open_source"} : Goto(r, step, rest)
  <2>1. pc'[r] \in {"mkdirs", "create", "open_source"} /\ loc'[r] = rest
    BY <1>3, <1>5, GotoLoc
  <2>2. rest.fd = l.fd /\ rest.dest = l.dest
    BY <1>3, <1>4, LocHandles
  <2> QED BY <2>1, <2>2 DEF l
<1>6. CASE \E t : Goto(r, "mkdirs", [l EXCEPT !.dirs = t])
  <2>1. PICK t : Goto(r, "mkdirs", [l EXCEPT !.dirs = t])
    BY <1>6
  <2> DEFINE k == [l EXCEPT !.dirs = t]
  <2>2. k.fd = l.fd /\ k.dest = l.dest
    BY <1>3, LocHandles
  <2> HIDE DEF k
  <2>3. pc'[r] = "mkdirs" /\ loc'[r] = k
    BY <1>3, <2>1, GotoLoc DEF k
  <2> QED BY <2>2, <2>3 DEF l
<1>7. CASE e # None /\ Err(r, e)
  BY <1>3, <1>7, AnswerTold DEF Err, Codes
<1> QED BY <1>1, <1>5, <1>6, <1>7

(* The calls of a request that writes.                                     *)
Writes(r) ==
  \/ pc'[r] = "done" /\ answer'[r].err # None
  \/ pc'[r] \in {"mkdirs", "create"} /\ loc'[r].fd = loc[r].fd
  \/ /\ pc'[r] = "write_all"
     /\ \E b : Opens(mem', Path(r), loc'[r].fd, b) /\ (req[r].op = "write" => b = <<>>)
  \/ WriteAll(r) /\ pc'[r] = "sync_all" /\ loc'[r].fd = loc[r].fd
  \/ SyncAll(r) /\ (pc'[r] = "done" \/ (pc'[r] = "size" /\ loc'[r].fd = loc[r].fd))
  \/ ReadBack(r) /\ pc'[r] = "done"

(* The opens.                                                              *)
LEMMA OpensWrite ==
  ASSUME NEW o, FilesInv(o), ControlInv(o), NEW r \in Requests, Create(r) \/ OpenAppend(r)
  PROVE  Writes(r)
<1> DEFINE x == Path(r)
           e == OpenError(mem, x)
           l == [loc[r] EXCEPT !.fd = OpenedId(x)]
<1>1. PICK step \in {"create", "open_append"} : Busy(r, step, o) /\ At(r, step)
  BY Busies DEF Create, OpenAppend
<1>2. /\ x \in VaultPaths /\ Shapes /\ IsLoc(loc[r], o) /\ e \in Errors \cup {None} /\ Safe(mem, o)
      /\ (step = "create" => req[r].op = "write") /\ (step = "open_append" => req[r].op = "append")
  BY <1>1, PathsStay, ErrorsAre DEF Busy, Ready, Fits, Reading, FilesInv
<1>3. \/ e # None /\ Err(r, e)
      \/ e = None /\ Unused # {} /\ Store(Opened(x, <<>>)) /\ Goto(r, "write_all", l)
      \/ e = None /\ Walk(mem, x) \notin Errors /\ Same /\ Goto(r, "write_all", l) /\ step = "open_append"
  BY <1>1 DEF Create, OpenAppend, At
<1>4. l.fd = OpenedId(x)
  BY <1>2, LocHandles
<1> HIDE DEF l, e, x
<1>5. CASE e # None /\ Err(r, e)
  BY <1>2, <1>5, AnswerTold DEF Err, Codes, Writes
<1>6. CASE e = None /\ Unused # {} /\ Store(Opened(x, <<>>)) /\ Goto(r, "write_all", l)
  <2>1. pc'[r] = "write_all" /\ loc'[r] = l
    BY <1>2, <1>6, GotoLoc
  <2>2. Opens(mem', x, OpenedId(x), <<>>)
    BY <1>2, <1>6, OpenedLeads DEF e
  <2> QED BY <1>4, <2>1, <2>2 DEF Writes, x
<1>7. CASE e = None /\ Walk(mem, x) \notin Errors /\ Same /\ Goto(r, "write_all", l) /\ step = "open_append"
  <2>1. pc'[r] = "write_all" /\ loc'[r] = l
    BY <1>2, <1>7, GotoLoc
  <2>2. Opens(mem, x, Walk(mem, x), mem[Walk(mem, x)].bytes) /\ mem' = mem
    BY <1>2, <1>7, OpenIsNote DEF e, Same
  <2>3. OpenedId(x) = Walk(mem, x)
    BY <1>7 DEF OpenedId
  <2>4. req[r].op # "write"
    BY <1>2, <1>7
  <2>5. \E b : Opens(mem', x, loc'[r].fd, b)
    BY <1>4, <2>1, <2>2, <2>3
  <2> QED BY <2>1, <2>4, <2>5 DEF Writes, x
<1> QED BY <1>3, <1>5, <1>6, <1>7

(* Every one of them.                                                      *)
LEMMA WriterTurn ==
  ASSUME NEW o, FilesInv(o), ControlInv(o), NEW r \in Requests, r \in Running, Acts(r), req[r].op \in Writing
  PROVE  Writes(r)
<1>0. Ready(req[r], loc[r], pc[r]) /\ Shapes
  BY DEF ControlInv, HandlerInv
<1>1. pc[r] \in {"mkdirs", "create", "open_append", "write_all", "sync_all", "size"}
  BY <1>0 DEF Ready, Fits, Reading, Writing
<1>2. \/ MakeDirs(r) \/ Create(r) \/ OpenAppend(r) \/ WriteAll(r) \/ WriteFails(r) \/ SyncAll(r) \/ ReadBack(r) \/ CallFails(r)
  <2>1. ~OpenSource(r) /\ ~CreateDest(r) /\ ~Transfer(r) /\ ~Mkdir(r) /\ ~Move(r) /\ ~Utimes(r) /\ ~UnlinkFile(r) /\ ~Rmdir(r)
    BY <1>1 DEF At, OpenSource, CreateDest, Transfer, Mkdir, Move, Utimes, UnlinkFile, Rmdir, RemoveDir
  <2>2. /\ ~Lstat(r) /\ ~RemoveFile(r) /\ ~RemoveDir(r, "remove_dir") /\ ~OpenTree(r) /\ ~RemoveChild(r)
        /\ ~RemoveEmptied(r) /\ ~Stat(r) /\ ~Access(r)
    BY <1>1 DEF At, RemoveDir, Lstat, RemoveFile, OpenTree, RemoveChild, RemoveEmptied, Stat, Access
  <2>3. ~Metadata(r) /\ ~OpenNote(r) /\ ~Read(r) /\ ~ReadDir(r) /\ ~ZipWalk(r) /\ ~BatchRead(r)
    BY <1>1 DEF At, Metadata, OpenNote, Read, ReadDir, ZipWalk, BatchRead
  <2> QED BY <2>1, <2>2, <2>3 DEF Acts
<1>3. CASE MakeDirs(r)
  <2>1. pc[r] = "mkdirs"
    BY <1>3 DEF MakeDirs, At
  <2>2. req[r].op = "write"
    BY <1>0, <2>1 DEF Ready, Fits, Reading, Writing
  <2>3. pc'[r] # "open_source"
    <3>1. Turn(r, req[r], o)
      BY <1>3, MakeDirsWorks DEF Works
    <3> QED BY <2>2, <3>1 DEF Turn, Ready, Fits, Reading
  <2> QED BY <1>3, <2>2, <2>3, MakeDirsKeeps DEF Writes
<1>4. CASE Create(r) \/ OpenAppend(r)
  BY <1>4, OpensWrite
<1>5. CASE WriteAll(r)
  <2>1. pc'[r] = "sync_all" /\ loc'[r] = loc[r]
    BY <1>0, <1>5, GotoLoc DEF WriteAll
  <2> QED BY <1>5, <2>1 DEF Writes
<1>6. CASE WriteFails(r)
  <2>1. "EIO" \in Codes /\ None # "EIO"
    BY IdsAssumption DEF Codes, Errors
  <2>2. pc'[r] = "done" /\ answer'[r].err = "EIO"
    BY <1>0, <1>6, <2>1, AnswerTold DEF WriteFails, Err
  <2> QED BY <2>1, <2>2 DEF Writes
<1>7. CASE SyncAll(r)
  <2>1. CASE Goto(r, "size", loc[r])
    BY <1>0, <1>7, <2>1, GotoLoc DEF Writes
  <2>2. CASE Ok(r)
    BY <1>0, <1>7, <2>2, AnswerTold DEF Writes, Ok, Codes
  <2> QED BY <1>7, <2>1, <2>2 DEF SyncAll
<1>8. CASE ReadBack(r)
  <2>1. pc'[r] = "done"
    BY <1>0, <1>8, AnswerTold DEF ReadBack, Codes
  <2> QED BY <1>8, <2>1 DEF Writes
<1>9. CASE CallFails(r)
  <2>1. "EIO" \in Codes /\ None # "EIO"
    BY IdsAssumption DEF Codes, Errors
  <2>2. Err(r, "EIO")
    BY <1>1, <1>9 DEF CallFails
  <2>3. pc'[r] = "done" /\ answer'[r].err = "EIO"
    BY <1>0, <2>1, <2>2, AnswerTold DEF Err
  <2> QED BY <2>1, <2>3 DEF Writes
<1> QED BY <1>2, <1>3, <1>4, <1>5, <1>6, <1>7, <1>8, <1>9

(* The calls of a request that copies.                                     *)
LEMMA CopierTurn ==
  ASSUME NEW o, FilesInv(o), ControlInv(o), NEW r \in Requests, r \in Running, Acts(r), req[r].op = "copy"
  PROVE  pc'[r] = "done" \/ loc'[r].dest = loc[r].dest \/ \E b : Opens(mem', To(r), loc'[r].dest, b)
<1>0. Ready(req[r], loc[r], pc[r]) /\ Shapes /\ IsLoc(loc[r], o) /\ "EIO" \in Codes
  BY DEF ControlInv, HandlerInv, Codes, Errors
<1>1. pc[r] \in {"mkdirs", "open_source", "create_dest", "transfer"}
  BY <1>0 DEF Ready, Fits, Reading
<1>2. MakeDirs(r) \/ OpenSource(r) \/ CreateDest(r) \/ Transfer(r) \/ CallFails(r)
  <2>1. /\ ~Create(r) /\ ~OpenAppend(r) /\ ~WriteAll(r) /\ ~WriteFails(r) /\ ~SyncAll(r) /\ ~ReadBack(r) /\ ~Mkdir(r)
        /\ ~Move(r) /\ ~Utimes(r) /\ ~UnlinkFile(r) /\ ~Rmdir(r)
    BY <1>1 DEF At, Create, OpenAppend, WriteAll, WriteFails, SyncAll, ReadBack, Mkdir, Move, Utimes, UnlinkFile, Rmdir,
                RemoveDir
  <2>2. /\ ~Lstat(r) /\ ~RemoveFile(r) /\ ~RemoveDir(r, "remove_dir") /\ ~OpenTree(r) /\ ~RemoveChild(r)
        /\ ~RemoveEmptied(r) /\ ~Stat(r) /\ ~Access(r)
    BY <1>1 DEF At, RemoveDir, Lstat, RemoveFile, OpenTree, RemoveChild, RemoveEmptied, Stat, Access
  <2>3. ~Metadata(r) /\ ~OpenNote(r) /\ ~Read(r) /\ ~ReadDir(r) /\ ~ZipWalk(r) /\ ~BatchRead(r)
    BY <1>1 DEF At, Metadata, OpenNote, Read, ReadDir, ZipWalk, BatchRead
  <2> QED BY <2>1, <2>2, <2>3 DEF Acts
<1>3. CASE MakeDirs(r)
  BY <1>3, MakeDirsKeeps
<1>4. CASE OpenSource(r)
  <2> DEFINE id == Walk(mem, Path(r))
             l == [loc[r] EXCEPT !.fd = id]
  <2>1. (\E err \in Codes : Err(r, err)) \/ Goto(r, "create_dest", l)
    BY <1>4 DEF OpenSource, Codes, Errors
  <2>2. l.dest = loc[r].dest
    BY <1>0, LocHandles
  <2> HIDE DEF l
  <2>3. (\E err \in Codes : Err(r, err)) => pc'[r] = "done"
    BY <1>0, AnswerTold DEF Err
  <2>4. Goto(r, "create_dest", l) => loc'[r] = l
    BY <1>0, GotoLoc
  <2> QED BY <2>1, <2>2, <2>3, <2>4
<1>5. CASE CreateDest(r)
  <2> DEFINE x == To(r)
             e == OpenError(mem, x)
             l == [loc[r] EXCEPT !.dest = OpenedId(x)]
  <2>1. Busy(r, "create_dest", o)
    BY <1>5, Busies DEF CreateDest
  <2>2. x \in VaultPaths /\ e \in Codes
    BY <2>1, PathsStay, ErrorsAre DEF Codes
  <2>3. Err(r, e) \/ (e = None /\ Unused # {} /\ Store(Opened(x, <<>>)) /\ Goto(r, "transfer", l))
    BY <1>5 DEF CreateDest
  <2>4. l.dest = OpenedId(x)
    BY <1>0, LocHandles
  <2> HIDE DEF l, x
  <2>5. CASE Err(r, e)
    BY <1>0, <2>2, <2>5, AnswerTold DEF Err
  <2>6. CASE e = None /\ Unused # {} /\ Store(Opened(x, <<>>)) /\ Goto(r, "transfer", l)
    <3>1. Opens(mem', x, OpenedId(x), <<>>)
      BY <2>2, <2>6, OpenedLeads
    <3>2. loc'[r] = l
      BY <1>0, <2>6, GotoLoc
    <3> QED BY <2>4, <3>1, <3>2 DEF x
  <2> QED BY <2>3, <2>5, <2>6
<1>6. CASE Transfer(r)
  <2> DEFINE l == loc[r]
             Grows == \E n : Goto(r, "transfer", [l EXCEPT !.got = n])
  <2>1. Ok(r) \/ Grows
    BY <1>6 DEF Transfer
  <2>2. Ok(r) => pc'[r] = "done"
    BY <1>0, AnswerTold DEF Ok, Codes
  <2>3. ASSUME NEW n, Goto(r, "transfer", [l EXCEPT !.got = n]) PROVE loc'[r].dest = loc[r].dest
    <3> DEFINE k == [l EXCEPT !.got = n]
    <3>1. k.dest = loc[r].dest
      BY <1>0, LocHandles
    <3> HIDE DEF k
    <3>2. loc'[r] = k
      BY <1>0, <2>3, GotoLoc DEF k
    <3> QED BY <3>1, <3>2
  <2> QED BY <2>1, <2>2, <2>3
<1>7. CASE CallFails(r)
  <2>1. Err(r, "EIO")
    BY <1>1, <1>7 DEF CallFails
  <2> QED BY <1>0, <2>1, AnswerTold DEF Err
<1> QED BY <1>2, <1>3, <1>4, <1>5, <1>6, <1>7

(* The folders that a request has open after one of its calls.             *)
Grips(r) ==
  \A i \in 1..Len(loc'[r].frames) :
    \/ \E j \in 1..Len(loc[r].frames) : loc'[r].frames[i].dir = loc[r].frames[j].dir
    \/ mem' = mem /\ pc[r] = "remove_dir_all" /\ loc'[r].frames[i].dir = Walk(mem, Path(r))
    \/ mem' = mem /\ \E j \in 1..Len(loc[r].frames), c \in Components :
                       LeadsTo(mem, loc[r].frames[j].dir, c, loc'[r].frames[i].dir)

(* An entry of a folder being emptied.                                     *)
LEMMA RemoveChildGrips ==
  ASSUME NEW o, FilesInv(o), ControlInv(o), NEW r \in Requests, RemoveChild(r)
  PROVE  pc'[r] = "done" \/ (pc'[r] = "empty" /\ Grips(r))
<1> DEFINE s == loc[r].frames
           f == s[Len(s)]
<1>1. Busy(r, "empty", o)
  BY Busies DEF RemoveChild
<1>2. IsLoc(loc[r], o) /\ s \in Seq(Frames(o)) /\ s # <<>> /\ Shapes
  BY <1>1 DEF Busy, Ready, IsLoc
<1>3. Stack(s, o)
  BY <1>2, StackIs
<1>4. f \in Frames(o) /\ Len(s) \in Nat /\ Len(s) \in 1..Len(s)
  BY <1>3 DEF Stack
<1>5. f.dir \in Ids \ {Top, o} /\ f.path \in VaultPaths /\ f.left \in SUBSET [name : Components, folder : BOOLEAN]
  <2> HIDE DEF f
  <2> QED BY <1>4 DEF Frames
<1>6. PICK c \in f.left :
        LET id == Entry(mem, f.dir, c.name)
            rest == [loc[r] EXCEPT !.frames[Len(s)].left = @ \ {c}]
        IN \/ Goto(r, "empty", rest)
           \/ /\ id \notin Errors
              /\ Goto(r, "empty", [rest EXCEPT !.frames = Append(@, Frame(id, Append(f.path, c.name)))])
              /\ Same
           \/ Err(r, "EISDIR")
  BY DEF RemoveChild
<1> DEFINE id == Entry(mem, f.dir, c.name)
           t == [s EXCEPT ![Len(s)].left = @ \ {c}]
           rest == [loc[r] EXCEPT !.frames = t]
           g == Frame(id, Append(f.path, c.name))
           u == Append(t, g)
           deeper == [rest EXCEPT !.frames = u]
<1>7. c.name \in Components
  BY <1>5
<1>8. rest = [loc[r] EXCEPT !.frames[Len(s)].left = @ \ {c}]
  BY <1>2 DEF IsLoc
<1>9. Stack(t, o)
  <2> HIDE DEF s
  <2> QED BY <1>3, StackShrinks
<1>10. t \in Seq(Frames(o)) /\ Len(t) = Len(s) /\ \A i \in 1..Len(s) : t[i].dir = s[i].dir
  <2> DEFINE h == [f EXCEPT !.left = @ \ {c}]
  <2>1. h.dir = f.dir /\ h \in Frames(o)
    <3> HIDE DEF f
    <3>1. f = [dir |-> f.dir, path |-> f.path, left |-> f.left]
      BY <1>4 DEF Frames
    <3>2. h = [dir |-> f.dir, path |-> f.path, left |-> f.left \ {c}]
      BY <3>1
    <3> HIDE DEF h
    <3> QED BY <1>5, <3>2 DEF Frames
  <2>2. t = [s EXCEPT ![Len(s)] = h]
    BY <1>4
  <2> HIDE DEF h, s, t
  <2>3. Len(t) = Len(s) /\ \A i \in 1..Len(s) : t[i] = IF i = Len(s) THEN h ELSE s[i]
    BY <1>2, <1>4, <2>1, <2>2
  <2>4. \A i \in 1..Len(s) : t[i].dir = s[i].dir
    BY <2>1, <2>3 DEF f
  <2> QED BY <1>9, <2>3, <2>4 DEF Stack
<1>11. IsLoc(rest, o) /\ rest.frames = t
  <2> HIDE DEF t
  <2> QED BY <1>2, <1>10, LocFrames
<1>12. \/ Goto(r, "empty", rest)
       \/ id \notin Errors /\ Goto(r, "empty", deeper) /\ Same
       \/ Err(r, "EISDIR")
  <2>1. deeper = [rest EXCEPT !.frames = Append(@, g)]
    <3> HIDE DEF t, g
    <3>1. rest.frames = t
      BY <1>11
    <3> QED BY <3>1
  <2> QED BY <1>6, <1>8, <2>1
<1> HIDE DEF f, s, t, rest
<1>13. CASE Goto(r, "empty", rest)
  <2>1. pc'[r] = "empty" /\ loc'[r].frames = t
    BY <1>2, <1>11, <1>13, GotoLoc
  <2> QED BY <1>10, <2>1 DEF Grips, s
<1>14. CASE id \notin Errors /\ Goto(r, "empty", deeper) /\ Same
  <2>1. LeadsTo(mem, f.dir, c.name, id)
    BY <1>5, <1>14, EntryIs DEF FilesInv, Safe, LeadsTo
  <2>2. g.dir = id
    BY DEF Frame
  <2> HIDE DEF g, id
  <2>3. Len(u) = Len(s) + 1 /\ (\A i \in 1..Len(s) : u[i] = t[i]) /\ u[Len(s) + 1] = g
    BY <1>4, <1>10
  <2> DEFINE k == deeper
  <2>4. k.frames = u
    BY <1>11, LocParts
  <2> HIDE DEF k, u
  <2>5. pc'[r] = "empty" /\ loc'[r].frames = u /\ mem' = mem
    BY <1>2, <1>14, <2>4, GotoLoc DEF Same, k
  <2>6. ASSUME NEW i \in 1..Len(u)
        PROVE  \/ \E j \in 1..Len(s) : u[i].dir = s[j].dir
               \/ \E j \in 1..Len(s), n \in Components : LeadsTo(mem, s[j].dir, n, u[i].dir)
    <3>1. CASE i \in 1..Len(s)
      BY <1>10, <2>3, <3>1
    <3>2. CASE i = Len(s) + 1
      <4>1. u[i].dir = id
        BY <2>2, <2>3, <3>2
      <4>2. Len(s) \in 1..Len(s) /\ LeadsTo(mem, s[Len(s)].dir, c.name, u[i].dir)
        BY <1>4, <2>1, <4>1 DEF f
      <4> QED BY <1>7, <4>2
    <3>3. i \in 1..Len(s) \/ i = Len(s) + 1
      BY <1>4, <2>3
    <3> QED BY <3>1, <3>2, <3>3
  <2> QED BY <2>5, <2>6 DEF Grips, s
<1>15. CASE Err(r, "EISDIR")
  <2>1. "EISDIR" \in Codes
    BY DEF Codes, Errors
  <2> QED BY <1>2, <1>15, <2>1, AnswerTold DEF Err
<1> QED BY <1>12, <1>13, <1>14, <1>15

(* The calls of a request that removes.                                    *)
LEMMA RemoverTurn ==
  ASSUME NEW o, FilesInv(o), ControlInv(o), NEW r \in Requests, r \in Running, Acts(r), req[r].op = "rm"
  PROVE  pc'[r] = "done" \/ (Grips(r) /\ (pc'[r] = "remove_dir_all" => req[r].recursive))
<1>0. Ready(req[r], loc[r], pc[r]) /\ Shapes /\ IsLoc(loc[r], o) /\ "EIO" \in Codes
  BY DEF ControlInv, HandlerInv, Codes, Errors
<1>1. pc[r] \in {"rm", "remove_file", "remove_dir", "remove_dir_all", "empty"}
  BY <1>0 DEF Ready, Fits, Reading
<1>2. Lstat(r) \/ RemoveFile(r) \/ RemoveDir(r, "remove_dir") \/ OpenTree(r) \/ RemoveChild(r) \/ RemoveEmptied(r) \/ CallFails(r)
  <2>1. /\ ~MakeDirs(r) /\ ~Create(r) /\ ~OpenAppend(r) /\ ~WriteAll(r) /\ ~WriteFails(r) /\ ~SyncAll(r) /\ ~ReadBack(r)
        /\ ~OpenSource(r) /\ ~CreateDest(r) /\ ~Transfer(r)
    BY <1>1 DEF At, MakeDirs, Create, OpenAppend, WriteAll, WriteFails, SyncAll, ReadBack, OpenSource, CreateDest, Transfer
  <2>2. ~Mkdir(r) /\ ~Move(r) /\ ~Utimes(r) /\ ~UnlinkFile(r) /\ ~Rmdir(r) /\ ~Stat(r) /\ ~Access(r)
    BY <1>1 DEF At, Mkdir, Move, Utimes, UnlinkFile, Rmdir, RemoveDir, Stat, Access
  <2>3. ~Metadata(r) /\ ~OpenNote(r) /\ ~Read(r) /\ ~ReadDir(r) /\ ~ZipWalk(r) /\ ~BatchRead(r)
    BY <1>1 DEF At, Metadata, OpenNote, Read, ReadDir, ZipWalk, BatchRead
  <2> QED BY <2>1, <2>2, <2>3 DEF Acts
<1>3. ASSUME NEW err \in Codes, Err(r, err) PROVE pc'[r] = "done"
  BY <1>0, <1>3, AnswerTold DEF Err
<1>4. Ok(r) => pc'[r] = "done"
  BY <1>0, AnswerTold DEF Ok, Codes
<1>5. CASE Lstat(r)
  <2> DEFINE id == Walk(mem, Path(r))
  <2>1. \/ Ok(r)
        \/ \E err \in Codes : Err(r, err)
        \/ \E step : Goto(r, step, loc[r]) /\ (step = "remove_dir_all" => req[r].recursive)
    BY <1>5 DEF Lstat, Codes
  <2>2. ASSUME NEW step, Goto(r, step, loc[r]) PROVE pc'[r] = step /\ Grips(r)
    <3>1. pc'[r] = step /\ loc'[r] = loc[r]
      BY <1>0, <2>2, GotoLoc
    <3> QED BY <3>1 DEF Grips
  <2> QED BY <1>3, <1>4, <2>1, <2>2
<1>6. CASE RemoveFile(r) \/ RemoveDir(r, "remove_dir")
  <2>1. FileError(r) \in Codes /\ DirError(r) \in Codes
    BY RemovalErrorIs DEF FileError, DirError, Codes
  <2> QED BY <1>3, <1>4, <1>6, <2>1 DEF RemoveFile, RemoveDir
<1>7. CASE OpenTree(r)
  <2> DEFINE id == Walk(mem, Path(r))
             t == <<Frame(id, Path(r))>>
             l == [loc[r] EXCEPT !.frames = t]
  <2>1. (\E err \in Codes : Err(r, err)) \/ (Goto(r, "empty", l) /\ Same)
    BY <1>7 DEF OpenTree, Codes, Errors
  <2>2. Goto(r, "empty", l) /\ Same => pc'[r] = "empty" /\ Grips(r)
    <3> SUFFICES ASSUME Goto(r, "empty", l), Same PROVE pc'[r] = "empty" /\ Grips(r)
      OBVIOUS
    <3>1. Len(t) = 1 /\ t[1].dir = id
      BY DEF Frame
    <3> HIDE DEF t, id
    <3>2. l.frames = t
      BY <1>0, LocParts
    <3> HIDE DEF l
    <3>3. pc'[r] = "empty" /\ loc'[r] = l /\ mem' = mem /\ pc[r] = "remove_dir_all"
      BY <1>0, <1>7, GotoLoc DEF Same, OpenTree, At
    <3> QED BY <3>1, <3>2, <3>3 DEF Grips, id
  <2> QED BY <1>3, <2>1, <2>2
<1>8. CASE RemoveChild(r)
  BY <1>8, RemoveChildGrips
<1>9. CASE RemoveEmptied(r)
  <2> DEFINE s == loc[r].frames
             t == Front(s)
             l == [loc[r] EXCEPT !.frames = t]
  <2>1. PICK d, name : \/ RmdirError(mem, d, name) \in Codes /\ Err(r, RmdirError(mem, d, name))
                       \/ Ok(r)
                       \/ Goto(r, "empty", l)
    <3>1. \A d, name : RmdirError(mem, d, name) \in Codes
      BY RemovalErrorIs DEF Codes
    <3> QED BY <1>9, <3>1 DEF RemoveEmptied
  <2>2. Goto(r, "empty", l) => pc'[r] = "empty" /\ Grips(r)
    <3> SUFFICES ASSUME Goto(r, "empty", l) PROVE pc'[r] = "empty" /\ Grips(r)
      OBVIOUS
    <3>1. s \in Seq(Frames(o)) /\ s # <<>>
      <4>1. pc[r] = "empty"
        BY <1>9 DEF RemoveEmptied, At
      <4> QED BY <1>0, <4>1 DEF Ready, IsLoc
    <3>2. Len(t) = Len(s) - 1 /\ Len(s) \in Nat /\ \A k \in 1..(Len(s) - 1) : t[k] = s[k]
      BY <3>1, FrontIs
    <3> HIDE DEF t
    <3>3. l.frames = t
      BY <1>0, LocParts
    <3> HIDE DEF l
    <3>4. pc'[r] = "empty" /\ loc'[r] = l
      BY <1>0, GotoLoc
    <3> QED BY <3>2, <3>3, <3>4 DEF Grips
  <2> QED BY <1>3, <1>4, <2>1, <2>2
<1>10. CASE CallFails(r)
  <2>1. Err(r, "EIO")
    BY <1>1, <1>10 DEF CallFails
  <2> QED BY <1>0, <1>3, <2>1
<1> QED BY <1>2, <1>5, <1>6, <1>7, <1>8, <1>9, <1>10

(* Who runs beside whom: a request that has begun knows every other one    *)
(* that runs, and only such as have begun.                                 *)
RivalsInv ==
  \A r \in Requests :
    /\ pc[r] = "idle" <=> req[r] = None
    /\ \A s \in Running : pc[r] # "idle" /\ s # r => s \in rivals[r]
    /\ \A s \in rivals[r] : pc[s] # "idle" /\ pc[r] # "idle"

(* The requests that have begun have begun for good.                       *)
LEMMA RivalsStay ==
  ASSUME NEW o, Invariant(o), RivalsInv, [Next]_vars
  PROVE  RivalsInv'
<1>0. FilesInv(o) /\ ControlInv(o) /\ Shapes /\ \A r \in Requests : rivals[r] \subseteq Requests \ {r}
  BY DEF Invariant, ControlInv, HandlerInv
<1>1. ASSUME NEW t \in Requests, NEW q \in Queries, Begin(t, q) PROVE RivalsInv'
  <2>1. Turn(t, q, o)
    BY <1>0, <1>1, BeginTurns
  <2>2. pc[t] = "idle" /\ req' = [req EXCEPT ![t] = q]
    BY <1>1 DEF Begin
  <2>3. \A s \in Requests : rivals'[s] = IF s = t THEN Running ELSE IF req[s] # None THEN rivals[s] \cup {t} ELSE {}
    BY <1>1 DEF Begin
  <2>4. \A s \in Requests \ {t} : pc'[s] = pc[s] /\ req'[s] = req[s]
    BY <1>0, <2>1, <2>2 DEF Turn, Shapes
  <2>5. pc'[t] # "idle" /\ req'[t] = q /\ q # None
    <3>1. pc'[t] # "idle"
      BY <2>1 DEF Turn, Ready, Fits, Reading
    <3> QED BY <1>0, <2>2, <3>1, QueriesAssumption DEF Shapes
  <2>6. \A s \in Running' : s = t \/ s \in Running
    BY <2>4 DEF Running
  <2>7. \A s \in Running : s \in Requests /\ s # t /\ pc[s] # "idle"
    BY <2>2 DEF Running
  <2>8. ASSUME NEW r \in Requests
        PROVE  /\ pc'[r] = "idle" <=> req'[r] = None
               /\ \A s \in Running' : pc'[r] # "idle" /\ s # r => s \in rivals'[r]
               /\ \A s \in rivals'[r] : pc'[s] # "idle" /\ pc'[r] # "idle"
    <3>1. CASE r = t
      BY <2>3, <2>4, <2>5, <2>6, <2>7, <3>1
    <3>2. CASE r # t
      <4>1. pc'[r] = pc[r] /\ req'[r] = req[r] /\ rivals'[r] = IF req[r] # None THEN rivals[r] \cup {t} ELSE {}
        BY <2>3, <2>4, <3>2
      <4>2. \A s \in rivals[r] : s \in Requests \ {t} /\ pc'[s] = pc[s] /\ pc[s] # "idle" /\ pc[r] # "idle"
        BY <1>0, <2>2, <2>4 DEF RivalsInv
      <4>3. pc[r] = "idle" <=> req[r] = None
        BY DEF RivalsInv
      <4>4. \A s \in Running' : pc'[r] # "idle" /\ s # r => s \in rivals'[r]
        BY <2>6, <4>1, <4>3 DEF RivalsInv
      <4> QED BY <2>5, <4>1, <4>2, <4>3, <4>4
    <3> QED BY <3>1, <3>2
  <2> QED BY <2>8 DEF RivalsInv
<1>2. ASSUME req' = req, rivals' = rivals, \A s \in Running' : s \in Running,
             \A s \in Requests : pc'[s] = "idle" <=> pc[s] = "idle"
      PROVE  RivalsInv'
  BY <1>0, <1>2 DEF RivalsInv
<1>3. ASSUME NEW t \in Requests, Acts(t), Works(t, o) PROVE RivalsInv'
  <2>1. t \in Running /\ req' = req /\ rivals' = rivals /\ Turn(t, req[t], o)
    BY <1>3 DEF Works
  <2>2. \A s \in Requests \ {t} : pc'[s] = pc[s]
    BY <2>1 DEF Turn
  <2>3. pc[t] # "idle" /\ pc'[t] # "idle"
    BY <2>1 DEF Turn, Ready, Fits, Reading, Running
  <2>4. \A s \in Running' : s \in Running
    BY <2>1, <2>2 DEF Running
  <2> QED BY <1>2, <2>1, <2>2, <2>3, <2>4
<1>4. CASE WriteBack \/ UNCHANGED vars
  <2>1. req' = req /\ rivals' = rivals /\ pc' = pc
    BY <1>4 DEF WriteBack, vars
  <2> QED BY <1>2, <2>1 DEF Running
<1>5. CASE Crash
  <2>1. req' = req /\ rivals' = rivals /\ \A s \in Requests : pc'[s] = IF s \in Running THEN "lost" ELSE pc[s]
    BY <1>5 DEF Crash
  <2>2. \A s \in Requests : (pc'[s] = "idle" <=> pc[s] = "idle") /\ s \notin Running'
    BY <2>1 DEF Running
  <2>3. \A s \in Running' : s \in Requests
    BY DEF Running
  <2> QED BY <1>2, <2>1, <2>2, <2>3
<1> QED BY <1>1, <1>3, <1>4, <1>5, NextIs

(* No rename carries what a handler has open onto the way to p, and what   *)
(* it has open is there.                                                   *)
Off(s, p) == ~MayTouch(req[s], p) /\ \A t \in rivals[s] : ~MovesOnto(req[t], p)
There(s) ==
  /\ req[s].op \in Writing /\ loc[s].fd # None => mem[loc[s].fd].type # "none"
  /\ req[s].op = "copy" /\ loc[s].dest # None => mem[loc[s].dest].type # "none"
  /\ req[s].op = "rm" => \A i \in 1..Len(loc[s].frames) : mem[loc[s].frames[i].dir].type # "none"
Holds(s) ==
  /\ There(s) /\ (\A p \in VaultPaths : Off(s, p) => Away(s, p))
  /\ pc[s] = "remove_dir_all" => req[s].recursive
HoldInv == \A s \in Running : Holds(s)

(* What is open elsewhere stays elsewhere.                                 *)
LEMMA StaysAway ==
  ASSUME NEW m, NEW n, Shaped(n), NEW p, Lags(m, n, p), NEW q \in Seq(Components), Begins(q, p), NEW h \in Ids \cup {None},
         h # None => m[h].type # "none", h # Walk(m, q)
  PROVE  h # Walk(n, q)
<1>1. Walk(n, q) \in Ids \cup Errors
  BY WalkIs
<1>2. CASE h = None
  BY <1>1, <1>2, IdsAssumption
<1>3. CASE h \in Ids
  <2>1. h # None
    BY <1>3, IdsAssumption
  <2> QED BY <1>3, <2>1 DEF Lags
<1> QED BY <1>2, <1>3

(* The inodes a handler has open.                                          *)
LEMMA OpenIds ==
  ASSUME NEW o, ControlInv(o), NEW s \in Requests
  PROVE  /\ loc[s].fd \in Ids \cup {None} /\ loc[s].dest \in Ids \cup {None}
         /\ loc[s].frames \in Seq(Frames(o)) /\ \A i \in 1..Len(loc[s].frames) : loc[s].frames[i].dir \in Ids
         /\ s \in Running => /\ loc[s].fd # None => loc[s].fd \in Held
                             /\ loc[s].dest # None => loc[s].dest \in Held
                             /\ \A i \in 1..Len(loc[s].frames) : loc[s].frames[i].dir \in Held
<1>1. loc[s].fd \in Ids \cup {None} /\ loc[s].dest \in Ids \cup {None} /\ loc[s].frames \in Seq(Frames(o))
  BY DEF ControlInv, HandlerInv, IsLoc, Handles
<1>2. ASSUME NEW i \in 1..Len(loc[s].frames) PROVE loc[s].frames[i].dir \in Ids
  <2>1. loc[s].frames[i] \in Frames(o)
    BY <1>1, <1>2
  <2> QED BY <2>1 DEF Frames
<1>3. ASSUME s \in Running, NEW i \in 1..Len(loc[s].frames) PROVE loc[s].frames[i].dir \in Held
  <2>1. i \in DOMAIN loc[s].frames
    BY <1>1, <1>3
  <2>2. loc[s].frames[i].dir # None
    BY <1>2, <1>3, IdsAssumption
  <2> QED BY <1>3, <2>1, <2>2 DEF Held
<1>4. ASSUME s \in Running
      PROVE  (loc[s].fd # None => loc[s].fd \in Held) /\ (loc[s].dest # None => loc[s].dest \in Held)
  BY <1>4 DEF Held
<1> QED BY <1>1, <1>2, <1>3, <1>4

(* Who else acts leaves what a handler has open where it is.               *)
LEMMA HoldsBeside ==
  ASSUME NEW o, Invariant(o), Invariant(o)', RivalsInv, HoldInv, NEW t \in Requests, Acts(t), Works(t, o),
         NEW s \in Running, s # t
  PROVE  Holds(s)'
<1>1. /\ req' = req /\ rivals' = rivals /\ loc'[s] = loc[s] /\ pc'[s] = pc[s] /\ s \in Requests
      /\ t \in Running /\ ControlInv(o) /\ FilesInv(o) /\ Shaped(mem')
  BY DEF Works, Turn, Running, Invariant, FilesInv, Safe
<1>2. Quiet(t) /\ t \in rivals[s] /\ Holds(s)
  BY <1>1, TamesQuiet DEF RivalsInv, HoldInv, Running
<1>3. There(s)'
  BY <1>1, <1>2, OpenIds DEF There, Quiet, Holds
<1>4. ASSUME NEW p \in VaultPaths, Off(s, p)' PROVE Away(s, p)'
  <2>1. Off(s, p) /\ p \in Seq(Components)
    BY <1>1, <1>4 DEF Off, VaultPaths
  <2>2. Away(s, p) /\ Lags(mem, mem', p)
    BY <1>2, <2>1 DEF Holds, Off, Quiet
  <2>3. Begins(p, p)
    BY <2>1, BeginsUp
  <2>4. req[s].op \in Writing => loc[s].fd # Walk(mem', p)
    <3>1. ASSUME req[s].op \in Writing
          PROVE  /\ loc[s].fd \in Ids \cup {None} /\ loc[s].fd # Walk(mem, p)
                 /\ (loc[s].fd # None => mem[loc[s].fd].type # "none")
      BY <1>1, <1>2, <2>2, <3>1, OpenIds DEF Away, Holds, There
    <3> QED BY <1>1, <2>1, <2>2, <2>3, <3>1, StaysAway
  <2>5. req[s].op = "copy" => loc[s].dest # Walk(mem', p)
    <3>1. ASSUME req[s].op = "copy"
          PROVE  /\ loc[s].dest \in Ids \cup {None} /\ loc[s].dest # Walk(mem, p)
                 /\ (loc[s].dest # None => mem[loc[s].dest].type # "none")
      BY <1>1, <1>2, <2>2, <3>1, OpenIds DEF Away, Holds, There
    <3> QED BY <1>1, <2>1, <2>2, <2>3, <3>1, StaysAway
  <2>6. ASSUME req[s].op = "rm", NEW i \in 1..Len(loc[s].frames), NEW q \in Seq(Components), Begins(q, p)
        PROVE  loc[s].frames[i].dir # Walk(mem', q)
    <3>1. loc[s].frames[i].dir \in Ids /\ mem[loc[s].frames[i].dir].type # "none" /\ loc[s].frames[i].dir # Walk(mem, q)
      BY <1>1, <1>2, <2>2, <2>6, OpenIds DEF Away, Holds, There
    <3> QED BY <1>1, <2>2, <2>6, <3>1, StaysAway
  <2> QED BY <1>1, <2>4, <2>5, <2>6 DEF Away
<1>5. pc'[s] = "remove_dir_all" => req'[s].recursive
  BY <1>1, <1>2 DEF Holds
<1> QED BY <1>3, <1>4, <1>5 DEF Holds

(* The handler that acts: a note it has opened is the one at its path.     *)
LEMMA HoldsWriter ==
  ASSUME NEW o, Invariant(o), Invariant(o)', HoldInv, NEW t \in Running, Acts(t), Works(t, o), t \in Running',
         req[t].op \in Writing \cup {"copy"}
  PROVE  Holds(t)'
<1> DEFINE write == req[t].op \in Writing
           h == IF write THEN loc[t].fd ELSE loc[t].dest
           k == IF write THEN loc'[t].fd ELSE loc'[t].dest
           x == IF write THEN Path(t) ELSE To(t)
<1>1. /\ req' = req /\ rivals' = rivals /\ t \in Requests /\ pc'[t] # "done"
      /\ ControlInv(o) /\ FilesInv(o) /\ Shaped(mem') /\ Shaped(mem)
  BY DEF Works, Running, Invariant, FilesInv, Safe
<1>2. Quiet(t) /\ Holds(t) /\ (write <=> req[t].op # "copy")
  BY <1>1, TamesQuiet DEF HoldInv, Writing
<1>3. k = h \/ \E b : Opens(mem', x, k, b)
  <2>1. CASE write
    <3>1. Writes(t)
      BY <1>1, <2>1, WriterTurn
    <3>2. loc'[t].fd = loc[t].fd \/ \E b : Opens(mem', Path(t), loc'[t].fd, b)
      BY <1>1, <3>1 DEF Writes
    <3> QED BY <2>1, <3>2
  <2>2. CASE ~write
    <3>1. req[t].op = "copy"
      BY <1>2, <2>2
    <3>2. loc'[t].dest = loc[t].dest \/ \E b : Opens(mem', To(t), loc'[t].dest, b)
      BY <1>1, <3>1, CopierTurn
    <3> QED BY <2>2, <3>2
  <2> QED BY <2>1, <2>2
<1>4. x \in Seq(Components) /\ \A p \in VaultPaths : ~MayTouch(req[t], p) => x # p
  <2>1. x \in VaultPaths
    <3>1. Ready(req[t], loc[t], pc[t])
      BY <1>1 DEF ControlInv, HandlerInv
    <3>2. req[t].path \in Relative /\ req[t].to \in Relative
      <4>1. req[t] \in Queries /\ req[t].op # "batch_read"
        BY <3>1 DEF Ready, Writing
      <4>2. req[t].path \in Relative
        BY <3>1, <4>1 DEF Ready
      <4> QED BY <4>1, <4>2, QueriesAssumption DEF Relative
    <3> QED BY <3>2, ResolvedInVault DEF Path, To
  <2>2. \A p : ~MayTouch(req[t], p) => x # p
    BY <1>2 DEF MayTouch, Path, To, Writing
  <2> QED BY <2>1, <2>2 DEF VaultPaths
<1>5. /\ h \in Ids \cup {None} /\ (h # None => h \in Held /\ mem[h].type # "none")
  BY <1>1, <1>2, OpenIds DEF Holds, There
<1>6. There(t)' <=> (k # None => mem'[k].type # "none")
  BY <1>1, <1>2 DEF There, Writing
<1>7. ASSUME NEW p PROVE Off(t, p)' <=> Off(t, p)
  BY <1>1 DEF Off
<1>8. ASSUME NEW p PROVE (Away(t, p) <=> h # Walk(mem, p)) /\ (Away(t, p)' <=> k # Walk(mem', p))
  BY <1>1, <1>2 DEF Away, Writing
<1>9. pc'[t] # "remove_dir_all"
  <2>1. Ready(req[t], loc'[t], pc'[t])
    BY <1>1 DEF Works, Turn
  <2> QED BY <1>2, <2>1 DEF Ready, Fits, Reading, Writing
<1>10. \A p \in VaultPaths : ~MovesOnto(req[t], p) /\ p \in Seq(Components)
  BY <1>2 DEF MovesOnto, Writing, VaultPaths
<1> HIDE DEF write, h, k, x
<1>11. CASE k = h
  <2>1. There(t)'
    BY <1>2, <1>5, <1>6, <1>11 DEF Quiet
  <2>2. ASSUME NEW p \in VaultPaths, Off(t, p)' PROVE Away(t, p)'
    <3>1. h # Walk(mem, p) /\ Lags(mem, mem', p) /\ Begins(p, p)
      BY <1>2, <1>7, <1>8, <1>10, <2>2, BeginsUp DEF Holds, Quiet
    <3>2. h # Walk(mem', p)
      BY <1>1, <1>5, <1>10, <3>1, StaysAway
    <3> QED BY <1>8, <1>11, <3>2
  <2> QED BY <1>9, <2>1, <2>2 DEF Holds
<1>12. CASE \E b : Opens(mem', x, k, b)
  <2>1. Walk(mem', x) = k /\ k \in Ids /\ mem'[k].type = "file"
    BY <1>12 DEF Opens
  <2>2. There(t)'
    BY <1>6, <2>1
  <2>3. ASSUME NEW p \in VaultPaths, Off(t, p)' PROVE Away(t, p)'
    <3>1. x # p
      BY <1>4, <1>7, <2>3 DEF Off
    <3>2. k # Walk(mem', p)
      BY <1>1, <1>4, <1>10, <2>1, <3>1, WalkInjective
    <3> QED BY <1>8, <3>2
  <2> QED BY <1>9, <2>2, <2>3 DEF Holds
<1> QED BY <1>3, <1>11, <1>12

(* The folders it empties are at or below its path.                        *)
LEMMA HoldsRemover ==
  ASSUME NEW o, Invariant(o), Invariant(o)', HoldInv, NEW t \in Running, Acts(t), Works(t, o), t \in Running',
         req[t].op = "rm"
  PROVE  Holds(t)'
<1> DEFINE s == loc[t].frames
           u == loc'[t].frames
           x == Path(t)
<1>1. /\ req' = req /\ rivals' = rivals /\ t \in Requests /\ pc'[t] # "done"
      /\ ControlInv(o) /\ FilesInv(o) /\ Shaped(mem') /\ Shaped(mem)
  BY DEF Works, Running, Invariant, FilesInv, Safe
<1>2. Quiet(t) /\ Holds(t) /\ Grips(t) /\ (pc'[t] = "remove_dir_all" => req[t].recursive)
  BY <1>1, TamesQuiet, RemoverTurn DEF HoldInv
<1>3. /\ \A i \in 1..Len(s) : s[i].dir \in Ids /\ s[i].dir \in Held /\ mem[s[i].dir].type # "none"
      /\ u \in Seq(Frames(o)) /\ \A i \in 1..Len(u) : u[i].dir \in Ids
  <2>1. \A i \in 1..Len(s) : s[i].dir \in Ids /\ s[i].dir \in Held /\ mem[s[i].dir].type # "none"
    BY <1>1, <1>2, OpenIds DEF Holds, There
  <2>2. IsLoc(loc'[t], o)
    BY <1>1 DEF Works, Turn
  <2>3. u \in Seq(Frames(o))
    BY <2>2 DEF IsLoc
  <2>4. \A i \in 1..Len(u) : u[i].dir \in Ids
    <3> HIDE DEF u
    <3>1. \A i \in 1..Len(u) : u[i] \in Frames(o)
      BY <2>3
    <3> QED BY <3>1 DEF Frames
  <2> QED BY <2>1, <2>3, <2>4
<1>4. x \in Seq(Components)
  <2>1. Ready(req[t], loc[t], pc[t])
    BY <1>1 DEF ControlInv, HandlerInv
  <2>2. req[t].path \in Relative
    BY <2>1 DEF Ready, Fits, Reading
  <2> QED BY <2>2, ResolvedInVault DEF Path, VaultPaths
<1>5. ASSUME NEW i \in 1..Len(u)
      PROVE  \/ \E j \in 1..Len(s) : u[i].dir = s[j].dir
             \/ mem' = mem /\ pc[t] = "remove_dir_all" /\ u[i].dir = Walk(mem, x)
             \/ mem' = mem /\ \E j \in 1..Len(s), c \in Components : LeadsTo(mem, s[j].dir, c, u[i].dir)
  BY <1>2 DEF Grips
<1>6. ASSUME NEW i \in 1..Len(u) PROVE mem'[u[i].dir].type # "none"
  <2>1. CASE \E j \in 1..Len(s) : u[i].dir = s[j].dir
    BY <1>2, <1>3, <2>1 DEF Quiet
  <2>2. CASE mem' = mem /\ u[i].dir = Walk(mem, x)
    <3>1. mem[Walk(mem, x)].type \in {"dir", "file"}
      BY <1>1, <1>3, <1>4, <2>2, WalkThere
    <3> QED BY <2>2, <3>1
  <2>3. CASE mem' = mem /\ \E j \in 1..Len(s), c \in Components : LeadsTo(mem, s[j].dir, c, u[i].dir)
    <3>1. \A d \in Ids : \A c \in Names(mem, d) : mem[mem[d].at[c]].type # "none"
      BY <1>1 DEF Shaped
    <3> QED BY <2>3, <3>1 DEF LeadsTo
  <2> QED BY <1>5, <2>1, <2>2, <2>3
<1>7. There(t)'
  BY <1>1, <1>6 DEF There, Writing
<1>8. ASSUME NEW p \in VaultPaths, Off(t, p)', NEW i \in 1..Len(u), NEW q \in Seq(Components), Begins(q, p)
      PROVE  u[i].dir # Walk(mem', q)
  <2>1. Off(t, p) /\ p \in Seq(Components)
    BY <1>1, <1>8 DEF Off, VaultPaths
  <2>2. /\ Lags(mem, mem', p) /\ \A j \in 1..Len(s), y \in Seq(Components) : Begins(y, p) => s[j].dir # Walk(mem, y)
    BY <1>2, <2>1 DEF Holds, Away, Quiet, MovesOnto
  <2> HIDE DEF s, u, x
  <2>3. CASE \E j \in 1..Len(s) : u[i].dir = s[j].dir
    BY <1>1, <1>3, <1>8, <2>2, <2>3, StaysAway
  <2>4. CASE mem' = mem /\ pc[t] = "remove_dir_all" /\ u[i].dir = Walk(mem, x)
    <3>1. ~Begins(x, p)
      <4>1. req[t].recursive
        BY <1>2, <2>4 DEF Holds
      <4>2. ~IsPrefix(x, p)
        BY <2>1, <4>1 DEF Off, MayTouch, x, Path
      <4> QED BY <1>4, <2>1, <4>2, PrefixIs
    <3>2. x # q
      BY <1>8, <3>1
    <3> QED BY <1>1, <1>3, <1>4, <1>8, <2>4, <3>2, WalkInjective
  <2>5. CASE mem' = mem /\ \E j \in 1..Len(s), c \in Components : LeadsTo(mem, s[j].dir, c, u[i].dir)
    <3> SUFFICES ASSUME u[i].dir = Walk(mem, q) PROVE FALSE
      BY <2>5
    <3>1. PICK j \in 1..Len(s), c \in Components : LeadsTo(mem, s[j].dir, c, Walk(mem, q))
      BY <2>5
    <3>2. q # <<>>
      <4>1. Walk(mem, q) # Top
        BY <1>1, <3>1 DEF LeadsTo, Shaped
      <4> QED BY <4>1, WalkEmpty
    <3>3. LeadsTo(mem, Walk(mem, Front(q)), Last(q), Walk(mem, q))
      <4>1. Walk(mem, q) \in Ids
        BY <1>3
      <4> QED BY <1>1, <3>2, <4>1, LastLook, IdsAssumption
    <3>4. s[j].dir = Walk(mem, Front(q))
      <4>1. \A d, e \in Ids : \A y \in Names(mem, d), z \in Names(mem, e) : mem[d].at[y] = mem[e].at[z] => d = e
        BY <1>1 DEF Shaped
      <4> QED BY <3>1, <3>3, <4>1 DEF LeadsTo
    <3>5. Front(q) \in Seq(Components) /\ Begins(Front(q), p)
      BY <1>8, <2>1, <3>2, BeginsUp, BeginsOn
    <3> QED BY <2>2, <3>4, <3>5
  <2> QED BY <1>5, <2>3, <2>4, <2>5
<1>9. ASSUME NEW p \in VaultPaths, Off(t, p)' PROVE Away(t, p)'
  <2>1. \A i \in 1..Len(u), q \in Seq(Components) : Begins(q, p) => u[i].dir # Walk(mem', q)
    BY <1>8, <1>9
  <2> QED BY <1>1, <2>1 DEF Away, Writing
<1> QED BY <1>1, <1>2, <1>7, <1>9 DEF Holds

(* So that it holds nothing that could be moved.                           *)
LEMMA BeginHolds ==
  ASSUME NEW o, Invariant(o), Invariant(o)', NEW t \in Requests, NEW q \in Queries, Begin(t, q), t \in Running'
  PROVE  Holds(t)'
<1>1. pc'[t] = FirstCall(q) /\ loc'[t].fd = None /\ loc'[t].dest = None /\ loc'[t].frames = <<>>
  BY BeginLoc
<1>2. FirstCall(q) # "remove_dir_all"
  BY QueriesAssumption DEF FirstCall, Operations
<1>3. Len(loc'[t].frames) = 0
  BY <1>1
<1>4. There(t)'
  BY <1>1, <1>3 DEF There
<1>5. ASSUME NEW p \in VaultPaths PROVE Away(t, p)'
  <2>1. Shaped(mem')
    BY DEF Invariant, FilesInv, Safe
  <2>2. Walk(mem', p) # None
    BY <2>1, WalkIs, IdsAssumption DEF VaultPaths
  <2> QED BY <1>1, <1>3, <2>2 DEF Away
<1> QED BY <1>1, <1>2, <1>4, <1>5 DEF Holds

(* What is open, in one step.                                              *)
LEMMA HoldStays ==
  ASSUME NEW o, Invariant(o), RivalsInv, HoldInv, [Next]_vars
  PROVE  HoldInv'
<1>0. FilesInv(o) /\ ControlInv(o) /\ Shapes /\ Invariant(o)' /\ \A r \in Requests : rivals[r] \subseteq Requests \ {r}
  BY StepKeeps DEF Invariant, ControlInv, HandlerInv
<1> SUFFICES ASSUME NEW s \in Running' PROVE Holds(s)'
  BY DEF HoldInv
<1>1. s \in Requests /\ pc'[s] \notin {"idle", "done", "lost"}
  BY DEF Running
<1>2. ASSUME NEW t \in Requests, NEW q \in Queries, Begin(t, q) PROVE Holds(s)'
  <2>1. CASE s = t
    BY <1>0, <1>2, <2>1, BeginHolds
  <2>2. CASE s # t
    <3>1. Turn(t, q, o)
      BY <1>0, <1>2, BeginTurns
    <3>2. pc[t] = "idle" /\ mem' = mem /\ req' = [req EXCEPT ![t] = q]
      BY <1>2 DEF Begin
    <3>3. rivals'[s] = IF req[s] # None THEN rivals[s] \cup {t} ELSE {}
      BY <1>1, <1>2, <2>2 DEF Begin
    <3>4. (\A u \in Requests \ {t} : req'[u] = req[u]) /\ pc'[s] = pc[s] /\ loc'[s] = loc[s]
      BY <1>0, <1>1, <2>2, <3>1, <3>2 DEF Turn, Shapes
    <3>5. s \in Running /\ Holds(s)
      BY <1>1, <3>4 DEF Running, HoldInv
    <3>6. \A u \in rivals[s] : u \in rivals'[s] /\ req'[u] = req[u]
      BY <1>0, <1>1, <3>2, <3>3, <3>4 DEF RivalsInv
    <3>7. req'[s] = req[s]
      BY <1>1, <2>2, <3>4
    <3>8. \A p : Off(s, p)' => Off(s, p)
      BY <3>6, <3>7 DEF Off
    <3>9. \A p : Away(s, p) => Away(s, p)'
      BY <3>2, <3>4, <3>7 DEF Away
    <3>10. There(s)'
      BY <3>2, <3>4, <3>5, <3>7 DEF There, Holds
    <3> QED BY <3>4, <3>5, <3>7, <3>8, <3>9, <3>10 DEF Holds
  <2> QED BY <2>1, <2>2
<1>3. ASSUME NEW t \in Requests, Acts(t), Works(t, o) PROVE Holds(s)'
  <2>1. req' = req /\ Turn(t, req[t], o) /\ t \in Running
    BY <1>3 DEF Works
  <2>2. CASE s # t
    <3>1. s \in Running
      BY <1>1, <2>1, <2>2 DEF Turn, Running
    <3> QED BY <1>0, <1>3, <2>2, <3>1, HoldsBeside
  <2>3. CASE s = t /\ req[t].op \in Writing \cup {"copy"}
    BY <1>0, <1>3, <2>1, <2>3, HoldsWriter
  <2>4. CASE s = t /\ req[t].op = "rm"
    BY <1>0, <1>3, <2>1, <2>4, HoldsRemover
  <2>5. CASE s = t /\ req[t].op \notin Writing \cup {"copy", "rm"}
    <3>1. Ready(req[t], loc'[t], pc'[t])
      BY <1>1, <2>1, <2>5 DEF Turn
    <3>2. pc'[t] # "remove_dir_all"
      BY <2>5, <3>1 DEF Ready, Fits, Reading
    <3>3. There(t)' /\ \A p \in VaultPaths : Away(t, p)'
      BY <2>1, <2>5 DEF There, Away
    <3> QED BY <2>5, <3>2, <3>3 DEF Holds
  <2> QED BY <2>2, <2>3, <2>4, <2>5
<1>4. CASE WriteBack \/ UNCHANGED vars
  <2>1. mem' = mem /\ pc' = pc /\ loc' = loc /\ req' = req /\ rivals' = rivals
    BY <1>4 DEF WriteBack, vars
  <2>2. Holds(s)
    BY <1>1, <2>1 DEF HoldInv, Running
  <2> QED BY <2>1, <2>2 DEF Holds, There, Off, Away
<1>5. CASE Crash
  <2>1. pc'[s] = IF s \in Running THEN "lost" ELSE pc[s]
    BY <1>1, <1>5 DEF Crash
  <2> QED BY <1>1, <2>1 DEF Running
<1> QED BY <1>2, <1>3, <1>4, <1>5, NextIs

(* The bytes of a request that have reached its note, and those that have  *)
(* reached the disk, under whatever name.                                  *)
Stores(m, id, r) == m[id].type = "file" /\ Good(r, m[id].bytes)
Kept(r) ==
  pc[r] \in {"write_all", "sync_all", "size"} \/ (Succeeded(r, Writing) /\ r \notin dropped) =>
    \E id, b :
      /\ Path(r) \in VaultPaths /\ Opens(mem, Path(r), id, b) /\ (pc[r] # "done" => loc[r].fd = id)
      /\ IF pc[r] = "write_all" THEN req[r].op = "write" => b = <<>> ELSE Good(r, b)
      /\ pc[r] \in {"size", "done"} => Stores(disk, id, r)
KeptInv ==
  /\ ~crashed => dropped = {}
  /\ \A r \in Requests : pc[r] # "idle" /\ req[r].op \in Writing /\ Calm(r) => Kept(r)

(* What is appended is at the end.                                         *)
LEMMA AtTheEnd ==
  ASSUME NEW S, NEW b \in Seq(S), NEW c \in Seq(S)
  PROVE  IsSuffix(c, b \o c)
<1> DEFINE a == b \o c
           x == Reverse(c)
           y == Reverse(a)
<1>1. a \in Seq(S) /\ Len(a) = Len(b) + Len(c) /\ Len(b) \in Nat /\ Len(c) \in Nat
  OBVIOUS
<1>2. \A i \in 1..Len(c) : a[Len(b) + i] = c[i]
  OBVIOUS
<1> HIDE DEF a
<1>3. x \in Seq(S) /\ Len(x) = Len(c) /\ \A i \in 1..Len(c) : x[i] = c[(Len(c) - i) + 1]
  BY <1>1 DEF Reverse
<1>4. y \in Seq(S) /\ Len(y) = Len(a) /\ \A i \in 1..Len(a) : y[i] = a[(Len(a) - i) + 1]
  BY <1>1 DEF Reverse
<1> HIDE DEF x, y
<1>5. ASSUME NEW i \in 1..Len(c) PROVE x[i] = y[i]
  <2>1. (Len(c) - i) + 1 \in 1..Len(c) /\ (Len(a) - i) + 1 = Len(b) + ((Len(c) - i) + 1) /\ i \in 1..Len(a)
    BY <1>1
  <2> QED BY <1>2, <1>3, <1>4, <2>1
<1>6. Begins(x, y)
  BY <1>1, <1>3, <1>4, <1>5 DEF Begins
<1>7. IsPrefix(x, y)
  BY <1>3, <1>4, <1>6, PrefixIs
<1> QED BY <1>7 DEF IsSuffix, x, y, a

(* What a request writes to an empty note, or adds to one, is there.       *)
LEMMA WrittenGood ==
  ASSUME NEW r \in Requests, req[r].size \in Nat, NEW b \in Seq(Bytes), req[r].op \in Writing, req[r].op = "write" => b = <<>>
  PROVE  LET new == SubSeq(Content(r), 1, req[r].size)
         IN  Good(r, IF req[r].op = "append" THEN b \o new ELSE Overlay(b, 0, new))
<1> DEFINE c == Content(r)
           n == req[r].size
           new == SubSeq(c, 1, n)
<1>1. c \in Seq(Bytes) /\ Len(c) = n /\ n \in Nat
  BY ContentIs
<1> HIDE DEF c, n
<1>2. new \in Seq(Bytes) /\ Len(new) = n /\ \A i \in 1..n : new[i] = c[i]
  BY <1>1, FirstOnes
<1> HIDE DEF new
<1>3. new = c
  BY <1>1, <1>2, SeqEqual
<1>4. CASE req[r].op = "append"
  <2>1. IsSuffix(c, b \o new)
    BY <1>1, <1>3, AtTheEnd
  <2> QED BY <1>4, <2>1 DEF Good, c, n, new
<1>5. CASE req[r].op = "write"
  <2>1. b = <<>> /\ Len(b) = 0 /\ Len(new) + 1 > 0
    BY <1>1, <1>2, <1>5
  <2>2. SubSeq(b, 0 + Len(new) + 1, Len(b)) = <<>>
    BY <1>1, <1>2, <2>1
  <2> DEFINE zeros == [i \in 1..0 |-> Zero]
  <2>3. SubSeq(b \o zeros, 1, 0) = <<>>
    OBVIOUS
  <2>4. <<>> \o new \o <<>> = new
    BY <1>2
  <2>5. Overlay(b, 0, new) = SubSeq(b \o zeros, 1, 0) \o new \o SubSeq(b, 0 + Len(new) + 1, Len(b))
    BY DEF Overlay
  <2>6. Overlay(b, 0, new) = c
    BY <1>3, <2>2, <2>3, <2>4, <2>5
  <2> QED BY <1>5, <2>6 DEF Good, c, n, new
<1> QED BY <1>4, <1>5 DEF Writing

(* A path that leads to a note leads to it on what is collected.           *)
LEMMA CollectOpens ==
  ASSUME NEW o, NEW m, Safe(m, o), NEW held \in SUBSET Ids, NEW x \in VaultPaths, NEW id, NEW b, Opens(m, x, id, b)
  PROVE  Opens(Collect(m, held), x, id, b)
<1>1. Leads(m, Collect(m, held), x)
  BY CollectWalks DEF VaultPaths
<1> QED BY <1>1 DEF Leads, Opens

(* What a request has written stays on the disk when files are flushed.    *)
LEMMA FlushedStores ==
  ASSUME NEW r, NEW x, NEW id, NEW b, Opens(mem, x, id, b), Good(r, b), Stores(disk, id, r), NEW ids
  PROVE  Stores(Flushed(ids), id, r)
<1>1. id \in Ids /\ mem[id].type = "file" /\ Good(r, mem[id].bytes)
  BY DEF Opens
<1>2. Flushed(ids)[id] = mem[id] \/ Flushed(ids)[id] = disk[id]
  BY <1>1 DEF Flushed
<1> QED BY <1>1, <1>2 DEF Stores

(* The same of the names: they lead to the note as they do in memory.      *)
LEMMA JournaledStores ==
  ASSUME NEW o, FilesInv(o), NEW r, NEW x \in VaultPaths, NEW id, NEW b, Opens(mem, x, id, b), Good(r, b),
         Stores(disk, id, r), NEW files
  PROVE  Stores(Collect(Journaled(files), {}), id, r)
<1> DEFINE n == Journaled(files)
<1>1. Safe(n, o) /\ Shaped(n) /\ Shaped(mem) /\ IsFs(mem)
  <2>1. Safe(n, o) /\ Safe(mem, o)
    BY JournaledSafe DEF FilesInv
  <2> HIDE DEF n
  <2> QED BY <2>1 DEF Safe, Shaped
<1>2. \A e \in Ids : n[e] = IF e \in files \/ mem[e].type # "file" THEN mem[e]
                            ELSE IF disk[e].type = "none" THEN Note(<<>>) ELSE disk[e]
  BY DEF Journaled
<1> HIDE DEF n
<1>3. Strays(n, mem, {})
  <2> SUFFICES ASSUME NEW e \in Ids, NEW y \in Names(mem, e) PROVE n[e] = mem[e]
    BY DEF Strays, Names
  <2>1. mem[e].type = "dir"
    BY <1>1, EntriesAreIds
  <2> QED BY <1>2, <2>1
<1>4. id \in Ids /\ mem[id].type = "file" /\ mem[id].bytes = b /\ Walk(mem, x) = id /\ x \in Seq(Components)
  BY DEF VaultPaths, Opens
<1>5. Walk(n, x) = id
  BY <1>1, <1>3, <1>4, StrayWalk, MeetsNone
<1>6. Stores(n, id, r)
  <2>1. n[id] = mem[id] \/ n[id] = disk[id]
    BY <1>2, <1>4 DEF Stores
  <2> QED BY <1>4, <2>1 DEF Stores
<1>7. Opens(n, x, id, n[id].bytes)
  BY <1>4, <1>5, <1>6 DEF Opens, Stores
<1>8. Opens(Collect(n, {}), x, id, n[id].bytes)
  BY <1>1, <1>7, CollectOpens
<1> QED BY <1>6, <1>8 DEF Stores, Opens, n

(* The bytes of a request, in its note.                                    *)
LEMMA WriteAllOpens ==
  ASSUME NEW o, Invariant(o), FullInv, NEW r \in Requests, WriteAll(r), req[r].op \in Writing,
         NEW id, NEW b, Opens(mem, Path(r), id, b), loc[r].fd = id, req[r].op = "write" => b = <<>>
  PROVE  \E c : Opens(mem', Path(r), id, c) /\ Good(r, c)
<1> DEFINE x == Path(r)
           new == SubSeq(Content(r), 1, req[r].size)
           c == IF req[r].op = "append" THEN b \o new ELSE Overlay(b, 0, new)
           n == WithBytes(mem, id, c)
<1>1. FilesInv(o) /\ ControlInv(o) /\ Shaped(mem) /\ IsFs(mem) /\ id \in Ids /\ Held \in SUBSET Ids
  BY HeldIds DEF Invariant, FilesInv, Safe, Shaped, Opens
<1>2. Busy(r, "write_all", o)
  BY <1>1, Busies DEF WriteAll
<1>3. x \in VaultPaths /\ x \in Seq(Components)
  BY <1>2, PathsStay DEF VaultPaths
<1>4. b \in Seq(Bytes) /\ req[r].size \in Nat
  BY <1>1, <1>2, QueriesAssumption DEF Opens, FullInv, Full, Filled, Busy, Ready
<1>5. Good(r, c)
  BY <1>4, WrittenGood
<1>6. mem' = Collect(n, Held)
  BY DEF WriteAll, Store, Written, Opens
<1>7. Touched(mem, id, n) /\ n[id].bytes = c /\ Safe(n, o)
  <2> HIDE DEF c
  <2>1. Touched(mem, id, n) /\ n[id].bytes = c
    BY <1>1, WithBytesIs, NewBytes
  <2>2. id \in Handles(o)
    BY <1>2 DEF Busy, IsLoc
  <2>3. Fair(n, o)
    BY <1>1, <2>2, WithBytesFair
  <2> QED BY <2>1, <2>3 DEF Fair
<1> HIDE DEF n, c
<1>8. Strays(n, mem, {})
  BY <1>7 DEF Strays, Touched, Names
<1>9. Walk(n, x) = id
  <2>1. Shaped(n) /\ Walk(mem, x) = id
    BY <1>7 DEF Safe, Opens
  <2> QED BY <1>1, <1>3, <1>8, <2>1, StrayWalk, MeetsNone
<1>10. Opens(n, x, id, c)
  BY <1>1, <1>7, <1>9 DEF Opens, Touched
<1>11. Opens(mem', x, id, c)
  BY <1>1, <1>3, <1>6, <1>7, <1>10, CollectOpens
<1> QED BY <1>5, <1>11

(* Who else acts leaves the note of a request that nobody asks for.        *)
LEMMA KeptBeside ==
  ASSUME NEW o, Invariant(o), RivalsInv, HoldInv, KeptInv, NEW t \in Requests, Acts(t), Works(t, o), dropped' = dropped,
         NEW r \in Requests, r # t, pc[r] # "idle", req[r].op \in Writing, Calm(r)
  PROVE  Kept(r)'
<1> DEFINE x == Path(r)
<1>1. /\ FilesInv(o) /\ ControlInv(o) /\ t \in Running /\ req' = req /\ rivals' = rivals /\ Files(t, o)
      /\ pc'[r] = pc[r] /\ loc'[r] = loc[r] /\ answer'[r] = answer[r]
  BY DEF Invariant, Works, Turn
<1>2. Kept(r) /\ t \in rivals[r] /\ Quiet(t)
  BY <1>1, TamesQuiet DEF KeptInv, RivalsInv
<1>3. Succeeded(r, Writing)' <=> Succeeded(r, Writing)
  BY <1>1 DEF Succeeded
<1> SUFFICES ASSUME pc[r] \in {"write_all", "sync_all", "size"} \/ (Succeeded(r, Writing) /\ r \notin dropped)
             PROVE  Kept(r)'
  BY <1>1, <1>3 DEF Kept
<1>4. PICK id, b : /\ x \in VaultPaths /\ Opens(mem, x, id, b) /\ (pc[r] # "done" => loc[r].fd = id)
                   /\ IF pc[r] = "write_all" THEN req[r].op = "write" => b = <<>> ELSE Good(r, b)
                   /\ pc[r] \in {"size", "done"} => Stores(disk, id, r)
  BY <1>2 DEF Kept
<1>5. x \in VaultPaths
  BY <1>4
<1> HIDE DEF x
<1>6. ~MayTouch(req[t], x) /\ Away(t, x)
  <2>1. ~MayTouch(req[t], x) /\ (req[t].op \in Keeping => \A u \in rivals[t] : ~MovesOnto(req[u], x))
    BY <1>2 DEF Calm, x
  <2>2. CASE req[t].op \in Keeping
    BY <1>1, <1>5, <2>1, <2>2 DEF HoldInv, Holds, Off
  <2>3. CASE req[t].op \notin Keeping
    BY <2>1, <2>3 DEF Away, Keeping, Writing
  <2> QED BY <2>1, <2>2, <2>3
<1>7. Opens(mem', x, id, b)
  <2>1. Still(mem, mem', x)
    BY <1>2, <1>5, <1>6 DEF Quiet
  <2> QED BY <1>4, <2>1 DEF Still, Opens, IsDir
<1>8. ASSUME pc[r] \in {"size", "done"} PROVE Stores(disk', id, r)
  <2>1. Stores(disk, id, r) /\ Good(r, b)
    BY <1>4, <1>8
  <2>2. ASSUME NEW ids, disk' = Flushed(ids) PROVE Stores(disk', id, r)
    BY <1>4, <2>1, <2>2, FlushedStores
  <2>3. disk' = disk \/ \E ids : disk' = Flushed(ids)
    BY <1>1 DEF Files, AtRest, Store
  <2> QED BY <2>1, <2>2, <2>3
<1>9. \A c : Good(r, c)' <=> Good(r, c)
  BY <1>1 DEF Good, Content
<1>10. Path(r)' = x
  BY <1>1 DEF Path, x
<1>11. IF pc'[r] = "write_all" THEN req'[r].op = "write" => b = <<>> ELSE Good(r, b)'
  BY <1>1, <1>4, <1>9
<1>12. (pc'[r] # "done" => loc'[r].fd = id) /\ (pc'[r] \in {"size", "done"} => Stores(disk, id, r)')
  BY <1>1, <1>4, <1>8, <1>9 DEF Stores
<1> QED BY <1>5, <1>7, <1>10, <1>11, <1>12 DEF Kept

(* The handler of the write itself.                                        *)
LEMMA KeptTurn ==
  ASSUME NEW o, Invariant(o), FullInv, KeptInv, NEW r \in Requests, Acts(r), Works(r, o), req[r].op \in Writing, Calm(r)
  PROVE  Kept(r)'
<1> DEFINE x == Path(r)
<1>1. FilesInv(o) /\ ControlInv(o) /\ r \in Running /\ req' = req /\ pc[r] \notin {"idle", "done"}
  BY DEF Invariant, Works, KeptInv, Running
<1>2. Writes(r) /\ Kept(r) /\ Ready(req[r], loc[r], pc[r])
  BY <1>1, WriterTurn DEF KeptInv, ControlInv, HandlerInv
<1>3. x \in VaultPaths
  <2>1. req[r].path \in Relative
    BY <1>2 DEF Ready, Fits, Reading, Writing
  <2> QED BY <2>1, ResolvedInVault DEF Path
<1>4. /\ \A c : Good(r, c)' <=> Good(r, c)
      /\ Path(r)' = x
  BY <1>1 DEF Good, Content, Path
<1>5. ASSUME pc[r] \in {"write_all", "sync_all", "size"}
      PROVE  \E b : /\ Opens(mem, x, loc[r].fd, b)
                    /\ IF pc[r] = "write_all" THEN req[r].op = "write" => b = <<>> ELSE Good(r, b)
                    /\ pc[r] = "size" => Stores(disk, loc[r].fd, r)
  BY <1>1, <1>2, <1>5 DEF Kept
<1> HIDE DEF x
<1>6. CASE pc'[r] \in {"mkdirs", "create"} \/ (pc'[r] = "done" /\ answer'[r].err # None)
  BY <1>6 DEF Kept, Succeeded
<1>7. CASE pc'[r] = "write_all" /\ \E b : Opens(mem', x, loc'[r].fd, b) /\ (req[r].op = "write" => b = <<>>)
  BY <1>1, <1>3, <1>4, <1>7 DEF Kept
<1>8. CASE WriteAll(r) /\ pc'[r] = "sync_all" /\ loc'[r].fd = loc[r].fd
  <2>1. pc[r] = "write_all"
    BY <1>8 DEF WriteAll, At
  <2>2. PICK b : Opens(mem, x, loc[r].fd, b) /\ (req[r].op = "write" => b = <<>>)
    BY <1>5, <2>1
  <2>3. \E c : Opens(mem', x, loc[r].fd, c) /\ Good(r, c)
    BY <1>1, <1>8, <2>2, WriteAllOpens DEF x
  <2> QED BY <1>3, <1>4, <1>8, <2>3 DEF Kept
<1>9. CASE SyncAll(r) /\ (pc'[r] = "done" \/ (pc'[r] = "size" /\ loc'[r].fd = loc[r].fd))
  <2>1. pc[r] = "sync_all" /\ mem' = mem /\ disk' = Flushed({loc[r].fd})
    BY <1>9 DEF SyncAll, At
  <2>2. PICK b : Opens(mem, x, loc[r].fd, b) /\ Good(r, b)
    BY <1>5, <2>1
  <2>3. Stores(disk', loc[r].fd, r)
    BY <2>1, <2>2 DEF Flushed, Opens, Stores
  <2>4. Stores(disk, loc[r].fd, r)' <=> Stores(disk', loc'[r].fd, r)
    BY <1>4 DEF Stores
  <2>5. Opens(mem', x, loc[r].fd, b)
    BY <2>1, <2>2
  <2> HIDE DEF Stores
  <2> QED BY <1>1, <1>3, <1>4, <1>9, <2>2, <2>3, <2>5 DEF Kept, Stores
<1>10. CASE ReadBack(r) /\ pc'[r] = "done"
  <2>1. pc[r] = "size" /\ mem' = mem /\ disk' = disk
    BY <1>10 DEF ReadBack, At, Same
  <2>2. PICK b : Opens(mem, x, loc[r].fd, b) /\ Good(r, b) /\ Stores(disk, loc[r].fd, r)
    BY <1>5, <2>1
  <2>3. Opens(mem', x, loc[r].fd, b) /\ Stores(disk', loc[r].fd, r)
    BY <2>1, <2>2
  <2> QED BY <1>3, <1>4, <1>10, <2>2, <2>3 DEF Kept, Stores
<1> QED BY <1>2, <1>6, <1>7, <1>8, <1>9, <1>10 DEF Writes, x

(* What a crash has done nobody else does.                                 *)
LEMMA ActsLose ==
  ASSUME NEW t, Acts(t)
  PROVE  crashed' = crashed /\ dropped' = dropped
<1>1. CASE \/ MakeDirs(t) \/ Create(t) \/ OpenAppend(t) \/ WriteAll(t) \/ WriteFails(t)
           \/ SyncAll(t) \/ ReadBack(t) \/ OpenSource(t) \/ CreateDest(t) \/ Transfer(t)
  BY <1>1 DEF At, MakeDirs, Create, OpenAppend, WriteAll, WriteFails, SyncAll, ReadBack, OpenSource, CreateDest, Transfer
<1>2. CASE \/ Mkdir(t) \/ Move(t) \/ Utimes(t) \/ UnlinkFile(t) \/ Rmdir(t) \/ Lstat(t)
           \/ RemoveFile(t) \/ RemoveDir(t, "remove_dir") \/ OpenTree(t) \/ RemoveChild(t) \/ RemoveEmptied(t)
  BY <1>2 DEF At, Mkdir, Move, Utimes, UnlinkFile, Rmdir, Lstat, RemoveFile, RemoveDir, OpenTree, RemoveChild,
     RemoveEmptied
<1>3. CASE \/ Stat(t) \/ Access(t) \/ Metadata(t) \/ OpenNote(t) \/ Read(t) \/ ReadDir(t)
           \/ ZipWalk(t) \/ BatchRead(t) \/ CallFails(t)
  BY <1>3 DEF At, Stat, Access, Metadata, OpenNote, Read, ReadUpTo, ReadDir, ZipWalk, BatchRead, CallFails
<1> QED BY <1>1, <1>2, <1>3 DEF Acts

(* Acknowledged writes, in one step.                                       *)
LEMMA KeptStays ==
  ASSUME NEW o, Invariant(o), FullInv, RivalsInv, HoldInv, KeptInv, [Next]_vars
  PROVE  KeptInv'
<1>0. /\ FilesInv(o) /\ ControlInv(o) /\ Shapes
      /\ \A r \in Requests : rivals[r] \subseteq Requests \ {r}
  BY DEF Invariant, ControlInv, HandlerInv
<1>9. ~crashed' => dropped' = {}
  <2>1. \/ crashed' = crashed /\ dropped' = dropped
        \/ crashed' = TRUE
    <3>1. CASE \E t \in Requests : Acts(t)
      BY <3>1, ActsLose
    <3>2. CASE \E t \in Requests, q \in Queries : Begin(t, q)
      BY <3>2 DEF Begin
    <3>3. CASE WriteBack \/ Crash \/ UNCHANGED vars
      BY <3>3 DEF WriteBack, Crash, vars
    <3> QED BY <3>1, <3>2, <3>3, NextIs
  <2> QED BY <2>1 DEF KeptInv
<1> SUFFICES ASSUME NEW r \in Requests, pc'[r] # "idle", req'[r].op \in Writing, Calm(r)' PROVE Kept(r)'
  BY <1>9 DEF KeptInv
<1>1. ASSUME NEW t \in Requests, NEW q \in Queries, Begin(t, q) PROVE Kept(r)'
  <2>1. CASE r = t
    <3>1. CASE pc'[r] = "done" /\ answer'[r].err # None
      BY <3>1 DEF Kept, Succeeded
    <3>2. CASE r \in Running'
      <4>1. pc'[r] = FirstCall(q)
        BY <1>1, <2>1, <3>2, BeginLoc
      <4>2. pc'[r] \notin {"write_all", "sync_all", "size"}
        BY <4>1, QueriesAssumption DEF FirstCall, Operations
      <4>3. pc'[r] # "done"
        BY <3>2 DEF Running
      <4> QED BY <4>2, <4>3 DEF Kept, Succeeded
    <3>3. (pc'[r] = "done" /\ answer'[r].err # None) \/ r \in Running'
      <4>1. Turn(r, q, o)
        BY <1>0, <1>1, <2>1, BeginTurns
      <4>2. pc'[r] = "done" \/ pc'[r] \notin {"idle", "done", "lost"}
        BY <4>1 DEF Turn, Ready, Fits, Reading
      <4>3. pc'[r] = "done" => answer'[r].err # None
        BY <1>1, <2>1, BeginTold
      <4> QED BY <4>2, <4>3 DEF Running
    <3> QED BY <3>1, <3>2, <3>3
  <2>2. CASE r # t
    <3>1. Turn(t, q, o)
      BY <1>0, <1>1, BeginTurns
    <3>2. pc[t] = "idle" /\ mem' = mem /\ disk' = disk /\ dropped' = dropped /\ req' = [req EXCEPT ![t] = q]
      BY <1>1 DEF Begin
    <3>3. \A s \in Requests \ {t} : rivals'[s] = IF req[s] # None THEN rivals[s] \cup {t} ELSE {}
      BY <1>1 DEF Begin
    <3>4. /\ \A u \in Requests \ {t} : req'[u] = req[u]
          /\ pc'[r] = pc[r] /\ loc'[r] = loc[r] /\ answer'[r] = answer[r]
      BY <1>0, <2>2, <3>1, <3>2 DEF Turn, Shapes
    <3>5. ASSUME NEW s \in Requests, NEW u \in rivals[s]
          PROVE  u \in Requests \ {t} /\ s # t /\ (s # t => u \in rivals'[s] /\ req'[u] = req[u])
      <4>1. pc[u] # "idle" /\ pc[s] # "idle" /\ u \in Requests /\ req[s] # None
        BY <1>0, <3>5 DEF RivalsInv
      <4>2. u # t /\ s # t
        BY <3>2, <4>1
      <4> QED BY <3>3, <3>4, <3>5, <4>1, <4>2
    <3>6. req'[r] = req[r] /\ Path(r)' = Path(r)
      BY <2>2, <3>4 DEF Path
    <3>7. Calm(r)
      <4> SUFFICES ASSUME NEW s \in rivals[r]
                   PROVE  /\ ~MayTouch(req[s], Path(r))
                          /\ req[s].op \in Keeping => \A u \in rivals[s] : ~MovesOnto(req[u], Path(r))
        BY DEF Calm
      <4>1. s \in Requests /\ s \in rivals'[r] /\ req'[s] = req[s]
        BY <2>2, <3>5
      <4>2. /\ ~MayTouch(req'[s], Path(r))
            /\ req'[s].op \in Keeping => \A u \in rivals'[s] : ~MovesOnto(req'[u], Path(r))
        BY <3>6, <4>1 DEF Calm
      <4>3. \A u \in rivals[s] : u \in rivals'[s] /\ req'[u] = req[u]
        BY <3>5, <4>1
      <4> QED BY <4>1, <4>2, <4>3
    <3>8. Kept(r)
      BY <3>4, <3>6, <3>7 DEF KeptInv
    <3>9. \A b : Good(r, b)' <=> Good(r, b)
      BY <3>6 DEF Good, Content
    <3>10. (\A id : Stores(disk, id, r)' <=> Stores(disk, id, r)) /\ (Succeeded(r, Writing)' <=> Succeeded(r, Writing))
      BY <3>2, <3>4, <3>6, <3>9 DEF Stores, Succeeded
    <3>11. \A id, b : Opens(mem, Path(r), id, b)' <=> Opens(mem, Path(r), id, b)
      BY <3>2, <3>6 DEF Opens
    <3> QED BY <3>2, <3>4, <3>6, <3>8, <3>9, <3>10, <3>11 DEF Kept
  <2> QED BY <2>1, <2>2
<1>2. ASSUME req' = req, rivals' = rivals PROVE Calm(r) /\ req[r].op \in Writing
  BY <1>2 DEF Calm, Path
<1>3. ASSUME NEW t \in Requests, Acts(t), Works(t, o) PROVE Kept(r)'
  <2>1. req' = req /\ rivals' = rivals /\ Turn(t, req[t], o)
    BY <1>3 DEF Works
  <2>2. CASE r # t
    <3>1. pc[r] # "idle"
      BY <2>1, <2>2 DEF Turn
    <3> QED BY <1>2, <1>3, <2>1, <2>2, <3>1, KeptBeside, ActsLose
  <2>3. CASE r = t
    BY <1>2, <1>3, <2>1, <2>3, KeptTurn
  <2> QED BY <2>2, <2>3
<1>4. CASE WriteBack
  <2>1. /\ mem' = mem /\ req' = req /\ rivals' = rivals /\ pc' = pc /\ loc' = loc
        /\ answer' = answer /\ dropped' = dropped
        /\ \E files : disk' = Flushed(files) \/ disk' = Collect(Journaled(files), {})
    BY <1>4 DEF WriteBack
  <2>2. Kept(r)
    BY <1>2, <2>1 DEF KeptInv
  <2>3. \A x \in VaultPaths : \A id, b : Opens(mem, x, id, b) /\ Good(r, b) /\ Stores(disk, id, r) => Stores(disk', id, r)
    BY <1>0, <2>1, FlushedStores, JournaledStores
  <2>4. \A m, id : Stores(m, id, r)' <=> Stores(m', id, r)
    BY <2>1 DEF Stores, Good, Content
  <2>5. /\ Path(r)' = Path(r) /\ (\A b : Good(r, b)' <=> Good(r, b))
        /\ Succeeded(r, Writing)' <=> Succeeded(r, Writing)
    BY <2>1 DEF Path, Good, Content, Succeeded
  <2>6. pc[r] \in {"size", "done"} => pc[r] # "write_all"
    OBVIOUS
  <2> QED BY <2>1, <2>2, <2>3, <2>4, <2>5, <2>6 DEF Kept
<1>5. CASE Crash
  <2>1. /\ mem' = Collect(disk, {}) /\ disk' = mem' /\ req' = req /\ rivals' = rivals /\ answer' = answer
        /\ pc'[r] = IF r \in Running THEN "lost" ELSE pc[r]
        /\ r \notin dropped' => ~(pc[r] = "done" /\ req[r].op \in {"write", "append"} /\ Walk(disk, Path(r)) # Walk(mem, Path(r)))
        /\ dropped = {}
    BY <1>5 DEF Crash, KeptInv
  <2>2. CASE r \in Running
    BY <2>1, <2>2 DEF Kept, Succeeded
  <2>3. CASE r \notin Running
    <3>1. Kept(r) /\ pc'[r] = pc[r] /\ pc[r] \in {"idle", "done", "lost"}
      BY <1>2, <2>1, <2>3 DEF KeptInv, Running
    <3>2. Path(r)' = Path(r) /\ (\A b : Good(r, b)' <=> Good(r, b)) /\ (Succeeded(r, Writing)' <=> Succeeded(r, Writing))
      BY <2>1, <3>1 DEF Path, Good, Content, Succeeded
    <3>3. ASSUME Succeeded(r, Writing), r \notin dropped' PROVE Kept(r)'
      <4>1. PICK id, b : /\ Path(r) \in VaultPaths /\ Opens(mem, Path(r), id, b) /\ Stores(disk, id, r)
        BY <2>1, <3>1, <3>3 DEF Kept, Succeeded
      <4>2. Walk(disk, Path(r)) = id /\ id \in Ids
        BY <2>1, <3>3, <4>1 DEF Opens, Succeeded, Writing
      <4>3. Opens(disk, Path(r), id, disk[id].bytes) /\ Good(r, disk[id].bytes)
        BY <4>1, <4>2 DEF Opens, Stores
      <4>4. Opens(mem', Path(r), id, disk[id].bytes)
        BY <1>0, <2>1, <4>1, <4>3, CollectOpens DEF FilesInv
      <4>5. Stores(disk', id, r)
        BY <2>1, <4>3, <4>4 DEF Opens, Stores
      <4>6. Stores(disk, id, r)'
        BY <3>2, <4>5 DEF Stores
      <4>7. pc'[r] = "done"
        BY <3>1, <3>3 DEF Succeeded
      <4> QED BY <3>2, <4>1, <4>3, <4>4, <4>6, <4>7 DEF Kept
    <3>4. CASE ~(Succeeded(r, Writing) /\ r \notin dropped')
      <4>1. ~(Succeeded(r, Writing)' /\ r \notin dropped') /\ pc'[r] \notin {"write_all", "sync_all", "size"}
        BY <3>1, <3>2, <3>4
      <4> QED BY <4>1 DEF Kept
    <3> QED BY <3>3, <3>4
  <2> QED BY <2>2, <2>3
<1>6. CASE UNCHANGED vars
  <2>1. /\ mem' = mem /\ disk' = disk /\ req' = req /\ rivals' = rivals /\ pc' = pc /\ loc' = loc /\ answer' = answer
        /\ dropped' = dropped
    BY <1>6 DEF vars
  <2>2. Kept(r)
    BY <1>2, <2>1 DEF KeptInv
  <2> QED BY <2>1, <2>2 DEF Kept, Succeeded, Stores, Good, Content, Path
<1> QED BY <1>1, <1>3, <1>4, <1>5, <1>6, NextIs

(* "Writes are honest + durable: real bytes to disk + fsync": the bytes of *)
(* an acknowledged write or append are in the note and in its inode on the *)
(* disk for good, whatever others open, move, copy or remove beside it and *)
(* later, whichever of their calls fail and whatever the kernel writes out *)
(* when, as long as none of them asks for the note or has something open   *)
(* that a rename puts in its place.  After a crash the note is there if    *)
(* the path leads to it on the disk; fsync of the note does not promise    *)
(* that, and nothing is said of a path the crash has taken.                *)
THEOREM AckedWritesStay == Spec => []AckedWritesSurvive
<1>1. Init => KnownInv /\ RivalsInv /\ HoldInv /\ KeptInv
  <2> SUFFICES ASSUME Init PROVE KnownInv /\ RivalsInv /\ HoldInv /\ KeptInv
    OBVIOUS
  <2>1. dropped = {} /\ \A r \in Requests : pc[r] = "idle" /\ req[r] = None /\ rivals[r] = {}
    BY DEF Init
  <2>2. Running = {}
    BY <2>1 DEF Running
  <2>3. KnownInv
    BY InitKnows DEF KnownInv
  <2> QED BY <2>1, <2>2, <2>3 DEF RivalsInv, HoldInv, KeptInv
<1>2. Inv /\ KnownInv /\ RivalsInv /\ HoldInv /\ KeptInv /\ [Next]_vars
        => KnownInv' /\ RivalsInv' /\ HoldInv' /\ KeptInv'
  <2> SUFFICES ASSUME Inv, KnownInv, RivalsInv, HoldInv, KeptInv, [Next]_vars
               PROVE  KnownInv' /\ RivalsInv' /\ HoldInv' /\ KeptInv'
    OBVIOUS
  <2>1. PICK o \in Ids : Invariant(o)
    BY DEF Inv
  <2>2. FullInv
    BY DEF KnownInv
  <2>3. RivalsInv' /\ HoldInv' /\ KeptInv'
    BY <2>1, <2>2, RivalsStay, HoldStays, KeptStays
  <2>4. KnownInv'
    BY AllKnown
  <2> QED BY <2>3, <2>4
<1>3. KeptInv => AckedWritesSurvive
  <2> SUFFICES ASSUME KeptInv, NEW r \in Requests, Acked(r), Calm(r), r \notin dropped
               PROVE  LET id == Walk(mem, Path(r)) IN
                      /\ id \notin Errors /\ Good(r, mem[id].bytes)
                      /\ Walk(disk, Path(r)) = id => Good(r, disk[id].bytes)
    BY DEF AckedWritesSurvive
  <2>1. Kept(r) /\ Succeeded(r, Writing)
    BY DEF KeptInv, Acked, Succeeded, Writing
  <2>2. PICK id, b : Opens(mem, Path(r), id, b) /\ Good(r, b) /\ Stores(disk, id, r)
    BY <2>1 DEF Kept, Succeeded
  <2> QED BY <2>2, IdsAssumption DEF Opens, Stores
<1> QED BY <1>1, <1>2, <1>3, InvCorrect, PTL DEF Spec

=============================================================================
