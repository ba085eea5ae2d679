--------------------------- MODULE FsRoutesProofs ---------------------------
(***************************************************************************)
(* No request leaves its vault, a deletion that answers ok found or left   *)
(* the path free, and times are read back, for paths of any length, any    *)
(* number of overlapping requests, failing calls and crashes.              *)
(***************************************************************************)
EXTENDS FsRoutes, SequenceTheorems, FiniteSetTheorems, WellFoundedInduction, TLAPS

(* Induction over the naturals, as a fact about sets.                      *)
LEMMA NatSets ==
  ASSUME NEW S, S \subseteq Nat, 0 \in S, \A n \in S : n + 1 \in S
  PROVE  S = Nat
<1> DEFINE less == {ss \in Nat \X Nat : ss[1] < ss[2]}
           T == Nat \ S
<1> SUFFICES ASSUME T # {} PROVE FALSE
  OBVIOUS
<1>1. IsWellFoundedOn(less, Nat)
  BY NatLessThanWellFounded DEF OpToRel
<1>2. T \subseteq Nat
  OBVIOUS
<1> HIDE DEF less, T
<1>3. PICK m \in T : \A y \in T : ~(<<y, m>> \in less)
  BY <1>1, <1>2, WFMin
<1> USE DEF less, T
<1>4. m - 1 \in Nat
  BY <1>3
<1>5. <<m - 1, m>> \in less
  BY <1>3, <1>4
<1> QED BY <1>3, <1>4, <1>5


(* A path without its last component.                                      *)
LEMMA FrontIs ==
  ASSUME NEW S, NEW s \in Seq(S), s # <<>>
  PROVE  /\ Len(s) - 1 \in Nat /\ Front(s) \in Seq(S) /\ Len(Front(s)) = Len(s) - 1
         /\ \A k \in 1..(Len(s) - 1) : Front(s)[k] = s[k]
<1> DEFINE to == Len(s) - 1
<1>1. Len(s) \in Nat /\ to \in Nat
  OBVIOUS
<1>2. \A k \in 1..to : s[k] \in S
  BY <1>1, ElementOfSeq
<1>3. Front(s) = SubSeq(s, 1, to)
  BY DEF Front
<1> HIDE DEF to
<1>4. /\ SubSeq(s, 1, to) \in Seq(S)
      /\ Len(SubSeq(s, 1, to)) = IF 1 <= to THEN to - 1 + 1 ELSE 0
      /\ \A k \in 1..(to - 1 + 1) : SubSeq(s, 1, to)[k] = s[1 + k - 1]
  BY <1>1, <1>2, SubSeqProperties
<1>5. to - 1 + 1 = to /\ \A k \in 1..to : 1 + k - 1 = k
  BY <1>1
<1>6. Len(SubSeq(s, 1, to)) = to
  BY <1>1, <1>4
<1>7. \A k \in 1..to : SubSeq(s, 1, to)[k] = s[k]
  BY <1>4, <1>5
<1> QED BY <1>1, <1>3, <1>4, <1>6, <1>7 DEF to

-----------------------------------------------------------------------------
(* The calls of UnixFs, inode by inode.                                    *)

(* The inode d of m gets other entries, and has been changed.              *)
Refilled(m, d, at, n) ==
  /\ n = [id \in Ids |-> n[id]]
  /\ n[d] = [type |-> m[d].type, at |-> at, bytes |-> m[d].bytes, mtime |-> None]
  /\ \A id \in Ids \ {d} : n[id] = m[id]

(* EXCEPT on the entries of one inode.                                     *)
LEMMA Refills ==
  ASSUME NEW m, IsFs(m), NEW d \in Ids, NEW at
  PROVE  Refilled(m, d, at, [m EXCEPT ![d].at = at, ![d].mtime = None])
<1> DEFINE n == [m EXCEPT ![d].at = at, ![d].mtime = None]
           first == [m[d] EXCEPT !.at = at]
           node == [first EXCEPT !.mtime = None]
<1>1. m[d] = [type |-> m[d].type, at |-> m[d].at, bytes |-> m[d].bytes, mtime |-> m[d].mtime]
  BY DEF IsFs, IsInode
<1>a. first = [type |-> m[d].type, at |-> at, bytes |-> m[d].bytes, mtime |-> m[d].mtime]
  BY <1>1
<1>3. n = [id \in Ids |-> IF id = d THEN node ELSE m[id]]
  BY DEF IsFs
<1> HIDE DEF first
<1>2. node = [type |-> m[d].type, at |-> at, bytes |-> m[d].bytes, mtime |-> None]
  BY <1>a
<1> HIDE DEF n, node
<1>4. QED
  BY <1>2, <1>3 DEF Refilled, n

LinkedAt(m, d, name, id) == [n \in {name} \cup DOMAIN m[d].at |-> IF n = name THEN id ELSE m[d].at[n]]
UnlinkedAt(m, d, name) == [n \in DOMAIN m[d].at \ {name} |-> m[d].at[n]]

(* link(2): one entry more, or one that leads elsewhere.                   *)
LEMMA LinkIs ==
  ASSUME NEW m, IsFs(m), NEW d \in Ids, NEW name, NEW id
  PROVE  Refilled(m, d, LinkedAt(m, d, name, id), Link(m, d, name, id))
<1> DEFINE a == LinkedAt(m, d, name, id)
<1>1. Link(m, d, name, id) = [m EXCEPT ![d].at = a, ![d].mtime = None]
  BY DEF Link, LinkedAt
<1> HIDE DEF a
<1>2. Refilled(m, d, a, [m EXCEPT ![d].at = a, ![d].mtime = None])
  BY Refills
<1>3. QED
  BY <1>1, <1>2 DEF a

(* unlink(2): one entry less.                                              *)
LEMMA UnlinkIs ==
  ASSUME NEW m, IsFs(m), NEW d \in Ids, NEW name
  PROVE  Refilled(m, d, UnlinkedAt(m, d, name), Unlink(m, d, name))
<1> DEFINE a == UnlinkedAt(m, d, name)
<1>1. Unlink(m, d, name) = [m EXCEPT ![d].at = a, ![d].mtime = None]
  BY DEF Unlink, Restrict, UnlinkedAt
<1> HIDE DEF a
<1>2. Refilled(m, d, a, [m EXCEPT ![d].at = a, ![d].mtime = None])
  BY Refills
<1>3. QED
  BY <1>1, <1>2 DEF a

(* The inode d of m gets other bytes or another time.                      *)
Touched(m, d, n) ==
  /\ n = [id \in Ids |-> n[id]]
  /\ n[d] = [type |-> m[d].type, at |-> m[d].at, bytes |-> n[d].bytes, mtime |-> n[d].mtime]
  /\ \A id \in Ids \ {d} : n[id] = m[id]

(* write(2): other bytes, and the time of the change.                      *)
LEMMA WithBytesIs ==
  ASSUME NEW m, IsFs(m), NEW d \in Ids, NEW bytes
  PROVE  Touched(m, d, WithBytes(m, d, bytes)) /\ WithBytes(m, d, bytes)[d].mtime = None
<1> DEFINE n == WithBytes(m, d, bytes)
           first == [m[d] EXCEPT !.bytes = bytes]
           node == [first EXCEPT !.mtime = None]
<1>1. m[d] = [type |-> m[d].type, at |-> m[d].at, bytes |-> m[d].bytes, mtime |-> m[d].mtime]
  BY DEF IsFs, IsInode
<1>a. first = [type |-> m[d].type, at |-> m[d].at, bytes |-> bytes, mtime |-> m[d].mtime]
  BY <1>1
<1>3. n = [id \in Ids |-> IF id = d THEN node ELSE m[id]]
  BY DEF IsFs, WithBytes
<1> HIDE DEF first
<1>2. node = [type |-> m[d].type, at |-> m[d].at, bytes |-> bytes, mtime |-> None]
  BY <1>a
<1> HIDE DEF n, node
<1>4. QED
  BY <1>2, <1>3 DEF Touched, n

(* utimes(2): another time.                                                *)
LEMMA WithTimeIs ==
  ASSUME NEW m, IsFs(m), NEW d \in Ids, NEW time
  PROVE  Touched(m, d, [m EXCEPT ![d].mtime = time]) /\ [m EXCEPT ![d].mtime = time][d].mtime = time
<1> DEFINE n == [m EXCEPT ![d].mtime = time]
           node == [m[d] EXCEPT !.mtime = time]
<1>1. m[d] = [type |-> m[d].type, at |-> m[d].at, bytes |-> m[d].bytes, mtime |-> m[d].mtime]
  BY DEF IsFs, IsInode
<1>2. node = [type |-> m[d].type, at |-> m[d].at, bytes |-> m[d].bytes, mtime |-> time]
  BY <1>1
<1>3. n = [id \in Ids |-> IF id = d THEN node ELSE m[id]]
  BY DEF IsFs
<1> HIDE DEF n, node
<1>4. QED
  BY <1>2, <1>3 DEF Touched, n

-----------------------------------------------------------------------------
(* Lookup.  The recursion of Walk has one solution.                        *)
Looks(m, path, n, f) == f = [k \in 0..n |-> IF k = 0 THEN Top ELSE Entry(m, f[k - 1], path[k])]

(* The recursion of Walk has a solution, for a path of any length.         *)
LEMMA LooksExists ==
  ASSUME NEW m, NEW path, NEW n \in Nat
  PROVE  \E f : Looks(m, path, n, f)
<1> DEFINE S == {k \in Nat : \E f : Looks(m, path, k, f)}
<1>1. 0 \in S
  <2> DEFINE f == [k \in 0..0 |-> Top]
  <2>1. Looks(m, path, 0, f)
    BY DEF Looks
  <2> QED BY <2>1
<1>2. ASSUME NEW k \in S PROVE k + 1 \in S
  <2>1. PICK f : Looks(m, path, k, f)
    OBVIOUS
  <2> DEFINE g == [i \in 0..(k + 1) |-> IF i = k + 1 THEN Entry(m, f[k], path[k + 1]) ELSE f[i]]
  <2>2. \A i \in 0..k : f[i] = IF i = 0 THEN Top ELSE Entry(m, f[i - 1], path[i])
    BY <2>1 DEF Looks
  <2>3. \A i \in 0..k : g[i] = f[i]
    OBVIOUS
  <2>4. ASSUME NEW i \in 0..(k + 1) PROVE g[i] = IF i = 0 THEN Top ELSE Entry(m, g[i - 1], path[i])
    <3>1. CASE i = k + 1
      <4>1. i # 0 /\ i - 1 = k /\ k \in 0..k
        BY <3>1
      <4> QED BY <2>3, <3>1, <4>1
    <3>2. CASE i # k + 1
      <4>1. i \in 0..k /\ (i # 0 => i - 1 \in 0..k)
        BY <3>2
      <4>2. g[i] = f[i] /\ (i # 0 => g[i - 1] = f[i - 1])
        BY <2>3, <4>1
      <4> HIDE DEF g
      <4> QED BY <2>2, <4>1, <4>2
    <3> QED BY <3>1, <3>2
  <2>5. Looks(m, path, k + 1, g)
    BY <2>4 DEF Looks
  <2>6. k + 1 \in Nat
    OBVIOUS
  <2> HIDE DEF g
  <2> QED BY <2>5, <2>6
<1> HIDE DEF S
<1>3. S = Nat
  <2>1. S \subseteq Nat
    BY DEF S
  <2> QED BY <1>1, <1>2, <2>1, NatSets
<1>4. n \in S
  BY <1>3
<1> QED BY <1>4 DEF S

(* The recursion looks at the path up to the step it is at.                *)
LEMMA LooksOnce ==
  ASSUME NEW m, NEW p, NEW q, NEW i \in Nat, NEW j \in Nat, NEW f, NEW g,
         Looks(m, p, i, f), Looks(m, q, j, g), i <= j, \A k \in 1..i : p[k] = q[k]
  PROVE  f[i] = g[i]
<1> DEFINE S == {k \in Nat : k <= i => f[k] = g[k]}
<1>1. \A k \in 0..i : f[k] = IF k = 0 THEN Top ELSE Entry(m, f[k - 1], p[k])
  BY DEF Looks
<1>2. \A k \in 0..j : g[k] = IF k = 0 THEN Top ELSE Entry(m, g[k - 1], q[k])
  BY DEF Looks
<1>3. 0 \in S
  <2>1. 0 \in 0..i /\ 0 \in 0..j
    OBVIOUS
  <2> QED BY <1>1, <1>2, <2>1
<1>4. ASSUME NEW k \in S PROVE k + 1 \in S
  <2> SUFFICES ASSUME k + 1 <= i PROVE f[k + 1] = g[k + 1]
    OBVIOUS
  <2>1. f[k] = g[k]
    OBVIOUS
  <2>2. k + 1 \in 0..i /\ k + 1 \in 0..j /\ k + 1 \in 1..i /\ (k + 1) - 1 = k /\ k + 1 # 0
    OBVIOUS
  <2>3. f[k + 1] = Entry(m, f[k], p[k + 1]) /\ g[k + 1] = Entry(m, g[k], q[k + 1])
    BY <1>1, <1>2, <2>2
  <2> QED BY <2>1, <2>2, <2>3
<1>5. S \subseteq Nat
  OBVIOUS
<1> HIDE DEF S
<1>6. i \in S
  BY <1>3, <1>4, <1>5, NatSets
<1> QED BY <1>6 DEF S

(* Walk is the lookup of the last component where the lookup of the others *)
(* leads.                                                                  *)
LEMMA WalkEmpty ==
  ASSUME NEW m PROVE Walk(m, <<>>) = Top
<1>1. Len(<<>>) = 0
  OBVIOUS
<1>2. PICK f : Looks(m, <<>>, 0, f)
  BY LooksExists
<1>3. Walk(m, <<>>) = (CHOOSE f1 : Looks(m, <<>>, 0, f1))[0]
  BY <1>1 DEF Walk, Looks
<1>4. Looks(m, <<>>, 0, CHOOSE f1 : Looks(m, <<>>, 0, f1))
  BY <1>2
<1> HIDE DEF Looks
<1>5. PICK g : Looks(m, <<>>, 0, g) /\ Walk(m, <<>>) = g[0]
  BY <1>3, <1>4
<1> QED BY <1>5 DEF Looks

(* Walk is the last value of such a solution.                              *)
LEMMA WalkSolves ==
  ASSUME NEW m, NEW path, Len(path) \in Nat
  PROVE  \E f : Looks(m, path, Len(path), f) /\ Walk(m, path) = f[Len(path)]
<1>1. Walk(m, path) = (CHOOSE f : Looks(m, path, Len(path), f))[Len(path)]
  BY DEF Walk, Looks
<1>2. \E f : Looks(m, path, Len(path), f)
  BY LooksExists
<1>3. Looks(m, path, Len(path), CHOOSE f : Looks(m, path, Len(path), f))
  BY <1>2
<1> QED BY <1>1, <1>3

(* Walk by the last component.                                             *)
LEMMA WalkFront ==
  ASSUME NEW m, NEW S, NEW path \in Seq(S), path # <<>>
  PROVE  Walk(m, path) = Entry(m, Walk(m, Front(path)), Last(path))
<1> DEFINE n == Len(path)
           front == Front(path)
<1>1. n \in Nat /\ n - 1 \in Nat /\ n >= 1
  OBVIOUS
<1>2. Len(front) = n - 1 /\ \A k \in 1..(n - 1) : front[k] = path[k]
  BY FrontIs
<1>3. PICK f : Looks(m, path, n, f) /\ Walk(m, path) = f[n]
  BY <1>1, WalkSolves
<1>4. PICK g : Looks(m, front, n - 1, g) /\ Walk(m, front) = g[n - 1]
  <2> HIDE DEF front
  <2> QED BY <1>1, <1>2, WalkSolves
<1>5. g[n - 1] = f[n - 1]
  <2> HIDE DEF front, n
  <2>1. n - 1 <= n
    BY <1>1
  <2> QED BY <1>1, <1>2, <1>3, <1>4, <2>1, LooksOnce
<1>6. f[n] = Entry(m, f[n - 1], path[n])
  <2>1. n \in 0..n /\ n # 0
    BY <1>1
  <2> HIDE DEF n
  <2> QED BY <1>3, <2>1 DEF Looks
<1> QED BY <1>3, <1>4, <1>5, <1>6 DEF Last

-----------------------------------------------------------------------------
(* A recursion whose step is a function has a solution.                    *)
Solves(f, n, a, g) == f = [k \in 0..n |-> IF k = 0 THEN a ELSE g[<<f[k - 1], k>>]]

(* By induction over the number of steps.                                  *)
LEMMA RecursionSolved ==
  ASSUME NEW D, NEW n \in Nat, NEW a \in D, NEW g \in [D \X (1..n) -> D]
  PROVE  \E f \in [0..n -> D] : Solves(f, n, a, g)
<1> DEFINE S == {k \in Nat : k <= n => \E f \in [0..k -> D] : Solves(f, k, a, g)}
<1>1. 0 \in S
  <2> DEFINE f == [k \in 0..0 |-> a]
  <2>1. Solves(f, 0, a, g) /\ f \in [0..0 -> D]
    BY DEF Solves
  <2> QED BY <2>1
<1>2. ASSUME NEW k \in S PROVE k + 1 \in S
  <2> SUFFICES ASSUME k + 1 <= n PROVE \E f \in [0..(k + 1) -> D] : Solves(f, k + 1, a, g)
    OBVIOUS
  <2>1. PICK f \in [0..k -> D] : Solves(f, k, a, g)
    OBVIOUS
  <2> DEFINE new == g[<<f[k], k + 1>>]
             h == [i \in 0..(k + 1) |-> IF i = k + 1 THEN new ELSE f[i]]
  <2>2. \A i \in 0..k : f[i] = IF i = 0 THEN a ELSE g[<<f[i - 1], i>>]
    BY <2>1 DEF Solves
  <2>3. k \in 0..k /\ k + 1 \in 1..n
    OBVIOUS
  <2>4. new \in D
    BY <2>1, <2>3
  <2>5. \A i \in 0..k : h[i] = f[i]
    OBVIOUS
  <2>6. h \in [0..(k + 1) -> D]
    <3> HIDE DEF new
    <3> QED BY <2>1, <2>4
  <2>7. ASSUME NEW i \in 0..(k + 1) PROVE h[i] = IF i = 0 THEN a ELSE g[<<h[i - 1], i>>]
    <3>1. CASE i = k + 1
      <4>1. i # 0 /\ i - 1 = k
        BY <3>1
      <4>2. h[i] = new /\ h[i - 1] = f[k]
        BY <2>3, <2>5, <3>1, <4>1
      <4> HIDE DEF h
      <4> QED BY <3>1, <4>1, <4>2
    <3>2. CASE i # k + 1
      <4>1. i \in 0..k /\ (i # 0 => i - 1 \in 0..k)
        BY <3>2
      <4>2. h[i] = f[i] /\ (i # 0 => h[i - 1] = f[i - 1])
        BY <2>5, <4>1
      <4> HIDE DEF h
      <4> QED BY <2>2, <4>1, <4>2
    <3> QED BY <3>1, <3>2
  <2>8. Solves(h, k + 1, a, g)
    BY <2>7 DEF Solves
  <2> HIDE DEF h
  <2> QED BY <2>6, <2>8
<1>3. S \subseteq Nat
  OBVIOUS
<1> HIDE DEF S
<1>4. n \in S
  BY <1>1, <1>2, <1>3, NatSets
<1> QED BY <1>4 DEF S

-----------------------------------------------------------------------------
(* resolve_in_vault.                                                       *)
VaultPaths == {p \in Seq(Components) : Len(p) >= 1 /\ p[1] = Vault}
Relative == Seq(Components \cup {".", ".."})
Accs == [out : VaultPaths, depth : Nat, ok : BOOLEAN]
IsAcc(a) == a \in Accs /\ Len(a.out) = a.depth + 1

(* A component leads to a path that begins with the vault: `..' goes up    *)
(* only as far as the components have gone down.                           *)
LEMMA StepStays ==
  ASSUME NEW a, IsAcc(a), NEW comp \in Components \cup {".", ".."}
  PROVE  IsAcc(Step(a, comp))
<1> DEFINE out == a.out
<1>1. /\ a = [out |-> a.out, depth |-> a.depth, ok |-> a.ok]
      /\ a.out \in Seq(Components) /\ a.depth \in Nat /\ a.ok \in BOOLEAN
      /\ Len(a.out) = a.depth + 1 /\ a.out[1] = Vault
  BY DEF IsAcc, Accs, VaultPaths
<1>2. CASE comp = "."
  BY <1>2 DEF Step
<1>3. CASE comp = ".." /\ a.depth = 0
  <2>1. Step(a, comp) = [out |-> a.out, depth |-> a.depth, ok |-> FALSE]
    BY <1>1, <1>3 DEF Step
  <2> QED BY <1>1, <2>1 DEF IsAcc, Accs, VaultPaths
<1>4. CASE comp = ".." /\ a.depth # 0
  <2> DEFINE up == Front(a.out)
  <2>1. Step(a, comp) = [out |-> up, depth |-> a.depth - 1, ok |-> a.ok]
    BY <1>1, <1>4 DEF Step
  <2>2. a.out # <<>>
    BY <1>1
  <2>3. up \in Seq(Components) /\ Len(up) = Len(a.out) - 1 /\ \A k \in 1..(Len(a.out) - 1) : up[k] = a.out[k]
    BY <1>1, <2>2, FrontIs
  <2>4. a.depth - 1 \in Nat /\ Len(up) = (a.depth - 1) + 1 /\ Len(up) >= 1 /\ 1 \in 1..(Len(a.out) - 1)
    BY <1>1, <1>4, <2>3
  <2>5. up[1] = Vault
    BY <1>1, <2>3, <2>4
  <2> HIDE DEF up
  <2> QED BY <1>1, <2>1, <2>3, <2>4, <2>5 DEF IsAcc, Accs, VaultPaths
<1>5. CASE comp \notin {".", ".."}
  <2> DEFINE down == Append(a.out, comp)
  <2>0. comp \in Components
    BY <1>5
  <2>1. Step(a, comp) = [out |-> down, depth |-> a.depth + 1, ok |-> a.ok]
    BY <1>1, <1>5 DEF Step
  <2>2. down \in Seq(Components) /\ Len(down) = Len(a.out) + 1 /\ down[1] = a.out[1]
    BY <1>1, <2>0
  <2> HIDE DEF down
  <2>3. a.depth + 1 \in Nat /\ Len(down) = (a.depth + 1) + 1 /\ Len(down) >= 1
    BY <1>1, <2>2
  <2> QED BY <1>1, <2>1, <2>2, <2>3 DEF IsAcc, Accs, VaultPaths
<1> QED BY <1>2, <1>3, <1>4, <1>5

(* "Every path is resolved WITHIN the vault": what resolve_in_vault gives  *)
(* for a path of any length begins with the vault.                         *)
THEOREM ResolvedInVault ==
  ASSUME NEW rel \in Relative
  PROVE  ResolveInVault(rel).out \in VaultPaths
<1> DEFINE n == Len(rel)
           D == {a \in Accs : IsAcc(a)}
           start == [out |-> <<Vault>>, depth |-> 0, ok |-> TRUE]
           g == [x \in D \X (1..n) |-> Step(x[1], rel[x[2]])]
           Rec(f) == f = [k \in 0..n |-> IF k = 0 THEN start ELSE Step(f[k - 1], rel[k])]
<1>1. n \in Nat /\ \A k \in 1..n : rel[k] \in Components \cup {".", ".."}
  BY ElementOfSeq DEF Relative
<1>2. start \in D
  <2>1. <<Vault>> \in Seq(Components) /\ Len(<<Vault>>) = 1 /\ <<Vault>>[1] = Vault
    BY NamesAssumption
  <2>2. <<Vault>> \in VaultPaths
    BY <2>1 DEF VaultPaths
  <2>3. start.out = <<Vault>> /\ start.depth = 0
    OBVIOUS
  <2>4. start \in Accs
    BY <2>2 DEF Accs
  <2>5. Len(start.out) = start.depth + 1
    BY <2>1, <2>3
  <2> HIDE DEF start
  <2> QED BY <2>4, <2>5 DEF IsAcc
<1>3. \A a \in D, k \in 1..n : Step(a, rel[k]) \in D
  <2> SUFFICES ASSUME NEW a \in D, NEW k \in 1..n PROVE Step(a, rel[k]) \in D
    OBVIOUS
  <2>1. IsAcc(Step(a, rel[k]))
    BY <1>1, StepStays
  <2> QED BY <2>1 DEF IsAcc
<1> HIDE DEF D, start, n
<1>4. g \in [D \X (1..n) -> D]
  BY <1>3
<1>5. PICK f \in [0..n -> D] : Solves(f, n, start, g)
  <2> HIDE DEF g
  <2> QED BY <1>1, <1>2, <1>4, RecursionSolved
<1>6. Rec(f)
  <2>1. ASSUME NEW k \in 0..n, k # 0 PROVE g[<<f[k - 1], k>>] = Step(f[k - 1], rel[k])
    <3>1. k - 1 \in 0..n /\ k \in 1..n
      BY <1>1, <2>1
    <3>2. f[k - 1] \in D
      BY <1>5, <3>1
    <3> QED BY <3>1, <3>2
  <2> HIDE DEF g
  <2> QED BY <1>5, <2>1 DEF Solves
<1>7. PICK h : Rec(h) /\ ResolveInVault(rel) = h[n]
  <2>1. ResolveInVault(rel) = (CHOOSE h : Rec(h))[n]
    BY DEF ResolveInVault, n, start
  <2> HIDE DEF Rec
  <2>2. Rec(CHOOSE h : Rec(h))
    BY <1>6
  <2> QED BY <2>1, <2>2
<1> DEFINE S == {k \in Nat : k <= n => h[k] \in D}
<1>8. \A k \in 0..n : h[k] = IF k = 0 THEN start ELSE Step(h[k - 1], rel[k])
  BY <1>7
<1> HIDE DEF Rec, g
<1>9. 0 \in S
  <2>1. 0 \in 0..n
    BY <1>1
  <2> QED BY <1>2, <1>8, <2>1
<1>10. ASSUME NEW k \in S PROVE k + 1 \in S
  <2> SUFFICES ASSUME k + 1 <= n PROVE h[k + 1] \in D
    OBVIOUS
  <2>1. k + 1 \in 0..n /\ k + 1 \in 1..n /\ k + 1 # 0 /\ (k + 1) - 1 = k /\ h[k] \in D
    BY <1>1
  <2> QED BY <1>3, <1>8, <2>1
<1>11. S \subseteq Nat
  OBVIOUS
<1>12. n \in S
  <2> HIDE DEF S
  <2> QED BY <1>1, <1>9, <1>10, <1>11, NatSets
<1>13. h[n] \in D
  BY <1>1, <1>12
<1> QED BY <1>7, <1>13 DEF D, Accs

-----------------------------------------------------------------------------
(* Entries.                                                                *)
Ats == UNION {[S -> Ids] : S \in SUBSET Components}

(* The entries of a folder are a function from names to inodes.            *)
LEMMA AtsAre ==
  ASSUME NEW at
  PROVE  at \in Ats <=> /\ at = [x \in DOMAIN at |-> at[x]] /\ DOMAIN at \subseteq Components
                        /\ \A x \in DOMAIN at : at[x] \in Ids
<1>1. ASSUME at \in Ats
      PROVE  /\ at = [x \in DOMAIN at |-> at[x]] /\ DOMAIN at \subseteq Components
             /\ \A x \in DOMAIN at : at[x] \in Ids
  <2>1. PICK S \in SUBSET Components : at \in [S -> Ids]
    BY <1>1 DEF Ats
  <2> QED BY <2>1
<1>2. ASSUME at = [x \in DOMAIN at |-> at[x]], DOMAIN at \subseteq Components,
             \A x \in DOMAIN at : at[x] \in Ids
      PROVE  at \in Ats
  <2>1. at \in [DOMAIN at -> Ids]
    BY <1>2
  <2> QED BY <1>2, <2>1 DEF Ats
<1> QED BY <1>1, <1>2

(* What an inode leads to is an inode.                                     *)
LEMMA EntriesAreIds ==
  ASSUME NEW m, IsFs(m), NEW d \in Ids, NEW x \in Names(m, d)
  PROVE  m[d].at[x] \in Ids /\ x \in Components /\ m[d].type = "dir"
<1>1. m[d].at \in Ats /\ (m[d].type # "dir" => m[d].at = <<>>)
  BY DEF IsFs, IsInode, Ats
<1>2. m[d].at[x] \in Ids /\ x \in Components
  BY <1>1, AtsAre DEF Names
<1>3. DOMAIN <<>> = {}
  OBVIOUS
<1> QED BY <1>1, <1>2, <1>3 DEF Names

-----------------------------------------------------------------------------
(* What Reached finds is closed: every round that is not the last adds an  *)
(* inode, and there are as many rounds as inodes.                          *)
Grown(m, S) == S \cup UNION {{m[id].at[n] : n \in Names(m, id)} : id \in S}
Covers(m, roots, R) ==
  /\ roots \subseteq R /\ R \subseteq Ids
  /\ \A id \in R : \A n \in Names(m, id) : m[id].at[n] \in R

(* One round of Reached stays among the inodes.                            *)
LEMMA GrownIds ==
  ASSUME NEW m, IsFs(m), NEW S \in SUBSET Ids
  PROVE  Grown(m, S) \in SUBSET Ids
BY EntriesAreIds DEF Grown

(* Reached is closed under entries.                                        *)
LEMMA ReachedCovers ==
  ASSUME NEW m, IsFs(m), NEW roots \in SUBSET Ids, roots # {}
  PROVE  Covers(m, roots, Reached(m, roots))
<1> DEFINE n == Cardinality(Ids)
           D == SUBSET Ids
           g == [x \in D \X (1..n) |-> Grown(m, x[1])]
           Rec(f) == f = [k \in 0..n |-> IF k = 0 THEN roots ELSE Grown(m, f[k - 1])]
<1>1. n \in Nat /\ IsFiniteSet(Ids)
  BY IdsAssumption, FS_CardinalityType
<1> HIDE DEF n, D
<1>2. g \in [D \X (1..n) -> D]
  BY GrownIds DEF D
<1>3. PICK f \in [0..n -> D] : Solves(f, n, roots, g)
  <2>1. roots \in D
    BY DEF D
  <2> HIDE DEF g
  <2> QED BY <1>1, <1>2, <2>1, RecursionSolved
<1>4. Rec(f)
  <2>1. ASSUME NEW k \in 0..n, k # 0 PROVE g[<<f[k - 1], k>>] = Grown(m, f[k - 1])
    <3>1. k - 1 \in 0..n /\ k \in 1..n
      BY <1>1, <2>1
    <3>2. f[k - 1] \in D
      BY <1>3, <3>1
    <3> QED BY <3>1, <3>2
  <2> HIDE DEF g
  <2> QED BY <1>3, <2>1 DEF Solves
<1>5. PICK h : Rec(h) /\ Reached(m, roots) = h[n]
  <2>1. Reached(m, roots) = (CHOOSE h : Rec(h))[n]
    BY DEF Reached, Grown, n
  <2> HIDE DEF Rec
  <2>2. Rec(CHOOSE h : Rec(h))
    BY <1>4
  <2> QED BY <2>1, <2>2
<1>6. \A k \in 0..n : h[k] = IF k = 0 THEN roots ELSE Grown(m, h[k - 1])
  BY <1>5
<1> HIDE DEF Rec, g
<1> DEFINE Full(k) == /\ h[k] \in SUBSET Ids /\ roots \subseteq h[k]
                      /\ Grown(m, h[k]) = h[k] \/ Cardinality(h[k]) >= k + 1
           S == {k \in Nat : k <= n => Full(k)}
<1>7. 0 \in S
  <2>1. h[0] = roots
    BY <1>1, <1>6
  <2>2. IsFiniteSet(roots) /\ Cardinality(roots) \in Nat
    BY <1>1, FS_Subset, FS_CardinalityType
  <2>3. Cardinality(roots) # 0
    BY <2>2, FS_EmptySet
  <2> QED BY <2>1, <2>2, <2>3
<1>8. ASSUME NEW k \in S PROVE k + 1 \in S
  <2> SUFFICES ASSUME k + 1 <= n PROVE Full(k + 1)
    OBVIOUS
  <2>1. k + 1 \in 0..n /\ k + 1 # 0 /\ (k + 1) - 1 = k /\ k <= n
    BY <1>1
  <2>2. Full(k)
    BY <2>1
  <2>3. h[k + 1] = Grown(m, h[k])
    BY <1>6, <2>1
  <2>4. h[k + 1] \in SUBSET Ids /\ h[k] \subseteq h[k + 1]
    BY <2>2, <2>3, GrownIds DEF Grown
  <2>5. CASE Grown(m, h[k]) = h[k]
    BY <2>2, <2>3, <2>5
  <2>6. CASE Grown(m, h[k]) # h[k]
    <3>1. IsFiniteSet(h[k + 1]) /\ Cardinality(h[k + 1]) \in Nat /\ Cardinality(h[k]) \in Nat
      BY <1>1, <2>2, <2>4, FS_Subset, FS_CardinalityType
    <3>2. Cardinality(h[k]) <= Cardinality(h[k + 1])
      BY <2>4, <3>1, FS_Subset
    <3>3. Cardinality(h[k]) # Cardinality(h[k + 1])
      BY <2>3, <2>4, <2>6, <3>1, FS_Subset
    <3>4. Cardinality(h[k]) >= k + 1
      BY <2>2, <2>6
    <3>5. Cardinality(h[k + 1]) >= (k + 1) + 1
      BY <3>1, <3>2, <3>3, <3>4
    <3> QED BY <2>2, <2>4, <3>5
  <2> QED BY <2>5, <2>6
<1>9. S \subseteq Nat
  OBVIOUS
<1>10. n \in S
  <2> HIDE DEF S
  <2> QED BY <1>1, <1>7, <1>8, <1>9, NatSets
<1>11. Full(n)
  BY <1>1, <1>10
<1>12. Cardinality(h[n]) <= n
  BY <1>1, <1>11, FS_Subset DEF n
<1>13. Cardinality(h[n]) \in Nat
  BY <1>1, <1>11, FS_Subset, FS_CardinalityType
<1>14. Grown(m, h[n]) = h[n]
  BY <1>1, <1>11, <1>12, <1>13
<1>15. \A id \in h[n] : \A x \in Names(m, id) : m[id].at[x] \in h[n]
  BY <1>14 DEF Grown
<1> QED BY <1>5, <1>11, <1>15 DEF Covers

-----------------------------------------------------------------------------
(* The shape of a file system of the server: every inode but the data      *)
(* directory has at most one name, an entry leads to something, and in the *)
(* data directory are the vault and the empty folder o beside it.          *)
Shaped(m) ==
  /\ IsFs(m) /\ m[Top].type = "dir"
  /\ \A d \in Ids : \A x \in Names(m, d) : m[d].at[x] # Top /\ m[m[d].at[x]].type # "none"
  /\ \A d, e \in Ids : \A x \in Names(m, d), y \in Names(m, e) :
       m[d].at[x] = m[e].at[y] => d = e /\ x = y
Beside(m, o) ==
  /\ Names(m, Top) \subseteq {Vault, Other} /\ Other \in Names(m, Top)
  /\ m[Top].at[Other] = o /\ m[o] = Folder
Safe(m, o) == Shaped(m) /\ Beside(m, o)

(* Other's inode is none of the others'.                                   *)
LEMMA BesideIs ==
  ASSUME NEW m, NEW o, Safe(m, o)
  PROVE  /\ o \in Ids \ {Top} /\ m[o].type = "dir" /\ Names(m, o) = {}
         /\ \A d \in Ids : \A x \in Names(m, d) : m[d].at[x] = o => d = Top /\ x = Other
<1>1. Top \in Ids /\ Other \in Names(m, Top) /\ m[Top].at[Other] = o /\ m[o] = Folder /\ IsFs(m)
  BY IdsAssumption DEF Safe, Shaped, Beside
<1>2. o \in Ids \ {Top}
  BY <1>1, EntriesAreIds DEF Safe, Shaped
<1>3. m[o].type = "dir" /\ Names(m, o) = {}
  BY <1>1 DEF Folder, Names
<1>4. \A d \in Ids : \A x \in Names(m, d) : m[d].at[x] = o => d = Top /\ x = Other
  BY <1>1 DEF Safe, Shaped
<1> QED BY <1>2, <1>3, <1>4

(* A lookup ends at an inode or an error.                                  *)
LEMMA EntryIs ==
  ASSUME NEW m, Shaped(m), NEW d \in Ids \cup Errors, NEW name
  PROVE  \/ Entry(m, d, name) \in Errors
         \/ /\ d \in Ids /\ IsDir(m, d) /\ name \in Names(m, d)
            /\ Entry(m, d, name) = m[d].at[name] /\ Entry(m, d, name) \in Ids \ {Top}
<1>1. CASE d \in Errors \/ ~IsDir(m, d) \/ name \notin Names(m, d)
  BY <1>1 DEF Entry, Errors
<1>2. CASE d \notin Errors /\ IsDir(m, d) /\ name \in Names(m, d)
  <2>1. d \in Ids /\ IsFs(m)
    BY <1>2 DEF Shaped
  <2>2. Entry(m, d, name) = m[d].at[name] /\ m[d].at[name] \in Ids
    BY <1>2, <2>1, EntriesAreIds DEF Entry
  <2> QED BY <1>2, <2>1, <2>2 DEF Shaped
<1> QED BY <1>1, <1>2

(* So does the lookup of a whole path.                                     *)
LEMMA WalkIs ==
  ASSUME NEW m, Shaped(m), NEW path \in Seq(Components)
  PROVE  Walk(m, path) \in Ids \cup Errors
<1> DEFINE S == {n \in Nat : \A p \in Seq(Components) : Len(p) = n => Walk(m, p) \in Ids \cup Errors}
<1>1. 0 \in S
  <2> SUFFICES ASSUME NEW p \in Seq(Components), Len(p) = 0 PROVE Walk(m, p) \in Ids \cup Errors
    OBVIOUS
  <2>1. p = <<>>
    OBVIOUS
  <2> QED BY <2>1, WalkEmpty, IdsAssumption
<1>2. ASSUME NEW n \in S PROVE n + 1 \in S
  <2> SUFFICES ASSUME NEW p \in Seq(Components), Len(p) = n + 1 PROVE Walk(m, p) \in Ids \cup Errors
    OBVIOUS
  <2>1. p # <<>>
    OBVIOUS
  <2>2. Front(p) \in Seq(Components) /\ Len(Front(p)) = Len(p) - 1
    BY <2>1, FrontIs
  <2>3. Len(Front(p)) = n
    BY <2>2
  <2>4. Walk(m, Front(p)) \in Ids \cup Errors
    BY <2>2, <2>3
  <2>5. Walk(m, p) = Entry(m, Walk(m, Front(p)), Last(p))
    BY <2>1, WalkFront
  <2> QED BY <2>4, <2>5, EntryIs
<1>3. S \subseteq Nat
  OBVIOUS
<1> HIDE DEF S
<1>4. S = Nat
  BY <1>1, <1>2, <1>3, NatSets
<1>5. Len(path) \in Nat
  OBVIOUS
<1>6. Len(path) \in S
  BY <1>4, <1>5
<1> QED BY <1>6 DEF S

(* Only the empty path leads to the data directory.                        *)
LEMMA WalkTop ==
  ASSUME NEW m, Shaped(m), NEW path \in Seq(Components), path # <<>>
  PROVE  Walk(m, path) # Top
<1>1. Front(path) \in Seq(Components)
  BY FrontIs
<1>2. Walk(m, path) = Entry(m, Walk(m, Front(path)), Last(path))
  BY WalkFront
<1>3. Top \notin Errors
  BY IdsAssumption
<1> QED BY <1>1, <1>2, <1>3, WalkIs, EntryIs

(* A path that begins with the vault does not lead out of it.              *)
LEMMA WalkInVault ==
  ASSUME NEW m, NEW o, Safe(m, o), NEW path \in VaultPaths
  PROVE  Walk(m, path) \in (Ids \ {Top, o}) \cup Errors
<1>0. Shaped(m) /\ path \in Seq(Components) /\ path # <<>> /\ path[1] = Vault /\ Len(path) >= 1
  BY DEF Safe, VaultPaths
<1>1. Front(path) \in Seq(Components) /\ Len(Front(path)) = Len(path) - 1
  BY <1>0, FrontIs
<1>2. Walk(m, path) = Entry(m, Walk(m, Front(path)), Last(path))
  BY <1>0, WalkFront
<1>3. Walk(m, Front(path)) \in Ids \cup Errors
  BY <1>0, <1>1, WalkIs
<1>4. ASSUME Walk(m, path) = o PROVE FALSE
  <2>1. o \notin Errors
    BY BesideIs, IdsAssumption
  <2> DEFINE d == Walk(m, Front(path))
  <2>a. d \in Ids /\ Last(path) \in Names(m, d) /\ m[d].at[Last(path)] = o
    <3> HIDE DEF d
    <3>1. d \in Ids \cup Errors /\ Entry(m, d, Last(path)) = o
      BY <1>2, <1>3, <1>4 DEF d
    <3> QED BY <1>0, <2>1, <3>1, EntryIs
  <2>2. d = Top /\ Last(path) = Other
    <3> HIDE DEF d
    <3> QED BY <2>a, BesideIs
  <2>3. Front(path) = <<>>
    BY <1>0, <1>1, <2>2, WalkTop
  <2>4. Len(path) = 1
    BY <1>0, <1>1, <2>3
  <2> QED BY <1>0, <2>2, <2>4, NamesAssumption DEF Last
<1>5. Walk(m, path) # Top
  BY <1>0, WalkTop
<1> QED BY <1>0, <1>4, <1>5, WalkIs

(* Nor does the folder its last name is looked up in, unless the name is   *)
(* the vault's.                                                            *)
InVault(m, o, d, name) ==
  d \in Ids \ {o} /\ IsDir(m, d) /\ name \in Components /\ (d = Top => name = Vault)

(* The parent folder of a path of the vault.                               *)
LEMMA ParentInVault ==
  ASSUME NEW m, NEW o, Safe(m, o), NEW path \in VaultPaths
  PROVE  ParentOf(m, path) \in Errors \/ InVault(m, o, ParentOf(m, path), Last(path))
<1>0. Shaped(m) /\ path \in Seq(Components) /\ path # <<>> /\ path[1] = Vault /\ Len(path) >= 1
  BY DEF Safe, VaultPaths
<1>1. /\ Front(path) \in Seq(Components) /\ Len(Front(path)) = Len(path) - 1
      /\ \A k \in 1..(Len(path) - 1) : Front(path)[k] = path[k]
  BY <1>0, FrontIs
<1>2. Last(path) \in Components
  <2>1. Len(path) \in 1..Len(path)
    BY <1>0
  <2> QED BY <1>0, <2>1, ElementOfSeq DEF Last
<1> DEFINE d == Walk(m, Front(path))
<1>3. CASE Front(path) = <<>>
  <2>1. d = Top /\ Len(path) = 1
    BY <1>0, <1>1, <1>3, WalkEmpty
  <2>2. Last(path) = Vault
    BY <1>0, <2>1 DEF Last
  <2>3. IsDir(m, Top) /\ Top \in Ids \ {o} /\ Top \notin Errors
    BY <1>0, BesideIs, IdsAssumption DEF Shaped, IsDir
  <2> QED BY <1>2, <2>1, <2>2, <2>3 DEF ParentOf, InVault
<1>4. CASE Front(path) # <<>>
  <2>1. Len(Front(path)) >= 1
    BY <1>1, <1>4
  <2>2. Front(path)[1] = Vault
    BY <1>0, <1>1, <2>1
  <2>3. Front(path) \in VaultPaths
    BY <1>1, <2>1, <2>2 DEF VaultPaths
  <2>4. d \in (Ids \ {Top, o}) \cup Errors
    BY <2>3, WalkInVault
  <2>5. CASE d \in Errors \/ ~IsDir(m, d)
    BY <2>5 DEF ParentOf, Errors
  <2>6. CASE d \notin Errors /\ IsDir(m, d)
    BY <1>2, <2>4, <2>6 DEF ParentOf, InVault
  <2> QED BY <2>5, <2>6
<1> QED BY <1>3, <1>4

-----------------------------------------------------------------------------
(* The calls keep a file system in shape and leave the folder beside the   *)
(* vault alone.                                                            *)

(* Other bytes and times do not matter.                                    *)
Alike(m, n) ==
  /\ n = [id \in Ids |-> n[id]]
  /\ \A id \in Ids : n[id] = [type |-> m[id].type, at |-> m[id].at, bytes |-> n[id].bytes,
                              mtime |-> n[id].mtime]

(* The entries of such a file system are the same.                         *)
LEMMA AlikeEntries ==
  ASSUME NEW m, NEW n, Alike(m, n)
  PROVE  \A id \in Ids : n[id].type = m[id].type /\ n[id].at = m[id].at /\ Names(n, id) = Names(m, id)
BY DEF Alike, Names

(* Changing bytes and times keeps the shape.                               *)
LEMMA AlikeSafe ==
  ASSUME NEW m, NEW o, Safe(m, o), NEW n, Alike(m, n), n[o] = m[o]
  PROVE  Safe(n, o)
<1>1. \A id \in Ids : n[id].type = m[id].type /\ n[id].at = m[id].at /\ Names(n, id) = Names(m, id)
  BY AlikeEntries
<1>2. IsFs(m) /\ Top \in Ids
  BY IdsAssumption DEF Safe, Shaped
<1>3. IsFs(n)
  <2>1. n = [id \in Ids |-> n[id]]
    BY DEF Alike
  <2>2. ASSUME NEW id \in Ids PROVE IsInode(n[id])
    <3>1. n[id] = [type |-> n[id].type, at |-> n[id].at, bytes |-> n[id].bytes, mtime |-> n[id].mtime]
      BY DEF Alike
    <3>2. IsInode(m[id])
      BY <1>2 DEF IsFs
    <3> QED BY <1>1, <3>1, <3>2 DEF IsInode
  <2> QED BY <2>1, <2>2 DEF IsFs
<1>4. \A d \in Ids : \A x \in Names(n, d) : n[d].at[x] # Top /\ n[n[d].at[x]].type # "none"
  <2> SUFFICES ASSUME NEW d \in Ids, NEW x \in Names(n, d)
               PROVE  n[d].at[x] # Top /\ n[n[d].at[x]].type # "none"
    OBVIOUS
  <2>1. x \in Names(m, d) /\ n[d].at[x] = m[d].at[x]
    BY <1>1
  <2>2. m[d].at[x] \in Ids
    BY <1>2, <2>1, EntriesAreIds
  <2> QED BY <1>1, <2>1, <2>2 DEF Safe, Shaped
<1>5. \A d, e \in Ids : \A x \in Names(n, d), y \in Names(n, e) :
        n[d].at[x] = n[e].at[y] => d = e /\ x = y
  BY <1>1 DEF Safe, Shaped
<1>6. Shaped(n)
  BY <1>1, <1>2, <1>3, <1>4, <1>5 DEF Safe, Shaped
<1>7. Beside(n, o)
  BY <1>1, <1>2 DEF Safe, Beside
<1> QED BY <1>6, <1>7 DEF Safe

(* A touched inode is one with other bytes and times.                      *)
LEMMA TouchedSafe ==
  ASSUME NEW m, NEW o, Safe(m, o), NEW d \in Ids \ {o}, NEW n, Touched(m, d, n)
  PROVE  Safe(n, o)
<1>1. ASSUME NEW id \in Ids
      PROVE  n[id] = [type |-> m[id].type, at |-> m[id].at, bytes |-> n[id].bytes, mtime |-> n[id].mtime]
  <2>1. CASE id = d
    BY <2>1 DEF Touched
  <2>2. CASE id # d
    <3>1. n[id] = m[id]
      BY <2>2 DEF Touched
    <3>2. m[id] = [type |-> m[id].type, at |-> m[id].at, bytes |-> m[id].bytes, mtime |-> m[id].mtime]
      BY DEF Safe, Shaped, IsFs, IsInode
    <3> QED BY <3>1, <3>2
  <2> QED BY <2>1, <2>2
<1>2. Alike(m, n)
  BY <1>1 DEF Alike, Touched
<1>3. n[o] = m[o]
  BY BesideIs DEF Touched
<1> QED BY <1>2, <1>3, AlikeSafe

(* An entry that is added or replaced in the vault.                        *)
LEMMA LinkSafe ==
  ASSUME NEW m, NEW o, Safe(m, o), NEW d, NEW name, InVault(m, o, d, name),
         NEW id \in Ids \ {Top}, m[id].type # "none",
         \A e \in Ids : \A x \in Names(m, e) : m[e].at[x] = id => e = d /\ x = name
  PROVE  Safe(Link(m, d, name, id), o)
<1> DEFINE n == Link(m, d, name, id)
           at == LinkedAt(m, d, name, id)
<1>1. d \in Ids \ {o} /\ m[d].type = "dir" /\ name \in Components /\ (d = Top => name = Vault)
  BY DEF InVault, IsDir
<1>2. IsFs(m) /\ Top \in Ids /\ m[Top].type = "dir" /\ o \in Ids
  BY IdsAssumption, BesideIs DEF Safe, Shaped
<1>3. Refilled(m, d, at, n)
  BY <1>1, <1>2, LinkIs
<1>4. /\ DOMAIN at = {name} \cup Names(m, d) /\ at[name] = id
      /\ \A x \in Names(m, d) \ {name} : at[x] = m[d].at[x]
  BY DEF LinkedAt, Names
<1>5. at \in Ats
  <2>1. \A x \in DOMAIN at : at[x] \in Ids
    BY <1>1, <1>2, <1>4, EntriesAreIds
  <2>2. DOMAIN at \subseteq Components
    BY <1>1, <1>2, <1>4, EntriesAreIds
  <2>3. at = [x \in DOMAIN at |-> at[x]]
    BY DEF LinkedAt
  <2> HIDE DEF at
  <2> QED BY <2>1, <2>2, <2>3, AtsAre
<1> HIDE DEF n, at
<1>6. /\ n = [i \in Ids |-> n[i]] /\ \A e \in Ids : n[e].type = m[e].type
      /\ n[d].at = at /\ \A e \in Ids \ {d} : n[e] = m[e]
      /\ n[d] = [type |-> n[d].type, at |-> n[d].at, bytes |-> n[d].bytes, mtime |-> n[d].mtime]
  BY <1>1, <1>3 DEF Refilled
<1>7. IsFs(n)
  <2>1. IsInode(n[d])
    BY <1>1, <1>5, <1>6 DEF IsInode, Ats
  <2>2. \A e \in Ids \ {d} : IsInode(n[e])
    BY <1>2, <1>6 DEF IsFs
  <2> QED BY <1>6, <2>1, <2>2 DEF IsFs
<1>8. \A e \in Ids : \A x \in Names(n, e) :
        \/ e = d /\ x = name /\ n[e].at[x] = id
        \/ (e # d \/ x # name) /\ x \in Names(m, e) /\ n[e].at[x] = m[e].at[x] /\ m[e].at[x] # id
  <2> SUFFICES ASSUME NEW e \in Ids, NEW x \in Names(n, e)
               PROVE  \/ e = d /\ x = name /\ n[e].at[x] = id
                      \/ /\ (e # d \/ x # name) /\ x \in Names(m, e)
                         /\ n[e].at[x] = m[e].at[x] /\ m[e].at[x] # id
    OBVIOUS
  <2>1. CASE e = d
    BY <1>4, <1>6, <2>1 DEF Names
  <2>2. CASE e # d
    BY <1>6, <2>2 DEF Names
  <2> QED BY <2>1, <2>2
<1>9. \A e \in Ids : \A x \in Names(n, e) : n[e].at[x] # Top /\ n[n[e].at[x]].type # "none"
  <2> SUFFICES ASSUME NEW e \in Ids, NEW x \in Names(n, e)
               PROVE  n[e].at[x] # Top /\ n[n[e].at[x]].type # "none"
    OBVIOUS
  <2>1. CASE n[e].at[x] = id
    BY <1>6, <2>1
  <2>2. CASE x \in Names(m, e) /\ n[e].at[x] = m[e].at[x]
    <3>1. m[e].at[x] \in Ids
      BY <1>2, <2>2, EntriesAreIds
    <3> QED BY <1>6, <2>2, <3>1 DEF Safe, Shaped
  <2> QED BY <1>8, <2>1, <2>2
<1>10. \A e, f \in Ids : \A x \in Names(n, e), y \in Names(n, f) :
         n[e].at[x] = n[f].at[y] => e = f /\ x = y
  BY <1>8 DEF Safe, Shaped
<1>11. Shaped(n)
  BY <1>2, <1>6, <1>7, <1>9, <1>10 DEF Shaped
<1>12. Beside(n, o)
  <2>1. n[o] = m[o]
    BY <1>1, <1>2, <1>6
  <2>2. CASE d # Top
    <3>1. n[Top] = m[Top]
      BY <1>2, <1>6, <2>2
    <3> QED BY <2>1, <3>1 DEF Safe, Beside, Names
  <2>3. CASE d = Top
    <3>1. name = Vault /\ Names(n, Top) = {Vault} \cup Names(m, Top)
      BY <1>1, <1>4, <1>6, <2>3 DEF Names
    <3>2. n[Top].at[Other] = m[Top].at[Other]
      BY <1>4, <1>6, <2>3, <3>1, NamesAssumption DEF Safe, Beside
    <3> QED BY <2>1, <3>1, <3>2 DEF Safe, Beside
  <2> QED BY <2>2, <2>3
<1> QED BY <1>11, <1>12 DEF Safe, n

(* An entry that is removed.                                               *)
LEMMA UnlinkSafe ==
  ASSUME NEW m, NEW o, Safe(m, o), NEW d \in Ids \ {o}, NEW name, d = Top => name = Vault
  PROVE  Safe(Unlink(m, d, name), o)
<1> DEFINE n == Unlink(m, d, name)
           at == UnlinkedAt(m, d, name)
<1>2. IsFs(m) /\ Top \in Ids /\ m[Top].type = "dir" /\ o \in Ids
  BY IdsAssumption, BesideIs DEF Safe, Shaped
<1>3. Refilled(m, d, at, n)
  BY <1>2, UnlinkIs
<1>4. DOMAIN at = Names(m, d) \ {name} /\ \A x \in Names(m, d) \ {name} : at[x] = m[d].at[x]
  BY DEF UnlinkedAt, Names
<1>5. at \in Ats
  <2>1. \A x \in DOMAIN at : at[x] \in Ids
    BY <1>2, <1>4, EntriesAreIds
  <2>2. DOMAIN at \subseteq Components
    BY <1>2, <1>4, EntriesAreIds
  <2>3. at = [x \in DOMAIN at |-> at[x]]
    BY DEF UnlinkedAt
  <2> HIDE DEF at
  <2> QED BY <2>1, <2>2, <2>3, AtsAre
<1>a. m[d].type # "dir" => at = <<>>
  <2> SUFFICES ASSUME m[d].type # "dir" PROVE at = <<>>
    OBVIOUS
  <2>1. m[d].at = <<>>
    BY <1>2 DEF IsFs, IsInode
  <2>2. DOMAIN <<>> = {}
    OBVIOUS
  <2>3. DOMAIN at = {}
    BY <1>4, <2>1, <2>2 DEF Names
  <2> QED BY <2>1, <2>2 DEF UnlinkedAt
<1> HIDE DEF n, at
<1>6. /\ n = [i \in Ids |-> n[i]] /\ \A e \in Ids : n[e].type = m[e].type
      /\ n[d].at = at /\ \A e \in Ids \ {d} : n[e] = m[e]
      /\ n[d] = [type |-> n[d].type, at |-> n[d].at, bytes |-> n[d].bytes, mtime |-> n[d].mtime]
  BY <1>3 DEF Refilled
<1>7. IsFs(n)
  <2>1. IsInode(n[d])
    <3>1. n[d].type \in {"dir", "file", "none"}
      BY <1>2, <1>6 DEF IsFs, IsInode
    <3> QED BY <1>5, <1>6, <1>a, <3>1 DEF IsInode, Ats
  <2>2. \A e \in Ids \ {d} : IsInode(n[e])
    BY <1>2, <1>6 DEF IsFs
  <2> QED BY <1>6, <2>1, <2>2 DEF IsFs
<1>8. \A e \in Ids : \A x \in Names(n, e) : x \in Names(m, e) /\ n[e].at[x] = m[e].at[x]
  <2> SUFFICES ASSUME NEW e \in Ids, NEW x \in Names(n, e)
               PROVE  x \in Names(m, e) /\ n[e].at[x] = m[e].at[x]
    OBVIOUS
  <2>1. CASE e = d
    BY <1>4, <1>6, <2>1 DEF Names
  <2>2. CASE e # d
    BY <1>6, <2>2 DEF Names
  <2> QED BY <2>1, <2>2
<1>9. \A e \in Ids : \A x \in Names(n, e) : n[e].at[x] # Top /\ n[n[e].at[x]].type # "none"
  <2> SUFFICES ASSUME NEW e \in Ids, NEW x \in Names(n, e)
               PROVE  n[e].at[x] # Top /\ n[n[e].at[x]].type # "none"
    OBVIOUS
  <2>1. x \in Names(m, e) /\ n[e].at[x] = m[e].at[x]
    BY <1>8
  <2>2. m[e].at[x] \in Ids
    BY <1>2, <2>1, EntriesAreIds
  <2> QED BY <1>6, <2>1, <2>2 DEF Safe, Shaped
<1>10. \A e, f \in Ids : \A x \in Names(n, e), y \in Names(n, f) :
         n[e].at[x] = n[f].at[y] => e = f /\ x = y
  BY <1>8 DEF Safe, Shaped
<1>11. Shaped(n)
  BY <1>2, <1>6, <1>7, <1>9, <1>10 DEF Shaped
<1>12. Beside(n, o)
  <2>1. n[o] = m[o]
    BY <1>2, <1>6
  <2>2. CASE d # Top
    <3>1. n[Top] = m[Top]
      BY <1>2, <1>6, <2>2
    <3> QED BY <2>1, <3>1 DEF Safe, Beside, Names
  <2>3. CASE d = Top
    <3>1. name = Vault /\ Names(n, Top) = Names(m, Top) \ {Vault}
      BY <1>4, <1>6, <2>3 DEF Names
    <3>2. Other \in Names(n, Top)
      BY <3>1, NamesAssumption DEF Safe, Beside
    <3>3. n[Top].at[Other] = m[Top].at[Other]
      BY <1>2, <1>8, <3>2
    <3> QED BY <2>1, <3>1, <3>2, <3>3 DEF Safe, Beside
  <2> QED BY <2>2, <2>3
<1> QED BY <1>11, <1>12 DEF Safe, n

(* A new inode that nothing leads to yet.                                  *)
Added(m, o, id, node, n) ==
  /\ Safe(n, o) /\ id \notin {Top, o} /\ n[id].type # "none"
  /\ n = [i \in Ids |-> n[i]] /\ n[id] = node /\ \A e \in Ids \ {id} : n[e] = m[e]
  /\ \A e \in Ids : \A x \in Names(n, e) : n[e].at[x] # id

(* Making one changes nothing else.                                        *)
LEMMA NodeSafe ==
  ASSUME NEW m, NEW o, Safe(m, o), NEW id \in Ids, m[id].type = "none",
         NEW node \in {Folder, Note(<<>>)}
  PROVE  Added(m, o, id, node, [m EXCEPT ![id] = node])
<1> DEFINE n == [m EXCEPT ![id] = node]
<1>1. IsFs(m) /\ Top \in Ids /\ m[Top].type = "dir" /\ o \in Ids /\ m[o].type = "dir"
  BY IdsAssumption, BesideIs DEF Safe, Shaped
<1>2. id \notin {Top, o}
  BY <1>1
<1>3. n = [i \in Ids |-> n[i]] /\ n[id] = node /\ \A e \in Ids \ {id} : n[e] = m[e]
  BY <1>1 DEF IsFs
<1> HIDE DEF n
<1>4. IsInode(node) /\ node.type # "none" /\ node.at = <<>>
  <2>1. DOMAIN <<>> = {} /\ <<>> = [x \in DOMAIN <<>> |-> <<>>[x]]
    OBVIOUS
  <2>2. <<>> \in Ats
    BY <2>1, AtsAre
  <2>3. CASE node = Folder
    BY <2>2, <2>3 DEF IsInode, Ats, Folder
  <2>4. CASE node = Note(<<>>)
    BY <2>2, <2>4 DEF IsInode, Ats, Note
  <2> QED BY <2>3, <2>4
<1>5. Names(n, id) = {} /\ \A e \in Ids \ {id} : Names(n, e) = Names(m, e)
  <2>1. DOMAIN <<>> = {}
    OBVIOUS
  <2> QED BY <1>3, <1>4, <2>1 DEF Names
<1>6. \A e \in Ids : \A x \in Names(n, e) :
        /\ x \in Names(m, e) /\ n[e].at[x] = m[e].at[x] /\ m[e].at[x] \in Ids \ {id}
        /\ m[e].at[x] # Top /\ m[m[e].at[x]].type # "none"
  <2> SUFFICES ASSUME NEW e \in Ids, NEW x \in Names(n, e)
               PROVE  /\ x \in Names(m, e) /\ n[e].at[x] = m[e].at[x] /\ m[e].at[x] \in Ids \ {id}
                      /\ m[e].at[x] # Top /\ m[m[e].at[x]].type # "none"
    OBVIOUS
  <2>1. e # id /\ x \in Names(m, e) /\ n[e].at[x] = m[e].at[x]
    BY <1>3, <1>5
  <2>2. m[e].at[x] \in Ids
    BY <1>1, <2>1, EntriesAreIds
  <2>3. m[e].at[x] # Top /\ m[m[e].at[x]].type # "none"
    BY <2>1 DEF Safe, Shaped
  <2> QED BY <2>1, <2>2, <2>3
<1>7. IsFs(n)
  BY <1>1, <1>3, <1>4 DEF IsFs
<1>8. Shaped(n)
  <2>1. n[Top].type = "dir"
    BY <1>1, <1>2, <1>3
  <2>2. \A e \in Ids : \A x \in Names(n, e) : n[e].at[x] # Top /\ n[n[e].at[x]].type # "none"
    BY <1>3, <1>6
  <2>3. \A e, f \in Ids : \A x \in Names(n, e), y \in Names(n, f) :
          n[e].at[x] = n[f].at[y] => e = f /\ x = y
    BY <1>6 DEF Safe, Shaped
  <2> QED BY <1>7, <2>1, <2>2, <2>3 DEF Shaped
<1>9. Beside(n, o)
  <2>1. n[Top] = m[Top] /\ n[o] = m[o]
    BY <1>1, <1>2, <1>3
  <2> QED BY <2>1 DEF Safe, Beside, Names
<1>10. Safe(n, o) /\ n[id].type # "none"
  BY <1>3, <1>4, <1>8, <1>9 DEF Safe
<1>11. \A e \in Ids : \A x \in Names(n, e) : n[e].at[x] # id
  BY <1>6
<1> QED BY <1>2, <1>3, <1>10, <1>11 DEF Added, n

(* What mkdir and open do: an inode is made and gets a name in the vault.  *)
Made(m, d, name, id, node) == Link([m EXCEPT ![id] = node], d, name, id)

(* A new inode with its first name keeps the shape.                        *)
LEMMA MadeSafe ==
  ASSUME NEW m, NEW o, Safe(m, o), NEW d, NEW name, InVault(m, o, d, name),
         NEW id \in Ids, m[id].type = "none", NEW node \in {Folder, Note(<<>>)}
  PROVE  Safe(Made(m, d, name, id, node), o)
<1> DEFINE n == [m EXCEPT ![id] = node]
<1>0. Added(m, o, id, node, n)
  BY NodeSafe
<1> HIDE DEF n
<1>1. /\ Safe(n, o) /\ id \notin {Top, o} /\ n[id].type # "none"
      /\ \A e \in Ids \ {id} : n[e] = m[e]
      /\ \A e \in Ids : \A x \in Names(n, e) : n[e].at[x] # id
  BY <1>0 DEF Added
<1>2. d # id
  BY DEF InVault, IsDir
<1>3. InVault(n, o, d, name)
  BY <1>1, <1>2 DEF InVault, IsDir
<1>4. \A e \in Ids : \A x \in Names(n, e) : n[e].at[x] = id => e = d /\ x = name
  BY <1>1
<1>5. Safe(Link(n, d, name, id), o)
  BY <1>1, <1>3, <1>4, LinkSafe
<1> QED BY <1>5 DEF Made, n

(* What nothing leads to is collected.                                     *)
Collected(m, held, R, n) ==
  Covers(m, {Top} \cup held, R) /\ n = [id \in Ids |-> IF id \in R THEN m[id] ELSE NoInode]

(* Everything else is kept.                                                *)
LEMMA CollectIs ==
  ASSUME NEW m, IsFs(m), NEW held \in SUBSET Ids
  PROVE  \E R \in SUBSET Ids : Collected(m, held, R, Collect(m, held))
<1> DEFINE R == Reached(m, {Top} \cup held)
<1>1. Covers(m, {Top} \cup held, R)
  BY ReachedCovers, IdsAssumption
<1>2. R \in SUBSET Ids
  BY <1>1 DEF Covers
<1>3. Collect(m, held) = [id \in Ids |-> IF id \in R THEN m[id] ELSE NoInode]
  BY DEF Collect
<1>4. Collected(m, held, R, Collect(m, held))
  BY <1>1, <1>3 DEF Collected
<1> HIDE DEF R
<1> QED BY <1>2, <1>4

(* Collecting keeps the shape.                                             *)
LEMMA CollectSafe ==
  ASSUME NEW m, NEW o, Safe(m, o), NEW held \in SUBSET Ids
  PROVE  Safe(Collect(m, held), o)
<1> DEFINE n == Collect(m, held)
<1>1. IsFs(m) /\ Top \in Ids /\ m[Top].type = "dir" /\ o \in Ids
  BY IdsAssumption, BesideIs DEF Safe, Shaped
<1>2. PICK R \in SUBSET Ids : Collected(m, held, R, n)
  BY <1>1, CollectIs
<1> HIDE DEF n
<1>3. n = [id \in Ids |-> n[id]] /\ (\A id \in R : n[id] = m[id]) /\ \A id \in Ids \ R : n[id] = NoInode
  BY <1>2 DEF Collected
<1>4. Top \in R /\ \A id \in R : \A x \in Names(m, id) : m[id].at[x] \in R
  BY <1>2 DEF Collected, Covers
<1>5. o \in R
  BY <1>4 DEF Safe, Beside
<1>6. IsInode(NoInode) /\ NoInode.at = <<>>
  <2>1. DOMAIN <<>> = {} /\ <<>> = [x \in DOMAIN <<>> |-> <<>>[x]]
    OBVIOUS
  <2>2. <<>> \in Ats
    BY <2>1, AtsAre
  <2> QED BY <2>2 DEF IsInode, Ats, NoInode
<1>7. IsFs(n)
  BY <1>1, <1>3, <1>6 DEF IsFs
<1>8. \A e \in Ids : \A x \in Names(n, e) :
        e \in R /\ x \in Names(m, e) /\ n[e].at[x] = m[e].at[x] /\ m[e].at[x] \in R
  <2> SUFFICES ASSUME NEW e \in Ids, NEW x \in Names(n, e)
               PROVE  e \in R /\ x \in Names(m, e) /\ n[e].at[x] = m[e].at[x] /\ m[e].at[x] \in R
    OBVIOUS
  <2>1. e \in R
    <3>1. DOMAIN <<>> = {}
      OBVIOUS
    <3> QED BY <1>3, <1>6, <3>1 DEF Names
  <2>2. n[e] = m[e]
    BY <1>3, <2>1
  <2> QED BY <1>4, <2>1, <2>2 DEF Names
<1>9. Shaped(n)
  <2>1. n[Top].type = "dir"
    BY <1>1, <1>3, <1>4
  <2>2. \A e \in Ids : \A x \in Names(n, e) : n[e].at[x] # Top /\ n[n[e].at[x]].type # "none"
    <3> SUFFICES ASSUME NEW e \in Ids, NEW x \in Names(n, e)
                 PROVE  n[e].at[x] # Top /\ n[n[e].at[x]].type # "none"
      OBVIOUS
    <3>1. x \in Names(m, e) /\ n[e].at[x] = m[e].at[x] /\ m[e].at[x] \in R
      BY <1>8
    <3>2. n[m[e].at[x]] = m[m[e].at[x]]
      BY <1>3, <3>1
    <3> QED BY <3>1, <3>2 DEF Safe, Shaped
  <2>3. \A e, f \in Ids : \A x \in Names(n, e), y \in Names(n, f) :
          n[e].at[x] = n[f].at[y] => e = f /\ x = y
    BY <1>8 DEF Safe, Shaped
  <2> QED BY <1>7, <2>1, <2>2, <2>3 DEF Shaped
<1>10. Beside(n, o)
  <2>1. n[Top] = m[Top] /\ n[o] = m[o]
    BY <1>3, <1>4, <1>5
  <2> QED BY <2>1 DEF Safe, Beside, Names
<1> QED BY <1>9, <1>10 DEF Safe, n

(* The entry a path of the vault leads to.                                 *)
LEMMA WalkEntry ==
  ASSUME NEW m, NEW o, Safe(m, o), NEW path \in VaultPaths, Walk(m, path) \notin Errors
  PROVE  /\ Walk(m, path) \in Ids \ {Top, o} /\ m[Walk(m, path)].type # "none"
         /\ InVault(m, o, ParentOf(m, path), Last(path)) /\ ParentOf(m, path) \in Ids
         /\ Last(path) \in Names(m, ParentOf(m, path))
         /\ m[ParentOf(m, path)].at[Last(path)] = Walk(m, path)
<1> DEFINE d == Walk(m, Front(path))
<1>0. Shaped(m) /\ path \in Seq(Components) /\ path # <<>>
  BY DEF Safe, VaultPaths
<1>1. Front(path) \in Seq(Components)
  BY <1>0, FrontIs
<1>2. Walk(m, path) = Entry(m, d, Last(path))
  BY <1>0, WalkFront
<1>3. d \in Ids \cup Errors
  BY <1>0, <1>1, WalkIs
<1>4. Walk(m, path) \in Ids \ {Top, o}
  BY WalkInVault
<1>5. ParentOf(m, path) = IF d \notin Errors /\ ~IsDir(m, d) THEN "ENOTDIR" ELSE d
  BY DEF ParentOf
<1> HIDE DEF d
<1>6. d \in Ids /\ IsDir(m, d) /\ Last(path) \in Names(m, d) /\ Walk(m, path) = m[d].at[Last(path)]
  BY <1>0, <1>2, <1>3, EntryIs
<1>7. ParentOf(m, path) = d
  BY <1>5, <1>6
<1>8. d \notin Errors
  BY <1>6, IdsAssumption
<1>9. InVault(m, o, d, Last(path))
  BY <1>7, <1>8, ParentInVault
<1>10. m[Walk(m, path)].type # "none"
  BY <1>0, <1>6 DEF Shaped
<1> QED BY <1>4, <1>6, <1>7, <1>9, <1>10

(* rename(2) within the vault.                                             *)
LEMMA RenameSafe ==
  ASSUME NEW m, NEW o, Safe(m, o), NEW from \in VaultPaths, NEW to \in VaultPaths,
         Walk(m, from) \notin Errors, ParentOf(m, to) \notin Errors
  PROVE  Safe(Rename(m, from, to), o)
<1> DEFINE id == Walk(m, from)
           d == ParentOf(m, from)
           e == ParentOf(m, to)
           n == Unlink(m, d, Last(from))
<1>1. /\ id \in Ids \ {Top, o} /\ m[id].type # "none"
      /\ InVault(m, o, d, Last(from)) /\ d \in Ids
      /\ Last(from) \in Names(m, d) /\ m[d].at[Last(from)] = id
  BY WalkEntry
<1>2. InVault(m, o, e, Last(to))
  BY ParentInVault
<1>3. Rename(m, from, to) = IF from = to THEN m ELSE Link(n, e, Last(to), id)
  BY DEF Rename
<1>4. Safe(n, o)
  <2> HIDE DEF d
  <2> QED BY <1>1, UnlinkSafe DEF InVault
<1>5. /\ \A f \in Ids : n[f].type = m[f].type
      /\ \A f \in Ids : \A x \in Names(n, f) : x \in Names(m, f) /\ n[f].at[x] = m[f].at[x] /\ (f # d \/ x # Last(from))
  <2> DEFINE at == UnlinkedAt(m, d, Last(from))
  <2> HIDE DEF d
  <2>1. Refilled(m, d, at, n)
    BY <1>1, UnlinkIs DEF Safe, Shaped
  <2>2. DOMAIN at = Names(m, d) \ {Last(from)} /\ \A x \in Names(m, d) \ {Last(from)} : at[x] = m[d].at[x]
    BY DEF UnlinkedAt, Names
  <2> HIDE DEF at, n
  <2>3. \A f \in Ids : n[f].type = m[f].type
    BY <1>1, <2>1 DEF Refilled
  <2>4. n[d].at = at /\ \A f \in Ids \ {d} : n[f] = m[f]
    BY <1>1, <2>1 DEF Refilled
  <2>5. ASSUME NEW f \in Ids, NEW x \in Names(n, f)
        PROVE  x \in Names(m, f) /\ n[f].at[x] = m[f].at[x] /\ (f # d \/ x # Last(from))
    <3>1. CASE f = d
      BY <2>2, <2>4, <3>1 DEF Names
    <3>2. CASE f # d
      BY <2>4, <3>2 DEF Names
    <3> QED BY <3>1, <3>2
  <2> QED BY <2>3, <2>5
<1> HIDE DEF n, d, e, id
<1>6. InVault(n, o, e, Last(to))
  BY <1>2, <1>5 DEF InVault, IsDir
<1>7. n[id].type # "none"
  BY <1>1, <1>5
<1>8. \A f \in Ids : \A x \in Names(n, f) : n[f].at[x] # id
  BY <1>1, <1>5 DEF Safe, Shaped
<1>9. Safe(Link(n, e, Last(to), id), o)
  BY <1>1, <1>4, <1>6, <1>7, <1>8, LinkSafe
<1> QED BY <1>3, <1>9

-----------------------------------------------------------------------------
(* The local variables of a handler never lead out of the vault.           *)
Handles(o) == (Ids \ {Top, o}) \cup {None}
Dirs == [path : VaultPaths \cup {<<>>}, again : BOOLEAN]
Frames(o) == [dir : Ids \ {Top, o}, path : VaultPaths, left : SUBSET [name : Components, folder : BOOLEAN]]
IsLoc(l, o) ==
  /\ l = [fd |-> l.fd, dest |-> l.dest, got |-> l.got, dirs |-> l.dirs, frames |-> l.frames,
          reading |-> l.reading, left |-> l.left, files |-> l.files]
  /\ l.fd \in Handles(o) /\ l.dest \in Handles(o)
  /\ l.dirs \in Seq(Dirs) /\ l.frames \in Seq(Frames(o))
  /\ l.reading \in VaultPaths \cup {None} /\ l.left \in Seq(Relative)

(* The operations that give notes.                                         *)
Reading == {"read", "download", "batch_read", "zip", "vault_file"}

(* The calls the handler of an operation makes.                            *)
Fits(op, step) ==
  \/ step = "mkdirs" /\ op \in {"write", "rename", "copy", "mkdir"}
  \/ step = "create" /\ op = "write"
  \/ step = "open_append" /\ op = "append"
  \/ step \in {"write_all", "sync_all"} /\ op \in {"write", "append"}
  \/ step = "size" /\ op = "write"
  \/ step \in {"open_source", "create_dest", "transfer"} /\ op = "copy"
  \/ step \in {"mkdir", "rename", "utimes", "unlink", "rmdir", "stat", "access", "batch_read"}
     /\ op = step
  \/ step \in {"rm", "remove_file", "remove_dir", "remove_dir_all", "empty"} /\ op = "rm"
  \/ step = "metadata" /\ op \in {"read", "download", "readdir", "zip"}
  \/ step \in {"open", "read"} /\ op \in Reading
  \/ step = "read_dir" /\ op \in {"readdir", "zip"}
  \/ step = "zip" /\ op = "zip"

(* What a handler has when it makes a call.                                *)
Ready(q, l, step) ==
  /\ q \in Queries /\ Fits(q.op, step)
  /\ q.op # "batch_read" => q.path \in Relative
  /\ step = "mkdirs" => l.dirs # <<>>
  /\ step = "empty" => l.frames # <<>> /\ l.frames[1].path = ResolveInVault(q.path).out
  /\ (step = "zip" \/ (step \in {"open", "read"} /\ q.op = "zip")) => l.frames # <<>>
  /\ step \in {"open", "read", "read_dir"} => l.reading \in VaultPaths
  /\ step \in {"create_dest", "transfer", "read"} => l.fd # None

Codes == Errors \cup {None, "bad"}
AnswerFits(r) == IF pc[r] = "done" THEN answer[r].err \in Codes ELSE answer[r] = None
HandlerInv(r, o) ==
  /\ IsLoc(loc[r], o) /\ (r \in Running => Ready(req[r], loc[r], pc[r]))
  /\ AnswerFits(r) /\ rivals[r] \subseteq Requests \ {r}
Shapes ==
  /\ req \in [Requests -> Queries \cup {None}]
  /\ pc = [r \in Requests |-> pc[r]] /\ loc = [r \in Requests |-> loc[r]]
  /\ answer = [r \in Requests |-> answer[r]]
ControlInv(o) == Shapes /\ \A r \in Requests : HandlerInv(r, o)

(* One call of r's handler, which serves q.                                *)
Turn(r, q, o) ==
  /\ \A s \in Requests \ {r} : pc'[s] = pc[s] /\ loc'[s] = loc[s] /\ answer'[s] = answer[s]
  /\ pc' = [s \in Requests |-> pc'[s]] /\ loc' = [s \in Requests |-> loc'[s]]
  /\ answer' = [s \in Requests |-> answer'[s]]
  /\ \/ pc'[r] = "done" /\ loc'[r] = Nothing /\ answer'[r].err \in Codes
     \/ Ready(q, loc'[r], pc'[r]) /\ IsLoc(loc'[r], o) /\ answer'[r] = answer[r]

(* A handler that goes on, and one that answers.                           *)
LEMMA GotoTurns ==
  ASSUME NEW o, NEW r \in Requests, NEW q, NEW step, NEW l, Shapes, Goto(r, step, l),
         Ready(q, l, step), IsLoc(l, o)
  PROVE  Turn(r, q, o)
<1>1. /\ pc' = [s \in Requests |-> IF s = r THEN step ELSE pc[s]]
      /\ loc' = [s \in Requests |-> IF s = r THEN l ELSE loc[s]] /\ answer' = answer
  BY DEF Goto, Shapes
<1>2. /\ \A s \in Requests \ {r} : pc'[s] = pc[s] /\ loc'[s] = loc[s] /\ answer'[s] = answer[s]
      /\ pc'[r] = step /\ loc'[r] = l /\ answer'[r] = answer[r]
  BY <1>1
<1>3. /\ pc' = [s \in Requests |-> pc'[s]] /\ loc' = [s \in Requests |-> loc'[s]]
      /\ answer' = [s \in Requests |-> answer'[s]]
  BY <1>1 DEF Shapes
<1> QED BY <1>2, <1>3 DEF Turn

(* The handler that answers lets go of everything.                         *)
LEMMA AnswerTurns ==
  ASSUME NEW o, NEW r \in Requests, NEW q, NEW err \in Codes, NEW out, Shapes, Answer(r, err, out)
  PROVE  Turn(r, q, o) /\ pc'[r] = "done" /\ answer'[r] = [err |-> err, out |-> out]
<1> DEFINE a == [err |-> err, out |-> out]
<1>0. a.err = err
  OBVIOUS
<1>a. answer' = [answer EXCEPT ![r] = a]
  BY DEF Answer
<1> HIDE DEF a
<1>1. /\ pc' = [s \in Requests |-> IF s = r THEN "done" ELSE pc[s]]
      /\ loc' = [s \in Requests |-> IF s = r THEN Nothing ELSE loc[s]]
      /\ answer' = [s \in Requests |-> IF s = r THEN a ELSE answer[s]]
  BY <1>a DEF Answer, Shapes
<1>2. /\ \A s \in Requests \ {r} : pc'[s] = pc[s] /\ loc'[s] = loc[s] /\ answer'[s] = answer[s]
      /\ pc'[r] = "done" /\ loc'[r] = Nothing /\ answer'[r] = a
  BY <1>1
<1>3. /\ pc' = [s \in Requests |-> pc'[s]] /\ loc' = [s \in Requests |-> loc'[s]]
      /\ answer' = [s \in Requests |-> answer'[s]]
  BY <1>1
<1>4. Turn(r, q, o)
  BY <1>0, <1>2, <1>3 DEF Turn
<1> QED BY <1>2, <1>4 DEF a

(* An empty stack of everything is fine.                                   *)
LEMMA NothingIsLoc ==
  ASSUME NEW o PROVE IsLoc(Nothing, o)
<1>1. <<>> \in Seq(Dirs) /\ <<>> \in Seq(Frames(o)) /\ <<>> \in Seq(Relative)
  OBVIOUS
<1> QED BY <1>1 DEF IsLoc, Nothing, Handles

(* A call keeps what is known of all handlers.                             *)
LEMMA TurnKeeps ==
  ASSUME NEW o, NEW r \in Requests, NEW q, ControlInv(o), Turn(r, q, o), r \in Running \/ pc[r] = "idle",
         req' \in [Requests -> Queries \cup {None}], req'[r] = q,
         \A s \in Requests \ {r} : req'[s] = req[s],
         \A s \in Requests : rivals'[s] \subseteq Requests \ {s}
  PROVE  ControlInv(o)'
<1>1. Shapes'
  BY DEF Turn, Shapes
<1>2. ASSUME NEW s \in Requests \ {r} PROVE HandlerInv(s, o)'
  <2>1. pc'[s] = pc[s] /\ loc'[s] = loc[s] /\ answer'[s] = answer[s] /\ req'[s] = req[s]
    BY <1>2 DEF Turn
  <2>2. HandlerInv(s, o)
    BY <1>2 DEF ControlInv
  <2>3. IsLoc(loc[s], o)' /\ AnswerFits(s)'
    BY <2>1, <2>2 DEF HandlerInv, AnswerFits, IsLoc
  <2>4. s \in Running <=> s \in Running'
    BY <2>1 DEF Running
  <2>5. s \in Running => Ready(req[s], loc[s], pc[s])'
    BY <2>1, <2>2 DEF HandlerInv, Ready
  <2> QED BY <2>3, <2>4, <2>5 DEF HandlerInv
<1>3. HandlerInv(r, o)'
  <2>1. CASE pc'[r] = "done" /\ loc'[r] = Nothing /\ answer'[r].err \in Codes
    <3>1. IsLoc(loc[r], o)'
      BY <2>1, NothingIsLoc DEF IsLoc, Nothing
    <3>2. r \notin Running' /\ AnswerFits(r)'
      BY <2>1 DEF Running, AnswerFits
    <3> QED BY <3>1, <3>2 DEF HandlerInv
  <2>2. CASE Ready(q, loc'[r], pc'[r]) /\ IsLoc(loc'[r], o) /\ answer'[r] = answer[r]
    <3>1. IsLoc(loc[r], o)' /\ Ready(req[r], loc[r], pc[r])'
      BY <2>2 DEF IsLoc, Ready
    <3>2. pc[r] # "done" /\ answer[r] = None
      <4>1. AnswerFits(r)
        BY DEF ControlInv, HandlerInv
      <4>2. pc[r] # "done"
        BY DEF Running
      <4> QED BY <4>1, <4>2 DEF AnswerFits
    <3>3. pc'[r] # "done"
      BY <2>2 DEF Ready, Fits
    <3>4. AnswerFits(r)'
      BY <2>2, <3>2, <3>3 DEF AnswerFits
    <3> QED BY <3>1, <3>4 DEF HandlerInv
  <2> QED BY <2>1, <2>2 DEF Turn
<1> QED BY <1>1, <1>2, <1>3 DEF ControlInv

-----------------------------------------------------------------------------
(* An inode that memory and disk both have is a folder in both or a note   *)
(* in both: an inode is made where both have none.                         *)
Kin(m, n) == \A id \in Ids : m[id].type = "none" \/ n[id].type = "none" \/ m[id].type = n[id].type
FilesInv(o) == Safe(mem, o) /\ Safe(disk, o) /\ Kin(mem, disk)

(* What a call other than utimes may make of the file system.              *)
SameTimes(n) == \A id \in Ids : n[id].mtime \in {mem[id].mtime, None}
Fair(n, o) == Safe(n, o) /\ Kin(n, disk) /\ SameTimes(n)

(* The file system may stay as it is.                                      *)
LEMMA StaysFair ==
  ASSUME NEW o, FilesInv(o) PROVE Fair(mem, o)
BY DEF FilesInv, Fair, SameTimes

(* New folders and notes.                                                  *)
LEMMA MadeFair ==
  ASSUME NEW o, FilesInv(o), NEW d, NEW name, InVault(mem, o, d, name),
         Unused # {}, NEW node \in {Folder, Note(<<>>)}
  PROVE  Fair(Made(mem, d, name, Free, node), o) /\ Free \in Ids \ {Top, o}
<1> DEFINE m == [mem EXCEPT ![Free] = node]
           n == Made(mem, d, name, Free, node)
           at == LinkedAt(m, d, name, Free)
<1>1. Free \in Ids /\ mem[Free].type = "none" /\ disk[Free].type = "none"
  BY DEF Free, Unused
<1>a. Safe(mem, o)
  BY DEF FilesInv
<1> HIDE DEF m
<1>2. Added(mem, o, Free, node, m)
  <2> HIDE DEF Free
  <2> QED BY <1>1, <1>a, NodeSafe DEF m
<1>3. Safe(n, o)
  <2> HIDE DEF Free
  <2> QED BY <1>1, <1>a, MadeSafe
<1>4. d \in Ids
  BY DEF InVault
<1>5. Refilled(m, d, at, n)
  <2> HIDE DEF at, Free
  <2>1. IsFs(m)
    BY <1>2 DEF Added, Safe, Shaped
  <2>2. n = Link(m, d, name, Free)
    BY DEF Made, m
  <2> QED BY <1>4, <2>1, <2>2, LinkIs DEF at
<1> HIDE DEF at, n, Free
<1>6. \A id \in Ids : n[id].type = m[id].type /\ n[id].mtime \in {m[id].mtime, None}
  BY <1>4, <1>5 DEF Refilled
<1>7. \A id \in Ids \ {Free} : m[id] = mem[id]
  BY <1>2 DEF Added
<1>8. m[Free] = node
  BY <1>2 DEF Added
<1>9. node.mtime = None
  BY DEF Folder, Note
<1>10. Kin(n, disk)
  <2> SUFFICES ASSUME NEW id \in Ids
               PROVE  n[id].type = "none" \/ disk[id].type = "none" \/ n[id].type = disk[id].type
    BY DEF Kin
  <2>1. CASE id = Free
    BY <1>1, <2>1
  <2>2. CASE id # Free
    BY <1>6, <1>7, <2>2 DEF FilesInv, Kin
  <2> QED BY <2>1, <2>2
<1>11. SameTimes(n)
  BY <1>1, <1>6, <1>7, <1>8, <1>9 DEF SameTimes
<1>12. Free \notin {Top, o}
  BY <1>2 DEF Added
<1> QED BY <1>1, <1>3, <1>10, <1>11, <1>12 DEF Fair, n

(* Removed entries.                                                        *)
LEMMA UnlinkFair ==
  ASSUME NEW o, FilesInv(o), NEW d \in Ids \ {o}, NEW name, d = Top => name = Vault
  PROVE  Fair(Unlink(mem, d, name), o)
<1> DEFINE n == Unlink(mem, d, name)
           at == UnlinkedAt(mem, d, name)
<1>1. Safe(mem, o) /\ IsFs(mem)
  BY DEF FilesInv, Safe, Shaped
<1>2. Safe(n, o)
  BY <1>1, UnlinkSafe
<1>3. Refilled(mem, d, at, n)
  BY <1>1, UnlinkIs
<1> HIDE DEF n, at
<1>4. \A id \in Ids : n[id].type = mem[id].type /\ n[id].mtime \in {mem[id].mtime, None}
  BY <1>3 DEF Refilled
<1>5. Kin(n, disk)
  BY <1>4 DEF FilesInv, Kin
<1>6. SameTimes(n)
  BY <1>4 DEF SameTimes
<1> QED BY <1>2, <1>5, <1>6 DEF Fair, n

(* Bytes written to an open file.                                          *)
LEMMA WithBytesFair ==
  ASSUME NEW o, FilesInv(o), NEW h \in Handles(o), NEW bytes
  PROVE  Fair(WithBytes(mem, h, bytes), o)
<1> DEFINE n == WithBytes(mem, h, bytes)
<1>1. Safe(mem, o) /\ IsFs(mem)
  BY DEF FilesInv, Safe, Shaped
<1>2. CASE h = None
  <2>1. None \notin Ids
    BY IdsAssumption
  <2>2. n = mem
    BY <1>1, <1>2, <2>1 DEF WithBytes, IsFs
  <2> HIDE DEF n
  <2>3. Fair(n, o)
    BY <2>2, StaysFair
  <2> QED BY <2>3 DEF n
<1>3. CASE h \in Ids \ {Top, o}
  <2>1. Touched(mem, h, n) /\ n[h].mtime = None
    BY <1>1, <1>3, WithBytesIs
  <2> HIDE DEF n
  <2>2. Safe(n, o)
    BY <1>1, <1>3, <2>1, TouchedSafe
  <2>3. \A id \in Ids : n[id].type = mem[id].type
    BY <1>3, <2>1 DEF Touched
  <2>4. Kin(n, disk)
    BY <2>3 DEF FilesInv, Kin
  <2>5. SameTimes(n)
    BY <1>3, <2>1 DEF SameTimes, Touched
  <2> QED BY <2>2, <2>4, <2>5 DEF Fair, n
<1> QED BY <1>2, <1>3 DEF Handles

(* rename within the vault.                                                *)
LEMMA RenameFair ==
  ASSUME NEW o, FilesInv(o), NEW from \in VaultPaths, NEW to \in VaultPaths,
         Walk(mem, from) \notin Errors, ParentOf(mem, to) \notin Errors
  PROVE  Fair(Rename(mem, from, to), o)
<1> DEFINE id == Walk(mem, from)
           d == ParentOf(mem, from)
           e == ParentOf(mem, to)
           m == Unlink(mem, d, Last(from))
           n == Link(m, e, Last(to), id)
           at == LinkedAt(m, e, Last(to), id)
<1>1. Safe(mem, o) /\ IsFs(mem)
  BY DEF FilesInv, Safe, Shaped
<1>2. Safe(Rename(mem, from, to), o)
  BY <1>1, RenameSafe
<1>3. Rename(mem, from, to) = IF from = to THEN mem ELSE n
  BY DEF Rename
<1>4. InVault(mem, o, d, Last(from))
  BY <1>1, WalkEntry
<1>5. e \in Ids
  BY <1>1, ParentInVault DEF InVault
<1> HIDE DEF id, d, e
<1>6. Fair(m, o)
  <2>1. d \in Ids \ {o} /\ (d = Top => Last(from) = Vault)
    BY <1>4 DEF InVault
  <2> QED BY <2>1, UnlinkFair
<1> HIDE DEF m
<1>7. IsFs(m)
  BY <1>6 DEF Fair, Safe, Shaped
<1>8. Refilled(m, e, at, n)
  BY <1>5, <1>7, LinkIs
<1> HIDE DEF n, at
<1>9. \A i \in Ids : n[i].type = m[i].type /\ n[i].mtime \in {m[i].mtime, None}
  BY <1>5, <1>8 DEF Refilled
<1>10. Kin(n, disk)
  BY <1>6, <1>9 DEF Fair, Kin
<1>11. SameTimes(n)
  BY <1>6, <1>9 DEF Fair, SameTimes
<1>12. Kin(mem, disk) /\ SameTimes(mem)
  BY DEF FilesInv, SameTimes
<1> QED BY <1>2, <1>3, <1>10, <1>11, <1>12 DEF Fair

(* What handlers hold open are inodes.                                     *)
LEMMA HeldIds ==
  ASSUME NEW o, ControlInv(o) PROVE Held \in SUBSET Ids
<1>1. ASSUME NEW r \in Running
      PROVE  /\ loc[r].fd \in Ids \cup {None} /\ loc[r].dest \in Ids \cup {None}
             /\ \A i \in DOMAIN loc[r].frames : loc[r].frames[i].dir \in Ids
  <2>1. IsLoc(loc[r], o)
    BY DEF Running, ControlInv, HandlerInv
  <2>2. loc[r].fd \in Ids \cup {None} /\ loc[r].dest \in Ids \cup {None}
    BY <2>1 DEF IsLoc, Handles
  <2>3. ASSUME NEW i \in DOMAIN loc[r].frames PROVE loc[r].frames[i].dir \in Ids
    <3>1. loc[r].frames \in Seq(Frames(o))
      BY <2>1 DEF IsLoc
    <3>2. loc[r].frames[i] \in Frames(o)
      BY <3>1
    <3> QED BY <3>2 DEF Frames
  <2> QED BY <2>2, <2>3
<1> QED BY <1>1 DEF Held

(* Collecting keeps types and times, or the inode is gone.                 *)
LEMMA CollectFair ==
  ASSUME NEW m, IsFs(m), NEW held \in SUBSET Ids
  PROVE  \A id \in Ids : Collect(m, held)[id] \in {m[id], NoInode}
<1> DEFINE n == Collect(m, held)
<1>1. PICK R \in SUBSET Ids : Collected(m, held, R, n)
  BY CollectIs
<1> HIDE DEF n
<1>2. \A id \in Ids : n[id] \in {m[id], NoInode}
  BY <1>1 DEF Collected
<1> QED BY <1>2 DEF n

(* With all names written out the disk has the entries of the memory.      *)
LEMMA JournaledSafe ==
  ASSUME NEW o, FilesInv(o), NEW files
  PROVE  Safe(Journaled(files), o) /\ Kin(mem, Journaled(files)) /\ IsFs(Journaled(files))
<1> DEFINE n == Journaled(files)
<1>1. IsFs(mem) /\ IsFs(disk) /\ Safe(mem, o) /\ o \in Ids /\ mem[o].type = "dir"
  BY BesideIs DEF FilesInv, Safe, Shaped
<1>2. n = [id \in Ids |-> n[id]]
  BY DEF Journaled
<1>3. ASSUME NEW id \in Ids
      PROVE  n[id] = [type |-> mem[id].type, at |-> mem[id].at, bytes |-> n[id].bytes, mtime |-> n[id].mtime]
  <2>1. n[id] = IF id \in files \/ mem[id].type # "file" THEN mem[id]
                ELSE IF disk[id].type = "none" THEN Note(<<>>) ELSE disk[id]
    BY DEF Journaled
  <2>2. /\ mem[id] = [type |-> mem[id].type, at |-> mem[id].at, bytes |-> mem[id].bytes, mtime |-> mem[id].mtime]
        /\ mem[id].type = "file" => mem[id].at = <<>>
    BY <1>1 DEF IsFs, IsInode
  <2>3. /\ disk[id] = [type |-> disk[id].type, at |-> disk[id].at, bytes |-> disk[id].bytes, mtime |-> disk[id].mtime]
        /\ disk[id].type = "file" => disk[id].at = <<>>
    BY <1>1 DEF IsFs, IsInode
  <2> HIDE DEF n
  <2>4. CASE id \in files \/ mem[id].type # "file"
    BY <2>1, <2>2, <2>4
  <2>5. CASE mem[id].type = "file" /\ n[id] = Note(<<>>)
    BY <2>2, <2>5 DEF Note
  <2>6. CASE mem[id].type = "file" /\ disk[id].type # "none" /\ n[id] = disk[id]
    <3>1. disk[id].type = "file"
      BY <2>6 DEF FilesInv, Kin
    <3>2. disk[id].type = mem[id].type /\ disk[id].at = mem[id].at
      BY <2>2, <2>3, <2>6, <3>1
    <3> QED BY <2>3, <2>6, <3>2
  <2> QED BY <2>1, <2>4, <2>5, <2>6
<1>4. n[o] = mem[o]
  BY <1>1 DEF Journaled
<1> HIDE DEF n
<1>5. Alike(mem, n)
  BY <1>2, <1>3 DEF Alike
<1>6. Safe(n, o)
  BY <1>1, <1>4, <1>5, AlikeSafe
<1>7. Kin(mem, n)
  BY <1>5, AlikeEntries DEF Kin
<1>8. IsFs(n)
  BY <1>6 DEF Safe, Shaped
<1> QED BY <1>6, <1>7, <1>8 DEF n

(* What is written out without names leaves the entries of the disk.       *)
LEMMA FlushedSafe ==
  ASSUME NEW o, FilesInv(o), NEW ids
  PROVE  Safe(Flushed(ids), o) /\ Kin(mem, Flushed(ids))
<1> DEFINE n == Flushed(ids)
<1>1. /\ IsFs(mem) /\ IsFs(disk) /\ o \in Ids /\ disk[o].type = "dir"
      /\ Top \in Ids /\ disk[Top].type = "dir" /\ Kin(mem, disk)
  BY BesideIs, IdsAssumption DEF FilesInv, Safe, Shaped
<1>2. n = [id \in Ids |-> n[id]]
  BY DEF Flushed
<1>3. ASSUME NEW id \in Ids
      PROVE  /\ IsInode(n[id]) /\ n[id].at = disk[id].at /\ Names(n, id) = Names(disk, id)
             /\ n[id].type = disk[id].type \/ (disk[id].type = "none" /\ n[id].type = "file")
             /\ n[id].type \in {mem[id].type, disk[id].type}
             /\ disk[id].type = "dir" => n[id] = disk[id]
  <2>1. n[id] = IF id \in ids /\ mem[id].type = "file" THEN mem[id] ELSE disk[id]
    BY DEF Flushed
  <2>2. /\ IsInode(mem[id]) /\ IsInode(disk[id])
        /\ mem[id].type = "file" => mem[id].at = <<>>
        /\ disk[id].type # "dir" => disk[id].at = <<>>
        /\ disk[id].type \in {"dir", "file", "none"}
    BY <1>1 DEF IsFs, IsInode
  <2>3. mem[id].type = "file" => disk[id].type \in {"none", "file"}
    BY <1>1, <2>2 DEF Kin
  <2> HIDE DEF n
  <2>4. n[id].at = disk[id].at
    BY <2>1, <2>2, <2>3
  <2> QED BY <2>1, <2>2, <2>3, <2>4 DEF Names
<1> HIDE DEF n
<1>4. Shaped(n)
  <2>1. IsFs(n) /\ n[Top].type = "dir"
    BY <1>1, <1>2, <1>3 DEF IsFs
  <2>2. ASSUME NEW d \in Ids, NEW x \in Names(n, d) PROVE n[d].at[x] # Top /\ n[n[d].at[x]].type # "none"
    <3>1. x \in Names(disk, d) /\ n[d].at[x] = disk[d].at[x]
      BY <1>3
    <3>2. disk[d].at[x] \in Ids /\ disk[d].at[x] # Top /\ disk[disk[d].at[x]].type # "none"
      BY <1>1, <3>1, EntriesAreIds DEF FilesInv, Safe, Shaped
    <3> QED BY <1>3, <3>1, <3>2
  <2>3. \A d, e \in Ids : \A x \in Names(n, d), y \in Names(n, e) : n[d].at[x] = n[e].at[y] => d = e /\ x = y
    BY <1>3 DEF FilesInv, Safe, Shaped
  <2> QED BY <2>1, <2>2, <2>3 DEF Shaped
<1>5. Beside(n, o)
  <2>1. n[Top] = disk[Top] /\ n[o] = disk[o]
    BY <1>1, <1>3
  <2> QED BY <2>1 DEF FilesInv, Safe, Beside, Names
<1>6. Kin(mem, n)
  BY <1>1, <1>3 DEF Kin
<1> QED BY <1>4, <1>5, <1>6 DEF Safe, n

-----------------------------------------------------------------------------
(* What a call of r's handler does to the file system.                     *)
Dated(r, n, o) ==
  /\ Safe(n, o) /\ Kin(n, disk)
  /\ \A id \in Ids : n[id].mtime \in {mem[id].mtime, FtFromMs(req[r].mtime)}
  /\ req[r].op = "utimes" /\ pc'[r] = "done" /\ answer'[r].err = None
AtRest == UNCHANGED <<mem, views, disk>>

Files(r, o) ==
  \/ AtRest
  \/ \E n : Store(n) /\ Fair(n, o)
  \/ \E n : Store(n) /\ Dated(r, n, o)
  \/ \E ids : disk' = Flushed(ids) /\ UNCHANGED <<mem, views>>

(* What is stored is collected.                                            *)
LEMMA StoreKeeps ==
  ASSUME NEW o, FilesInv(o), ControlInv(o), NEW n, Store(n), Safe(n, o), Kin(n, disk)
  PROVE  FilesInv(o)'
<1>1. Held \in SUBSET Ids /\ IsFs(n)
  BY HeldIds DEF Safe, Shaped
<1>2. mem' = Collect(n, Held) /\ disk' = disk
  BY DEF Store
<1> DEFINE c == Collect(n, Held)
<1>3. Safe(c, o)
  BY <1>1, CollectSafe
<1>4. \A id \in Ids : c[id] \in {n[id], NoInode}
  BY <1>1, CollectFair
<1> HIDE DEF c
<1>5. Kin(c, disk)
  BY <1>4 DEF Kin, NoInode
<1>6. mem' = c
  BY <1>2 DEF c
<1>7. Safe(mem, o)' /\ Safe(disk, o)' /\ Kin(mem, disk)'
  BY <1>2, <1>3, <1>5, <1>6 DEF FilesInv
<1> QED BY <1>7 DEF FilesInv

(* Every effect a call may have keeps both file systems in shape.          *)
LEMMA FilesKeep ==
  ASSUME NEW o, FilesInv(o), ControlInv(o), NEW r, Files(r, o)
  PROVE  FilesInv(o)'
<1>1. CASE AtRest
  <2>1. mem' = mem /\ disk' = disk
    BY <1>1 DEF AtRest
  <2>2. Safe(mem, o)' /\ Safe(disk, o)' /\ Kin(mem, disk)'
    BY <2>1 DEF FilesInv
  <2> QED BY <2>2 DEF FilesInv
<1>2. ASSUME NEW n, Store(n), Fair(n, o) PROVE FilesInv(o)'
  BY <1>2, StoreKeeps DEF Fair
<1>3. ASSUME NEW n, Store(n), Dated(r, n, o) PROVE FilesInv(o)'
  BY <1>3, StoreKeeps DEF Dated
<1>4. ASSUME NEW ids, disk' = Flushed(ids), UNCHANGED <<mem, views>> PROVE FilesInv(o)'
  <2>1. Safe(Flushed(ids), o) /\ Kin(mem, Flushed(ids))
    BY FlushedSafe
  <2>5. disk' = Flushed(ids) /\ mem' = mem
    BY <1>4
  <2>6. Safe(mem, o)' /\ Safe(disk, o)' /\ Kin(mem, disk)'
    BY <2>1, <2>5 DEF FilesInv
  <2> QED BY <2>6 DEF FilesInv
<1> QED BY <1>1, <1>2, <1>3, <1>4 DEF Files

-----------------------------------------------------------------------------
(* A handler about to make a call, and what making it has to do.           *)
Busy(r, step, o) ==
  /\ r \in Requests /\ r \in Running /\ Shapes /\ pc[r] = step
  /\ IsLoc(loc[r], o) /\ Ready(req[r], loc[r], step)
  /\ req' = req /\ rivals' = rivals
Works(r, o) ==
  r \in Running /\ req' = req /\ rivals' = rivals /\ Turn(r, req[r], o) /\ Files(r, o)

(* The handler whose turn it is satisfies the control invariant.           *)
LEMMA Busies ==
  ASSUME NEW o, ControlInv(o), NEW r \in Requests, NEW step, step \notin {"idle", "done", "lost"}, At(r, step)
  PROVE  Busy(r, step, o)
<1>1. pc[r] = step /\ r \in Running /\ req' = req /\ rivals' = rivals
  BY DEF At, Running
<1>2. Shapes /\ HandlerInv(r, o)
  BY DEF ControlInv
<1> QED BY <1>1, <1>2 DEF Busy, HandlerInv

(* Its paths are in the vault.                                             *)
LEMMA PathsStay ==
  ASSUME NEW o, NEW r, NEW step, Busy(r, step, o)
  PROVE  /\ step \notin {"batch_read", "open", "read"} => Path(r) \in VaultPaths
         /\ To(r) \in VaultPaths
<1>1. /\ req[r] \in Queries
      /\ step \notin {"batch_read", "open", "read"} => req[r].path \in Relative
  BY DEF Busy, Ready, Fits
<1>2. req[r].to \in Relative
  BY <1>1, QueriesAssumption DEF Relative
<1> QED BY <1>1, <1>2, ResolvedInVault DEF Path, To

(* The parent of a path of the vault is in the vault or is the data        *)
(* directory.                                                              *)
LEMMA FrontInVault ==
  ASSUME NEW p \in VaultPaths
  PROVE  Front(p) \in VaultPaths \cup {<<>>}
<1>1. p \in Seq(Components) /\ p # <<>> /\ p[1] = Vault /\ Len(p) \in Nat /\ Len(p) >= 1
  BY DEF VaultPaths
<1>2. /\ Front(p) \in Seq(Components) /\ Len(Front(p)) = Len(p) - 1
      /\ \A k \in 1..(Len(p) - 1) : Front(p)[k] = p[k]
  BY <1>1, FrontIs
<1>3. CASE Len(p) = 1
  <2>1. Len(Front(p)) = 0
    BY <1>2, <1>3
  <2> QED BY <1>2, <2>1
<1>4. CASE Len(p) # 1
  <2>1. Len(Front(p)) >= 1 /\ 1 \in 1..(Len(p) - 1)
    BY <1>1, <1>2, <1>4
  <2> QED BY <1>1, <1>2, <2>1 DEF VaultPaths
<1> QED BY <1>3, <1>4

(* Local variables that are assigned to.                                   *)
LEMMA LocFd ==
  ASSUME NEW o, NEW l, IsLoc(l, o), NEW h \in Handles(o)
  PROVE  /\ IsLoc([l EXCEPT !.fd = h], o) /\ [l EXCEPT !.fd = h].fd = h
         /\ [l EXCEPT !.fd = h].reading = l.reading /\ [l EXCEPT !.fd = h].frames = l.frames
<1> DEFINE k == [l EXCEPT !.fd = h]
<1>0. l = [fd |-> l.fd, dest |-> l.dest, got |-> l.got, dirs |-> l.dirs, frames |-> l.frames,
           reading |-> l.reading, left |-> l.left, files |-> l.files]
  BY DEF IsLoc
<1>1. k = [fd |-> h, dest |-> l.dest, got |-> l.got, dirs |-> l.dirs, frames |-> l.frames,
           reading |-> l.reading, left |-> l.left, files |-> l.files]
  BY <1>0
<1> HIDE DEF k
<1>2. IsLoc(k, o) /\ k.fd = h /\ k.reading = l.reading /\ k.frames = l.frames
  BY <1>1 DEF IsLoc
<1> QED BY <1>2 DEF k

(* What has been read does not matter.                                     *)
LEMMA LocGot ==
  ASSUME NEW o, NEW l, IsLoc(l, o), NEW x
  PROVE  /\ IsLoc([l EXCEPT !.got = x], o) /\ [l EXCEPT !.got = x].fd = l.fd
         /\ [l EXCEPT !.got = x].reading = l.reading /\ [l EXCEPT !.got = x].frames = l.frames
<1> DEFINE k == [l EXCEPT !.got = x]
<1>0. l = [fd |-> l.fd, dest |-> l.dest, got |-> l.got, dirs |-> l.dirs, frames |-> l.frames,
           reading |-> l.reading, left |-> l.left, files |-> l.files]
  BY DEF IsLoc
<1>1. k = [fd |-> l.fd, dest |-> l.dest, got |-> x, dirs |-> l.dirs, frames |-> l.frames,
           reading |-> l.reading, left |-> l.left, files |-> l.files]
  BY <1>0
<1> HIDE DEF k
<1>2. IsLoc(k, o) /\ k.fd = l.fd /\ k.reading = l.reading /\ k.frames = l.frames
  BY <1>1 DEF IsLoc
<1> QED BY <1>2 DEF k

(* Another destination keeps the local variables in order.                 *)
LEMMA LocDest ==
  ASSUME NEW o, NEW l, IsLoc(l, o), NEW h \in Handles(o)
  PROVE  IsLoc([l EXCEPT !.dest = h], o)
<1> DEFINE k == [l EXCEPT !.dest = h]
<1>0. l = [fd |-> l.fd, dest |-> l.dest, got |-> l.got, dirs |-> l.dirs, frames |-> l.frames,
           reading |-> l.reading, left |-> l.left, files |-> l.files]
  BY DEF IsLoc
<1>1. k = [fd |-> l.fd, dest |-> h, got |-> l.got, dirs |-> l.dirs, frames |-> l.frames,
           reading |-> l.reading, left |-> l.left, files |-> l.files]
  BY <1>0
<1> HIDE DEF k
<1>2. IsLoc(k, o)
  BY <1>1 DEF IsLoc
<1> QED BY <1>2 DEF k

(* So do other folders to make,                                            *)
LEMMA LocDirs ==
  ASSUME NEW o, NEW l, IsLoc(l, o), NEW s \in Seq(Dirs)
  PROVE  IsLoc([l EXCEPT !.dirs = s], o) /\ [l EXCEPT !.dirs = s].dirs = s
<1> DEFINE k == [l EXCEPT !.dirs = s]
<1>0. l = [fd |-> l.fd, dest |-> l.dest, got |-> l.got, dirs |-> l.dirs, frames |-> l.frames,
           reading |-> l.reading, left |-> l.left, files |-> l.files]
  BY DEF IsLoc
<1>1. k = [fd |-> l.fd, dest |-> l.dest, got |-> l.got, dirs |-> s, frames |-> l.frames,
           reading |-> l.reading, left |-> l.left, files |-> l.files]
  BY <1>0
<1> HIDE DEF k
<1>2. IsLoc(k, o) /\ k.dirs = s
  BY <1>1 DEF IsLoc
<1> QED BY <1>2 DEF k

(* other folders being walked,                                             *)
LEMMA LocFrames ==
  ASSUME NEW o, NEW l, IsLoc(l, o), NEW s \in Seq(Frames(o))
  PROVE  /\ IsLoc([l EXCEPT !.frames = s], o) /\ [l EXCEPT !.frames = s].frames = s
         /\ [l EXCEPT !.frames = s].reading = l.reading
<1> DEFINE k == [l EXCEPT !.frames = s]
<1>0. l = [fd |-> l.fd, dest |-> l.dest, got |-> l.got, dirs |-> l.dirs, frames |-> l.frames,
           reading |-> l.reading, left |-> l.left, files |-> l.files]
  BY DEF IsLoc
<1>1. k = [fd |-> l.fd, dest |-> l.dest, got |-> l.got, dirs |-> l.dirs, frames |-> s,
           reading |-> l.reading, left |-> l.left, files |-> l.files]
  BY <1>0
<1> HIDE DEF k
<1>2. IsLoc(k, o) /\ k.frames = s /\ k.reading = l.reading
  BY <1>1 DEF IsLoc
<1> QED BY <1>2 DEF k

(* another path to read,                                                   *)
LEMMA LocReading ==
  ASSUME NEW o, NEW l, IsLoc(l, o), NEW p \in VaultPaths \cup {None}
  PROVE  /\ IsLoc([l EXCEPT !.reading = p], o) /\ [l EXCEPT !.reading = p].reading = p
         /\ [l EXCEPT !.reading = p].frames = l.frames
<1> DEFINE k == [l EXCEPT !.reading = p]
<1>0. l = [fd |-> l.fd, dest |-> l.dest, got |-> l.got, dirs |-> l.dirs, frames |-> l.frames,
           reading |-> l.reading, left |-> l.left, files |-> l.files]
  BY DEF IsLoc
<1>1. k = [fd |-> l.fd, dest |-> l.dest, got |-> l.got, dirs |-> l.dirs, frames |-> l.frames,
           reading |-> p, left |-> l.left, files |-> l.files]
  BY <1>0
<1> HIDE DEF k
<1>2. IsLoc(k, o) /\ k.reading = p /\ k.frames = l.frames
  BY <1>1 DEF IsLoc
<1> QED BY <1>2 DEF k

(* other files read,                                                       *)
LEMMA LocFiles ==
  ASSUME NEW o, NEW l, IsLoc(l, o), NEW x
  PROVE  IsLoc([l EXCEPT !.files = x], o) /\ [l EXCEPT !.files = x].frames = l.frames
<1> DEFINE k == [l EXCEPT !.files = x]
<1>0. l = [fd |-> l.fd, dest |-> l.dest, got |-> l.got, dirs |-> l.dirs, frames |-> l.frames,
           reading |-> l.reading, left |-> l.left, files |-> l.files]
  BY DEF IsLoc
<1>1. k = [fd |-> l.fd, dest |-> l.dest, got |-> l.got, dirs |-> l.dirs, frames |-> l.frames,
           reading |-> l.reading, left |-> l.left, files |-> x]
  BY <1>0
<1> HIDE DEF k
<1>2. IsLoc(k, o) /\ k.frames = l.frames
  BY <1>1 DEF IsLoc
<1> QED BY <1>2 DEF k

(* and other paths left to read.                                           *)
LEMMA LocLeft ==
  ASSUME NEW o, NEW l, IsLoc(l, o), NEW x \in Seq(Relative)
  PROVE  IsLoc([l EXCEPT !.left = x], o)
<1> DEFINE k == [l EXCEPT !.left = x]
<1>0. l = [fd |-> l.fd, dest |-> l.dest, got |-> l.got, dirs |-> l.dirs, frames |-> l.frames,
           reading |-> l.reading, left |-> l.left, files |-> l.files]
  BY DEF IsLoc
<1>1. k = [fd |-> l.fd, dest |-> l.dest, got |-> l.got, dirs |-> l.dirs, frames |-> l.frames,
           reading |-> l.reading, left |-> x, files |-> l.files]
  BY <1>0
<1> HIDE DEF k
<1>2. IsLoc(k, o)
  BY <1>1 DEF IsLoc
<1> QED BY <1>2 DEF k

(* The errors of a call.                                                   *)
LEMMA ErrorsAre ==
  ASSUME NEW m, NEW path
  PROVE  /\ MkdirError(m, path) \in Errors \cup {None} /\ OpenError(m, path) \in Errors \cup {None}
         /\ MkdirError(m, path) = None => path # <<>> /\ ParentOf(m, path) \notin Errors
         /\ OpenError(m, path) = None => ParentOf(m, path) \notin Errors
         /\ MkdirError(m, path) = "ENOENT" => path # <<>>
<1>1. None \notin Errors /\ {"EEXIST", "EISDIR", "ENOENT", "ENOTDIR"} \subseteq Errors
  BY IdsAssumption DEF Errors
<1>2. MkdirError(m, path) \in Errors \cup {None} /\ OpenError(m, path) \in Errors \cup {None}
  BY <1>1 DEF MkdirError, OpenError
<1>3. MkdirError(m, path) = None => path # <<>> /\ ParentOf(m, path) \notin Errors
  BY <1>1 DEF MkdirError
<1>4. OpenError(m, path) = None => ParentOf(m, path) \notin Errors
  BY <1>1 DEF OpenError
<1>5. MkdirError(m, path) = "ENOENT" => path # <<>>
  BY DEF MkdirError
<1> QED BY <1>2, <1>3, <1>4, <1>5

(* create_dir_all makes folders of the vault only.                         *)
LEMMA MakeDirsWorks ==
  ASSUME NEW o, FilesInv(o), ControlInv(o), NEW r \in Requests, MakeDirs(r)
  PROVE  Works(r, o)
<1> DEFINE l == loc[r]
           d == Head(l.dirs)
           e == MkdirError(mem, d.path)
           rest == [l EXCEPT !.dirs = Tail(@)]
           next == CASE req[r].op = "write" -> "create"
                     [] req[r].op = "rename" -> "rename"
                     [] req[r].op = "copy" -> "open_source"
           Popped == IF rest.dirs # <<>> THEN Goto(r, "mkdirs", rest)
                     ELSE IF req[r].op = "mkdir" THEN Ok(r)
                     ELSE Goto(r, next, rest)
           made == Link([mem EXCEPT ![Free] = Folder], ParentOf(mem, d.path), Last(d.path), Free)
           deeper == <<[path |-> Front(d.path), again |-> FALSE], [d EXCEPT !.again = TRUE]>> \o Tail(l.dirs)
<1>1. \/ e = None /\ Unused # {} /\ Store(made) /\ Popped
      \/ e = "ENOENT" /\ Goto(r, "mkdirs", [l EXCEPT !.dirs = deeper]) /\ Same
      \/ e # None /\ Same /\ (Popped \/ Err(r, e))
  BY DEF MakeDirs
<1>2. Busy(r, "mkdirs", o)
  BY Busies DEF MakeDirs
<1>3. /\ IsLoc(l, o) /\ l.dirs \in Seq(Dirs) /\ l.dirs # <<>> /\ d \in Dirs
      /\ Tail(l.dirs) \in Seq(Dirs) /\ Shapes
  BY <1>2 DEF Busy, Ready, IsLoc
<1>4. /\ req[r] \in Queries /\ req[r].op \in {"write", "rename", "copy", "mkdir"}
      /\ req[r].path \in Relative
  BY <1>2 DEF Busy, Ready, Fits
<1>5. d.path \in VaultPaths \cup {<<>>} /\ d = [path |-> d.path, again |-> d.again]
  BY <1>3 DEF Dirs
<1>6. e \in Errors \cup {None} /\ (e = None => d.path # <<>> /\ ParentOf(mem, d.path) \notin Errors)
      /\ (e = "ENOENT" => d.path # <<>>)
  BY ErrorsAre
<1> HIDE DEF l, d
<1>7. IsLoc(rest, o) /\ rest.dirs = Tail(l.dirs)
  <2> DEFINE t == Tail(l.dirs)
  <2>1. rest = [l EXCEPT !.dirs = t] /\ t \in Seq(Dirs)
    BY <1>3
  <2> HIDE DEF t, rest
  <2>2. IsLoc(rest, o) /\ rest.dirs = t
    BY <1>3, <2>1, LocDirs
  <2> QED BY <2>2 DEF t
<1> HIDE DEF rest, e
<1>8. ASSUME Popped PROVE Turn(r, req[r], o)
  <2>1. CASE rest.dirs # <<>> /\ Goto(r, "mkdirs", rest)
    <3>1. Ready(req[r], rest, "mkdirs")
      BY <1>4, <2>1 DEF Ready, Fits
    <3> QED BY <1>3, <1>7, <2>1, <3>1, GotoTurns
  <2>2. CASE Ok(r)
    BY <1>3, <2>2, AnswerTurns DEF Ok, Codes
  <2>3. CASE req[r].op # "mkdir" /\ Goto(r, next, rest)
    <3>1. \/ next = "create" /\ req[r].op = "write"
          \/ next = "rename" /\ req[r].op = "rename"
          \/ next = "open_source" /\ req[r].op = "copy"
      BY <1>4, <2>3
    <3> HIDE DEF next
    <3>2. Ready(req[r], rest, next)
      BY <1>4, <3>1 DEF Ready, Fits
    <3> QED BY <1>3, <1>7, <2>3, <3>2, GotoTurns
  <2> QED BY <1>8, <2>1, <2>2, <2>3
<1>9. Works(r, o) <=> Turn(r, req[r], o) /\ Files(r, o)
  BY <1>2 DEF Busy, Works
<1>10. CASE e = None /\ Unused # {} /\ Store(made) /\ Popped
  <2>1. InVault(mem, o, ParentOf(mem, d.path), Last(d.path))
    BY <1>5, <1>6, <1>10, ParentInVault DEF FilesInv
  <2> DEFINE p == ParentOf(mem, d.path)
             name == Last(d.path)
  <2> HIDE DEF p, name
  <2>2. Fair(Made(mem, p, name, Free, Folder), o)
    BY <1>10, <2>1, MadeFair DEF p, name
  <2>3. made = Made(mem, p, name, Free, Folder)
    BY DEF Made, p, name
  <2>4. Files(r, o)
    BY <1>10, <2>2, <2>3 DEF Files
  <2> QED BY <1>8, <1>9, <1>10, <2>4
<1>11. CASE e = "ENOENT" /\ Goto(r, "mkdirs", [l EXCEPT !.dirs = deeper]) /\ Same
  <2>1. Front(d.path) \in VaultPaths \cup {<<>>}
    BY <1>5, <1>6, <1>11, FrontInVault
  <2>2. [path |-> Front(d.path), again |-> FALSE] \in Dirs /\ [d EXCEPT !.again = TRUE] \in Dirs
    BY <1>5, <2>1 DEF Dirs
  <2>3. deeper \in Seq(Dirs) /\ deeper # <<>>
    <3> DEFINE a == [path |-> Front(d.path), again |-> FALSE]
               b == [d EXCEPT !.again = TRUE]
               t == Tail(l.dirs)
    <3>1. a \in Dirs /\ b \in Dirs /\ t \in Seq(Dirs)
      BY <1>3, <2>2
    <3> HIDE DEF a, b, t
    <3>2. <<a, b>> \o t \in Seq(Dirs) /\ <<a, b>> \o t # <<>>
      <4>1. <<a, b>> \in Seq(Dirs) /\ Len(<<a, b>>) = 2
        BY <3>1
      <4>2. <<a, b>> \o t \in Seq(Dirs) /\ Len(<<a, b>> \o t) = 2 + Len(t) /\ Len(t) \in Nat
        BY <3>1, <4>1
      <4>3. Len(<<a, b>> \o t) # 0
        BY <4>2
      <4> QED BY <4>2, <4>3
    <3> QED BY <3>2 DEF a, b, t
  <2> HIDE DEF deeper
  <2> DEFINE k == [l EXCEPT !.dirs = deeper]
  <2>4. IsLoc(k, o) /\ k.dirs = deeper
    BY <1>3, <2>3, LocDirs
  <2> HIDE DEF k
  <2>5. Ready(req[r], k, "mkdirs")
    BY <1>4, <2>3, <2>4 DEF Ready, Fits
  <2>6. Turn(r, req[r], o)
    BY <1>3, <1>11, <2>4, <2>5, GotoTurns DEF k
  <2> QED BY <1>9, <1>11, <2>6 DEF Files, Same, AtRest
<1>12. CASE e # None /\ Same /\ (Popped \/ Err(r, e))
  <2>1. Err(r, e) => Turn(r, req[r], o)
    BY <1>3, <1>6, AnswerTurns DEF Err, Codes
  <2> QED BY <1>8, <1>9, <1>12, <2>1 DEF Files, Same, AtRest
<1> QED BY <1>1, <1>10, <1>11, <1>12 DEF l, d, e

(* Opening for writing gives an inode of the vault.                        *)
LEMMA OpenedFair ==
  ASSUME NEW o, FilesInv(o), NEW path \in VaultPaths, OpenError(mem, path) = None, Unused # {}, NEW bytes
  PROVE  Fair(Opened(path, bytes), o) /\ OpenedId(path) \in Ids \ {Top, o}
<1>1. ParentOf(mem, path) \notin Errors
  BY ErrorsAre
<1>2. InVault(mem, o, ParentOf(mem, path), Last(path))
  BY <1>1, ParentInVault DEF FilesInv
<1>3. CASE Walk(mem, path) \in Errors
  <2> DEFINE d == ParentOf(mem, path)
             name == Last(path)
             node == Note(<<>>)
  <2>1. Opened(path, bytes) = Made(mem, d, name, Free, node) /\ OpenedId(path) = Free
    BY <1>3 DEF Opened, OpenedId, Made
  <2> HIDE DEF d, name
  <2>2. Fair(Made(mem, d, name, Free, node), o) /\ Free \in Ids \ {Top, o}
    BY <1>2, MadeFair DEF d, name
  <2> QED BY <2>1, <2>2
<1>4. CASE Walk(mem, path) \notin Errors
  <2>1. Walk(mem, path) \in Ids \ {Top, o}
    BY <1>4, WalkEntry DEF FilesInv
  <2>2. Opened(path, bytes) = WithBytes(mem, Walk(mem, path), bytes) /\ OpenedId(path) = Walk(mem, path)
    BY <1>4 DEF Opened, OpenedId
  <2>3. Fair(WithBytes(mem, Walk(mem, path), bytes), o)
    BY <2>1, WithBytesFair DEF Handles
  <2> QED BY <2>1, <2>2, <2>3
<1> QED BY <1>3, <1>4

(* File::create of writeFile.                                              *)
LEMMA CreateWorks ==
  ASSUME NEW o, FilesInv(o), ControlInv(o), NEW r \in Requests, Create(r)
  PROVE  Works(r, o)
<1> DEFINE e == OpenError(mem, Path(r))
           l == [loc[r] EXCEPT !.fd = OpenedId(Path(r))]
<1>1. Busy(r, "create", o)
  BY Busies DEF Create
<1>2. Path(r) \in VaultPaths /\ Shapes /\ IsLoc(loc[r], o) /\ e \in Errors \cup {None}
  BY <1>1, PathsStay, ErrorsAre DEF Busy
<1>3. Works(r, o) <=> Turn(r, req[r], o) /\ Files(r, o)
  BY <1>1 DEF Busy, Works
<1>4. CASE e # None /\ Err(r, e) /\ Same
  <2>1. Turn(r, req[r], o)
    <3> HIDE DEF e
    <3> QED BY <1>2, <1>4, AnswerTurns DEF Err, Codes
  <2> QED BY <1>3, <1>4, <2>1 DEF Files, Same, AtRest
<1>5. CASE e = None /\ Unused # {} /\ Store(Opened(Path(r), <<>>)) /\ Goto(r, "write_all", l)
  <2>1. Fair(Opened(Path(r), <<>>), o) /\ OpenedId(Path(r)) \in Ids \ {Top, o}
    BY <1>2, <1>5, OpenedFair
  <2>2. IsLoc(l, o)
    BY <1>2, <2>1, LocFd DEF Handles
  <2> HIDE DEF l
  <2>3. Ready(req[r], l, "write_all")
    BY <1>1 DEF Busy, Ready, Fits
  <2>4. Turn(r, req[r], o)
    BY <1>2, <1>5, <2>2, <2>3, GotoTurns
  <2> QED BY <1>3, <1>5, <2>1, <2>4 DEF Files
<1> QED BY <1>4, <1>5 DEF Create

(* The open of appendFile.                                                 *)
LEMMA OpenAppendWorks ==
  ASSUME NEW o, FilesInv(o), ControlInv(o), NEW r \in Requests, OpenAppend(r)
  PROVE  Works(r, o)
<1> DEFINE e == OpenError(mem, Path(r))
           l == [loc[r] EXCEPT !.fd = OpenedId(Path(r))]
<1>1. Busy(r, "open_append", o)
  BY Busies DEF OpenAppend
<1>2. Path(r) \in VaultPaths /\ Shapes /\ IsLoc(loc[r], o) /\ e \in Errors \cup {None}
  BY <1>1, PathsStay, ErrorsAre DEF Busy
<1>3. Works(r, o) <=> Turn(r, req[r], o) /\ Files(r, o)
  BY <1>1 DEF Busy, Works
<1>4. CASE e # None /\ Err(r, e) /\ Same
  <2>1. Turn(r, req[r], o)
    <3> HIDE DEF e
    <3> QED BY <1>2, <1>4, AnswerTurns DEF Err, Codes
  <2> QED BY <1>3, <1>4, <2>1 DEF Files, Same, AtRest
<1>5. CASE /\ e = None /\ Unused # {} /\ (Store(Opened(Path(r), <<>>)) \/ Same)
           /\ Goto(r, "write_all", l)
  <2>1. Fair(Opened(Path(r), <<>>), o) /\ OpenedId(Path(r)) \in Ids \ {Top, o}
    BY <1>2, <1>5, OpenedFair
  <2>2. IsLoc(l, o)
    BY <1>2, <2>1, LocFd DEF Handles
  <2> HIDE DEF l
  <2>3. Ready(req[r], l, "write_all")
    BY <1>1 DEF Busy, Ready, Fits
  <2>4. Turn(r, req[r], o)
    BY <1>2, <1>5, <2>2, <2>3, GotoTurns
  <2> QED BY <1>3, <1>5, <2>1, <2>4 DEF Files, Same, AtRest
<1> QED BY <1>4, <1>5 DEF OpenAppend

(* However much of the bytes reaches the file.                             *)
LEMMA WrittenFair ==
  ASSUME NEW o, FilesInv(o), NEW r, IsLoc(loc[r], o), NEW n
  PROVE  Fair(Written(r, n), o)
<1> DEFINE b == LET old == mem[loc[r].fd].bytes
                    new == SubSeq(Content(r), 1, n)
                IN IF req[r].op = "append" THEN old \o new ELSE Overlay(old, 0, new)
<1>1. Written(r, n) = WithBytes(mem, loc[r].fd, b)
  BY DEF Written
<1>2. loc[r].fd \in Handles(o)
  BY DEF IsLoc
<1> HIDE DEF b
<1> QED BY <1>1, <1>2, WithBytesFair

(* write_all, with all or some of the bytes.                               *)
LEMMA WriteAllWorks ==
  ASSUME NEW o, FilesInv(o), ControlInv(o), NEW r \in Requests, WriteAll(r) \/ WriteFails(r)
  PROVE  Works(r, o)
<1>0. pc[r] = "write_all" /\ req' = req /\ rivals' = rivals
  BY DEF WriteAll, WriteFails, At
<1>1. Busy(r, "write_all", o)
  BY <1>0 DEF Busy, ControlInv, HandlerInv, Running
<1>2. Shapes /\ IsLoc(loc[r], o)
  BY <1>1 DEF Busy
<1>3. Works(r, o) <=> Turn(r, req[r], o) /\ Files(r, o)
  BY <1>1 DEF Busy, Works
<1>4. \E n : Store(Written(r, n))
  BY DEF WriteAll, WriteFails
<1>5. Files(r, o)
  BY <1>2, <1>4, WrittenFair DEF Files
<1>6. CASE WriteAll(r)
  <2>1. Ready(req[r], loc[r], "sync_all")
    BY <1>1 DEF Busy, Ready, Fits
  <2> QED BY <1>2, <1>3, <1>5, <1>6, <2>1, GotoTurns DEF WriteAll
<1>7. CASE WriteFails(r)
  <2>1. "EIO" \in Codes
    BY DEF Codes, Errors
  <2> QED BY <1>2, <1>3, <1>5, <1>7, <2>1, AnswerTurns DEF WriteFails, Err
<1> QED BY <1>6, <1>7

(* sync_all: the disk gets what this file holds.                           *)
LEMMA SyncAllWorks ==
  ASSUME NEW o, FilesInv(o), ControlInv(o), NEW r \in Requests, SyncAll(r)
  PROVE  Works(r, o)
<1>1. Busy(r, "sync_all", o)
  BY Busies DEF SyncAll
<1>2. Shapes /\ IsLoc(loc[r], o)
  BY <1>1 DEF Busy
<1>3. Works(r, o) <=> Turn(r, req[r], o) /\ Files(r, o)
  BY <1>1 DEF Busy, Works
<1>4. Files(r, o)
  BY DEF SyncAll, Files
<1>5. CASE req[r].op = "write" /\ Goto(r, "size", loc[r])
  <2>1. Ready(req[r], loc[r], "size")
    BY <1>1, <1>5 DEF Busy, Ready, Fits
  <2> QED BY <1>2, <1>3, <1>4, <1>5, <2>1, GotoTurns
<1>6. CASE Ok(r)
  BY <1>2, <1>3, <1>4, <1>6, AnswerTurns DEF Ok, Codes
<1> QED BY <1>5, <1>6 DEF SyncAll

(* A call that leaves the file system alone and answers.                   *)
LEMMA AnswerWorks ==
  ASSUME NEW o, NEW r, NEW step, Busy(r, step, o), NEW err \in Codes, NEW out, Answer(r, err, out),
         Same \/ AtRest
  PROVE  Works(r, o)
<1>1. Turn(r, req[r], o)
  BY AnswerTurns DEF Busy
<1> QED BY <1>1 DEF Busy, Works, Files, Same, AtRest

(* A call that fails and changes nothing.                                  *)
LEMMA ErrWorks ==
  ASSUME NEW o, NEW r, NEW step, Busy(r, step, o), NEW err \in Codes, Err(r, err), Same \/ AtRest
  PROVE  Works(r, o)
BY AnswerWorks DEF Err

(* A call that succeeds and changes nothing.                               *)
LEMMA OkWorks ==
  ASSUME NEW o, NEW r, NEW step, Busy(r, step, o), Ok(r), Same
  PROVE  Works(r, o)
BY AnswerWorks DEF Ok, Codes

(* One that leaves it alone and goes on.                                   *)
LEMMA GotoWorks ==
  ASSUME NEW o, NEW r, NEW step, Busy(r, step, o), NEW next, NEW l, Goto(r, next, l), Same \/ AtRest,
         Ready(req[r], l, next), IsLoc(l, o)
  PROVE  Works(r, o)
<1>1. Turn(r, req[r], o)
  BY GotoTurns DEF Busy
<1> QED BY <1>1 DEF Busy, Works, Files, Same, AtRest

(* The size that writeFile reads back.                                     *)
LEMMA ReadBackWorks ==
  ASSUME NEW o, FilesInv(o), ControlInv(o), NEW r \in Requests, ReadBack(r)
  PROVE  Works(r, o)
<1>1. Busy(r, "size", o)
  BY Busies DEF ReadBack
<1>2. None \in Codes
  BY DEF Codes
<1> QED BY <1>1, <1>2, AnswerWorks DEF ReadBack

(* copyFile opens its source.                                              *)
LEMMA OpenSourceWorks ==
  ASSUME NEW o, FilesInv(o), ControlInv(o), NEW r \in Requests, OpenSource(r)
  PROVE  Works(r, o)
<1> DEFINE id == Walk(mem, Path(r))
           l == [loc[r] EXCEPT !.fd = id]
<1>1. Busy(r, "open_source", o) /\ Same
  BY Busies DEF OpenSource
<1>2. Path(r) \in VaultPaths /\ IsLoc(loc[r], o)
  BY <1>1, PathsStay DEF Busy
<1>3. id \in (Ids \ {Top, o}) \cup Errors
  BY <1>2, WalkInVault DEF FilesInv
<1>4. \/ id \in Errors /\ Err(r, id)
      \/ Err(r, "EINVAL")
      \/ id \notin Errors /\ Goto(r, "create_dest", l)
  BY DEF OpenSource
<1> HIDE DEF id
<1>5. CASE id \in Errors /\ Err(r, id)
  BY <1>1, <1>5, ErrWorks DEF Codes
<1>6. CASE Err(r, "EINVAL")
  <2>1. "EINVAL" \in Codes
    BY DEF Codes, Errors
  <2> QED BY <1>1, <1>6, <2>1, ErrWorks
<1>7. CASE id \notin Errors /\ Goto(r, "create_dest", l)
  <2>1. id \in Handles(o)
    BY <1>3, <1>7 DEF Handles
  <2>2. IsLoc(l, o)
    BY <1>2, <2>1, LocFd
  <2>3. l.fd = id /\ id # None
    BY <1>2, <1>3, <1>7, IdsAssumption DEF IsLoc
  <2> HIDE DEF l
  <2>4. Ready(req[r], l, "create_dest")
    BY <1>1, <2>3 DEF Busy, Ready, Fits
  <2> QED BY <1>1, <1>7, <2>2, <2>4, GotoWorks
<1> QED BY <1>4, <1>5, <1>6, <1>7

(* copyFile makes its destination.                                         *)
LEMMA CreateDestWorks ==
  ASSUME NEW o, FilesInv(o), ControlInv(o), NEW r \in Requests, CreateDest(r)
  PROVE  Works(r, o)
<1> DEFINE e == OpenError(mem, To(r))
           l == [loc[r] EXCEPT !.dest = OpenedId(To(r))]
<1>1. Busy(r, "create_dest", o)
  BY Busies DEF CreateDest
<1>2. To(r) \in VaultPaths /\ Shapes /\ IsLoc(loc[r], o) /\ e \in Errors \cup {None}
  BY <1>1, PathsStay, ErrorsAre DEF Busy
<1>3. Works(r, o) <=> Turn(r, req[r], o) /\ Files(r, o)
  BY <1>1 DEF Busy, Works
<1>4. CASE e # None /\ Err(r, e) /\ Same
  <2> HIDE DEF e
  <2> QED BY <1>1, <1>2, <1>4, ErrWorks DEF Codes
<1>5. CASE e = None /\ Unused # {} /\ Store(Opened(To(r), <<>>)) /\ Goto(r, "transfer", l)
  <2>1. Fair(Opened(To(r), <<>>), o) /\ OpenedId(To(r)) \in Ids \ {Top, o}
    BY <1>2, <1>5, OpenedFair
  <2>2. IsLoc(l, o)
    BY <1>2, <2>1, LocDest DEF Handles
  <2>3. l.fd = loc[r].fd
    BY <1>2 DEF IsLoc
  <2> HIDE DEF l
  <2>4. Ready(req[r], l, "transfer")
    BY <1>1, <2>3 DEF Busy, Ready, Fits
  <2>5. Turn(r, req[r], o)
    BY <1>2, <1>5, <2>2, <2>4, GotoTurns
  <2> QED BY <1>3, <1>5, <2>1, <2>5 DEF Files
<1> QED BY <1>4, <1>5 DEF CreateDest

(* copyFile copies some of the bytes, or all have been copied.             *)
LEMMA TransferWorks ==
  ASSUME NEW o, FilesInv(o), ControlInv(o), NEW r \in Requests, Transfer(r)
  PROVE  Works(r, o)
<1> DEFINE some(n) == SubSeq(mem[loc[r].fd].bytes, Len(loc[r].got) + 1, n)
           b(n) == Overlay(mem[loc[r].dest].bytes, Len(loc[r].got), some(n))
           l(n) == [loc[r] EXCEPT !.got = @ \o some(n)]
<1>1. Busy(r, "transfer", o)
  BY Busies DEF Transfer
<1>2. Shapes /\ IsLoc(loc[r], o) /\ loc[r].dest \in Handles(o) /\ loc[r].fd # None
  BY <1>1 DEF Busy, IsLoc, Ready
<1>3. \/ \E n : Store(WithBytes(mem, loc[r].dest, b(n))) /\ Goto(r, "transfer", l(n))
      \/ Ok(r) /\ Same
  BY DEF Transfer
<1>4. ASSUME NEW n, Store(WithBytes(mem, loc[r].dest, b(n))), Goto(r, "transfer", l(n)) PROVE Works(r, o)
  <2>1. IsLoc(l(n), o) /\ l(n).fd = loc[r].fd
    <3> DEFINE x == loc[r].got \o some(n)
    <3>1. l(n) = [loc[r] EXCEPT !.got = x]
      OBVIOUS
    <3> HIDE DEF x, l
    <3> QED BY <1>2, <3>1, LocGot
  <2> HIDE DEF b, l
  <2>2. Fair(WithBytes(mem, loc[r].dest, b(n)), o)
    BY <1>2, WithBytesFair
  <2>3. Files(r, o)
    BY <1>4, <2>2 DEF Files
  <2>4. Ready(req[r], l(n), "transfer")
    BY <1>1, <1>2, <2>1 DEF Busy, Ready, Fits
  <2>5. Turn(r, req[r], o)
    BY <1>2, <1>4, <2>1, <2>4, GotoTurns
  <2> QED BY <1>1, <2>3, <2>5 DEF Busy, Works
<1>5. CASE Ok(r) /\ Same
  BY <1>1, <1>5, OkWorks
<1> QED BY <1>3, <1>4, <1>5

(* One that changes it and answers ok.                                     *)
LEMMA StoreWorks ==
  ASSUME NEW o, NEW r, NEW step, Busy(r, step, o), Ok(r), NEW n, Store(n), Fair(n, o)
  PROVE  Works(r, o)
<1>1. Turn(r, req[r], o)
  BY AnswerTurns DEF Busy, Ok, Codes
<1> QED BY <1>1 DEF Busy, Works, Files

(* mkdir without the recursive flag.                                       *)
LEMMA MkdirWorks ==
  ASSUME NEW o, FilesInv(o), ControlInv(o), NEW r \in Requests, Mkdir(r)
  PROVE  Works(r, o)
<1> DEFINE e == MkdirError(mem, Path(r))
           d == ParentOf(mem, Path(r))
           name == Last(Path(r))
<1>1. Busy(r, "mkdir", o)
  BY Busies DEF Mkdir
<1>2. Path(r) \in VaultPaths
  BY <1>1, PathsStay
<1>3. e \in Errors \cup {None} /\ (e = None => d \notin Errors)
  BY ErrorsAre
<1>4. CASE e # None /\ Err(r, e) /\ Same
  <2> HIDE DEF e
  <2> QED BY <1>1, <1>3, <1>4, ErrWorks DEF Codes
<1>5. CASE /\ e = None /\ Unused # {} /\ Ok(r)
           /\ Store(Made(mem, d, name, Free, Folder))
  <2>1. InVault(mem, o, d, name)
    BY <1>2, <1>3, <1>5, ParentInVault DEF FilesInv
  <2> HIDE DEF d, name
  <2>2. Fair(Made(mem, d, name, Free, Folder), o)
    BY <1>5, <2>1, MadeFair
  <2> QED BY <1>1, <1>5, <2>2, StoreWorks
<1> QED BY <1>4, <1>5 DEF Mkdir, Made

(* rename(2) that does not fail has found what to rename, and where.       *)
LEMMA RenameErrorIs ==
  ASSUME NEW m, NEW from, NEW to
  PROVE  /\ RenameError(m, from, to) \in Errors \cup {None}
         /\ RenameError(m, from, to) = None => Walk(m, from) \notin Errors /\ ParentOf(m, to) \notin Errors
<1>1. None \notin Errors /\ {"EINVAL", "ENOTDIR", "EISDIR", "ENOTEMPTY"} \subseteq Errors
  BY IdsAssumption DEF Errors
<1> QED BY <1>1 DEF RenameError

(* rename.                                                                 *)
LEMMA MoveWorks ==
  ASSUME NEW o, FilesInv(o), ControlInv(o), NEW r \in Requests, Move(r)
  PROVE  Works(r, o)
<1> DEFINE e == RenameError(mem, Path(r), To(r))
<1>1. Busy(r, "rename", o)
  BY Busies DEF Move
<1>2. Path(r) \in VaultPaths /\ To(r) \in VaultPaths
  BY <1>1, PathsStay
<1>3. e \in Errors \cup {None} /\ (e = None => Walk(mem, Path(r)) \notin Errors /\ ParentOf(mem, To(r)) \notin Errors)
  BY RenameErrorIs
<1> HIDE DEF e
<1>4. CASE e # None /\ Err(r, e) /\ Same
  BY <1>1, <1>3, <1>4, ErrWorks DEF Codes
<1>5. CASE e = None /\ Ok(r) /\ Store(Rename(mem, Path(r), To(r)))
  <2>1. Fair(Rename(mem, Path(r), To(r)), o)
    BY <1>2, <1>3, <1>5, RenameFair
  <2> QED BY <1>1, <1>5, <2>1, StoreWorks
<1> QED BY <1>4, <1>5 DEF Move, e

(* utimes, the one call that sets a time.                                  *)
LEMMA UtimesWorks ==
  ASSUME NEW o, FilesInv(o), ControlInv(o), NEW r \in Requests, Utimes(r)
  PROVE  Works(r, o)
<1> DEFINE id == Walk(mem, Path(r))
           time == FtFromMs(req[r].mtime)
           n == [mem EXCEPT ![id].mtime = time]
<1>1. Busy(r, "utimes", o)
  BY Busies DEF Utimes
<1>2. Path(r) \in VaultPaths /\ Safe(mem, o) /\ IsFs(mem) /\ Shapes
  BY <1>1, PathsStay DEF FilesInv, Safe, Shaped, Busy
<1>3. \/ id \in Errors /\ Err(r, id) /\ Same
      \/ id \notin Errors /\ Ok(r) /\ Store(n)
  BY DEF Utimes
<1>4. id \notin Errors => id \in Ids \ {Top, o}
  BY <1>2, WalkEntry
<1> HIDE DEF id
<1>5. CASE id \in Errors /\ Err(r, id) /\ Same
  BY <1>1, <1>5, ErrWorks DEF Codes
<1>7. CASE id \notin Errors /\ Ok(r) /\ Store(n)
  <2> HIDE DEF time
  <2>1. Touched(mem, id, n) /\ n[id].mtime = time
    BY <1>2, <1>4, <1>7, WithTimeIs
  <2> HIDE DEF n
  <2>2. Safe(n, o)
    BY <1>2, <1>4, <1>7, <2>1, TouchedSafe
  <2>3. \A i \in Ids : n[i].type = mem[i].type
    BY <1>4, <1>7, <2>1 DEF Touched
  <2>4. Kin(n, disk)
    BY <2>3 DEF FilesInv, Kin
  <2>5. \A i \in Ids : n[i].mtime \in {mem[i].mtime, time}
    BY <1>4, <1>7, <2>1 DEF Touched
  <2>6. Turn(r, req[r], o) /\ pc'[r] = "done" /\ answer'[r] = [err |-> None, out |-> {}]
    BY <1>1, <1>2, <1>7, AnswerTurns DEF Busy, Ok, Codes
  <2>7. req[r].op = "utimes"
    BY <1>1 DEF Busy, Ready, Fits
  <2>8. answer'[r].err = None
    BY <2>6
  <2>9. Dated(r, n, o)
    BY <2>2, <2>4, <2>5, <2>6, <2>7, <2>8 DEF Dated, time
  <2>10. Files(r, o)
    BY <1>7, <2>9 DEF Files
  <2> QED BY <1>1, <2>6, <2>10 DEF Busy, Works
<1> QED BY <1>3, <1>5, <1>7

(* unlink(2) and rmdir(2) that do not fail have found the entry.           *)
LEMMA RemovalErrorIs ==
  ASSUME NEW m, NEW d, NEW name
  PROVE  /\ UnlinkError(m, d, name) \in Errors \cup {None} /\ RmdirError(m, d, name) \in Errors \cup {None}
         /\ UnlinkError(m, d, name) = None => d \notin Errors
         /\ RmdirError(m, d, name) = None => d \notin Errors
<1>1. None \notin Errors /\ {"EISDIR", "ENOTDIR", "ENOTEMPTY"} \subseteq Errors
  BY IdsAssumption DEF Errors
<1>2. d \in Errors => Entry(m, d, name) = d
  BY DEF Entry
<1> QED BY <1>1, <1>2 DEF UnlinkError, RmdirError

(* Removing the entry of r's path, once that has been found.               *)
LEMMA RemovalFair ==
  ASSUME NEW o, FilesInv(o), NEW path \in VaultPaths, ParentOf(mem, path) \notin Errors
  PROVE  Fair(Unlink(mem, ParentOf(mem, path), Last(path)), o)
<1> DEFINE d == ParentOf(mem, path)
           name == Last(path)
<1>1. InVault(mem, o, d, name)
  BY ParentInVault DEF FilesInv
<1> HIDE DEF d, name
<1>2. d \in Ids \ {o} /\ (d = Top => name = Vault)
  BY <1>1 DEF InVault
<1>3. Fair(Unlink(mem, d, name), o)
  BY <1>2, UnlinkFair
<1> QED BY <1>3 DEF d, name

(* remove_file, of unlink and of rm.                                       *)
LEMMA UnlinkWorks ==
  ASSUME NEW o, FilesInv(o), ControlInv(o), NEW r \in Requests, UnlinkFile(r) \/ RemoveFile(r)
  PROVE  Works(r, o)
<1> DEFINE step == IF UnlinkFile(r) THEN "unlink" ELSE "remove_file"
<1>1. Busy(r, step, o) /\ step \notin {"batch_read", "open", "read"}
  BY Busies DEF UnlinkFile, RemoveFile
<1> HIDE DEF step
<1>2. Path(r) \in VaultPaths
  BY <1>1, PathsStay
<1>3. FileError(r) \in Errors \cup {None} /\ (FileError(r) = None => ParentOf(mem, Path(r)) \notin Errors)
  BY RemovalErrorIs DEF FileError
<1>4. CASE FileError(r) = None /\ RemoveEntry(r) /\ Ok(r)
  <2>1. Fair(Unlink(mem, ParentOf(mem, Path(r)), Last(Path(r))), o)
    BY <1>2, <1>3, <1>4, RemovalFair
  <2> QED BY <1>1, <1>4, <2>1, StoreWorks DEF RemoveEntry
<1>5. CASE Ok(r) /\ Same
  BY <1>1, <1>5, OkWorks
<1>6. CASE Err(r, FileError(r)) /\ Same
  BY <1>1, <1>3, <1>6, ErrWorks DEF Codes
<1> QED BY <1>4, <1>5, <1>6 DEF UnlinkFile, RemoveFile

(* remove_dir, of rmdir and of rm.                                         *)
LEMMA RemoveDirWorks ==
  ASSUME NEW o, FilesInv(o), ControlInv(o), NEW r \in Requests, NEW step \in {"rmdir", "remove_dir"},
         RemoveDir(r, step)
  PROVE  Works(r, o)
<1>1. Busy(r, step, o) /\ step \notin {"batch_read", "open", "read"}
  BY Busies DEF RemoveDir
<1>2. Path(r) \in VaultPaths
  BY <1>1, PathsStay
<1>3. DirError(r) \in Errors \cup {None} /\ (DirError(r) = None => ParentOf(mem, Path(r)) \notin Errors)
  BY RemovalErrorIs DEF DirError
<1>4. CASE DirError(r) = None /\ RemoveEntry(r) /\ Ok(r)
  <2>1. Fair(Unlink(mem, ParentOf(mem, Path(r)), Last(Path(r))), o)
    BY <1>2, <1>3, <1>4, RemovalFair
  <2> QED BY <1>1, <1>4, <2>1, StoreWorks DEF RemoveEntry
<1>5. CASE Err(r, DirError(r)) /\ Same
  BY <1>1, <1>3, <1>5, ErrWorks DEF Codes
<1> QED BY <1>4, <1>5 DEF RemoveDir

(* rm looks what the path is.                                              *)
LEMMA LstatWorks ==
  ASSUME NEW o, FilesInv(o), ControlInv(o), NEW r \in Requests, Lstat(r)
  PROVE  Works(r, o)
<1> DEFINE id == Walk(mem, Path(r))
           next == IF ~IsDir(mem, id) THEN "remove_file"
                   ELSE IF req[r].recursive THEN "remove_dir_all" ELSE "remove_dir"
<1>1. Busy(r, "rm", o) /\ Same
  BY Busies DEF Lstat
<1>2. \/ Ok(r)
      \/ id \in Errors /\ Err(r, id)
      \/ Goto(r, next, loc[r])
  BY DEF Lstat
<1>3. next \in {"remove_file", "remove_dir_all", "remove_dir"}
  OBVIOUS
<1> HIDE DEF id, next
<1>4. CASE Ok(r)
  BY <1>1, <1>4, OkWorks
<1>5. CASE id \in Errors /\ Err(r, id)
  BY <1>1, <1>5, ErrWorks DEF Codes
<1>6. CASE Goto(r, next, loc[r])
  <2>1. Ready(req[r], loc[r], next)
    BY <1>1, <1>3 DEF Busy, Ready, Fits, Reading
  <2>2. IsLoc(loc[r], o)
    BY <1>1 DEF Busy
  <2> QED BY <1>1, <1>6, <2>1, <2>2, GotoWorks
<1> QED BY <1>2, <1>4, <1>5, <1>6

-----------------------------------------------------------------------------
(* Folders that are walked.                                                *)
LEMMA FrameIs ==
  ASSUME NEW o, FilesInv(o), NEW d \in Ids \ {Top, o}, NEW path \in VaultPaths
  PROVE  Frame(d, path) \in Frames(o) /\ Frame(d, path).path = path
<1> DEFINE left == {[name |-> n, folder |-> IsDir(mem, mem[d].at[n])] : n \in Names(mem, d)}
<1>1. IsFs(mem)
  BY DEF FilesInv, Safe, Shaped
<1>2. \A n \in Names(mem, d) : n \in Components
  BY <1>1, EntriesAreIds
<1>3. left \in SUBSET [name : Components, folder : BOOLEAN]
  <2>1. ASSUME NEW n \in Names(mem, d)
        PROVE  [name |-> n, folder |-> IsDir(mem, mem[d].at[n])] \in [name : Components, folder : BOOLEAN]
    <3> DEFINE b == IsDir(mem, mem[d].at[n])
    <3>1. b \in BOOLEAN
      BY DEF IsDir
    <3> HIDE DEF b
    <3>2. [name |-> n, folder |-> b] \in [name : Components, folder : BOOLEAN]
      BY <1>2, <3>1
    <3> QED BY <3>2 DEF b
  <2> QED BY <2>1
<1>4. Frame(d, path) = [dir |-> d, path |-> path, left |-> left]
  BY DEF Frame
<1> HIDE DEF left
<1> QED BY <1>3, <1>4 DEF Frames

(* remove_dir_all opens the folder.                                        *)
LEMMA OpenTreeWorks ==
  ASSUME NEW o, FilesInv(o), ControlInv(o), NEW r \in Requests, OpenTree(r)
  PROVE  Works(r, o)
<1> DEFINE id == Walk(mem, Path(r))
           f == Frame(id, Path(r))
           s == <<f>>
           l == [loc[r] EXCEPT !.frames = s]
<1>1. Busy(r, "remove_dir_all", o) /\ Same
  BY Busies DEF OpenTree
<1>2. Path(r) \in VaultPaths /\ IsLoc(loc[r], o)
  BY <1>1, PathsStay DEF Busy
<1>3. id \notin Errors => id \in Ids \ {Top, o}
  BY <1>2, WalkEntry DEF FilesInv
<1>4. \/ id \in Errors /\ Err(r, id)
      \/ Err(r, "ENOTDIR")
      \/ id \notin Errors /\ Goto(r, "empty", l)
  BY DEF OpenTree
<1> HIDE DEF id
<1>5. CASE id \in Errors /\ Err(r, id)
  BY <1>1, <1>5, ErrWorks DEF Codes
<1>6. CASE Err(r, "ENOTDIR")
  <2>1. "ENOTDIR" \in Codes
    BY DEF Codes, Errors
  <2> QED BY <1>1, <1>6, <2>1, ErrWorks
<1>7. CASE id \notin Errors /\ Goto(r, "empty", l)
  <2>1. f \in Frames(o) /\ f.path = Path(r)
    BY <1>2, <1>3, <1>7, FrameIs
  <2> HIDE DEF f
  <2>2. s \in Seq(Frames(o)) /\ s # <<>> /\ s[1] = f
    BY <2>1
  <2> HIDE DEF s
  <2>3. IsLoc(l, o) /\ l.frames = s
    BY <1>2, <2>2, LocFrames
  <2> HIDE DEF l
  <2>4. l.frames # <<>> /\ l.frames[1].path = ResolveInVault(req[r].path).out
    BY <2>1, <2>2, <2>3 DEF Path
  <2>5. Ready(req[r], l, "empty")
    BY <1>1, <2>4 DEF Busy, Ready, Fits, Reading
  <2> QED BY <1>1, <1>7, <2>3, <2>5, GotoWorks
<1> QED BY <1>4, <1>5, <1>6, <1>7

(* The innermost folder, and the stack without it.                         *)
Stack(s, o) ==
  /\ s \in Seq(Frames(o)) /\ s # <<>> /\ Len(s) \in Nat /\ Len(s) >= 1
  /\ s[Len(s)] \in Frames(o) /\ s[1] \in Frames(o)

(* A stack that is not empty has a first and a last folder.                *)
LEMMA StackIs ==
  ASSUME NEW o, NEW s \in Seq(Frames(o)), s # <<>>
  PROVE  Stack(s, o)
<1>1. Len(s) \in Nat /\ Len(s) >= 1
  OBVIOUS
<1>2. Len(s) \in 1..Len(s) /\ 1 \in 1..Len(s)
  BY <1>1
<1>3. s[Len(s)] \in Frames(o) /\ s[1] \in Frames(o)
  BY <1>2, ElementOfSeq
<1> QED BY <1>1, <1>3 DEF Stack

(* Leaving the innermost folder.                                           *)
LEMMA StackPops ==
  ASSUME NEW o, NEW s, Stack(s, o), Len(s) # 1
  PROVE  Stack(Front(s), o) /\ Front(s)[1] = s[1] /\ s[Len(s) - 1] \in Frames(o)
<1>1. s \in Seq(Frames(o)) /\ s # <<>> /\ Len(s) \in Nat /\ Len(s) >= 1
  BY DEF Stack
<1>2. /\ Front(s) \in Seq(Frames(o)) /\ Len(Front(s)) = Len(s) - 1
      /\ \A k \in 1..(Len(s) - 1) : Front(s)[k] = s[k]
  BY <1>1, FrontIs
<1>3. Len(Front(s)) # 0 /\ 1 \in 1..(Len(s) - 1) /\ Len(s) - 1 \in 1..Len(s)
  BY <1>1, <1>2
<1>4. Front(s) # <<>>
  BY <1>3
<1>5. Stack(Front(s), o)
  BY <1>2, <1>4, StackIs
<1>6. s[Len(s) - 1] \in Frames(o)
  BY <1>1, <1>3, ElementOfSeq
<1> QED BY <1>2, <1>3, <1>5, <1>6

(* Entering one more.                                                      *)
LEMMA StackGrows ==
  ASSUME NEW o, NEW s, s \in Seq(Frames(o)), NEW f \in Frames(o)
  PROVE  Stack(Append(s, f), o) /\ (s # <<>> => Append(s, f)[1] = s[1])
<1>1. Append(s, f) \in Seq(Frames(o)) /\ Len(Append(s, f)) = Len(s) + 1 /\ Len(s) \in Nat
  OBVIOUS
<1>2. Append(s, f) # <<>>
  BY <1>1
<1>3. s # <<>> => Append(s, f)[1] = s[1]
  <2> SUFFICES ASSUME s # <<>> PROVE Append(s, f)[1] = s[1]
    OBVIOUS
  <2>1. 1 \in 1..Len(s)
    BY <1>1
  <2> QED BY <2>1
<1> QED BY <1>1, <1>2, <1>3, StackIs

(* An entry of the innermost folder is dealt with.                         *)
LEMMA StackShrinks ==
  ASSUME NEW o, NEW s, Stack(s, o), NEW c
  PROVE  LET t == [s EXCEPT ![Len(s)].left = @ \ {c}]
         IN Stack(t, o) /\ t[1].path = s[1].path
<1> DEFINE n == Len(s)
           f == [s[n] EXCEPT !.left = @ \ {c}]
           t == [s EXCEPT ![n] = f]
<1>1. s \in Seq(Frames(o)) /\ s # <<>> /\ n \in Nat /\ n >= 1 /\ s[n] \in Frames(o) /\ s[1] \in Frames(o)
  BY DEF Stack
<1>2. f = [dir |-> s[n].dir, path |-> s[n].path, left |-> s[n].left \ {c}]
  <2> DEFINE x == s[n]
  <2>1. x \in Frames(o)
    BY <1>1
  <2> HIDE DEF x
  <2>2. x = [dir |-> x.dir, path |-> x.path, left |-> x.left]
    BY <2>1 DEF Frames
  <2>3. [x EXCEPT !.left = @ \ {c}] = [dir |-> x.dir, path |-> x.path, left |-> x.left \ {c}]
    BY <2>2
  <2> QED BY <2>3 DEF x
<1>3. f \in Frames(o) /\ f.path = s[n].path
  <2> HIDE DEF f
  <2> QED BY <1>1, <1>2 DEF Frames
<1>4. t = [s EXCEPT ![Len(s)].left = @ \ {c}]
  BY <1>1
<1> HIDE DEF f
<1>5. t \in Seq(Frames(o)) /\ Len(t) = n
  BY <1>1, <1>3
<1>6. t # <<>>
  BY <1>1, <1>5
<1>7. t[1].path = s[1].path
  <2>1. 1 \in 1..n
    BY <1>1
  <2>2. CASE n = 1
    BY <1>1, <1>3, <2>1, <2>2
  <2>3. CASE n # 1
    BY <1>1, <2>1, <2>3
  <2> QED BY <2>2, <2>3
<1> HIDE DEF t
<1>8. Stack(t, o)
  BY <1>5, <1>6, StackIs
<1> QED BY <1>4, <1>7, <1>8

(* A path one component longer.                                            *)
LEMMA LongerInVault ==
  ASSUME NEW p \in VaultPaths, NEW c \in Components
  PROVE  Append(p, c) \in VaultPaths
<1>1. p \in Seq(Components) /\ Len(p) \in Nat /\ Len(p) >= 1 /\ p[1] = Vault
  BY DEF VaultPaths
<1>2. Append(p, c) \in Seq(Components) /\ Len(Append(p, c)) = Len(p) + 1 /\ 1 \in 1..Len(p)
  BY <1>1
<1>3. Append(p, c)[1] = Vault
  BY <1>1, <1>2
<1> DEFINE q == Append(p, c)
<1>4. q \in Seq(Components) /\ Len(q) >= 1 /\ q[1] = Vault
  BY <1>1, <1>2, <1>3
<1> HIDE DEF q
<1>5. q \in VaultPaths
  BY <1>4 DEF VaultPaths
<1> QED BY <1>5 DEF q

(* One entry of a folder that is being emptied.                            *)
LEMMA RemoveChildWorks ==
  ASSUME NEW o, FilesInv(o), ControlInv(o), NEW r \in Requests, RemoveChild(r)
  PROVE  Works(r, o)
<1> DEFINE s == loc[r].frames
           f == s[Len(s)]
<1>1. Busy(r, "empty", o)
  BY Busies DEF RemoveChild
<1>2. IsLoc(loc[r], o) /\ s \in Seq(Frames(o)) /\ s # <<>> /\ s[1].path = ResolveInVault(req[r].path).out
  BY <1>1 DEF Busy, Ready, IsLoc
<1>3. Stack(s, o)
  BY <1>2, StackIs
<1>4. f \in Frames(o)
  BY <1>3 DEF Stack
<1>5. f.dir \in Ids \ {Top, o} /\ f.path \in VaultPaths /\ f.left \in SUBSET [name : Components, folder : BOOLEAN]
  <2> HIDE DEF f
  <2> QED BY <1>4 DEF Frames
<1>6. PICK c \in f.left :
        LET id == Entry(mem, f.dir, c.name)
            rest == [loc[r] EXCEPT !.frames[Len(s)].left = @ \ {c}]
        IN \/ id \in Errors /\ Goto(r, "empty", rest) /\ Same
           \/ /\ id \notin Errors /\ IsDir(mem, id) /\ c.folder
              /\ Goto(r, "empty", [rest EXCEPT !.frames = Append(@, Frame(id, Append(f.path, c.name)))])
              /\ Same
           \/ id \notin Errors /\ IsDir(mem, id) /\ ~c.folder /\ Err(r, "EISDIR") /\ Same
           \/ /\ id \notin Errors /\ ~IsDir(mem, id)
              /\ Goto(r, "empty", rest) /\ Store(Unlink(mem, f.dir, c.name))
  BY DEF RemoveChild
<1> DEFINE id == Entry(mem, f.dir, c.name)
           t == [s EXCEPT ![Len(s)].left = @ \ {c}]
           rest == [loc[r] EXCEPT !.frames = t]
           g == Frame(id, Append(f.path, c.name))
           u == Append(t, g)
           deeper == [rest EXCEPT !.frames = u]
<1>7. c.name \in Components
  BY <1>5
<1>8. rest = [loc[r] EXCEPT !.frames[Len(s)].left = @ \ {c}]
  BY <1>2 DEF IsLoc
<1>9. Stack(t, o) /\ t[1].path = s[1].path
  <2> HIDE DEF s
  <2> QED BY <1>3, StackShrinks
<1>10. t \in Seq(Frames(o)) /\ t # <<>>
  BY <1>9 DEF Stack
<1>11. IsLoc(rest, o) /\ rest.frames = t
  <2> HIDE DEF t
  <2> QED BY <1>2, <1>10, LocFrames
<1>12. \/ id \in Errors /\ Goto(r, "empty", rest) /\ Same
       \/ id \notin Errors /\ Goto(r, "empty", deeper) /\ Same
       \/ Err(r, "EISDIR") /\ Same
       \/ Goto(r, "empty", rest) /\ Store(Unlink(mem, f.dir, c.name))
  <2>1. deeper = [rest EXCEPT !.frames = Append(@, g)]
    <3> HIDE DEF t, g
    <3>1. rest.frames = t
      BY <1>11
    <3> QED BY <3>1
  <2> QED BY <1>6, <1>8, <2>1
<1> HIDE DEF f, s, t, rest
<1>13. Ready(req[r], rest, "empty")
  <2>1. rest.frames # <<>> /\ rest.frames[1].path = ResolveInVault(req[r].path).out
    BY <1>2, <1>9, <1>10, <1>11
  <2> QED BY <1>1, <2>1 DEF Busy, Ready, Fits, Reading
<1>14. CASE Goto(r, "empty", rest) /\ Same
  BY <1>1, <1>11, <1>13, <1>14, GotoWorks
<1>15. CASE id \notin Errors /\ Goto(r, "empty", deeper) /\ Same
  <2>0. Shaped(mem) /\ Safe(mem, o)
    BY DEF FilesInv, Safe
  <2>1. id \in Ids \ {Top} /\ f.dir \in Ids /\ c.name \in Names(mem, f.dir) /\ id = mem[f.dir].at[c.name]
    BY <1>5, <1>15, <2>0, EntryIs
  <2>2. id # o
    BY <1>5, <2>0, <2>1, BesideIs
  <2>3. Append(f.path, c.name) \in VaultPaths
    BY <1>5, <1>7, LongerInVault
  <2>4. g \in Frames(o)
    <3> HIDE DEF id
    <3> QED BY <2>1, <2>2, <2>3, FrameIs
  <2> HIDE DEF g, id
  <2>5. Stack(u, o) /\ u[1] = t[1]
    BY <1>10, <2>4, StackGrows
  <2>6. u \in Seq(Frames(o)) /\ u # <<>>
    BY <2>5 DEF Stack
  <2> HIDE DEF u
  <2>7. IsLoc(deeper, o) /\ deeper.frames = u
    BY <1>11, <2>6, LocFrames
  <2> HIDE DEF deeper
  <2>8. deeper.frames # <<>> /\ deeper.frames[1].path = ResolveInVault(req[r].path).out
    BY <1>2, <1>9, <2>5, <2>6, <2>7
  <2>9. Ready(req[r], deeper, "empty")
    BY <1>1, <2>8 DEF Busy, Ready, Fits, Reading
  <2> QED BY <1>1, <1>15, <2>7, <2>9, GotoWorks
<1>16. CASE Err(r, "EISDIR") /\ Same
  <2>1. "EISDIR" \in Codes
    BY DEF Codes, Errors
  <2> QED BY <1>1, <1>16, <2>1, ErrWorks
<1>17. CASE Goto(r, "empty", rest) /\ Store(Unlink(mem, f.dir, c.name))
  <2>1. Fair(Unlink(mem, f.dir, c.name), o)
    BY <1>5, UnlinkFair
  <2>2. Turn(r, req[r], o)
    BY <1>1, <1>11, <1>13, <1>17, GotoTurns DEF Busy
  <2> QED BY <1>1, <1>17, <2>1, <2>2 DEF Busy, Works, Files
<1> QED BY <1>12, <1>14, <1>15, <1>16, <1>17

(* The folder that has been emptied.                                       *)
LEMMA RemoveEmptiedWorks ==
  ASSUME NEW o, FilesInv(o), ControlInv(o), NEW r \in Requests, RemoveEmptied(r)
  PROVE  Works(r, o)
<1> DEFINE s == loc[r].frames
           n == Len(s)
           d == IF n = 1 THEN ParentOf(mem, Path(r)) ELSE s[n - 1].dir
           name == Last(s[n].path)
           e == RmdirError(mem, d, name)
           l == [loc[r] EXCEPT !.frames = Front(@)]
<1>1. Busy(r, "empty", o)
  BY Busies DEF RemoveEmptied
<1>2. IsLoc(loc[r], o) /\ s \in Seq(Frames(o)) /\ s # <<>> /\ s[1].path = Path(r) /\ Path(r) \in VaultPaths
  BY <1>1, PathsStay DEF Busy, Ready, IsLoc, Path
<1>3. Stack(s, o) /\ (n # 1 => Stack(Front(s), o) /\ Front(s)[1] = s[1] /\ s[n - 1] \in Frames(o))
  BY <1>2, StackIs, StackPops
<1>4. /\ IF e \notin {None, "ENOENT"} THEN Err(r, e)
         ELSE IF n = 1 THEN Ok(r) ELSE Goto(r, "empty", l)
      /\ IF e = None THEN Store(Unlink(mem, d, name)) ELSE Same
  BY DEF RemoveEmptied
<1>5. e \in Errors \cup {None} /\ (e = None => d \notin Errors)
  BY RemovalErrorIs
<1>6. e = None => Fair(Unlink(mem, d, name), o)
  <2> SUFFICES ASSUME e = None PROVE Fair(Unlink(mem, d, name), o)
    OBVIOUS
  <2>1. CASE n = 1
    <3>1. d = ParentOf(mem, Path(r)) /\ name = Last(Path(r))
      BY <1>2, <2>1
    <3>2. Fair(Unlink(mem, ParentOf(mem, Path(r)), Last(Path(r))), o)
      BY <1>2, <1>5, <3>1, RemovalFair
    <3> HIDE DEF d, name
    <3> QED BY <3>1, <3>2
  <2>2. CASE n # 1
    <3>1. d = s[n - 1].dir
      BY <2>2
    <3>2. s[n - 1].dir \in Ids \ {Top, o}
      BY <1>3, <2>2 DEF Frames
    <3> HIDE DEF d, name
    <3>3. d \in Ids \ {o} /\ d # Top
      BY <3>1, <3>2
    <3> QED BY <3>3, UnlinkFair
  <2> QED BY <2>1, <2>2
<1> HIDE DEF d, name, e
<1>7. Files(r, o)
  BY <1>4, <1>6 DEF Files, Same, AtRest
<1>8. Turn(r, req[r], o)
  <2>1. CASE Err(r, e)
    BY <1>1, <1>5, <2>1, AnswerTurns DEF Busy, Err, Codes
  <2>2. CASE Ok(r)
    BY <1>1, <2>2, AnswerTurns DEF Busy, Ok, Codes
  <2>3. CASE n # 1 /\ Goto(r, "empty", l)
    <3> DEFINE t == Front(s)
    <3>1. t \in Seq(Frames(o)) /\ t # <<>> /\ t[1].path = Path(r)
      BY <1>2, <1>3, <2>3 DEF Stack
    <3>2. l = [loc[r] EXCEPT !.frames = t]
      OBVIOUS
    <3> HIDE DEF t, l, s
    <3>3. IsLoc(l, o) /\ l.frames = t
      BY <1>2, <3>1, <3>2, LocFrames
    <3>4. l.frames # <<>> /\ l.frames[1].path = ResolveInVault(req[r].path).out
      BY <3>1, <3>3 DEF Path
    <3>5. Ready(req[r], l, "empty")
      BY <1>1, <3>4 DEF Busy, Ready, Fits, Reading
    <3> QED BY <1>1, <2>3, <3>3, <3>5, GotoTurns DEF Busy
  <2> QED BY <1>4, <2>1, <2>2, <2>3
<1> QED BY <1>1, <1>7, <1>8 DEF Busy, Works

-----------------------------------------------------------------------------
(* The routes that read.                                                   *)
LEMMA StatWorks ==
  ASSUME NEW o, FilesInv(o), ControlInv(o), NEW r \in Requests, Stat(r)
  PROVE  Works(r, o)
<1> DEFINE id == Walk(mem, Path(r))
           out == {[type |-> mem[id].type, size |-> Len(mem[id].bytes), mtime |-> ToMs(mem[id].mtime)]}
<1>1. Busy(r, "stat", o) /\ Same
  BY Busies DEF Stat
<1>2. (id \in Errors /\ Err(r, id)) \/ Answer(r, None, out)
  BY DEF Stat
<1>3. None \in Codes
  BY DEF Codes
<1> HIDE DEF id, out
<1>4. CASE id \in Errors /\ Err(r, id)
  BY <1>1, <1>4, ErrWorks DEF Codes
<1>5. CASE Answer(r, None, out)
  BY <1>1, <1>3, <1>5, AnswerWorks
<1> QED BY <1>2, <1>4, <1>5

(* access.                                                                 *)
LEMMA AccessWorks ==
  ASSUME NEW o, FilesInv(o), ControlInv(o), NEW r \in Requests, Access(r)
  PROVE  Works(r, o)
<1>1. Busy(r, "access", o) /\ Same
  BY Busies DEF Access
<1>2. "ENOENT" \in Codes
  BY DEF Codes, Errors
<1>3. Err(r, "ENOENT") \/ Ok(r)
  BY DEF Access
<1> QED BY <1>1, <1>2, <1>3, ErrWorks, OkWorks

(* The first look of readFile, download, readdir and download-zip.         *)
LEMMA MetadataWorks ==
  ASSUME NEW o, FilesInv(o), ControlInv(o), NEW r \in Requests, Metadata(r)
  PROVE  Works(r, o)
<1> DEFINE id == Walk(mem, Path(r))
           next == IF req[r].op \in {"read", "download"} THEN "open" ELSE "read_dir"
           l == [loc[r] EXCEPT !.reading = Path(r)]
<1>1. Busy(r, "metadata", o) /\ Same
  BY Busies DEF Metadata
<1>2. Path(r) \in VaultPaths /\ IsLoc(loc[r], o)
  BY <1>1, PathsStay DEF Busy
<1>3. \/ id \in Errors /\ Err(r, id)
      \/ Err(r, "bad")
      \/ Goto(r, next, l)
  BY DEF Metadata
<1> HIDE DEF id
<1>4. CASE id \in Errors /\ Err(r, id)
  BY <1>1, <1>4, ErrWorks DEF Codes
<1>5. CASE Err(r, "bad")
  <2>1. "bad" \in Codes
    BY DEF Codes
  <2> QED BY <1>1, <1>5, <2>1, ErrWorks
<1>6. CASE Goto(r, next, l)
  <2>1. IsLoc(l, o) /\ l.reading = Path(r)
    BY <1>2, LocReading
  <2> HIDE DEF l
  <2>2. \/ next = "open" /\ req[r].op \in {"read", "download"}
        \/ next = "read_dir" /\ req[r].op \in {"readdir", "zip"}
    BY <1>1 DEF Busy, Ready, Fits, Reading
  <2> HIDE DEF next
  <2>3. Ready(req[r], l, next)
    BY <1>1, <1>2, <2>1, <2>2 DEF Busy, Ready, Fits, Reading
  <2> QED BY <1>1, <1>6, <2>1, <2>3, GotoWorks
<1> QED BY <1>3, <1>4, <1>5, <1>6

(* A note that is not read: the batch goes on, the others answer.          *)
LEMMA MissedWorks ==
  ASSUME NEW o, NEW r, NEW step \in {"open", "read"}, Busy(r, step, o), AtRest, NEW err \in Codes,
         Missed(r, err)
  PROVE  Works(r, o)
<1> DEFINE k == [loc[r] EXCEPT !.reading = None]
           h == [k EXCEPT !.fd = None]
           l == [h EXCEPT !.got = <<>>]
<1>1. \/ req[r].op = "batch_read" /\ Goto(r, "batch_read", l)
      \/ Err(r, "ENOENT")
      \/ Err(r, err)
  <2>1. l = [loc[r] EXCEPT !.reading = None, !.fd = None, !.got = <<>>]
    OBVIOUS
  <2> HIDE DEF l
  <2> QED BY <2>1 DEF Missed
<1>2. CASE req[r].op = "batch_read" /\ Goto(r, "batch_read", l)
  <2>1. IsLoc(k, o)
    BY LocReading DEF Busy
  <2> HIDE DEF k
  <2>2. IsLoc(h, o)
    BY <2>1, LocFd DEF Handles
  <2> HIDE DEF h
  <2>3. IsLoc(l, o)
    BY <2>2, LocGot
  <2> HIDE DEF l
  <2>4. Ready(req[r], l, "batch_read")
    BY <1>2 DEF Busy, Ready, Fits, Reading
  <2> QED BY <1>2, <2>3, <2>4, GotoWorks
<1>3. "ENOENT" \in Codes
  BY DEF Codes, Errors
<1> HIDE DEF l
<1> QED BY <1>1, <1>2, <1>3, ErrWorks

(* The open of a note.                                                     *)
LEMMA OpenNoteWorks ==
  ASSUME NEW o, FilesInv(o), ControlInv(o), NEW r \in Requests, OpenNote(r)
  PROVE  Works(r, o)
<1> DEFINE id == Walk(mem, loc[r].reading)
           l == [loc[r] EXCEPT !.fd = id]
<1>1. Busy(r, "open", o) /\ AtRest
  BY Busies DEF OpenNote, AtRest
<1>2. IsLoc(loc[r], o) /\ loc[r].reading \in VaultPaths
  BY <1>1 DEF Busy, Ready
<1>3. id \notin Errors => id \in Ids \ {Top, o}
  BY <1>2, WalkEntry DEF FilesInv
<1>4. \/ id \in Errors /\ Missed(r, id)
      \/ Missed(r, "EISDIR")
      \/ id \notin Errors /\ Goto(r, "read", l)
  BY DEF OpenNote
<1> HIDE DEF id
<1>5. CASE id \in Errors /\ Missed(r, id)
  BY <1>1, <1>5, MissedWorks DEF Codes
<1>6. CASE Missed(r, "EISDIR")
  <2>1. "EISDIR" \in Codes
    BY DEF Codes, Errors
  <2> QED BY <1>1, <1>6, <2>1, MissedWorks
<1>7. CASE id \notin Errors /\ Goto(r, "read", l)
  <2>1. id \in Handles(o) /\ id # None
    BY <1>3, <1>7, IdsAssumption DEF Handles
  <2>2. IsLoc(l, o) /\ l.fd = id /\ l.reading = loc[r].reading /\ l.frames = loc[r].frames
    BY <1>2, <2>1, LocFd
  <2> HIDE DEF l
  <2>3. Ready(req[r], l, "read")
    BY <1>1, <1>2, <2>1, <2>2 DEF Busy, Ready, Fits, Reading
  <2> QED BY <1>1, <1>7, <2>2, <2>3, GotoWorks
<1> QED BY <1>4, <1>5, <1>6, <1>7

(* One read of a note, for itself, for a batch or for an archive.          *)
LEMMA ReadWorks ==
  ASSUME NEW o, FilesInv(o), ControlInv(o), NEW r \in Requests, Read(r)
  PROVE  Works(r, o)
<1>1. Busy(r, "read", o)
  BY Busies DEF Read
<1>2. IsLoc(loc[r], o)
  BY <1>1 DEF Busy
<1>3. (\E n : ReadUpTo(r, n)) \/ Finish(r, [loc[r] EXCEPT !.got = <<>>])
  BY DEF Read
<1>4. ASSUME NEW n, ReadUpTo(r, n) PROVE Works(r, o)
  <2> DEFINE x == loc[r].got \o SubSeq(mem[loc[r].fd].bytes, Len(loc[r].got) + 1, n)
             l == [loc[r] EXCEPT !.got = x]
  <2>1. Goto(r, "read", l) /\ Same
    BY <1>4 DEF ReadUpTo
  <2> HIDE DEF x
  <2>2. /\ IsLoc(l, o) /\ l.fd = loc[r].fd /\ l.reading = loc[r].reading
        /\ l.frames = loc[r].frames
    BY <1>2, LocGot
  <2> HIDE DEF l
  <2>3. Ready(req[r], l, "read")
    BY <1>1, <2>2 DEF Busy, Ready, Fits, Reading
  <2> QED BY <1>1, <2>1, <2>2, <2>3, GotoWorks
<1>5. CASE Finish(r, [loc[r] EXCEPT !.got = <<>>])
  <2> DEFINE g == [loc[r] EXCEPT !.got = <<>>]
             note == [path |-> loc[r].reading, bytes |-> loc[r].got, held |-> contents[r]]
             files == IF req[r].op = "batch_read" /\ ~IsText(note.bytes) THEN loc[r].files
                      ELSE loc[r].files \cup {note}
             h == [g EXCEPT !.fd = None]
             k == [h EXCEPT !.reading = None]
             l == [k EXCEPT !.files = files]
  <2>1. AtRest
    BY <1>5 DEF Finish, AtRest
  <2>2. \/ req[r].op \in {"zip", "batch_read"} /\ Goto(r, req[r].op, l)
        \/ Answer(r, None, files)
    <3>1. l = [g EXCEPT !.fd = None, !.reading = None, !.files = files]
      OBVIOUS
    <3> HIDE DEF l
    <3> QED BY <1>5, <3>1 DEF Finish
  <2> HIDE DEF files
  <2>3. CASE req[r].op \in {"zip", "batch_read"} /\ Goto(r, req[r].op, l)
    <3>1. IsLoc(g, o) /\ g.frames = loc[r].frames
      BY <1>2, LocGot
    <3> HIDE DEF g
    <3>2. IsLoc(h, o) /\ h.frames = g.frames
      BY <3>1, LocFd DEF Handles
    <3> HIDE DEF h
    <3>3. IsLoc(k, o) /\ k.frames = h.frames
      BY <3>2, LocReading
    <3> HIDE DEF k
    <3>4. IsLoc(l, o) /\ l.frames = k.frames
      BY <3>3, LocFiles
    <3> HIDE DEF l
    <3>5. Ready(req[r], l, req[r].op)
      BY <1>1, <2>3, <3>1, <3>2, <3>3, <3>4 DEF Busy, Ready, Fits, Reading
    <3> QED BY <1>1, <2>1, <2>3, <3>4, <3>5, GotoWorks
  <2>4. CASE Answer(r, None, files)
    <3>1. None \in Codes
      BY DEF Codes
    <3> QED BY <1>1, <2>1, <2>4, <3>1, AnswerWorks
  <2> QED BY <2>2, <2>3, <2>4
<1> QED BY <1>3, <1>4, <1>5

(* read_dir, for readdir and for every folder of an archive.               *)
LEMMA ReadDirWorks ==
  ASSUME NEW o, FilesInv(o), ControlInv(o), NEW r \in Requests, ReadDir(r)
  PROVE  Works(r, o)
<1> DEFINE path == loc[r].reading
           id == Walk(mem, path)
           out == {[name |-> n, type |-> mem[mem[id].at[n]].type] : n \in Names(mem, id)}
           f == Frame(id, path)
           s == Append(loc[r].frames, f)
           l == [loc[r] EXCEPT !.frames = s]
<1>1. Busy(r, "read_dir", o) /\ Same
  BY Busies DEF ReadDir
<1>2. IsLoc(loc[r], o) /\ path \in VaultPaths /\ loc[r].frames \in Seq(Frames(o))
  BY <1>1 DEF Busy, Ready, IsLoc
<1>3. \/ id \in Errors /\ Err(r, id)
      \/ Err(r, "ENOTDIR")
      \/ Answer(r, None, out)
      \/ id \notin Errors /\ req[r].op # "readdir" /\ Goto(r, "zip", l)
  BY DEF ReadDir
<1>4. id \notin Errors => id \in Ids \ {Top, o}
  BY <1>2, WalkEntry DEF FilesInv
<1> HIDE DEF id, out
<1>5. CASE id \in Errors /\ Err(r, id)
  BY <1>1, <1>5, ErrWorks DEF Codes
<1>6. CASE Err(r, "ENOTDIR")
  <2>1. "ENOTDIR" \in Codes
    BY DEF Codes, Errors
  <2> QED BY <1>1, <1>6, <2>1, ErrWorks
<1>7. CASE Answer(r, None, out)
  <2>1. None \in Codes
    BY DEF Codes
  <2> QED BY <1>1, <1>7, <2>1, AnswerWorks
<1>8. CASE id \notin Errors /\ req[r].op # "readdir" /\ Goto(r, "zip", l)
  <2>1. f \in Frames(o)
    <3> HIDE DEF path
    <3> QED BY <1>2, <1>4, <1>8, FrameIs
  <2> HIDE DEF f
  <2>2. Stack(s, o)
    BY <1>2, <2>1, StackGrows
  <2>3. s \in Seq(Frames(o)) /\ s # <<>>
    BY <2>2 DEF Stack
  <2> HIDE DEF s
  <2>4. IsLoc(l, o) /\ l.frames = s
    BY <1>2, <2>3, LocFrames
  <2> HIDE DEF l
  <2>5. Ready(req[r], l, "zip")
    BY <1>1, <1>8, <2>3, <2>4 DEF Busy, Ready, Fits
  <2> QED BY <1>1, <1>8, <2>4, <2>5, GotoWorks
<1> QED BY <1>3, <1>5, <1>6, <1>7, <1>8

(* One entry of zip_walk.                                                  *)
LEMMA ZipWalkWorks ==
  ASSUME NEW o, FilesInv(o), ControlInv(o), NEW r \in Requests, ZipWalk(r)
  PROVE  Works(r, o)
<1> DEFINE s == loc[r].frames
           n == Len(s)
           f == s[n]
           l == [loc[r] EXCEPT !.frames = Front(@)]
<1>1. Busy(r, "zip", o) /\ Same
  BY Busies DEF ZipWalk
<1>2. IsLoc(loc[r], o) /\ s \in Seq(Frames(o)) /\ s # <<>>
  BY <1>1 DEF Busy, Ready, IsLoc
<1>3. Stack(s, o) /\ (n # 1 => Stack(Front(s), o))
  BY <1>2, StackIs, StackPops
<1>4. f.path \in VaultPaths /\ f.left \in SUBSET [name : Components, folder : BOOLEAN]
  <2>1. f \in Frames(o)
    BY <1>3 DEF Stack
  <2> HIDE DEF f
  <2> QED BY <2>1 DEF Frames
<1>5. \/ \E c \in f.left :
           LET path == Append(f.path, c.name)
               id == Walk(mem, path)
               rest == [loc[r] EXCEPT !.frames[n].left = @ \ {c}, !.reading = path]
           IN IF id \in Errors THEN Err(r, id)
              ELSE Goto(r, IF IsDir(mem, id) THEN "read_dir" ELSE "open", rest)
      \/ n > 1 /\ Goto(r, "zip", l)
      \/ Answer(r, None, loc[r].files)
  BY DEF ZipWalk
<1>6. ASSUME NEW c \in f.left,
             LET path == Append(f.path, c.name)
                 id == Walk(mem, path)
                 rest == [loc[r] EXCEPT !.frames[n].left = @ \ {c}, !.reading = path]
             IN IF id \in Errors THEN Err(r, id)
                ELSE Goto(r, IF IsDir(mem, id) THEN "read_dir" ELSE "open", rest)
      PROVE  Works(r, o)
  <2> DEFINE path == Append(f.path, c.name)
             id == Walk(mem, path)
             t == [s EXCEPT ![Len(s)].left = @ \ {c}]
             k == [loc[r] EXCEPT !.frames = t]
             rest == [k EXCEPT !.reading = path]
             next == IF IsDir(mem, id) THEN "read_dir" ELSE "open"
  <2>1. rest = [loc[r] EXCEPT !.frames[n].left = @ \ {c}, !.reading = path]
    BY <1>2 DEF IsLoc
  <2>2. (id \in Errors /\ Err(r, id)) \/ Goto(r, next, rest)
    BY <1>6, <2>1
  <2>3. path \in VaultPaths
    BY <1>4, LongerInVault
  <2>4. Stack(t, o)
    <3> HIDE DEF s
    <3> QED BY <1>3, StackShrinks
  <2>5. t \in Seq(Frames(o)) /\ t # <<>>
    BY <2>4 DEF Stack
  <2> HIDE DEF t, path
  <2>6. IsLoc(k, o) /\ k.frames = t
    BY <1>2, <2>5, LocFrames
  <2> HIDE DEF k
  <2>7. IsLoc(rest, o) /\ rest.frames = t /\ rest.reading = path
    BY <2>3, <2>6, LocReading
  <2> HIDE DEF rest
  <2>8. next \in {"open", "read_dir"}
    OBVIOUS
  <2> HIDE DEF next, id
  <2>9. Ready(req[r], rest, next)
    BY <1>1, <2>3, <2>5, <2>7, <2>8 DEF Busy, Ready, Fits, Reading
  <2>10. CASE id \in Errors /\ Err(r, id)
    BY <1>1, <2>10, ErrWorks DEF Codes
  <2>11. CASE Goto(r, next, rest)
    BY <1>1, <2>7, <2>9, <2>11, GotoWorks
  <2> QED BY <2>2, <2>10, <2>11
<1>7. CASE n > 1 /\ Goto(r, "zip", l)
  <2> DEFINE t == Front(s)
  <2>1. n # 1
    <3>1. n \in Nat
      BY <1>3 DEF Stack
    <3>2. n > 1
      BY <1>7
    <3> HIDE DEF n
    <3> QED BY <3>1, <3>2
  <2>2. t \in Seq(Frames(o)) /\ t # <<>>
    BY <1>3, <2>1 DEF Stack
  <2>3. l = [loc[r] EXCEPT !.frames = t]
    OBVIOUS
  <2> HIDE DEF t, l
  <2>4. IsLoc(l, o) /\ l.frames = t
    BY <1>2, <2>2, <2>3, LocFrames
  <2>5. Ready(req[r], l, "zip")
    BY <1>1, <2>2, <2>4 DEF Busy, Ready, Fits
  <2> QED BY <1>1, <1>7, <2>4, <2>5, GotoWorks
<1>8. CASE Answer(r, None, loc[r].files)
  <2>1. None \in Codes
    BY DEF Codes
  <2> QED BY <1>1, <1>8, <2>1, AnswerWorks
<1> QED BY <1>5, <1>6, <1>7, <1>8

(* One path of a batch-read.                                               *)
LEMMA BatchReadWorks ==
  ASSUME NEW o, FilesInv(o), ControlInv(o), NEW r \in Requests, BatchRead(r)
  PROVE  Works(r, o)
<1> DEFINE p == Head(loc[r].left)
           rest == [loc[r] EXCEPT !.left = Tail(@)]
           more == [rest EXCEPT !.reading = ResolveInVault(p).out]
<1>1. Busy(r, "batch_read", o) /\ Same
  BY Busies DEF BatchRead
<1>2. IsLoc(loc[r], o) /\ req[r].op = "batch_read"
  BY <1>1 DEF Busy, Ready, Fits
<1>3. \/ Answer(r, None, loc[r].files)
      \/ loc[r].left # <<>> /\ Goto(r, "batch_read", rest)
      \/ loc[r].left # <<>> /\ Goto(r, "open", more)
  BY DEF BatchRead
<1>5. CASE Answer(r, None, loc[r].files)
  <2>1. None \in Codes
    BY DEF Codes
  <2> QED BY <1>1, <1>5, <2>1, AnswerWorks
<1>a. SUFFICES ASSUME loc[r].left # <<>> PROVE Works(r, o)
  BY <1>3, <1>5
<1>4. IsLoc(rest, o)
  <2> DEFINE t == Tail(loc[r].left)
  <2>1. rest = [loc[r] EXCEPT !.left = t]
    OBVIOUS
  <2>2. t \in Seq(Relative)
    BY <1>2, <1>a DEF IsLoc
  <2> HIDE DEF t, rest
  <2> QED BY <1>2, <2>1, <2>2, LocLeft
<1> HIDE DEF rest
<1>6. CASE loc[r].left # <<>> /\ Goto(r, "batch_read", rest)
  <2>1. Ready(req[r], rest, "batch_read")
    BY <1>1 DEF Busy, Ready, Fits
  <2> QED BY <1>1, <1>4, <1>6, <2>1, GotoWorks
<1>7. CASE loc[r].left # <<>> /\ Goto(r, "open", more)
  <2>1. loc[r].left \in Seq(Relative)
    BY <1>2 DEF IsLoc
  <2>2. p \in Relative
    BY <1>7, <2>1
  <2>3. ResolveInVault(p).out \in VaultPaths
    BY <2>2, ResolvedInVault
  <2>4. IsLoc(more, o) /\ more.reading = ResolveInVault(p).out
    BY <1>4, <2>3, LocReading
  <2> HIDE DEF more, p
  <2>5. Ready(req[r], more, "open")
    BY <1>1, <1>2, <2>3, <2>4 DEF Busy, Ready, Fits, Reading
  <2> QED BY <1>1, <1>7, <2>4, <2>5, GotoWorks
<1> QED BY <1>3, <1>5, <1>6, <1>7

(* A call that fails for a reason of its own.                              *)
LEMMA CallFailsWorks ==
  ASSUME NEW o, FilesInv(o), ControlInv(o), NEW r \in Requests, CallFails(r)
  PROVE  Works(r, o)
<1> DEFINE e == IF pc[r] = "access" THEN "ENOENT" ELSE "EIO"
<1>1. r \in Running /\ AtRest /\ req' = req /\ rivals' = rivals
  BY DEF CallFails, AtRest
<1>2. Busy(r, pc[r], o)
  BY <1>1 DEF Busy, ControlInv, HandlerInv
<1>3. e \in Codes /\ "EIO" \in Codes
  BY DEF Codes, Errors
<1>4. (pc[r] \in {"open", "read"} /\ Missed(r, "EIO")) \/ Err(r, e)
  BY DEF CallFails
<1> HIDE DEF e
<1>5. CASE pc[r] \in {"open", "read"} /\ Missed(r, "EIO")
  BY <1>1, <1>2, <1>3, <1>5, MissedWorks
<1>6. CASE Err(r, e)
  BY <1>1, <1>2, <1>3, <1>6, ErrWorks
<1> QED BY <1>4, <1>5, <1>6

-----------------------------------------------------------------------------
(* The paths that a batch looks at.                                        *)
LookingAt(q) ==
  IF q.op = "batch_read"
  THEN SubSeq(q.paths, 1, IF Len(q.paths) < BatchLimit THEN Len(q.paths) ELSE BatchLimit)
  ELSE <<>>

(* They are relative paths, as many as it may look at.                     *)
LEMMA LookedAt ==
  ASSUME NEW q \in Queries
  PROVE  /\ LookingAt(q) \in Seq(Relative)
         /\ q.op = "batch_read" => \A i \in DOMAIN q.paths : i <= BatchLimit =>
              i \in 1..Len(LookingAt(q)) /\ LookingAt(q)[i] = q.paths[i]
<1> DEFINE s == q.paths
           n == IF Len(s) < BatchLimit THEN Len(s) ELSE BatchLimit
<1>1. s \in Seq(Relative) /\ Len(s) \in Nat /\ n \in Nat /\ n <= Len(s) /\ DOMAIN s = 1..Len(s)
  BY QueriesAssumption, BoundsAssumption DEF Relative
<1>2. \A i \in 1..n : s[i] \in Relative
  BY <1>1, ElementOfSeq
<1>3. LookingAt(q) = IF q.op = "batch_read" THEN SubSeq(s, 1, n) ELSE <<>>
  BY DEF LookingAt
<1>4. \A i \in DOMAIN s : i <= BatchLimit => i \in 1..n
  BY <1>1, BoundsAssumption
<1> HIDE DEF s, n
<1>5. /\ SubSeq(s, 1, n) \in Seq(Relative) /\ Len(SubSeq(s, 1, n)) = IF 1 <= n THEN n - 1 + 1 ELSE 0
      /\ \A k \in 1..(n - 1 + 1) : SubSeq(s, 1, n)[k] = s[1 + k - 1]
  BY <1>1, <1>2, SubSeqProperties
<1>6. Len(SubSeq(s, 1, n)) = n /\ n - 1 + 1 = n /\ \A k \in 1..n : 1 + k - 1 = k
  BY <1>1, <1>5
<1>7. \A k \in 1..n : SubSeq(s, 1, n)[k] = s[k]
  BY <1>5, <1>6
<1>8. <<>> \in Seq(Relative)
  OBVIOUS
<1> QED BY <1>3, <1>4, <1>5, <1>6, <1>7, <1>8 DEF s

(* A request that begins.                                                  *)
LEMMA BeginTurns ==
  ASSUME NEW o, FilesInv(o), ControlInv(o), NEW r \in Requests, NEW q \in Queries, Begin(r, q)
  PROVE  Turn(r, q, o)
<1> DEFINE step == FirstCall(q)
           a == [path |-> Wanted(q), again |-> FALSE]
           dirs == IF step = "mkdirs" THEN <<a>> ELSE <<>>
           left == LookingAt(q)
           reading == IF q.op = "vault_file" THEN ResolveInVault(q.path).out ELSE None
           h == [Nothing EXCEPT !.dirs = dirs]
           k == [h EXCEPT !.reading = reading]
           l == [k EXCEPT !.left = left]
<1>1. Shapes
  BY DEF ControlInv
<1>2. \/ Rejection(q) # None /\ Err(r, Rejection(q))
      \/ Rejection(q) = None /\ Goto(r, step, l)
  <2>1. l = [Nothing EXCEPT !.dirs = dirs, !.reading = reading, !.left = left]
    OBVIOUS
  <2> HIDE DEF l
  <2> QED BY <2>1 DEF Begin, LookingAt
<1>3. CASE Rejection(q) # None /\ Err(r, Rejection(q))
  <2>1. Rejection(q) \in Codes
    <3>1. {"bad", "ENOENT", None} \subseteq Codes
      BY DEF Codes, Errors
    <3> QED BY <3>1 DEF Rejection
  <2> QED BY <1>1, <1>3, <2>1, AnswerTurns DEF Err
<1>4. CASE Rejection(q) = None /\ Goto(r, step, l)
  <2>1. q.op \in Operations
    BY QueriesAssumption
  <2>2. "bad" # None /\ "ENOENT" # None
    BY IdsAssumption DEF Errors
  <2>3. q.op # "batch_read" => q.path \in Relative
    BY <1>4, <2>2, QueriesAssumption DEF Rejection, Relative
  <2>4. q.to \in Relative
    BY QueriesAssumption DEF Relative
  <2>5. /\ Fits(q.op, step) /\ step \notin {"empty", "zip", "read", "read_dir", "create_dest", "transfer"}
        /\ step # "batch_read" => q.op # "batch_read"
        /\ step = "open" => q.op = "vault_file"
    BY <2>1 DEF Operations, FirstCall, Fits, Reading
  <2>a. reading \in VaultPaths \cup {None} /\ (q.op = "vault_file" => reading \in VaultPaths)
    BY <2>3, ResolvedInVault
  <2>b. left \in Seq(Relative)
    BY LookedAt
  <2>6. step = "mkdirs" => Wanted(q) \in VaultPaths \cup {<<>>}
    <3> SUFFICES ASSUME step = "mkdirs" PROVE Wanted(q) \in VaultPaths \cup {<<>>}
      OBVIOUS
    <3>1. q.path \in Relative
      BY <2>3, <2>5
    <3>2. ResolveInVault(q.path).out \in VaultPaths /\ ResolveInVault(q.to).out \in VaultPaths
      BY <2>4, <3>1, ResolvedInVault
    <3>3. /\ Front(ResolveInVault(q.path).out) \in VaultPaths \cup {<<>>}
          /\ Front(ResolveInVault(q.to).out) \in VaultPaths \cup {<<>>}
      BY <3>2, FrontInVault
    <3> QED BY <3>2, <3>3 DEF Wanted
  <2> HIDE DEF step, left, reading
  <2>7. dirs \in Seq(Dirs) /\ (step = "mkdirs" => dirs # <<>>)
    <3>1. CASE step = "mkdirs"
      <4>1. a \in Dirs
        BY <2>6, <3>1 DEF Dirs
      <4> HIDE DEF a
      <4> QED BY <3>1, <4>1
    <3>2. CASE step # "mkdirs"
      BY <3>2
    <3> QED BY <3>1, <3>2
  <2> HIDE DEF dirs
  <2>8. IsLoc(h, o) /\ h.dirs = dirs
    BY <2>7, NothingIsLoc, LocDirs
  <2> HIDE DEF h
  <2>9. IsLoc(k, o) /\ k.dirs = dirs /\ k.reading = reading
    <3>1. IsLoc(k, o) /\ k.reading = reading
      BY <2>8, <2>a, LocReading
    <3>2. k.dirs = h.dirs
      BY <2>8 DEF IsLoc
    <3> QED BY <2>8, <3>1, <3>2
  <2> HIDE DEF k
  <2>10. IsLoc(l, o) /\ l.dirs = dirs /\ l.reading = reading
    <3>1. IsLoc(l, o)
      BY <2>9, <2>b, LocLeft
    <3>2. l.dirs = k.dirs /\ l.reading = k.reading
      BY <2>9 DEF IsLoc
    <3> QED BY <2>9, <3>1, <3>2
  <2> HIDE DEF l
  <2>11. Ready(q, l, step)
    BY <2>3, <2>5, <2>7, <2>10, <2>a DEF Ready
  <2> QED BY <1>1, <1>4, <2>10, <2>11, GotoTurns
<1> QED BY <1>2, <1>3, <1>4

(* The rivals of a request are other requests.                             *)
LEMMA BeginRivals ==
  ASSUME NEW o, ControlInv(o), NEW r \in Requests, NEW q, Begin(r, q)
  PROVE  \A s \in Requests : rivals'[s] \subseteq Requests \ {s}
<1> SUFFICES ASSUME NEW s \in Requests PROVE rivals'[s] \subseteq Requests \ {s}
  OBVIOUS
<1>1. rivals'[s] = IF s = r THEN Running ELSE IF req[s] # None THEN rivals[s] \cup {r} ELSE {}
  BY DEF Begin
<1>2. Running \subseteq Requests \ {r}
  BY DEF Running, Begin
<1>3. rivals[s] \subseteq Requests \ {s}
  BY DEF ControlInv, HandlerInv
<1> QED BY <1>1, <1>2, <1>3

(* Everything that happens.                                                *)
Invariant(o) == FilesInv(o) /\ ControlInv(o)
Acts(r) ==
  \/ MakeDirs(r) \/ Create(r) \/ OpenAppend(r) \/ WriteAll(r) \/ WriteFails(r)
  \/ SyncAll(r) \/ ReadBack(r) \/ OpenSource(r) \/ CreateDest(r) \/ Transfer(r)
  \/ Mkdir(r) \/ Move(r) \/ Utimes(r) \/ UnlinkFile(r) \/ Rmdir(r) \/ Lstat(r)
  \/ RemoveFile(r) \/ RemoveDir(r, "remove_dir") \/ OpenTree(r)
  \/ RemoveChild(r) \/ RemoveEmptied(r) \/ Stat(r) \/ Access(r) \/ Metadata(r)
  \/ OpenNote(r) \/ Read(r) \/ ReadDir(r) \/ ZipWalk(r) \/ BatchRead(r) \/ CallFails(r)

(* Every call of a handler.                                                *)
LEMMA ActsWork ==
  ASSUME NEW o, Invariant(o), NEW r \in Requests, Acts(r)
  PROVE  Works(r, o)
<1>1. FilesInv(o) /\ ControlInv(o)
  BY DEF Invariant
<1>2. CASE \/ MakeDirs(r) \/ Create(r) \/ OpenAppend(r) \/ WriteAll(r) \/ WriteFails(r)
           \/ SyncAll(r) \/ ReadBack(r) \/ OpenSource(r) \/ CreateDest(r) \/ Transfer(r)
  BY <1>1, <1>2, MakeDirsWorks, CreateWorks, OpenAppendWorks, WriteAllWorks, SyncAllWorks,
     ReadBackWorks, OpenSourceWorks, CreateDestWorks, TransferWorks
<1>3. CASE \/ Mkdir(r) \/ Move(r) \/ Utimes(r) \/ UnlinkFile(r) \/ Rmdir(r) \/ Lstat(r)
           \/ RemoveFile(r) \/ RemoveDir(r, "remove_dir") \/ OpenTree(r)
           \/ RemoveChild(r) \/ RemoveEmptied(r)
  <2>1. CASE Rmdir(r) \/ RemoveDir(r, "remove_dir")
    BY <1>1, <2>1, RemoveDirWorks DEF Rmdir
  <2> QED BY <1>1, <1>3, <2>1, MkdirWorks, MoveWorks, UtimesWorks, UnlinkWorks, LstatWorks,
             OpenTreeWorks, RemoveChildWorks, RemoveEmptiedWorks
<1>4. CASE \/ Stat(r) \/ Access(r) \/ Metadata(r) \/ OpenNote(r) \/ Read(r) \/ ReadDir(r)
           \/ ZipWalk(r) \/ BatchRead(r) \/ CallFails(r)
  BY <1>1, <1>4, StatWorks, AccessWorks, MetadataWorks, OpenNoteWorks, ReadWorks, ReadDirWorks,
     ZipWalkWorks, BatchReadWorks, CallFailsWorks
<1> QED BY <1>2, <1>3, <1>4 DEF Acts

(* Every step.                                                             *)
LEMMA NextIs ==
  ASSUME NEW o, Invariant(o), Next
  PROVE  \/ \E r \in Requests, q \in Queries : Begin(r, q)
         \/ \E r \in Requests : Acts(r) /\ Works(r, o)
         \/ WriteBack
         \/ Crash
BY ActsWork DEF Next, Acts

(* A file system from which what nothing leads to has been collected.      *)
LEMMA CollectedKin ==
  ASSUME NEW o, NEW m, NEW n, Safe(n, o), Kin(m, n), IsFs(n)
  PROVE  Safe(Collect(n, {}), o) /\ Kin(m, Collect(n, {}))
<1> DEFINE c == Collect(n, {})
<1>1. Safe(c, o)
  BY CollectSafe
<1>2. \A id \in Ids : c[id] \in {n[id], NoInode}
  BY CollectFair
<1> HIDE DEF c
<1>3. Kin(m, c)
  BY <1>2 DEF Kin, NoInode
<1> QED BY <1>1, <1>3 DEF c

(* What the kernel writes out.                                             *)
LEMMA WriteBackKeeps ==
  ASSUME NEW o, Invariant(o), WriteBack
  PROVE  Invariant(o)'
<1>1. FilesInv(o) /\ Safe(mem, o)
  BY DEF Invariant, FilesInv
<1>2. PICK files : disk' = Flushed(files) \/ disk' = Collect(Journaled(files), {})
  BY DEF WriteBack
<1>3. mem' = mem
  BY DEF WriteBack
<1>4. Safe(Flushed(files), o) /\ Kin(mem, Flushed(files))
  BY <1>1, FlushedSafe
<1>5. Safe(Collect(Journaled(files), {}), o) /\ Kin(mem, Collect(Journaled(files), {}))
  <2>1. Safe(Journaled(files), o) /\ Kin(mem, Journaled(files)) /\ IsFs(Journaled(files))
    BY <1>1, JournaledSafe
  <2> QED BY <2>1, CollectedKin
<1>6. FilesInv(o)'
  <2>1. Safe(mem, o)' /\ Safe(disk, o)' /\ Kin(mem, disk)'
    BY <1>1, <1>2, <1>3, <1>4, <1>5
  <2> QED BY <2>1 DEF FilesInv
<1>7. req' = req /\ pc' = pc /\ loc' = loc /\ answer' = answer /\ rivals' = rivals
  BY DEF WriteBack
<1>8. ControlInv(o)'
  BY <1>7 DEF Invariant, ControlInv, Shapes, HandlerInv, AnswerFits, Running
<1> QED BY <1>6, <1>8 DEF Invariant

(* After a crash there is what the disk had, and nobody runs.              *)
LEMMA CrashKeeps ==
  ASSUME NEW o, Invariant(o), Crash
  PROVE  Invariant(o)'
<1> DEFINE c == Collect(disk, {})
<1>1. mem' = c /\ disk' = c /\ req' = req /\ answer' = answer /\ rivals' = rivals
  BY DEF Crash
<1>2. FilesInv(o)'
  <2>1. Safe(disk, o) /\ Kin(disk, disk) /\ IsFs(disk)
    BY DEF Invariant, FilesInv, Kin, Safe, Shaped
  <2>2. Safe(c, o)
    BY <2>1, CollectedKin
  <2> HIDE DEF c
  <2>3. Safe(mem, o)' /\ Safe(disk, o)' /\ Kin(mem, disk)'
    BY <1>1, <2>2 DEF Kin
  <2> QED BY <2>3 DEF FilesInv
<1>3. Shapes'
  BY <1>1 DEF Invariant, ControlInv, Shapes, Crash
<1>4. ASSUME NEW r \in Requests PROVE HandlerInv(r, o)'
  <2>1. HandlerInv(r, o)
    BY DEF Invariant, ControlInv
  <2>2. pc'[r] = (IF r \in Running THEN "lost" ELSE pc[r]) /\ loc'[r] = Nothing
    BY DEF Crash
  <2>3. r \notin Running'
    BY <2>2 DEF Running
  <2>4. IsLoc(loc'[r], o)
    BY <2>2, NothingIsLoc
  <2>5. AnswerFits(r)'
    <3>1. CASE r \in Running
      BY <1>1, <2>1, <2>2, <3>1 DEF HandlerInv, AnswerFits, Running
    <3>2. CASE r \notin Running
      BY <1>1, <2>1, <2>2, <3>2 DEF HandlerInv, AnswerFits
    <3> QED BY <3>1, <3>2
  <2> QED BY <1>1, <2>1, <2>3, <2>4, <2>5 DEF HandlerInv
<1> QED BY <1>2, <1>3, <1>4 DEF Invariant, ControlInv

(* No step leads out of the vault.                                         *)
LEMMA StepKeeps ==
  ASSUME NEW o, Invariant(o), [Next]_vars
  PROVE  Invariant(o)'
<1>0. FilesInv(o) /\ ControlInv(o)
  BY DEF Invariant
<1>1. ASSUME NEW r \in Requests, NEW q \in Queries, Begin(r, q) PROVE Invariant(o)'
  <2>1. Turn(r, q, o) /\ \A s \in Requests : rivals'[s] \subseteq Requests \ {s}
    BY <1>0, <1>1, BeginTurns, BeginRivals
  <2>2. req' = [req EXCEPT ![r] = q] /\ pc[r] = "idle" /\ mem' = mem /\ disk' = disk
    BY <1>1 DEF Begin
  <2>3. /\ req' \in [Requests -> Queries \cup {None}] /\ req'[r] = q
        /\ \A s \in Requests \ {r} : req'[s] = req[s]
    BY <1>0, <2>2 DEF ControlInv, Shapes
  <2>4. ControlInv(o)'
    BY <1>0, <2>1, <2>2, <2>3, TurnKeeps
  <2>5. FilesInv(o)'
    BY <1>0, <2>2 DEF FilesInv
  <2> QED BY <2>4, <2>5 DEF Invariant
<1>2. ASSUME NEW r \in Requests, Works(r, o) PROVE Invariant(o)'
  <2>1. r \in Running /\ req' = req /\ rivals' = rivals /\ Turn(r, req[r], o) /\ Files(r, o)
    BY <1>2 DEF Works
  <2>2. FilesInv(o)'
    BY <1>0, <2>1, FilesKeep
  <2>3. /\ req' \in [Requests -> Queries \cup {None}]
        /\ \A s \in Requests : rivals'[s] \subseteq Requests \ {s}
    BY <1>0, <2>1 DEF ControlInv, Shapes, HandlerInv
  <2>4. ControlInv(o)'
    BY <1>0, <2>1, <2>3, TurnKeeps
  <2> QED BY <2>2, <2>4 DEF Invariant
<1>3. CASE UNCHANGED vars
  <2>1. req' = req /\ pc' = pc /\ loc' = loc /\ answer' = answer /\ rivals' = rivals
    BY <1>3 DEF vars
  <2>2. mem' = mem /\ disk' = disk
    BY <1>3 DEF vars
  <2>3. ControlInv(o)'
    BY <1>0, <2>1 DEF ControlInv, Shapes, HandlerInv, AnswerFits, Running
  <2>4. FilesInv(o)'
    BY <1>0, <2>2 DEF FilesInv
  <2> QED BY <2>3, <2>4 DEF Invariant
<1> QED BY <1>1, <1>2, <1>3, NextIs, WriteBackKeeps, CrashKeeps

(* The first states.                                                       *)
LEMMA InitInvariant ==
  ASSUME Init
  PROVE  \E o \in Ids : Invariant(o)
<1> DEFINE o == mem[Top].at[Other]
<1>1. mem \in Starts /\ disk = mem
  BY DEF Init
<1>2. /\ IsFs(mem) /\ mem[Top].type = "dir" /\ Names(mem, Top) = {Vault, Other} /\ mem[o] = Folder
      /\ \A d, e \in Ids : \A x \in Names(mem, d), y \in Names(mem, e) :
           /\ mem[d].at[x] # Top /\ mem[mem[d].at[x]].type # "none"
           /\ mem[d].at[x] = mem[e].at[y] => d = e /\ x = y
  BY <1>1, StartsAssumption
<1>3. o \in Ids
  BY <1>2, EntriesAreIds, IdsAssumption
<1>4. Safe(mem, o)
  BY <1>2 DEF Safe, Shaped, Beside
<1> HIDE DEF o
<1>5. FilesInv(o)
  BY <1>1, <1>4 DEF FilesInv, Kin
<1>6. /\ req = [r \in Requests |-> None] /\ pc = [r \in Requests |-> "idle"]
      /\ loc = [r \in Requests |-> Nothing] /\ answer = [r \in Requests |-> None]
      /\ rivals = [r \in Requests |-> {}]
  BY DEF Init
<1>7. Shapes
  BY <1>6 DEF Shapes
<1>8. ASSUME NEW r \in Requests PROVE HandlerInv(r, o)
  <2>1. loc[r] = Nothing /\ pc[r] = "idle" /\ answer[r] = None /\ rivals[r] = {}
    BY <1>6
  <2>2. r \notin Running /\ AnswerFits(r)
    BY <2>1 DEF Running, AnswerFits
  <2> QED BY <2>1, <2>2, NothingIsLoc DEF HandlerInv
<1>9. Invariant(o)
  BY <1>5, <1>7, <1>8 DEF Invariant, ControlInv
<1> QED BY <1>3, <1>9

(* The inductive invariant: memory and disk are in shape and have the same *)
(* folder beside the vault, and nothing a handler holds leads to it.       *)
Inv == \E o \in Ids : Invariant(o)

(* Every step keeps it, so that it always holds: no handler ever holds     *)
(* anything outside its vault, in memory or for the disk.                  *)
THEOREM InvCorrect == Spec => []Inv
<1>1. Init => Inv
  BY InitInvariant DEF Inv
<1>2. Inv /\ [Next]_vars => Inv'
  BY StepKeeps DEF Inv
<1> QED BY <1>1, <1>2, PTL DEF Spec

(* "Every path is resolved WITHIN the vault (traversal rejected)": whatever*)
(* requests run beside each other, whichever calls fail and whenever the   *)
(* machine crashes, nothing beside the vault is made, changed or removed.  *)
THEOREM StaysInVault == Spec => []Confined
<1>1. Inv => Confined
  <2> SUFFICES ASSUME Inv PROVE Confined
    OBVIOUS
  <2>1. PICK o \in Ids : Invariant(o)
    BY DEF Inv
  <2>2. Beside(mem, o) /\ Beside(disk, o)
    BY <2>1 DEF Invariant, FilesInv, Safe
  <2>3. ASSUME NEW m \in {mem, disk}
        PROVE  /\ Names(m, Top) \subseteq {Vault, Other}
               /\ Other \in Names(m, Top) /\ m[m[Top].at[Other]] = Folder
    BY <2>2 DEF Beside
  <2> QED BY <2>3 DEF Confined
<1> QED BY <1>1, InvCorrect, PTL

-----------------------------------------------------------------------------
(* What Tree finds is what Walk finds.                                     *)
Rounds(m, found) ==
  found \cup UNION {{<<Append(t[1], n), m[t[2]].at[n]>> : n \in Names(m, t[2])} : t \in found}
Places(m) == {t \in Seq(Components) \X Ids : Walk(m, t[1]) = t[2]}

(* Looking one name further is one step of Walk.                           *)
LEMMA WalkAppend ==
  ASSUME NEW m, NEW p \in Seq(Components), NEW n \in Components
  PROVE  Walk(m, Append(p, n)) = Entry(m, Walk(m, p), n)
<1> DEFINE q == Append(p, n)
<1>1. q \in Seq(Components) /\ Len(q) = Len(p) + 1 /\ Len(p) \in Nat
  OBVIOUS
<1>2. q # <<>>
  BY <1>1
<1>3. Front(q) = p /\ Last(q) = n
  <2>1. /\ Front(q) \in Seq(Components) /\ Len(Front(q)) = Len(q) - 1
        /\ \A k \in 1..(Len(q) - 1) : Front(q)[k] = q[k]
    BY <1>1, <1>2, FrontIs
  <2>2. Len(Front(q)) = Len(p) /\ \A k \in 1..Len(p) : Front(q)[k] = p[k]
    BY <1>1, <2>1
  <2>3. Front(q) = p
    BY <2>1, <2>2, SeqEqual
  <2>4. Last(q) = n
    BY <1>1 DEF Last
  <2> QED BY <2>3, <2>4
<1> HIDE DEF q
<1>4. Walk(m, q) = Entry(m, Walk(m, Front(q)), Last(q))
  BY <1>1, <1>2, WalkFront
<1> QED BY <1>3, <1>4 DEF q

(* One more round of Tree finds only what Walk finds.                      *)
LEMMA RoundsArePlaces ==
  ASSUME NEW m, Shaped(m), NEW found \in SUBSET Places(m)
  PROVE  Rounds(m, found) \in SUBSET Places(m)
<1>1. ASSUME NEW t \in found, NEW n \in Names(m, t[2])
      PROVE  <<Append(t[1], n), m[t[2]].at[n]>> \in Places(m)
  <2>1. t[1] \in Seq(Components) /\ t[2] \in Ids /\ Walk(m, t[1]) = t[2] /\ IsFs(m)
    BY DEF Places, Shaped
  <2>2. n \in Components /\ m[t[2]].at[n] \in Ids /\ m[t[2]].type = "dir"
    BY <2>1, <1>1, EntriesAreIds
  <2>3. Append(t[1], n) \in Seq(Components)
    BY <2>1, <2>2
  <2>4. Walk(m, Append(t[1], n)) = Entry(m, t[2], n)
    BY <2>1, <2>2, WalkAppend
  <2>5. t[2] \notin Errors
    BY <2>1, IdsAssumption
  <2>6. Entry(m, t[2], n) = m[t[2]].at[n]
    BY <1>1, <2>2, <2>5 DEF Entry, IsDir
  <2> DEFINE p == Append(t[1], n)
             i == m[t[2]].at[n]
  <2>7. p \in Seq(Components) /\ i \in Ids /\ Walk(m, p) = i
    BY <2>2, <2>3, <2>4, <2>6
  <2> HIDE DEF p, i
  <2>8. <<p, i>> \in Places(m)
    BY <2>7 DEF Places
  <2> QED BY <2>8 DEF p, i
<1> QED BY <1>1 DEF Rounds

(* The data directory is where Tree begins.                                *)
LEMMA RootIsPlace ==
  ASSUME NEW m
  PROVE  {<<<<>>, Top>>} \in SUBSET Places(m)
<1>1. Walk(m, <<>>) = Top /\ Top \in Ids /\ <<>> \in Seq(Components)
  BY WalkEmpty, IdsAssumption
<1> DEFINE t == <<<<>>, Top>>
<1>2. t \in Seq(Components) \X Ids /\ t[1] = <<>> /\ t[2] = Top
  BY <1>1
<1> HIDE DEF t
<1>3. t \in Places(m)
  BY <1>1, <1>2 DEF Places
<1> QED BY <1>3 DEF t

(* The rounds of Tree.                                                     *)
TreeBy(m, h) ==
  /\ \A k \in 0..Cardinality(Ids) : h[k] = IF k = 0 THEN {<<<<>>, Top>>} ELSE Rounds(m, h[k - 1])
  /\ Tree(m) = h[Cardinality(Ids)]

(* Tree is the last of its rounds.                                         *)
LEMMA TreeRounds ==
  ASSUME NEW m, Shaped(m)
  PROVE  \E h : TreeBy(m, h)
<1> DEFINE n == Cardinality(Ids)
           D == SUBSET Places(m)
           start == {<<<<>>, Top>>}
           g == [x \in D \X (1..n) |-> Rounds(m, x[1])]
           Rec(f) == f = [k \in 0..n |-> IF k = 0 THEN start ELSE Rounds(m, f[k - 1])]
<1>1. n \in Nat
  BY IdsAssumption, FS_CardinalityType
<1>2. start \in D
  BY RootIsPlace
<1>3. \A S \in D : Rounds(m, S) \in D
  BY RoundsArePlaces
<1> HIDE DEF n, D, start
<1>4. g \in [D \X (1..n) -> D]
  BY <1>3
<1>5. PICK f \in [0..n -> D] : Solves(f, n, start, g)
  <2> HIDE DEF g
  <2> QED BY <1>1, <1>2, <1>4, RecursionSolved
<1>6. Rec(f)
  <2>1. ASSUME NEW k \in 0..n, k # 0 PROVE g[<<f[k - 1], k>>] = Rounds(m, f[k - 1])
    <3>1. k - 1 \in 0..n /\ k \in 1..n
      BY <1>1, <2>1
    <3>2. f[k - 1] \in D
      BY <1>5, <3>1
    <3> QED BY <3>1, <3>2
  <2> HIDE DEF g
  <2> QED BY <1>5, <2>1 DEF Solves
<1>7. PICK h : Rec(h) /\ Tree(m) = h[n]
  <2>1. Tree(m) = (CHOOSE h : Rec(h))[n]
    BY DEF Tree, Rounds, n, start
  <2> HIDE DEF Rec
  <2>2. Rec(CHOOSE h : Rec(h))
    BY <1>6
  <2> QED BY <2>1, <2>2
<1>8. \A k \in 0..n : h[k] = IF k = 0 THEN start ELSE Rounds(m, h[k - 1])
  BY <1>7
<1> HIDE DEF Rec, g
<1>9. TreeBy(m, h)
  BY <1>7, <1>8 DEF TreeBy, n, start
<1> QED BY <1>9

(* So do all of them.                                                      *)
LEMMA TreeIsPlaces ==
  ASSUME NEW m, Shaped(m)
  PROVE  Tree(m) \in SUBSET Places(m)
<1> DEFINE n == Cardinality(Ids)
           D == SUBSET Places(m)
           start == {<<<<>>, Top>>}
<1>1. n \in Nat
  BY IdsAssumption, FS_CardinalityType
<1>2. start \in D
  BY RootIsPlace
<1>3. \A S \in D : Rounds(m, S) \in D
  BY RoundsArePlaces
<1>4. PICK h : TreeBy(m, h)
  BY TreeRounds
<1>5. (\A k \in 0..n : h[k] = IF k = 0 THEN start ELSE Rounds(m, h[k - 1])) /\ Tree(m) = h[n]
  BY <1>4 DEF TreeBy
<1> HIDE DEF n, D, start
<1> DEFINE S == {k \in Nat : k <= n => h[k] \in D}
<1>9. 0 \in S
  <2>1. 0 \in 0..n
    BY <1>1
  <2> QED BY <1>2, <1>5, <2>1
<1>10. ASSUME NEW k \in S PROVE k + 1 \in S
  <2> SUFFICES ASSUME k + 1 <= n PROVE h[k + 1] \in D
    OBVIOUS
  <2>1. k + 1 \in 0..n /\ k + 1 # 0 /\ (k + 1) - 1 = k /\ h[k] \in D
    BY <1>1
  <2> QED BY <1>3, <1>5, <2>1
<1>11. S \subseteq Nat
  OBVIOUS
<1>12. S = Nat
  <2> HIDE DEF S
  <2> QED BY <1>9, <1>10, <1>11, NatSets
<1>13. h[n] \in D
  BY <1>1, <1>12
<1> QED BY <1>5, <1>13 DEF D

(* The entry of d by that name is id.                                      *)
LeadsTo(m, d, name, id) == d \in Ids /\ name \in Names(m, d) /\ id = m[d].at[name]

(* The last look of a lookup that finds something.                         *)
LEMMA LastLook ==
  ASSUME NEW m, Shaped(m), NEW path \in Seq(Components), path # <<>>, Walk(m, path) \notin Errors
  PROVE  LeadsTo(m, Walk(m, Front(path)), Last(path), Walk(m, path))
<1> DEFINE d == Walk(m, Front(path))
<1>1. Front(path) \in Seq(Components)
  BY FrontIs
<1>2. d \in Ids \cup Errors
  BY <1>1, WalkIs
<1>3. Walk(m, path) = Entry(m, d, Last(path))
  BY WalkFront
<1> HIDE DEF d
<1>4. d \in Ids /\ Last(path) \in Names(m, d) /\ Walk(m, path) = m[d].at[Last(path)]
  BY <1>2, <1>3, EntryIs
<1> QED BY <1>4 DEF LeadsTo, d

(* No two paths lead to one inode.                                         *)
LEMMA WalkInjective ==
  ASSUME NEW m, Shaped(m), NEW p \in Seq(Components), NEW q \in Seq(Components),
         Walk(m, p) = Walk(m, q), Walk(m, p) \in Ids
  PROVE  p = q
<1> DEFINE Same1(k) == \A x, y \in Seq(Components) :
                         Len(x) = k /\ Walk(m, x) \in Ids /\ Walk(m, x) = Walk(m, y) => x = y
           S == {k \in Nat : Same1(k)}
<1>0. Ids \cap Errors = {} /\ Top \in Ids
  BY IdsAssumption
<1>1. 0 \in S
  <2> SUFFICES ASSUME NEW x \in Seq(Components), NEW y \in Seq(Components), Len(x) = 0,
                      Walk(m, x) = Walk(m, y)
               PROVE  x = y
    OBVIOUS
  <2>1. x = <<>>
    OBVIOUS
  <2>2. Walk(m, y) = Top
    BY <2>1, WalkEmpty
  <2>3. y = <<>>
    BY <2>2, WalkTop
  <2> QED BY <2>1, <2>3
<1>2. ASSUME NEW k \in S PROVE k + 1 \in S
  <2> SUFFICES ASSUME NEW x \in Seq(Components), NEW y \in Seq(Components), Len(x) = k + 1,
                      Walk(m, x) \in Ids, Walk(m, x) = Walk(m, y)
               PROVE  x = y
    OBVIOUS
  <2> DEFINE d == Walk(m, Front(x))
             e == Walk(m, Front(y))
  <2>1. x # <<>>
    OBVIOUS
  <2>2. y # <<>>
    BY <2>1, WalkTop, WalkEmpty
  <2>3. /\ Front(x) \in Seq(Components) /\ Len(Front(x)) = Len(x) - 1
        /\ \A i \in 1..(Len(x) - 1) : Front(x)[i] = x[i]
    BY <2>1, FrontIs
  <2>4. /\ Front(y) \in Seq(Components) /\ Len(Front(y)) = Len(y) - 1
        /\ \A i \in 1..(Len(y) - 1) : Front(y)[i] = y[i]
    BY <2>2, FrontIs
  <2>5. Walk(m, x) \notin Errors /\ Walk(m, y) \notin Errors
    BY <1>0
  <2>6. LeadsTo(m, d, Last(x), Walk(m, x)) /\ LeadsTo(m, e, Last(y), Walk(m, y))
    BY <2>1, <2>2, <2>5, LastLook
  <2>8. d \in Ids
    BY <2>6 DEF LeadsTo
  <2>10. d = e /\ Last(x) = Last(y)
    <3> DEFINE a == Last(x)
               b == Last(y)
    <3>1. /\ d \in Ids /\ a \in Names(m, d) /\ Walk(m, x) = m[d].at[a]
          /\ e \in Ids /\ b \in Names(m, e) /\ Walk(m, y) = m[e].at[b]
      <4> HIDE DEF d, e, a, b
      <4> QED BY <2>6 DEF LeadsTo, a, b
    <3> HIDE DEF d, e, a, b
    <3>2. \A u, v \in Ids : \A i \in Names(m, u), j \in Names(m, v) : m[u].at[i] = m[v].at[j] => u = v /\ i = j
      BY DEF Shaped
    <3>3. d = e /\ a = b
      BY <3>1, <3>2
    <3> QED BY <3>3 DEF a, b
  <2>11. Front(x) = Front(y)
    <3>1. Len(Front(x)) = k
      BY <2>3
    <3> QED BY <2>3, <2>4, <2>8, <2>10, <3>1
  <2>12. Len(x) = Len(y) /\ Len(x) \in Nat /\ Len(y) \in Nat
    BY <2>3, <2>4, <2>11
  <2>13. ASSUME NEW i \in 1..Len(x) PROVE x[i] = y[i]
    <3>1. CASE i = Len(x)
      BY <2>10, <2>12, <3>1 DEF Last
    <3>2. CASE i # Len(x)
      <4>1. i \in 1..(Len(x) - 1) /\ i \in 1..(Len(y) - 1)
        BY <2>12, <3>2
      <4> QED BY <2>3, <2>4, <2>11, <4>1
    <3> QED BY <3>1, <3>2
  <2> QED BY <2>12, <2>13, SeqEqual
<1>3. S \subseteq Nat
  OBVIOUS
<1> HIDE DEF S
<1>4. S = Nat
  BY <1>1, <1>2, <1>3, NatSets
<1>5. Len(p) \in Nat
  OBVIOUS
<1>6. Len(p) \in S
  BY <1>4, <1>5
<1>7. Same1(Len(p))
  BY <1>6 DEF S
<1> QED BY <1>7

(* A file system in shape is a tree.                                       *)
LEMMA ShapedIsTree ==
  ASSUME NEW m, Shaped(m)
  PROVE  IsTree(m)
<1>1. Tree(m) \in SUBSET Places(m)
  BY TreeIsPlaces
<1> DEFINE T == Tree(m)
<1>2. ASSUME NEW t \in T PROVE m[t[2]].type # "none"
  <2>1. t[1] \in Seq(Components) /\ t[2] \in Ids /\ Walk(m, t[1]) = t[2]
    BY <1>1 DEF Places
  <2>2. CASE t[1] = <<>>
    <3>1. t[2] = Top
      BY <2>1, <2>2, WalkEmpty
    <3> QED BY <3>1 DEF Shaped
  <2>3. CASE t[1] # <<>>
    <3> DEFINE d == Walk(m, Front(t[1]))
    <3>1. t[2] \notin Errors
      BY <2>1, IdsAssumption
    <3>2. LeadsTo(m, d, Last(t[1]), t[2])
      BY <2>1, <2>3, <3>1, LastLook
    <3> HIDE DEF d
    <3> QED BY <3>2 DEF Shaped, LeadsTo
  <2> QED BY <2>2, <2>3
<1>3. ASSUME NEW t \in T, NEW u \in T, t[2] = u[2] PROVE t = u
  <2>1. t \in Places(m) /\ u \in Places(m)
    BY <1>1
  <2>2. /\ t = <<t[1], t[2]>> /\ t[1] \in Seq(Components) /\ t[2] \in Ids /\ Walk(m, t[1]) = t[2]
        /\ u = <<u[1], u[2]>> /\ u[1] \in Seq(Components) /\ u[2] \in Ids /\ Walk(m, u[1]) = u[2]
    BY <2>1 DEF Places
  <2>3. t[1] = u[1]
    BY <1>3, <2>2, WalkInjective
  <2> QED BY <1>3, <2>2, <2>3
<1> HIDE DEF T
<1> QED BY <1>2, <1>3 DEF IsTree, T

(* The file system is a tree in memory and on the disk, whatever crashes,  *)
(* and what handlers hold open are inodes.                                 *)
THEOREM TypeCorrect == Spec => []TypeOK
<1>1. Inv => TypeOK
  <2> SUFFICES ASSUME Inv PROVE TypeOK
    OBVIOUS
  <2>1. PICK o \in Ids : Invariant(o)
    BY DEF Inv
  <2>2. Shaped(mem) /\ Shaped(disk) /\ ControlInv(o)
    BY <2>1 DEF Invariant, FilesInv, Safe
  <2>3. IsTree(mem) /\ IsTree(disk)
    BY <2>2, ShapedIsTree
  <2>4. req \in [Requests -> Queries \cup {None}]
    BY <2>2 DEF ControlInv, Shapes
  <2>5. ASSUME NEW r \in Requests
        PROVE  /\ IF pc[r] = "done" THEN answer[r].err \in Errors \cup {None, "bad"} ELSE answer[r] = None
               /\ rivals[r] \subseteq Requests \ {r}
               /\ loc[r].fd \in Ids \cup {None} /\ loc[r].dest \in Ids \cup {None}
    <3>1. HandlerInv(r, o)
      BY <2>2 DEF ControlInv
    <3> QED BY <3>1 DEF HandlerInv, AnswerFits, Codes, IsLoc, Handles
  <2> QED BY <2>3, <2>4, <2>5 DEF TypeOK
<1> QED BY <1>1, InvCorrect, PTL

-----------------------------------------------------------------------------
(* A request that has been answered stays as it is.                        *)
LEMMA DoneStays ==
  ASSUME NEW o, Invariant(o), [Next]_vars, NEW s \in Requests, pc[s] = "done"
  PROVE  pc'[s] = "done" /\ req'[s] = req[s] /\ answer'[s] = answer[s]
<1>0. FilesInv(o) /\ ControlInv(o) /\ s \notin Running
  BY DEF Invariant, Running
<1>1. ASSUME NEW r \in Requests, NEW q \in Queries, Begin(r, q)
      PROVE  pc'[s] = "done" /\ req'[s] = req[s] /\ answer'[s] = answer[s]
  <2>1. Turn(r, q, o) /\ r # s
    BY <1>0, <1>1, BeginTurns DEF Begin
  <2>2. req'[s] = req[s]
    BY <1>0, <1>1, <2>1 DEF Begin, ControlInv, Shapes
  <2> QED BY <2>1, <2>2 DEF Turn
<1>2. ASSUME NEW r \in Requests, Works(r, o)
      PROVE  pc'[s] = "done" /\ req'[s] = req[s] /\ answer'[s] = answer[s]
  <2>1. Turn(r, req[r], o) /\ r # s /\ req' = req
    BY <1>0, <1>2 DEF Works
  <2> QED BY <2>1 DEF Turn
<1>3. CASE WriteBack \/ UNCHANGED vars
  BY <1>3 DEF WriteBack, vars
<1>4. CASE Crash
  BY <1>0, <1>4 DEF Crash
<1> QED BY <1>1, <1>2, <1>3, <1>4, NextIs

-----------------------------------------------------------------------------
(* Times: what utimes sets is read back as it is, or as one millisecond    *)
(* less.                                                                   *)
LEMMA MsRoundTrip ==
  ASSUME NEW ms \in 0..999, FtFromMs(ms) # None
  PROVE  ms - ToMs(FtFromMs(ms)) \in {0, 1}
<1> DEFINE t == FtFromMs(ms)
<1>1. t = (1048576 * ms + 125) \div 250
  BY DEF FtFromMs
<1>2. t \in Nat /\ 250 * t <= 1048576 * ms + 125 /\ 1048576 * ms + 125 < 250 * t + 250
  <2> HIDE DEF t
  <2> QED BY <1>1
<1>3. ToMs(t) = (t * 125) \div 524288
  BY DEF ToMs
<1> DEFINE u == ToMs(t)
<1> HIDE DEF t
<1>4. u \in Nat /\ 524288 * u <= 125 * t /\ 125 * t < 524288 * u + 524288
  <2> HIDE DEF u
  <2> QED BY <1>2, <1>3 DEF u
<1> HIDE DEF u
<1>5. 250 * t <= 1048576 * ms + 125 /\ 1048576 * ms < 250 * t + 125
  BY <1>2
<1>6. 1048576 * u <= 250 * t /\ 250 * t < 1048576 * u + 1048576
  BY <1>2, <1>4
<1>7. u <= ms /\ ms <= u + 1
  BY <1>2, <1>4, <1>5, <1>6
<1>8. ms - u \in {0, 1}
  BY <1>4, <1>7
<1> QED BY <1>8 DEF u, t

(* A time is None or what a utimes that has answered ok has set.           *)
Known(t) == t = None \/ \E s \in Requests : Succeeded(s, {"utimes"}) /\ t = FtFromMs(req[s].mtime)
KnownTimes(m) == \A id \in Ids : Known(m[id].mtime)
Asked == \A s \in Requests : pc[s] = "done" => req[s] \in Queries
TimesInv == KnownTimes(mem) /\ KnownTimes(disk) /\ Asked /\ TimesReadBack

(* A time stays known.                                                     *)
Later(s) == pc'[s] = "done" /\ req'[s].op \in {"utimes"} /\ answer'[s].err = None
KnownLater(t) == t = None \/ \E s \in Requests : Later(s) /\ t = FtFromMs(req'[s].mtime)

(* It stays so for every time,                                             *)
LEMMA KnownStays ==
  ASSUME NEW o, Invariant(o), [Next]_vars, NEW t, Known(t)
  PROVE  KnownLater(t)
<1>1. ASSUME NEW s \in Requests, Succeeded(s, {"utimes"}) PROVE Later(s) /\ req'[s] = req[s]
  BY <1>1, DoneStays DEF Succeeded, Later
<1> QED BY <1>1 DEF Known, KnownLater

(* and so for a file system all of whose times are.                        *)
LEMMA KnownTimesNext ==
  ASSUME \A id \in Ids : KnownLater(mem'[id].mtime) /\ KnownLater(disk'[id].mtime)
  PROVE  KnownTimes(mem)' /\ KnownTimes(disk)'
BY DEF KnownTimes, Known, KnownLater, Later, Succeeded

(* The times of both file systems stay known.                              *)
LEMMA TimesStayKnown ==
  ASSUME NEW o, Invariant(o), [Next]_vars, KnownTimes(mem), KnownTimes(disk)
  PROVE  KnownTimes(mem)' /\ KnownTimes(disk)'
<1>0. FilesInv(o) /\ ControlInv(o) /\ IsFs(mem) /\ IsFs(disk)
  BY DEF Invariant, FilesInv, Safe, Shaped
<1>1. \A id \in Ids : KnownLater(mem[id].mtime) /\ KnownLater(disk[id].mtime)
  BY KnownStays DEF KnownTimes
<1>2. KnownLater(None) /\ NoInode.mtime = None
  BY DEF KnownLater, NoInode
<1>3. CASE UNCHANGED <<mem, disk>>
  <2>1. \A id \in Ids : KnownLater(mem'[id].mtime) /\ KnownLater(disk'[id].mtime)
    BY <1>1, <1>3
  <2> QED BY <2>1, KnownTimesNext
<1>a. CASE Crash
  <2> DEFINE c == Collect(disk, {})
  <2>1. mem' = c /\ disk' = c
    BY <1>a DEF Crash
  <2>2. \A id \in Ids : c[id] \in {disk[id], NoInode}
    BY <1>0, CollectFair
  <2> HIDE DEF c
  <2>3. \A id \in Ids : KnownLater(mem'[id].mtime) /\ KnownLater(disk'[id].mtime)
    BY <1>1, <1>2, <2>1, <2>2
  <2> QED BY <2>3, KnownTimesNext
<1>b. ASSUME NEW ids, disk' = Flushed(ids), mem' = mem PROVE KnownTimes(mem)' /\ KnownTimes(disk)'
  <2>1. \A id \in Ids : disk'[id].mtime \in {mem[id].mtime, disk[id].mtime}
    BY <1>b DEF Flushed
  <2>2. \A id \in Ids : KnownLater(mem'[id].mtime) /\ KnownLater(disk'[id].mtime)
    BY <1>1, <1>b, <2>1
  <2> QED BY <2>2, KnownTimesNext
<1>4. CASE WriteBack
  <2>1. PICK files : disk' = Flushed(files) \/ disk' = Collect(Journaled(files), {})
    BY <1>4 DEF WriteBack
  <2>2. mem' = mem
    BY <1>4 DEF WriteBack
  <2>3. CASE disk' = Collect(Journaled(files), {})
    <3> DEFINE n == Journaled(files)
               c == Collect(n, {})
    <3>1. IsFs(n)
      BY <1>0, JournaledSafe
    <3>2. Note(<<>>).mtime = None
      BY DEF Note
    <3>3. \A id \in Ids : n[id].mtime \in {mem[id].mtime, disk[id].mtime, None}
      BY <3>2 DEF Journaled
    <3> HIDE DEF n
    <3>4. \A id \in Ids : c[id] \in {n[id], NoInode}
      BY <3>1, CollectFair
    <3>5. disk' = c
      BY <2>3 DEF c, n
    <3> HIDE DEF c
    <3>6. \A id \in Ids : KnownLater(n[id].mtime)
      BY <1>1, <1>2, <3>3
    <3>7. \A id \in Ids : KnownLater(mem'[id].mtime) /\ KnownLater(disk'[id].mtime)
      BY <1>1, <1>2, <2>2, <3>4, <3>5, <3>6
    <3> QED BY <3>7, KnownTimesNext
  <2> QED BY <1>b, <2>1, <2>2, <2>3
<1>5. ASSUME NEW r \in Requests, NEW q \in Queries, Begin(r, q) PROVE KnownTimes(mem)' /\ KnownTimes(disk)'
  BY <1>3, <1>5 DEF Begin
<1>6. ASSUME NEW r \in Requests, Works(r, o) PROVE KnownTimes(mem)' /\ KnownTimes(disk)'
  <2>1. Files(r, o) /\ req' = req
    BY <1>6 DEF Works
  <2>2. ASSUME NEW n, Store(n), IsFs(n), \A id \in Ids : KnownLater(n[id].mtime)
        PROVE  KnownTimes(mem)' /\ KnownTimes(disk)'
    <3> DEFINE c == Collect(n, Held)
    <3>1. mem' = c /\ disk' = disk
      BY <2>2 DEF Store
    <3>2. \A id \in Ids : c[id] \in {n[id], NoInode}
      BY <1>0, <2>2, HeldIds, CollectFair
    <3> HIDE DEF c
    <3>3. \A id \in Ids : KnownLater(mem'[id].mtime) /\ KnownLater(disk'[id].mtime)
      BY <1>1, <1>2, <2>2, <3>1, <3>2
    <3> QED BY <3>3, KnownTimesNext
  <2>3. CASE AtRest
    BY <1>3, <2>3 DEF AtRest
  <2>4. ASSUME NEW n, Store(n), Fair(n, o) PROVE KnownTimes(mem)' /\ KnownTimes(disk)'
    <3>1. \A id \in Ids : n[id].mtime \in {mem[id].mtime, None}
      BY <2>4 DEF Fair, SameTimes
    <3>2. \A id \in Ids : KnownLater(n[id].mtime)
      BY <1>1, <1>2, <3>1
    <3>3. IsFs(n)
      BY <2>4 DEF Fair, Safe, Shaped
    <3> QED BY <2>2, <2>4, <3>2, <3>3
  <2>5. ASSUME NEW n, Store(n), Dated(r, n, o) PROVE KnownTimes(mem)' /\ KnownTimes(disk)'
    <3>1. \A id \in Ids : n[id].mtime \in {mem[id].mtime, FtFromMs(req[r].mtime)}
      BY <2>5 DEF Dated
    <3>2. Later(r) /\ req'[r] = req[r]
      BY <2>1, <2>5 DEF Dated, Later
    <3>3. KnownLater(FtFromMs(req[r].mtime))
      BY <3>2 DEF KnownLater
    <3>4. \A id \in Ids : KnownLater(n[id].mtime)
      BY <1>1, <3>1, <3>3
    <3>5. IsFs(n)
      BY <2>5 DEF Dated, Safe, Shaped
    <3> QED BY <2>2, <2>5, <3>4, <3>5
  <2>6. ASSUME NEW ids, disk' = Flushed(ids), UNCHANGED <<mem, views>>
        PROVE  KnownTimes(mem)' /\ KnownTimes(disk)'
    BY <1>b, <2>6
  <2> QED BY <2>1, <2>3, <2>4, <2>5, <2>6 DEF Files
<1>7. CASE UNCHANGED vars
  BY <1>3, <1>7 DEF vars
<1> QED BY <1>a, <1>4, <1>5, <1>6, <1>7, NextIs

(* The calls whose answers are about what was there or is gone.            *)
Telling == {"stat", "unlink", "rmdir", "rm", "remove_file", "remove_dir", "remove_dir_all", "empty"}

(* No other call is made by such a request.                                *)
LEMMA OnlyTelling ==
  ASSUME NEW r, Acts(r), pc[r] \in Telling
  PROVE  \/ UnlinkFile(r) \/ Rmdir(r) \/ Lstat(r) \/ RemoveFile(r) \/ RemoveDir(r, "remove_dir")
         \/ OpenTree(r) \/ RemoveChild(r) \/ RemoveEmptied(r) \/ Stat(r) \/ CallFails(r)
<1>1. /\ ~MakeDirs(r) /\ ~Create(r) /\ ~OpenAppend(r) /\ ~WriteAll(r) /\ ~WriteFails(r)
      /\ ~SyncAll(r) /\ ~ReadBack(r) /\ ~OpenSource(r) /\ ~CreateDest(r) /\ ~Transfer(r)
  BY DEF Telling, At, MakeDirs, Create, OpenAppend, WriteAll, WriteFails, SyncAll, ReadBack, OpenSource,
         CreateDest, Transfer
<1>2. /\ ~Mkdir(r) /\ ~Move(r) /\ ~Utimes(r) /\ ~Access(r) /\ ~Metadata(r)
      /\ ~OpenNote(r) /\ ~Read(r) /\ ~ReadDir(r) /\ ~ZipWalk(r) /\ ~BatchRead(r)
  BY DEF Telling, At, Mkdir, Move, Utimes, Access, Metadata, OpenNote, Read, ReadDir, ZipWalk, BatchRead
<1> QED BY <1>1, <1>2 DEF Acts

(* What stat answers is the time of an inode.                              *)
LEMMA StatTells ==
  ASSUME NEW o, Invariant(o), NEW r \in Requests, Acts(r), req[r].op = "stat",
         pc'[r] = "done", answer'[r].err = None
  PROVE  \E id \in Ids : \A a \in answer'[r].out : a.mtime = ToMs(mem[id].mtime)
<1>0. FilesInv(o) /\ ControlInv(o) /\ Works(r, o)
  BY ActsWork DEF Invariant
<1>1. r \in Running /\ Ready(req[r], loc[r], pc[r])
  BY <1>0 DEF Works, ControlInv, HandlerInv
<1>2. pc[r] = "stat"
  BY <1>1 DEF Ready, Fits, Reading
<1>3. \/ UnlinkFile(r) \/ Rmdir(r) \/ Lstat(r) \/ RemoveFile(r) \/ RemoveDir(r, "remove_dir")
      \/ OpenTree(r) \/ RemoveChild(r) \/ RemoveEmptied(r) \/ Stat(r) \/ CallFails(r)
  BY <1>2, OnlyTelling DEF Telling
<1>4. /\ ~UnlinkFile(r) /\ ~Rmdir(r) /\ ~Lstat(r) /\ ~RemoveFile(r) /\ ~RemoveDir(r, "remove_dir")
      /\ ~OpenTree(r) /\ ~RemoveChild(r) /\ ~RemoveEmptied(r)
  BY <1>2 DEF At, UnlinkFile, Rmdir, RemoveDir, Lstat, RemoveFile, OpenTree, RemoveChild, RemoveEmptied
<1>5. Shapes /\ {"EIO"} \subseteq Codes /\ "EIO" # None
  BY <1>0, IdsAssumption DEF ControlInv, Codes, Errors
<1>6. ~CallFails(r)
  <2> SUFFICES ASSUME CallFails(r) PROVE FALSE
    OBVIOUS
  <2>1. Answer(r, "EIO", {})
    BY <1>2 DEF CallFails, Err
  <2>2. answer'[r] = [err |-> "EIO", out |-> {}]
    BY <1>5, <2>1, AnswerTurns
  <2>3. answer'[r].err = "EIO"
    BY <2>2
  <2> QED BY <1>5, <2>3
<1>7. Stat(r)
  BY <1>3, <1>4, <1>6
<1> DEFINE id == Walk(mem, Path(r))
           x == [type |-> mem[id].type, size |-> Len(mem[id].bytes), mtime |-> ToMs(mem[id].mtime)]
<1>8. (id \in Errors /\ Err(r, id)) \/ (id \notin Errors /\ Answer(r, None, {x}))
  BY <1>7 DEF Stat
<1>9. Path(r) \in VaultPaths
  <2>1. Busy(r, "stat", o)
    BY <1>0, <1>7, Busies DEF Stat
  <2> QED BY <2>1, PathsStay
<1>10. id \in (Ids \ {Top, o}) \cup Errors
  BY <1>0, <1>9, WalkInVault DEF FilesInv
<1>11. x.mtime = ToMs(mem[id].mtime)
  OBVIOUS
<1> HIDE DEF id, x
<1>12. ~(id \in Errors /\ Err(r, id))
  <2> SUFFICES ASSUME id \in Errors, Err(r, id) PROVE FALSE
    OBVIOUS
  <2>1. answer'[r] = [err |-> id, out |-> {}]
    BY <1>5, AnswerTurns DEF Err, Codes
  <2>2. answer'[r].err = id
    BY <2>1
  <2> QED BY <2>2, IdsAssumption
<1>13. answer'[r] = [err |-> None, out |-> {x}]
  BY <1>5, <1>8, <1>12, AnswerTurns DEF Codes
<1>14. answer'[r].out = {x}
  BY <1>13
<1> QED BY <1>8, <1>10, <1>11, <1>12, <1>14

(* Who has been answered has asked something.                              *)
LEMMA AskedStays ==
  ASSUME NEW o, Invariant(o), [Next]_vars, Asked
  PROVE  Asked'
<1>0. FilesInv(o) /\ ControlInv(o)
  BY DEF Invariant
<1> SUFFICES ASSUME NEW s \in Requests, pc'[s] = "done" PROVE req'[s] \in Queries
  BY DEF Asked
<1>1. CASE pc[s] = "done"
  BY <1>1, DoneStays DEF Asked
<1>2. ASSUME pc[s] # "done", NEW r \in Requests, NEW q \in Queries, Begin(r, q) PROVE req'[s] \in Queries
  <2>1. Turn(r, q, o)
    BY <1>0, <1>2, BeginTurns
  <2>2. s = r
    BY <1>2, <2>1 DEF Turn
  <2> QED BY <1>0, <1>2, <2>2 DEF Begin, ControlInv, Shapes
<1>3. ASSUME pc[s] # "done", NEW r \in Requests, Works(r, o) PROVE req'[s] \in Queries
  <2>1. Turn(r, req[r], o) /\ r \in Running /\ req' = req
    BY <1>3 DEF Works
  <2>2. s = r
    BY <1>3, <2>1 DEF Turn
  <2>3. req[r] \in Queries
    BY <1>0, <2>1 DEF ControlInv, HandlerInv, Ready
  <2> QED BY <2>1, <2>2, <2>3
<1>4. CASE WriteBack \/ UNCHANGED vars
  BY <1>1, <1>4 DEF WriteBack, vars
<1>5. CASE Crash
  BY <1>1, <1>5 DEF Crash
<1> QED BY <1>1, <1>2, <1>3, <1>4, <1>5, NextIs

(* What stat has answered stays so.                                        *)
LEMMA TimesStayReadBack ==
  ASSUME NEW o, Invariant(o), [Next]_vars, TimesInv
  PROVE  TimesReadBack'
<1>0. FilesInv(o) /\ ControlInv(o)
  BY DEF Invariant
<1> SUFFICES ASSUME NEW r \in Requests, pc'[r] = "done", req'[r].op = "stat", answer'[r].err = None,
                    NEW a \in answer'[r].out, a.mtime # None
             PROVE  \E s \in Requests : Later(s) /\ req'[s].mtime - a.mtime \in {0, 1}
  BY DEF TimesReadBack, Succeeded, Later
<1>1. ASSUME NEW s \in Requests, Succeeded(s, {"utimes"}) PROVE Later(s) /\ req'[s] = req[s]
  BY <1>1, DoneStays DEF Succeeded, Later
<1>2. CASE pc[r] = "done"
  <2>1. req'[r] = req[r] /\ answer'[r] = answer[r]
    BY <1>2, DoneStays
  <2>2. Succeeded(r, {"stat"})
    BY <1>2, <2>1 DEF Succeeded
  <2>3. \E s \in Requests : Succeeded(s, {"utimes"}) /\ req[s].mtime - a.mtime \in {0, 1}
    BY <2>1, <2>2 DEF TimesInv, TimesReadBack
  <2> QED BY <1>1, <2>3
<1>3. ASSUME pc[r] # "done", NEW x \in Requests, NEW q \in Queries, Begin(x, q) PROVE FALSE
  <2>1. Turn(x, q, o)
    BY <1>0, <1>3, BeginTurns
  <2>2. x = r
    BY <1>3, <2>1 DEF Turn
  <2>3. Rejection(q) = None
    <3> SUFFICES ASSUME Rejection(q) # None PROVE FALSE
      OBVIOUS
    <3>1. Answer(r, Rejection(q), {})
      BY <1>3, <2>2 DEF Begin, Err
    <3>2. Rejection(q) \in Codes
      <4>1. {"bad", "ENOENT", None} \subseteq Codes
        BY DEF Codes, Errors
      <4> QED BY <4>1 DEF Rejection
    <3>3. Shapes
      BY <1>0 DEF ControlInv
    <3>4. answer'[r] = [err |-> Rejection(q), out |-> {}]
      BY <3>1, <3>2, <3>3, AnswerTurns
    <3> QED BY <3>4
  <2>4. pc'[r] = FirstCall(q)
    BY <1>0, <1>3, <2>2, <2>3 DEF Begin, Goto, ControlInv, Shapes
  <2>5. FirstCall(q) # "done"
    <3>1. q.op \in Operations
      BY QueriesAssumption
    <3> QED BY <3>1 DEF FirstCall, Operations
  <2> QED BY <2>4, <2>5
<1>4. ASSUME pc[r] # "done", NEW x \in Requests, Acts(x), Works(x, o)
      PROVE  \E s \in Requests : Later(s) /\ req'[s].mtime - a.mtime \in {0, 1}
  <2>1. Turn(x, req[x], o) /\ req' = req
    BY <1>4 DEF Works
  <2>2. x = r
    BY <1>4, <2>1 DEF Turn
  <2>3. PICK id \in Ids : \A b \in answer'[r].out : b.mtime = ToMs(mem[id].mtime)
    BY <1>4, <2>1, <2>2, StatTells
  <2> DEFINE t == mem[id].mtime
  <2>4. a.mtime = ToMs(t) /\ Known(t)
    BY <2>3 DEF TimesInv, KnownTimes
  <2> HIDE DEF t
  <2>5. t # None
    BY <2>4 DEF ToMs
  <2>6. PICK s \in Requests : Succeeded(s, {"utimes"}) /\ t = FtFromMs(req[s].mtime)
    BY <2>4, <2>5 DEF Known
  <2>7. req[s] \in Queries
    BY <2>6 DEF TimesInv, Asked, Succeeded
  <2>8. req[s].mtime \in 0..999
    BY <2>7, QueriesAssumption
  <2> DEFINE ms == req[s].mtime
  <2>9. ms - ToMs(FtFromMs(ms)) \in {0, 1}
    <3>1. ms \in 0..999 /\ t = FtFromMs(ms)
      BY <2>6, <2>8
    <3> HIDE DEF ms
    <3>2. FtFromMs(ms) # None
      BY <2>5, <3>1
    <3> QED BY <3>1, <3>2, MsRoundTrip
  <2>10. ms - a.mtime \in {0, 1}
    <3> HIDE DEF ms
    <3>1. t = FtFromMs(ms)
      BY <2>6 DEF ms
    <3> QED BY <2>4, <2>9, <3>1
  <2> QED BY <1>1, <2>6, <2>10
<1>5. CASE WriteBack \/ UNCHANGED vars
  BY <1>2, <1>5 DEF WriteBack, vars
<1>6. CASE Crash
  BY <1>2, <1>6 DEF Crash
<1> QED BY <1>2, <1>3, <1>4, <1>5, <1>6, NextIs

(* utimes and stat: a time that stat gives was set by a utimes that has    *)
(* answered ok, and is that time or one millisecond less, never later,     *)
(* whatever was written, moved, synced or lost in a crash in between.      *)
THEOREM TimesAreReadBack == Spec => []TimesReadBack
<1>1. Init => TimesInv
  <2> SUFFICES ASSUME Init PROVE TimesInv
    OBVIOUS
  <2>1. mem \in Starts /\ disk = mem /\ \A r \in Requests : pc[r] = "idle"
    BY DEF Init
  <2>2. KnownTimes(mem) /\ KnownTimes(disk)
    BY <2>1, StartsAssumption DEF KnownTimes, Known
  <2>3. Asked /\ TimesReadBack
    BY <2>1 DEF Asked, TimesReadBack, Succeeded
  <2> QED BY <2>2, <2>3 DEF TimesInv
<1>2. Inv /\ TimesInv /\ [Next]_vars => TimesInv'
  <2> SUFFICES ASSUME Inv, TimesInv, [Next]_vars PROVE TimesInv'
    OBVIOUS
  <2>1. PICK o \in Ids : Invariant(o)
    BY DEF Inv
  <2>2. KnownTimes(mem)' /\ KnownTimes(disk)'
    BY <2>1, TimesStayKnown DEF TimesInv
  <2>3. Asked' /\ TimesReadBack'
    BY <2>1, AskedStays, TimesStayReadBack DEF TimesInv
  <2> QED BY <2>2, <2>3 DEF TimesInv
<1>3. TimesInv => TimesReadBack
  BY DEF TimesInv
<1> QED BY <1>1, <1>2, <1>3, InvCorrect, PTL DEF Spec

-----------------------------------------------------------------------------
(* Deletions.  A file system with fewer entries: what is looked up there   *)
(* is missing or what it was.                                              *)
Thinner(m, n) ==
  /\ \A e \in Ids : \A x \in Names(n, e) : x \in Names(m, e) /\ n[e].at[x] = m[e].at[x]
  /\ \A e \in Ids : IsDir(n, e) => IsDir(m, e)

(* Looking up in the thinner file system.                                  *)
LEMMA ThinnerWalk ==
  ASSUME NEW m, NEW n, Shaped(m), Shaped(n), Thinner(m, n), NEW path \in Seq(Components)
  PROVE  Walk(n, path) \in Errors \cup {Walk(m, path)}
<1> DEFINE Holds(p) == Walk(n, p) \in Errors \cup {Walk(m, p)}
           S == {k \in Nat : \A p \in Seq(Components) : Len(p) = k => Holds(p)}
<1>1. 0 \in S
  <2> SUFFICES ASSUME NEW p \in Seq(Components), Len(p) = 0 PROVE Holds(p)
    OBVIOUS
  <2>1. p = <<>>
    OBVIOUS
  <2> QED BY <2>1, WalkEmpty
<1>2. ASSUME NEW k \in S PROVE k + 1 \in S
  <2> SUFFICES ASSUME NEW p \in Seq(Components), Len(p) = k + 1 PROVE Holds(p)
    OBVIOUS
  <2> DEFINE d == Walk(n, Front(p))
             e == Walk(m, Front(p))
             name == Last(p)
  <2>1. p # <<>>
    OBVIOUS
  <2>2. Front(p) \in Seq(Components) /\ Len(Front(p)) = Len(p) - 1
    BY <2>1, FrontIs
  <2>3. Len(Front(p)) = k
    BY <2>2
  <2>4. d \in Errors \cup {e}
    BY <2>2, <2>3
  <2>5. Walk(n, p) = Entry(n, d, name) /\ Walk(m, p) = Entry(m, e, name) /\ d \in Ids \cup Errors
    BY <2>1, <2>2, WalkFront, WalkIs
  <2> HIDE DEF d, e, name
  <2>6. CASE Entry(n, d, name) \in Errors
    BY <2>5, <2>6
  <2>7. CASE Entry(n, d, name) \notin Errors
    <3>1. d \in Ids /\ IsDir(n, d) /\ name \in Names(n, d) /\ Entry(n, d, name) = n[d].at[name]
      BY <2>5, <2>7, EntryIs
    <3>2. d \notin Errors /\ d = e
      BY <2>4, <3>1, IdsAssumption
    <3>3. IsDir(m, d) /\ name \in Names(m, d) /\ n[d].at[name] = m[d].at[name]
      BY <3>1 DEF Thinner
    <3>4. Entry(m, d, name) = m[d].at[name]
      BY <3>2, <3>3 DEF Entry
    <3> QED BY <2>5, <3>1, <3>2, <3>3, <3>4
  <2> QED BY <2>6, <2>7
<1>3. S \subseteq Nat
  OBVIOUS
<1> HIDE DEF S
<1>4. S = Nat
  BY <1>1, <1>2, <1>3, NatSets
<1>5. Len(path) \in Nat
  OBVIOUS
<1>6. Len(path) \in S
  BY <1>4, <1>5
<1> QED BY <1>6 DEF S

(* Removing an entry and what nothing leads to any more.                   *)
LEMMA UnlinkThins ==
  ASSUME NEW m, IsFs(m), NEW d \in Ids, NEW name, NEW held \in SUBSET Ids, IsFs(Unlink(m, d, name))
  PROVE  /\ Thinner(m, Collect(Unlink(m, d, name), held))
         /\ name \notin Names(Collect(Unlink(m, d, name), held), d)
<1> DEFINE u == Unlink(m, d, name)
           n == Collect(u, held)
           at == UnlinkedAt(m, d, name)
<1>1. \A id \in Ids : n[id] \in {u[id], NoInode}
  BY CollectFair
<1>2. Refilled(m, d, at, u)
  BY UnlinkIs
<1>3. NoInode.at = <<>> /\ NoInode.type = "none" /\ DOMAIN <<>> = {}
  BY DEF NoInode
<1>4. DOMAIN at = Names(m, d) \ {name} /\ \A x \in DOMAIN at : at[x] = m[d].at[x]
  BY DEF UnlinkedAt, Names
<1> HIDE DEF u, n, at
<1>5. u[d].type = m[d].type /\ u[d].at = at /\ \A id \in Ids \ {d} : u[id] = m[id]
  BY <1>2 DEF Refilled
<1>6. ASSUME NEW e \in Ids, NEW x \in Names(n, e)
      PROVE  x \in Names(m, e) /\ n[e].at[x] = m[e].at[x] /\ (e = d => x # name)
  <2>1. n[e] = u[e]
    BY <1>1, <1>3, <1>6 DEF Names
  <2>2. CASE e = d
    BY <1>4, <1>5, <1>6, <2>1, <2>2 DEF Names
  <2>3. CASE e # d
    BY <1>5, <1>6, <2>1, <2>3 DEF Names
  <2> QED BY <2>2, <2>3
<1>7. ASSUME NEW e \in Ids, IsDir(n, e) PROVE IsDir(m, e)
  <2>1. n[e] = u[e]
    BY <1>1, <1>3, <1>7 DEF IsDir
  <2> QED BY <1>5, <1>7, <2>1 DEF IsDir
<1> QED BY <1>6, <1>7 DEF Thinner, u, n

(* A path whose entry has been removed leads nowhere.                      *)
LEMMA UnlinkedIsGone ==
  ASSUME NEW o, FilesInv(o), ControlInv(o), NEW path \in VaultPaths, ParentOf(mem, path) \notin Errors
  PROVE  Walk(Collect(Unlink(mem, ParentOf(mem, path), Last(path)), Held), path) \in Errors
<1> DEFINE d == ParentOf(mem, path)
           name == Last(path)
           n == Collect(Unlink(mem, d, name), Held)
<1>0. Shaped(mem) /\ IsFs(mem) /\ Held \in SUBSET Ids /\ path \in Seq(Components) /\ path # <<>>
  BY HeldIds DEF FilesInv, Safe, Shaped, VaultPaths
<1>1. Safe(Unlink(mem, d, name), o) /\ d \in Ids
  <2>1. InVault(mem, o, d, name)
    BY ParentInVault DEF FilesInv
  <2>2. d \in Ids
    BY <2>1 DEF InVault
  <2> QED BY <2>2, RemovalFair DEF Fair
<1>2. IsFs(Unlink(mem, d, name))
  BY <1>1 DEF Safe, Shaped
<1>3. Thinner(mem, n) /\ name \notin Names(n, d)
  <2> HIDE DEF d, name
  <2> QED BY <1>0, <1>1, <1>2, UnlinkThins
<1>4. Shaped(n)
  <2> HIDE DEF d, name
  <2> QED BY <1>0, <1>1, CollectSafe DEF Safe
<1>5. d = Walk(mem, Front(path))
  <2>1. "ENOTDIR" \in Errors
    BY DEF Errors
  <2> QED BY <2>1 DEF ParentOf
<1> HIDE DEF n, name, d
<1> SUFFICES ASSUME Walk(n, path) \notin Errors PROVE FALSE
  BY DEF n, name, d
<1>6. LeadsTo(n, Walk(n, Front(path)), name, Walk(n, path))
  BY <1>0, <1>4, LastLook DEF name
<1>7. Front(path) \in Seq(Components)
  BY <1>0, FrontIs
<1>8. Walk(n, Front(path)) \in Errors \cup {d}
  BY <1>0, <1>3, <1>4, <1>5, <1>7, ThinnerWalk
<1>9. Walk(n, Front(path)) \in Ids /\ name \in Names(n, Walk(n, Front(path)))
  BY <1>6 DEF LeadsTo
<1> QED BY <1>3, <1>8, <1>9, IdsAssumption

(* A path whose entry is missing leads nowhere.                            *)
LEMMA MissingIsGone ==
  ASSUME NEW m, NEW o, Safe(m, o), NEW path \in VaultPaths,
         \/ UnlinkError(m, ParentOf(m, path), Last(path)) = "ENOENT"
         \/ RmdirError(m, ParentOf(m, path), Last(path)) = "ENOENT"
  PROVE  Walk(m, path) \in Errors
<1> DEFINE d == ParentOf(m, path)
           name == Last(path)
<1>1. Entry(m, d, name) \in Errors
  <2>1. "ENOENT" # None
    BY IdsAssumption DEF Errors
  <2> HIDE DEF d, name
  <2>2. UnlinkError(m, d, name) = "ENOENT" \/ RmdirError(m, d, name) = "ENOENT"
    BY DEF d, name
  <2> QED BY <2>1, <2>2 DEF UnlinkError, RmdirError
<1> SUFFICES ASSUME Walk(m, path) \notin Errors PROVE FALSE
  OBVIOUS
<1>2. /\ d \in Ids /\ IsDir(m, d) /\ name \in Names(m, d) /\ m[d].at[name] = Walk(m, path)
  BY WalkEntry DEF InVault
<1>3. d \notin Errors
  BY <1>2, IdsAssumption
<1> HIDE DEF d, name
<1>4. Entry(m, d, name) = m[d].at[name]
  BY <1>2, <1>3 DEF Entry
<1> QED BY <1>1, <1>2, <1>4

(* The error of an answer.                                                 *)
LEMMA AnswerTold ==
  ASSUME NEW r \in Requests, Shapes, NEW err \in Codes, NEW out, Answer(r, err, out)
  PROVE  pc'[r] = "done" /\ answer'[r].err = err
<1>1. pc'[r] = "done" /\ answer'[r] = [err |-> err, out |-> out]
  BY AnswerTurns
<1> QED BY <1>1

(* A handler that goes on has not answered.                                *)
LEMMA GotoTold ==
  ASSUME NEW r \in Requests, Shapes, NEW step, NEW l, Goto(r, step, l)
  PROVE  pc'[r] = step
BY DEF Goto, Shapes

(* A deletion that answers ok, whichever of its calls does, leaves nothing *)
(* at the path.                                                            *)
LEMMA RemovalTells ==
  ASSUME NEW o, Invariant(o), NEW r \in Requests, Acts(r), req[r].op \in {"unlink", "rmdir", "rm"},
         pc'[r] = "done", answer'[r].err = None
  PROVE  Walk(mem', Path(r)) \in Errors
<1>0. FilesInv(o) /\ ControlInv(o) /\ Works(r, o) /\ Safe(mem, o) /\ Shapes
  BY ActsWork DEF Invariant, FilesInv, ControlInv
<1>1. r \in Running /\ Ready(req[r], loc[r], pc[r]) /\ HandlerInv(r, o)
  BY <1>0 DEF Works, ControlInv, HandlerInv
<1>2. pc[r] \in Telling \ {"stat"} /\ pc[r] # "batch_read"
  BY <1>1 DEF Ready, Fits, Reading, Telling
<1>3. Path(r) \in VaultPaths
  <2>1. req[r].path \in Relative
    BY <1>1, <1>2 DEF Ready
  <2> QED BY <2>1, ResolvedInVault DEF Path
<1>4. None \notin Errors /\ {"EIO", "EISDIR", "ENOTDIR", "ENOENT"} \subseteq Errors /\ Errors \subseteq Codes
  BY IdsAssumption DEF Errors, Codes
<1>5. ASSUME NEW e \in Errors, Err(r, e) PROVE FALSE
  <2>1. answer'[r].err = e
    BY <1>0, <1>4, <1>5, AnswerTold DEF Err
  <2> QED BY <1>4, <2>1
<1> DEFINE d == ParentOf(mem, Path(r))
           name == Last(Path(r))
<1>6. ASSUME d \notin Errors, Store(Unlink(mem, d, name)) PROVE Walk(mem', Path(r)) \in Errors
  <2>1. mem' = Collect(Unlink(mem, d, name), Held)
    BY <1>6 DEF Store
  <2>2. Walk(Collect(Unlink(mem, d, name), Held), Path(r)) \in Errors
    BY <1>0, <1>3, <1>6, UnlinkedIsGone
  <2> QED BY <2>1, <2>2
<1>7. ASSUME Same, UnlinkError(mem, d, name) = "ENOENT" \/ RmdirError(mem, d, name) = "ENOENT"
      PROVE  Walk(mem', Path(r)) \in Errors
  <2>1. mem' = mem
    BY <1>7 DEF Same
  <2>2. Walk(mem, Path(r)) \in Errors
    BY <1>0, <1>3, <1>7, MissingIsGone
  <2> QED BY <2>1, <2>2
<1>8. /\ UnlinkError(mem, d, name) \in Errors \cup {None} /\ RmdirError(mem, d, name) \in Errors \cup {None}
      /\ UnlinkError(mem, d, name) = None => d \notin Errors
      /\ RmdirError(mem, d, name) = None => d \notin Errors
  BY RemovalErrorIs
<1>9. CASE UnlinkFile(r) \/ RemoveFile(r)
  <2>1. FileError(r) = UnlinkError(mem, d, name)
    BY DEF FileError
  <2> DEFINE e == UnlinkError(mem, d, name)
  <2>2. \/ e = None /\ Store(Unlink(mem, d, name))
        \/ e = "ENOENT" /\ Same
        \/ e # None /\ Err(r, e)
    <3> HIDE DEF e
    <3> QED BY <1>9, <2>1 DEF UnlinkFile, RemoveFile, RemoveEntry, e
  <2> HIDE DEF d, name
  <2> QED BY <1>5, <1>6, <1>7, <1>8, <2>2
<1>10. CASE Rmdir(r) \/ RemoveDir(r, "remove_dir")
  <2>1. DirError(r) = RmdirError(mem, d, name)
    BY DEF DirError
  <2> DEFINE e == RmdirError(mem, d, name)
  <2>2. \/ e = None /\ Store(Unlink(mem, d, name))
        \/ e # None /\ Err(r, e)
    <3> HIDE DEF e
    <3> QED BY <1>10, <2>1 DEF Rmdir, RemoveDir, RemoveEntry, e
  <2> HIDE DEF d, name
  <2> QED BY <1>5, <1>6, <1>8, <2>2
<1>11. CASE Lstat(r)
  <2> DEFINE id == Walk(mem, Path(r))
             next == IF ~IsDir(mem, id) THEN "remove_file"
                     ELSE IF req[r].recursive THEN "remove_dir_all" ELSE "remove_dir"
  <2>1. \/ id = "ENOENT" /\ Ok(r)
        \/ id \in Errors /\ Err(r, id)
        \/ Goto(r, next, loc[r])
    BY <1>11 DEF Lstat
  <2>2. next # "done" /\ mem' = mem
    BY <1>11 DEF Lstat, Same
  <2>3. ~Goto(r, next, loc[r])
    <3> HIDE DEF next
    <3> QED BY <1>0, <2>2, GotoTold
  <2>4. id \in Errors
    BY <1>4, <2>1, <2>3
  <2> QED BY <2>2, <2>4
<1>12. CASE OpenTree(r)
  <2> DEFINE id == Walk(mem, Path(r))
             l == [loc[r] EXCEPT !.frames = <<Frame(id, Path(r))>>]
  <2>1. \/ id \in Errors /\ Err(r, id)
        \/ Err(r, "ENOTDIR")
        \/ Goto(r, "empty", l)
    BY <1>12 DEF OpenTree
  <2> HIDE DEF id, l
  <2>2. ~Goto(r, "empty", l)
    BY <1>0, GotoTold
  <2> QED BY <1>4, <1>5, <2>1, <2>2
<1>13. CASE RemoveChild(r)
  <2>1. (\E l : Goto(r, "empty", l)) \/ Err(r, "EISDIR")
    BY <1>13 DEF RemoveChild
  <2>2. ASSUME NEW l, Goto(r, "empty", l) PROVE FALSE
    BY <1>0, <2>2, GotoTold
  <2> QED BY <1>4, <1>5, <2>1, <2>2
<1>14. CASE RemoveEmptied(r)
  <2> DEFINE s == loc[r].frames
             n == Len(s)
             c == IF n = 1 THEN d ELSE s[n - 1].dir
             last == Last(s[n].path)
             e == RmdirError(mem, c, last)
             l == [loc[r] EXCEPT !.frames = Front(@)]
  <2>1. /\ IF e \notin {None, "ENOENT"} THEN Err(r, e)
           ELSE IF n = 1 THEN Ok(r) ELSE Goto(r, "empty", l)
        /\ IF e = None THEN Store(Unlink(mem, c, last)) ELSE Same
    BY <1>14 DEF RemoveEmptied
  <2>2. e \in Errors \cup {None}
    BY RemovalErrorIs
  <2>3. ~Goto(r, "empty", l)
    <3> HIDE DEF l
    <3> QED BY <1>0, GotoTold
  <2>4. pc[r] = "empty"
    BY <1>14 DEF RemoveEmptied, At
  <2>5. s[1].path = Path(r)
    BY <1>1, <2>4 DEF Ready, Path
  <2>6. n = 1 /\ e \in {None, "ENOENT"} /\ (IF e = None THEN Store(Unlink(mem, c, last)) ELSE Same)
    <3> HIDE DEF e, n, l, c, last
    <3> QED BY <1>5, <2>1, <2>2, <2>3
  <2>7. c = d /\ last = name
    BY <2>5, <2>6
  <2>8. e = RmdirError(mem, d, name)
    <3> HIDE DEF c, last, d, name
    <3> QED BY <2>7
  <2> HIDE DEF c, last, d, name, e
  <2> QED BY <1>6, <1>7, <1>8, <2>6, <2>7, <2>8
<1>15. CASE CallFails(r)
  <2>1. Err(r, "EIO")
    BY <1>2, <1>15 DEF CallFails, Telling
  <2> QED BY <1>4, <1>5, <2>1
<1>16. CASE Stat(r)
  BY <1>2, <1>16 DEF Stat, At
<1> QED BY <1>2, <1>9, <1>10, <1>11, <1>12, <1>13, <1>14, <1>15, <1>16, OnlyTelling

(* What there is now is among what a request that is watched has seen.     *)
Watching(r) == r \in Running /\ req[r].op \in Watched => Sight(mem) \in views[r]
GoneInv ==
  /\ views = [r \in Requests |-> views[r]]
  /\ \A r \in Requests : Watching(r)
  /\ RemovedMeansGone

(* A path that is there leads to an inode.                                 *)
LEMMA ViewIs ==
  ASSUME NEW m, Shaped(m), NEW p, Walk(m, p) \in Errors
  PROVE  p \notin DOMAIN Sight(m)
<1> SUFFICES ASSUME p \in DOMAIN Sight(m) PROVE FALSE
  OBVIOUS
<1>1. DOMAIN Sight(m) = {t[1] : t \in Tree(m)}
  BY DEF Sight
<1>2. PICK t \in Tree(m) : p = t[1]
  BY <1>1
<1>3. Walk(m, p) \in Ids
  BY <1>2, TreeIsPlaces DEF Places
<1> QED BY <1>3, IdsAssumption

(* A call keeps the views of who does not run and adds to the others'.     *)
LEMMA ViewsKeep ==
  ASSUME NEW o, NEW r \in Requests, Works(r, o), GoneInv, NEW s \in Requests
  PROVE  /\ views' = [x \in Requests |-> views'[x]]
         /\ s \notin Running => views'[s] = views[s]
         /\ views[s] \subseteq views'[s]
         /\ s \in Running /\ req[s].op \in Watched => Sight(mem') \in views'[s]
<1>1. Files(r, o)
  BY DEF Works
<1>2. CASE AtRest \/ UNCHANGED <<mem, views>>
  <2>1. mem' = mem /\ views' = views
    BY <1>2 DEF AtRest
  <2> QED BY <2>1 DEF GoneInv, Watching
<1>3. ASSUME NEW n, Store(n)
      PROVE  /\ views' = [x \in Requests |-> views'[x]]
             /\ s \notin Running => views'[s] = views[s]
             /\ views[s] \subseteq views'[s]
             /\ s \in Running /\ req[s].op \in Watched => Sight(mem') \in views'[s]
  <2>1. views' = [x \in Requests |-> IF x \in Running /\ req[x].op \in Watched
                                     THEN views[x] \cup {Sight(mem')} ELSE views[x]]
    BY <1>3 DEF Store
  <2> DEFINE V == Sight(mem')
  <2> HIDE DEF V
  <2>2. views' = [x \in Requests |-> IF x \in Running /\ req[x].op \in Watched
                                     THEN views[x] \cup {V} ELSE views[x]]
    BY <2>1 DEF V
  <2>3. views' = [x \in Requests |-> views'[x]]
    BY <2>2
  <2>4. (s \notin Running => views'[s] = views[s]) /\ views[s] \subseteq views'[s]
    BY <2>2
  <2>5. s \in Running /\ req[s].op \in Watched => V \in views'[s]
    BY <2>2
  <2> QED BY <2>3, <2>4, <2>5 DEF V
<1> QED BY <1>1, <1>2, <1>3 DEF Files

(* A request that begins is not done, or has been refused.                 *)
LEMMA BeginTold ==
  ASSUME NEW o, Invariant(o), NEW r \in Requests, NEW q \in Queries, Begin(r, q)
  PROVE  \/ pc'[r] = "done" /\ answer'[r].err # None /\ views' = views
         \/ /\ r \notin {x \in Requests : pc'[x] = "done"} /\ req'[r] = q
            /\ views' = [views EXCEPT ![r] = IF q.op \in Watched THEN {Sight(mem)} ELSE {}]
<1>0. Shapes
  BY DEF Invariant, ControlInv
<1>1. CASE Rejection(q) # None
  <2>1. Answer(r, Rejection(q), {}) /\ views' = views
    BY <1>1 DEF Begin, Err
  <2>2. Rejection(q) \in Codes
    <3>1. {"bad", "ENOENT", None} \subseteq Codes
      BY DEF Codes, Errors
    <3> QED BY <3>1 DEF Rejection
  <2> QED BY <1>0, <1>1, <2>1, <2>2, AnswerTold
<1>2. CASE Rejection(q) = None
  <2>1. pc'[r] = FirstCall(q)
    BY <1>0, <1>2 DEF Begin, Goto, Shapes
  <2>2. FirstCall(q) # "done"
    <3>1. q.op \in Operations
      BY QueriesAssumption
    <3> QED BY <3>1 DEF FirstCall, Operations
  <2>3. req'[r] = q
    BY <1>0 DEF Begin, Shapes
  <2> QED BY <1>2, <2>1, <2>2, <2>3 DEF Begin
<1> QED BY <1>1, <1>2

(* The views of a request that is done stay, and so does its path.         *)
LEMMA DoneViewsStay ==
  ASSUME NEW o, Invariant(o), GoneInv, [Next]_vars, NEW s \in Requests, pc[s] = "done"
  PROVE  views'[s] = views[s]
<1>0. s \notin Running
  BY DEF Running
<1>1. ASSUME NEW r \in Requests, NEW q \in Queries, Begin(r, q) PROVE views'[s] = views[s]
  <2>1. r # s
    BY <1>1 DEF Begin
  <2> QED BY <1>1, <2>1, BeginTold DEF GoneInv
<1>2. ASSUME NEW r \in Requests, Works(r, o) PROVE views'[s] = views[s]
  BY <1>0, <1>2, ViewsKeep
<1>3. CASE WriteBack \/ Crash \/ UNCHANGED vars
  BY <1>3 DEF WriteBack, Crash, vars
<1> QED BY <1>1, <1>2, <1>3, NextIs

(* What is removed and what is seen, in one step.                          *)
LEMMA GoneStays ==
  ASSUME NEW o, Invariant(o), GoneInv, [Next]_vars
  PROVE  GoneInv'
<1>0. FilesInv(o) /\ ControlInv(o)
  BY DEF Invariant
<1>1. Shaped(mem)'
  <2>1. Invariant(o)'
    BY StepKeeps
  <2> QED BY <2>1 DEF Invariant, FilesInv, Safe
<1>2. views' = [s \in Requests |-> views'[s]]
  <2>1. ASSUME NEW r \in Requests, NEW q \in Queries, Begin(r, q) PROVE views' = [s \in Requests |-> views'[s]]
    <3> DEFINE V == IF q.op \in Watched THEN {Sight(mem)} ELSE {}
    <3>1. views' = views \/ views' = [views EXCEPT ![r] = V]
      BY <2>1, BeginTold
    <3> HIDE DEF V
    <3> QED BY <3>1 DEF GoneInv
  <2>2. ASSUME NEW r \in Requests, Works(r, o) PROVE views' = [s \in Requests |-> views'[s]]
    BY <2>2, ViewsKeep
  <2>3. CASE WriteBack \/ Crash \/ UNCHANGED vars
    BY <2>3 DEF WriteBack, Crash, vars, GoneInv
  <2> QED BY <2>1, <2>2, <2>3, NextIs
<1>3. ASSUME NEW s \in Requests, s \in Running', req'[s].op \in Watched PROVE Sight(mem') \in views'[s]
  <2>0. pc'[s] \notin {"idle", "done", "lost"}
    BY <1>3 DEF Running
  <2>1. ASSUME NEW r \in Requests, NEW q \in Queries, Begin(r, q) PROVE Sight(mem') \in views'[s]
    <3>0. Turn(r, q, o)
      BY <1>0, <2>1, BeginTurns
    <3>1. mem' = mem /\ req' = [req EXCEPT ![r] = q]
      BY <2>1 DEF Begin
    <3>2. CASE s = r
      <4>1. /\ req'[r] = q
            /\ views' = [views EXCEPT ![r] = IF q.op \in Watched THEN {Sight(mem)} ELSE {}]
        BY <2>0, <2>1, <3>2, BeginTold
      <4> DEFINE V == Sight(mem)
      <4>2. views' = [views EXCEPT ![r] = {V}]
        BY <1>3, <3>2, <4>1
      <4> HIDE DEF V
      <4>3. V \in views'[r]
        BY <4>2 DEF GoneInv
      <4> QED BY <3>1, <3>2, <4>3 DEF V
    <3>3. CASE s # r
      <4>1. pc[s] = pc'[s] /\ req'[s] = req[s]
        BY <1>0, <3>0, <3>1, <3>3 DEF Turn, ControlInv, Shapes
      <4>2. s \in Running /\ req[s].op \in Watched
        BY <1>3, <2>0, <4>1 DEF Running
      <4>3. Sight(mem) \in views[s]
        BY <4>2 DEF GoneInv, Watching
      <4>4. views'[s] = views[s]
        BY <2>1, <3>3, BeginTold DEF GoneInv
      <4> QED BY <3>1, <4>3, <4>4
    <3> QED BY <3>2, <3>3
  <2>2. ASSUME NEW r \in Requests, Works(r, o) PROVE Sight(mem') \in views'[s]
    <3>1. Turn(r, req[r], o) /\ req' = req /\ r \in Running
      BY <2>2 DEF Works
    <3>2. s \in Running /\ req[s].op \in Watched
      BY <1>3, <2>0, <3>1 DEF Turn, Running
    <3> QED BY <2>2, <3>2, ViewsKeep
  <2>3. CASE WriteBack \/ UNCHANGED vars
    <3>1. mem' = mem /\ views' = views /\ pc' = pc /\ req' = req
      BY <2>3 DEF WriteBack, vars
    <3>2. s \in Running /\ req[s].op \in Watched
      BY <1>3, <2>0, <3>1 DEF Running
    <3> QED BY <3>1, <3>2 DEF GoneInv, Watching
  <2>4. CASE Crash
    <3>1. pc'[s] = IF s \in Running THEN "lost" ELSE pc[s]
      BY <2>4 DEF Crash
    <3> QED BY <2>0, <3>1 DEF Running
  <2> QED BY <2>1, <2>2, <2>3, <2>4, NextIs
<1>4. ASSUME NEW s \in Requests, pc'[s] = "done", req'[s].op \in {"unlink", "rmdir", "rm"},
             answer'[s].err = None
      PROVE  \E V \in views'[s] : Path(s)' \notin DOMAIN V
  <2>1. CASE pc[s] = "done"
    <3>1. req'[s] = req[s] /\ answer'[s] = answer[s] /\ views'[s] = views[s]
      BY <2>1, DoneStays, DoneViewsStay
    <3>2. Succeeded(s, {"unlink", "rmdir", "rm"}) /\ Path(s)' = Path(s)
      BY <1>4, <2>1, <3>1 DEF Succeeded, Path
    <3> QED BY <3>1, <3>2 DEF GoneInv, RemovedMeansGone
  <2>2. ASSUME pc[s] # "done", NEW r \in Requests, NEW q \in Queries, Begin(r, q) PROVE FALSE
    <3>1. Turn(r, q, o)
      BY <1>0, <2>2, BeginTurns
    <3>2. s = r
      BY <1>4, <2>2, <3>1 DEF Turn
    <3> QED BY <1>4, <2>2, <3>2, BeginTold
  <2>3. ASSUME pc[s] # "done", NEW r \in Requests, Acts(r), Works(r, o)
        PROVE  \E V \in views'[s] : Path(s)' \notin DOMAIN V
    <3>1. Turn(r, req[r], o) /\ req' = req /\ r \in Running
      BY <2>3 DEF Works
    <3>2. s = r
      BY <1>4, <2>3, <3>1 DEF Turn
    <3>3. Walk(mem', Path(s)) \in Errors
      BY <1>4, <2>3, <3>1, <3>2, RemovalTells
    <3> DEFINE V == Sight(mem')
    <3>4. Path(s) \notin DOMAIN V
      BY <1>1, <3>3, ViewIs
    <3>5. V \in views'[s]
      BY <1>4, <2>3, <3>1, <3>2, ViewsKeep DEF Watched
    <3> HIDE DEF V
    <3>6. Path(s)' = Path(s)
      BY <3>1 DEF Path
    <3> QED BY <3>4, <3>5, <3>6
  <2>4. CASE WriteBack \/ UNCHANGED vars
    BY <1>4, <2>1, <2>4 DEF WriteBack, vars
  <2>5. CASE Crash
    BY <1>4, <2>1, <2>5 DEF Crash
  <2> QED BY <2>1, <2>2, <2>3, <2>4, <2>5, NextIs
<1>5. RemovedMeansGone'
  BY <1>4 DEF RemovedMeansGone, Succeeded
<1>6. \A s \in Requests : Watching(s)'
  BY <1>3 DEF Watching
<1> QED BY <1>2, <1>5, <1>6 DEF GoneInv

(* unlink, rmdir and rm: a deletion that answers ok means that the path    *)
(* was free at some moment while it ran, whoever else was moving or making *)
(* things beside it and whichever of its calls answered.                   *)
THEOREM DeletionsAreHonest == Spec => []RemovedMeansGone
<1>1. Init => GoneInv
  <2> SUFFICES ASSUME Init PROVE GoneInv
    OBVIOUS
  <2>1. views = [r \in Requests |-> {}] /\ \A r \in Requests : pc[r] = "idle"
    BY DEF Init
  <2>2. \A r \in Requests : Watching(r)
    BY <2>1 DEF Watching, Running
  <2>3. RemovedMeansGone
    BY <2>1 DEF RemovedMeansGone, Succeeded
  <2> QED BY <2>1, <2>2, <2>3 DEF GoneInv
<1>2. Inv /\ GoneInv /\ [Next]_vars => GoneInv'
  BY GoneStays DEF Inv
<1>3. GoneInv => RemovedMeansGone
  BY DEF GoneInv
<1> QED BY <1>1, <1>2, <1>3, InvCorrect, PTL DEF Spec

=============================================================================
