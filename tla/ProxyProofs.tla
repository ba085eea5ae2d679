----------------------------- MODULE ProxyProofs -----------------------------
(***************************************************************************)
(* The proxy's handler implements ProxyService, for bodies of any length   *)
(* cut into chunks in any way, any number of redirects and any behaviour   *)
(* of the name server and of the upstream servers.                         *)
(***************************************************************************)
EXTENDS Proxy, SequenceTheorems, WellFoundedInduction, TLAPS

(* The encoding of a text is a text of groups, one for every three bytes   *)
(* and one for the rest.                                                   *)
LEMMA EncodeType ==
  ASSUME NEW S, NEW s \in Seq(S)
  PROVE  /\ Encode(s) \in Seq(Seq(S))
         /\ Len(Encode(s)) = (Len(s) + 2) \div 3
         /\ \A i \in 1 .. (Len(s) + 2) \div 3 :
              Encode(s)[i] = SubSeq(s, 3 * i - 2, Least(3 * i, Len(s)))
<1> DEFINE n == (Len(s) + 2) \div 3
<1>1. Len(s) \in Nat
  BY LenProperties
<1>2. n \in Nat
  BY <1>1
<1>3. ASSUME NEW i \in 1..n
      PROVE  SubSeq(s, 3 * i - 2, Least(3 * i, Len(s))) \in Seq(S)
  <2>1. 3 * i - 2 \in Int /\ Least(3 * i, Len(s)) \in Int
    BY <1>1, <1>2 DEF Least
  <2>2. 3 * i - 2 >= 1 /\ Least(3 * i, Len(s)) <= Len(s)
    BY <1>1, <1>2 DEF Least
  <2>3. \A j \in 3 * i - 2 .. Least(3 * i, Len(s)) : j \in 1 .. Len(s)
    BY <1>1, <2>1, <2>2
  <2>4. \A j \in 3 * i - 2 .. Least(3 * i, Len(s)) : s[j] \in S
    BY <2>3, ElementOfSeq
  <2>5. QED
    BY <2>1, <2>4, SubSeqProperties
<1>4. Encode(s) = [i \in 1..n |-> SubSeq(s, 3 * i - 2, Least(3 * i, Len(s)))]
  BY DEF Encode
<1>5. Encode(s) \in [1..n -> Seq(S)]
  BY <1>3, <1>4
<1>6. Encode(s) \in Seq(Seq(S)) /\ Len(Encode(s)) = n
  BY <1>2, <1>5
<1>7. QED
  BY <1>4, <1>6

(* Whole groups can be encoded by themselves: cutting a text after a       *)
(* multiple of three bytes cuts its encoding.                              *)
LEMMA EncodeConcat ==
  ASSUME NEW S, NEW s \in Seq(S), NEW t \in Seq(S), Len(s) % 3 = 0
  PROVE  Encode(s \o t) = Encode(s) \o Encode(t)
<1> DEFINE k == Len(s) \div 3
           m == (Len(t) + 2) \div 3
           st == s \o t
           lhs == Encode(st)
           rhs == Encode(s) \o Encode(t)
<1>1. Len(s) \in Nat /\ Len(t) \in Nat
  BY LenProperties
<1>2. k \in Nat /\ Len(s) = 3 * k /\ (Len(s) + 2) \div 3 = k
  BY <1>1
<1>3. m \in Nat /\ 3 * m >= Len(t) /\ 3 * m <= Len(t) + 2
  BY <1>1
<1>4. st \in Seq(S) /\ Len(st) = Len(s) + Len(t)
  BY ConcatProperties
<1>5. (Len(st) + 2) \div 3 = k + m
  BY <1>1, <1>2, <1>3, <1>4
<1>6. /\ lhs \in Seq(Seq(S)) /\ Len(lhs) = k + m
      /\ \A i \in 1 .. k + m : lhs[i] = SubSeq(st, 3 * i - 2, Least(3 * i, Len(st)))
  BY <1>4, <1>5, EncodeType
<1>7. /\ Encode(s) \in Seq(Seq(S)) /\ Len(Encode(s)) = k
      /\ \A i \in 1 .. k : Encode(s)[i] = SubSeq(s, 3 * i - 2, Least(3 * i, Len(s)))
  BY <1>2, EncodeType
<1>8. /\ Encode(t) \in Seq(Seq(S)) /\ Len(Encode(t)) = m
      /\ \A i \in 1 .. m : Encode(t)[i] = SubSeq(t, 3 * i - 2, Least(3 * i, Len(t)))
  BY EncodeType
<1>9. /\ rhs \in Seq(Seq(S)) /\ Len(rhs) = k + m
      /\ \A i \in 1 .. k + m : rhs[i] = IF i <= k THEN Encode(s)[i] ELSE Encode(t)[i - k]
  <2>1. Encode(s) \in Seq(Seq(S)) /\ Encode(t) \in Seq(Seq(S))
    BY <1>7, <1>8
  <2>2. /\ rhs \in Seq(Seq(S)) /\ Len(rhs) = Len(Encode(s)) + Len(Encode(t))
        /\ \A i \in 1 .. Len(Encode(s)) + Len(Encode(t)) :
             rhs[i] = IF i <= Len(Encode(s)) THEN Encode(s)[i] ELSE Encode(t)[i - Len(Encode(s))]
    BY <2>1, ConcatProperties
  <2>3. Len(Encode(s)) = k /\ Len(Encode(t)) = m
    BY <1>7, <1>8
  <2>4. QED
    BY <2>2, <2>3
<1> HIDE DEF k, m, lhs, rhs, st
<1>10. ASSUME NEW i \in 1 .. k + m PROVE lhs[i] = rhs[i]
  <2>1. CASE i <= k
    <3>1. Least(3 * i, Len(s)) = 3 * i /\ Least(3 * i, Len(st)) = 3 * i
      BY <1>1, <1>2, <1>3, <1>4, <2>1 DEF Least
    <3>2. 3 * i - 2 \in 1 .. Len(s) /\ 3 * i \in 1 .. Len(s)
      BY <1>1, <1>2, <1>3, <2>1
    <3> DEFINE from == 3 * i - 2
               to == 3 * i
    <3>a. from \in 1 .. Len(s) /\ to \in 1 .. Len(s)
      BY <3>2
    <3> HIDE DEF from, to
    <3>b. SubSeq(st, from, to) = SubSeq(s, from, to)
      BY <3>a, SubSeqOfConcat1 DEF st
    <3>3. SubSeq(st, 3 * i - 2, 3 * i) = SubSeq(s, 3 * i - 2, 3 * i)
      BY <3>b DEF from, to
    <3>4. i \in 1 .. k
      BY <1>2, <1>3, <2>1
    <3>5. lhs[i] = SubSeq(st, 3 * i - 2, 3 * i)
      BY <1>6, <3>1
    <3>6. rhs[i] = Encode(s)[i]
      BY <1>9, <2>1
    <3>7. Encode(s)[i] = SubSeq(s, 3 * i - 2, 3 * i)
      BY <1>7, <3>1, <3>4
    <3>8. QED
      BY <3>3, <3>5, <3>6, <3>7
  <2>2. CASE i > k
    <3> DEFINE j == i - k
    <3>1. j \in 1 .. m
      BY <1>2, <1>3, <2>2
    <3>2. Least(3 * i, Len(st)) = Len(s) + Least(3 * j, Len(t))
      <4>1. 3 * i = Len(s) + 3 * j /\ Len(st) = Len(s) + Len(t)
        BY <1>2, <1>3, <1>4
      <4>2. 3 * i <= Len(st) <=> 3 * j <= Len(t)
        BY <1>1, <1>2, <1>3, <3>1, <4>1
      <4>3. QED
        BY <4>1, <4>2 DEF Least
    <3>3. /\ 3 * i - 2 = Len(s) + (3 * j - 2)
          /\ 3 * j - 2 \in 1 .. Len(t)
          /\ Least(3 * j, Len(t)) \in 1 .. Len(t)
      BY <1>1, <1>2, <1>3, <3>1 DEF Least
    <3> DEFINE first == 3 * j - 2
               last == Least(3 * j, Len(t))
               from == Len(s) + first
               to == Len(s) + last
    <3>4. /\ from \in Len(s) + 1 .. Len(s) + Len(t)
          /\ to \in Len(s) + 1 .. Len(s) + Len(t)
          /\ from - Len(s) = first
          /\ to - Len(s) = last
      <4>1. first \in 1 .. Len(t) /\ last \in 1 .. Len(t)
        BY <3>3
      <4> HIDE DEF first, last
      <4>2. QED
        BY <1>1, <4>1
    <3> HIDE DEF from, to
    <3>5. SubSeq(st, from, to) = SubSeq(t, from - Len(s), to - Len(s))
      BY <3>4, SubSeqOfConcat2 DEF st
    <3>6. lhs[i] = SubSeq(st, from, to)
      BY <1>6, <3>2, <3>3 DEF from, to
    <3>7. rhs[i] = Encode(t)[j]
      BY <1>2, <1>3, <1>9, <2>2
    <3>8. Encode(t)[j] = SubSeq(t, 3 * j - 2, Least(3 * j, Len(t)))
      BY <1>8, <3>1
    <3>9. QED
      BY <3>4, <3>5, <3>6, <3>7, <3>8
  <2>3. QED
    BY <1>2, <1>3, <2>1, <2>2
<1>11. lhs = rhs
  BY <1>2, <1>3, <1>6, <1>9, <1>10, SeqEqual
<1>12. QED
  BY <1>11 DEF lhs, rhs, st

(* Facts about numbers and sequences in the form they are used below.      *)
LEMMA Multiples ==
  ASSUME NEW i \in Nat, NEW j \in Nat, i % 3 = 0, j % 3 = 0
  PROVE  (i + j) % 3 = 0
OBVIOUS

(* The numbers up to a smaller bound.                                      *)
LEMMA Upto ==
  ASSUME NEW m \in Nat, NEW n \in 0..m
  PROVE  n \in Nat /\ \A i \in 1..n : i \in 1..m
OBVIOUS

(* Concatenation of bytes is associative.                                  *)
LEMMA Associative ==
  \A s, t, u \in Seq(Bytes) : (s \o t) \o u = s \o (t \o u)
<1> SUFFICES ASSUME NEW s \in Seq(Bytes), NEW t \in Seq(Bytes), NEW u \in Seq(Bytes)
             PROVE  (s \o t) \o u = s \o (t \o u)
  OBVIOUS
<1>1. QED
  BY ConcatAssociative

-----------------------------------------------------------------------------
(* The inductive invariant.  What is encoded is the encoding of the bytes  *)
(* before the carry, which fill whole groups.                              *)
BodyInv ==
  /\ total \in Nat /\ carry \in Seq(Bytes) /\ received \in Seq(Bytes)
  /\ Len(carry) <= 2
  /\ Len(received) <= MaxResponse
  /\ \E x \in Seq(Bytes) : Len(x) % 3 = 0 /\ received = x \o carry /\ b64 = Encode(x)
  /\ pc # "done" => total = Len(received)
  /\ pc \in {"idle", "resolve", "send"} => received = <<>>

(* Upstream requests and hops go together.                                 *)
HopInv ==
  /\ pc \in {"idle", "resolve", "send", "stream", "done"}
  /\ pc # "done" => answer = None
  /\ hops \in 0..MaxRedirects
  /\ sends \in Nat /\ sends <= MaxRedirects + 1
  /\ pc = "idle" => sends = 0 /\ headers = {} /\ visited = {}
  /\ pc \in {"resolve", "send"} => sends = hops
  /\ pc = "stream" => /\ sends = hops + 1
                      /\ reply \in [code : Codes, location : Locations \cup {None}]
                      /\ reply.code \in Redirections /\ reply.location # None
                           /\ reply.location.scheme \in Web => hops = MaxRedirects

IInv == BodyInv /\ HopInv /\ CredentialsStayHome

USE BoundsAssumption, InputsAssumption

(* Nothing is received, sent or answered when the request arrives.         *)
LEMMA InitIInv == Init => IInv
<1> SUFFICES ASSUME Init PROVE IInv
  OBVIOUS
<1>1. <<>> \in Seq(Bytes) /\ Len(<<>>) = 0
  BY EmptySeq
<1>2. <<>> = <<>> \o <<>>
  BY <1>1, ConcatEmptySeq
<1>3. Encode(<<>>) = <<>>
  BY <1>1 DEF Encode
<1>4. \E x \in Seq(Bytes) : Len(x) % 3 = 0 /\ received = x \o carry /\ b64 = Encode(x)
  <2>1. Len(<<>>) % 3 = 0 /\ received = <<>> \o carry /\ b64 = Encode(<<>>)
    BY <1>1, <1>2, <1>3 DEF Init
  <2>2. QED
    BY <1>1, <2>1
<1>5. BodyInv
  BY <1>1, <1>4 DEF Init, BodyInv
<1>6. HopInv
  BY DEF Init, HopInv
<1>7. CredentialsStayHome
  BY DEF Init, CredentialsStayHome
<1>8. QED
  BY <1>5, <1>6, <1>7 DEF IInv

(* Steps that leave the body alone and do not go back to it.               *)
LEMMA BodyKept ==
  ASSUME BodyInv, UNCHANGED bodyVars,
         pc' = "done" \/ pc \in {"idle", "resolve", "send"}
  PROVE  BodyInv'
BY DEF BodyInv, bodyVars

(* The checks of the request, and the first URL.                           *)
LEMMA AcceptIInv ==
  ASSUME IInv, NEW r \in Requests, Accept(r) PROVE IInv'
<1>1. BodyInv'
  BY BodyKept DEF IInv, Accept, Goto, Respond
<1>2. HopInv'
  BY DEF IInv, HopInv, Accept, Goto, Respond, hopVars, historyVars
<1>3. CredentialsStayHome'
  BY DEF IInv, HopInv, CredentialsStayHome, Accept, hopVars, historyVars
<1>4. QED
  BY <1>1, <1>2, <1>3 DEF IInv

(* The check of the addresses.                                             *)
LEMMA ResolveIInv ==
  ASSUME IInv, LookupFails \/ \E addrs \in Lookups : Resolve(addrs) PROVE IInv'
<1>1. pc = "resolve" /\ UNCHANGED <<request, hopVars, bodyVars, historyVars>>
  BY DEF LookupFails, Resolve
<1>2. pc' = "done" \/ (pc' = "send" /\ UNCHANGED answer)
  BY DEF LookupFails, Resolve, Goto, Respond
<1>3. BodyInv'
  BY <1>1, BodyKept DEF IInv
<1>4. HopInv'
  BY <1>1, <1>2 DEF IInv, HopInv, hopVars, historyVars
<1>5. CredentialsStayHome'
  BY <1>1 DEF IInv, CredentialsStayHome, hopVars, historyVars
<1>6. QED
  BY <1>3, <1>4, <1>5 DEF IInv

(* A response is followed or streamed.                                     *)
LEMMA SendIInv ==
  ASSUME IInv, NEW code \in Codes, NEW location \in Locations \cup {None}, Send(code, location)
  PROVE  IInv'
<1>1. pc = "send" /\ sends = hops /\ answer = None /\ UNCHANGED <<request, bodyVars>>
  BY DEF IInv, HopInv, Send
<1>2. sends' = sends + 1 /\ visited' = visited \cup {current}
  BY DEF Send, Contact
<1>3. BodyInv'
  BY <1>1, BodyKept DEF IInv
<1>4. CASE Followed(code, location)
  <2>1. Redirect(code, location)
    BY <1>4 DEF Send
  <2>2. HopInv'
    <3>1. hops' = hops + 1 /\ hops < MaxRedirects /\ pc' = "resolve" /\ answer' = None
      BY <1>1, <1>4, <2>1 DEF Redirect, Followed, Goto
    <3>2. QED
      BY <1>1, <1>2, <3>1 DEF IInv, HopInv
  <2>3. CredentialsStayHome'
    BY <1>1, <1>2, <2>1 DEF IInv, CredentialsStayHome, Redirect
  <2>4. QED
    BY <1>3, <2>2, <2>3 DEF IInv
<1>5. CASE ~Followed(code, location)
  <2>1. /\ reply' = [code |-> code, location |-> location]
        /\ pc' = "stream" /\ answer' = None /\ UNCHANGED hopVars
    BY <1>1, <1>5 DEF Send, Goto
  <2>2. HopInv'
    <3>1. reply' \in [code : Codes, location : Locations \cup {None}]
      BY <2>1
    <3>2. /\ reply'.code \in Redirections /\ reply'.location # None
             /\ reply'.location.scheme \in Web => hops' = MaxRedirects
      BY <1>5, <2>1 DEF IInv, HopInv, Followed, hopVars
    <3>3. QED
      BY <1>1, <1>2, <2>1, <3>1, <3>2 DEF IInv, HopInv, hopVars
  <2>3. CredentialsStayHome'
    BY <1>1, <1>2, <2>1 DEF IInv, CredentialsStayHome, hopVars
  <2>4. QED
    BY <1>3, <2>2, <2>3 DEF IInv
<1>6. QED
  BY <1>4, <1>5

(* A request that fails.                                                   *)
LEMMA SendFailsIInv ==
  ASSUME IInv, SendFails PROVE IInv'
<1>1. pc = "send" /\ pc' = "done" /\ UNCHANGED <<request, hopVars, bodyVars>>
  BY DEF SendFails, Respond
<1>2. sends' = sends + 1 /\ visited' = visited \cup {current}
  BY DEF SendFails, Contact
<1>3. BodyInv'
  BY <1>1, BodyKept DEF IInv
<1>4. HopInv'
  BY <1>1, <1>2 DEF IInv, HopInv, hopVars
<1>5. CredentialsStayHome'
  BY <1>1, <1>2 DEF IInv, CredentialsStayHome, hopVars
<1>6. QED
  BY <1>3, <1>4, <1>5 DEF IInv

(* Encoding the whole groups of what is held keeps the invariant of the    *)
(* body: the groups join the text before the carry.                        *)
LEMMA EncodeWholeKeeps ==
  ASSUME NEW c \in Seq(Bytes), carry \in Seq(Bytes), EncodeWhole(carry \o c),
         NEW x \in Seq(Bytes), Len(x) % 3 = 0, received = x \o carry, b64 = Encode(x),
         received' = received \o c
  PROVE  /\ carry' \in Seq(Bytes) /\ Len(carry') <= 2
         /\ \E y \in Seq(Bytes) : Len(y) % 3 = 0 /\ received' = y \o carry' /\ b64' = Encode(y)
<1> DEFINE held == carry \o c
           n == Whole(held)
           front == SubSeq(held, 1, n)
           back == SubSeq(held, n + 1, Len(held))
<1>1. held \in Seq(Bytes) /\ Len(held) \in Nat
  BY ConcatProperties, LenProperties
<1>2. n \in 0 .. Len(held) /\ n % 3 = 0 /\ Len(held) - n <= 2
  BY <1>1 DEF Whole
<1>3. b64' = b64 \o Encode(front) /\ carry' = back
  BY DEF EncodeWhole
<1> HIDE DEF held, n
<1>4. \A i \in 1 .. Len(held) : held[i] \in Bytes
  BY <1>1, ElementOfSeq
<1>5. front \in Seq(Bytes) /\ Len(front) = n
  <2>0. \A i \in 1 .. n : i \in 1 .. Len(held)
    BY <1>1, <1>2, Upto
  <2>1. \A i \in 1 .. n : held[i] \in Bytes
    BY <1>4, <2>0
  <2>2. n \in Int /\ 1 \in Int
    BY <1>1, <1>2
  <2>3. front \in Seq(Bytes) /\ Len(front) = IF 1 <= n THEN n - 1 + 1 ELSE 0
    BY <2>1, <2>2, SubSeqProperties
  <2>4. QED
    BY <1>1, <1>2, <2>3
<1>6. back \in Seq(Bytes) /\ Len(back) <= 2
  <2> DEFINE from == n + 1
             to == Len(held)
  <2>1. from \in Int /\ to \in Int /\ to - from + 1 <= 2 /\ from >= 1
    BY <1>1, <1>2
  <2>2. \A i \in from .. to : held[i] \in Bytes
    BY <1>1, <1>4, <2>1
  <2> HIDE DEF from, to
  <2>3. /\ SubSeq(held, from, to) \in Seq(Bytes)
        /\ Len(SubSeq(held, from, to)) = IF from <= to THEN to - from + 1 ELSE 0
    BY <2>1, <2>2, SubSeqProperties
  <2>4. Len(SubSeq(held, from, to)) <= 2
    BY <2>1, <2>3
  <2>5. QED
    BY <2>3, <2>4 DEF from, to
<1>7. front \o back = held
  <2>1. 1 \in 1 .. Len(held) + 1 /\ n \in 1 - 1 .. Len(held) /\ Len(held) \in n .. Len(held)
    BY <1>1, <1>2
  <2>2. front \o back = SubSeq(held, 1, Len(held))
    BY <1>1, <2>1, ConcatAdjacentSubSeq
  <2>3. QED
    BY <1>1, <2>2, SubSeqFull
<1> HIDE DEF front, back
<1> DEFINE y == x \o front
<1>8. y \in Seq(Bytes) /\ Len(y) = Len(x) + Len(front)
  BY <1>5, ConcatProperties
<1>9. Len(y) % 3 = 0
  <2>1. Len(x) \in Nat
    BY LenProperties
  <2>2. n \in Nat
    BY <1>1, <1>2, Upto
  <2>3. (Len(x) + n) % 3 = 0
    BY <1>2, <2>1, <2>2, Multiples
  <2>4. QED
    BY <1>5, <1>8, <2>3
<1>10. received' = y \o carry'
  <2>1. received' = x \o held
    BY Associative DEF held
  <2>2. y \o back = x \o (front \o back)
    BY <1>5, <1>6, Associative
  <2>3. QED
    BY <1>3, <1>7, <2>1, <2>2
<1>11. b64' = Encode(y)
  BY <1>3, <1>5, EncodeConcat
<1>12. QED
  BY <1>3, <1>6, <1>8, <1>9, <1>10, <1>11

(* A chunk within the cap, or the one that exceeds it.                     *)
LEMMA ChunkIInv ==
  ASSUME IInv, NEW c \in Chunks, Chunk(c) PROVE IInv'
<1>1. pc = "stream" /\ UNCHANGED <<request, hopVars, reply, historyVars>> /\ c \in Seq(Bytes)
  BY DEF Chunk
<1>2. HopInv'
  BY <1>1 DEF IInv, HopInv, hopVars, historyVars, Chunk, Respond
<1>3. CredentialsStayHome'
  BY <1>1 DEF IInv, CredentialsStayHome, hopVars, historyVars
<1>4. total' = total + Len(c) /\ total = Len(received) /\ Len(c) \in Nat /\ total' \in Nat
  BY <1>1, LenProperties DEF IInv, BodyInv, Chunk
<1>5. CASE total' > MaxResponse
  <2>1. pc' = "done" /\ UNCHANGED <<carry, b64, received>>
    BY <1>4, <1>5 DEF Chunk, Respond
  <2>2. BodyInv'
    BY <1>4, <2>1 DEF IInv, BodyInv
  <2>3. QED
    BY <1>2, <1>3, <2>2 DEF IInv
<1>6. CASE total' <= MaxResponse
  <2>1. EncodeWhole(carry \o c) /\ received' = received \o c /\ pc' = "stream"
    BY <1>1, <1>4, <1>6 DEF Chunk
  <2>2. /\ carry' \in Seq(Bytes) /\ Len(carry') <= 2
        /\ \E y \in Seq(Bytes) : Len(y) % 3 = 0 /\ received' = y \o carry' /\ b64' = Encode(y)
    BY <1>1, <2>1, EncodeWholeKeeps DEF IInv, BodyInv
  <2>3. received' \in Seq(Bytes) /\ Len(received') = Len(received) + Len(c)
    BY <1>1, <2>1, ConcatProperties DEF IInv, BodyInv
  <2>4. BodyInv'
    BY <1>4, <1>6, <2>1, <2>2, <2>3 DEF BodyInv
  <2>5. QED
    BY <1>2, <1>3, <2>4 DEF IInv
<1>7. QED
  BY <1>4, <1>5, <1>6

(* The end of the body, good or bad.                                       *)
LEMMA EndIInv ==
  ASSUME IInv, End \/ BodyFails PROVE IInv'
<1>1. pc = "stream" /\ pc' = "done" /\ UNCHANGED <<request, hopVars, bodyVars, historyVars>>
  BY DEF End, BodyFails, Respond
<1>2. BodyInv'
  BY <1>1, BodyKept DEF IInv
<1>3. HopInv'
  BY <1>1 DEF IInv, HopInv, hopVars, historyVars
<1>4. CredentialsStayHome'
  BY <1>1 DEF IInv, CredentialsStayHome, hopVars, historyVars
<1>5. QED
  BY <1>2, <1>3, <1>4 DEF IInv

(* The invariant of the handler.                                           *)
THEOREM ProxyInv == Spec => []IInv
<1>1. IInv /\ [Next]_vars => IInv'
  <2> SUFFICES ASSUME IInv, [Next]_vars PROVE IInv'
    OBVIOUS
  <2>1. CASE UNCHANGED vars
    BY <2>1 DEF IInv, BodyInv, HopInv, CredentialsStayHome, vars, hopVars, bodyVars, historyVars
  <2>2. QED
    BY <2>1, AcceptIInv, ResolveIInv, SendIInv, SendFailsIInv, ChunkIInv, EndIInv DEF Next
<1>2. QED
  BY <1>1, InitIInv, PTL DEF Spec

(* The credentials of a request are sent to no origin but the one it names *)
(* and are dropped once a redirect has left it, for any chain of redirects.*)
THEOREM CredentialsAtHome == Spec => []CredentialsStayHome
<1>1. IInv => CredentialsStayHome
  BY DEF IInv
<1>2. QED
  BY <1>1, ProxyInv, PTL

(* The redirect loop makes at most MAX_REDIRECTS + 1 upstream requests and *)
(* gives up on a redirect only there.                                      *)
THEOREM RedirectsBounded == Spec => []RedirectsAreBounded
<1>1. IInv => RedirectsAreBounded
  BY DEF IInv, HopInv, RedirectsAreBounded
<1>2. QED
  BY <1>1, ProxyInv, PTL

(* The incremental encoding is the encoding of what was received, for      *)
(* bodies of any length and any chunks.                                    *)
LEMMA EncodedHere == IInv => EncodedSoFar
<1> SUFFICES ASSUME IInv PROVE EncodedSoFar
  OBVIOUS
<1>1. PICK x \in Seq(Bytes) : Len(x) % 3 = 0 /\ received = x \o carry /\ b64 = Encode(x)
  BY DEF IInv, BodyInv
<1>2. b64 \o Encode(carry) = Encode(received)
  BY <1>1, EncodeConcat DEF IInv, BodyInv
<1>3. QED
  BY <1>2 DEF IInv, BodyInv, EncodedSoFar

(* EncodedSoFar for every body.                                            *)
THEOREM EncodingIsRight == Spec => []EncodedSoFar
<1>1. QED
  BY EncodedHere, ProxyInv, PTL

(* What the caller gets at the end is the encoding of the whole body.      *)
LEMMA LastGroup ==
  ASSUME IInv
  PROVE  (IF carry # <<>> THEN b64 \o Encode(carry) ELSE b64) = Encode(received)
<1>1. b64 \o Encode(carry) = Encode(received)
  BY EncodedHere DEF EncodedSoFar
<1>2. CASE carry = <<>>
  <2>1. PICK x \in Seq(Bytes) : received = x \o carry /\ b64 = Encode(x)
    BY DEF IInv, BodyInv
  <2>2. received = x
    BY <1>2, <2>1, ConcatEmptySeq
  <2>3. QED
    BY <1>2, <2>1, <2>2
<1>3. QED
  BY <1>1, <1>2

-----------------------------------------------------------------------------
(* The service's encoding is the handler's.                                *)
LEMMA SameEncoding == Service!Encode(received) = Encode(received)
BY DEF Encode, Least, Service!Encode, Service!Least

(* The answers that carry an error.                                        *)
LEMMA ErrorsAreErrors ==
  \A status \in {"400", "403", "502"} : Error(status) \in Service!Errors
BY DEF Error, Service!Errors, Service!Error

(* The checks refuse with two of them.                                     *)
LEMMA RejectionStatus ==
  ASSUME NEW r PROVE Rejection(r) \in {"400", "403", None}
BY DEF Rejection

(* A step that only answers with an error, or leaves what the service sees.*)
LEMMA RefusalImplements ==
  ASSUME IInv, pc # "done", UNCHANGED <<sends, received>>,
         UNCHANGED answer \/ \E status \in {"400", "403", "502"} : answer' = Error(status)
  PROVE  [Service!Next]_(Service!vars)
<1>1. answer = None
  BY DEF IInv, HopInv
<1>2. CASE UNCHANGED answer
  BY <1>2 DEF Service!vars
<1>3. CASE \E status \in {"400", "403", "502"} : answer' = Error(status)
  <2>1. answer' \in Service!Errors
    BY <1>3, ErrorsAreErrors
  <2>2. Service!Refuse
    BY <1>1, <2>1 DEF Service!Refuse
  <2>3. QED
    BY <2>2 DEF Service!Next
<1>4. QED
  BY <1>2, <1>3

(* The checks, the lookups and a broken body.                              *)
LEMMA ChecksImplement ==
  ASSUME IInv, \/ \E r \in Requests : Accept(r)
               \/ LookupFails \/ \E addrs \in Lookups : Resolve(addrs)
               \/ BodyFails
  PROVE  [Service!Next]_(Service!vars)
<1>1. pc # "done" /\ UNCHANGED <<sends, received>>
  BY DEF Accept, LookupFails, Resolve, BodyFails, historyVars, bodyVars
<1>2. UNCHANGED answer \/ \E status \in {"400", "403", "502"} : answer' = Error(status)
  <2>1. CASE \E r \in Requests : Accept(r)
    <3>1. PICK r \in Requests : Accept(r)
      BY <2>1
    <3>2. QED
      BY <3>1, RejectionStatus DEF Accept, Respond, Goto
  <2>2. CASE LookupFails \/ BodyFails \/ \E addrs \in Lookups : Resolve(addrs)
    BY <2>2 DEF LookupFails, BodyFails, Resolve, Respond, Goto
  <2>3. QED
    BY <2>1, <2>2
<1>3. QED
  BY <1>1, <1>2, RefusalImplements

(* An upstream request is one exchange, whatever becomes of it.            *)
LEMMA SendImplements ==
  ASSUME IInv, SendFails \/ \E code \in Codes, location \in Locations \cup {None} :
                              Send(code, location)
  PROVE  [Service!Next]_(Service!vars)
<1>1. pc = "send" /\ sends' = sends + 1 /\ UNCHANGED received
  BY DEF SendFails, Send, Contact, bodyVars
<1>2. answer = None /\ received = <<>> /\ sends < MaxRedirects + 1
  BY <1>1 DEF IInv, HopInv, BodyInv
<1>3. answer' = Error("502") \/ UNCHANGED answer
  BY DEF SendFails, Send, Respond, Goto, Redirect
<1>4. answer' \in Service!Errors \cup {None}
  BY <1>2, <1>3, ErrorsAreErrors
<1>5. Service!Exchange
  BY <1>1, <1>2, <1>4 DEF Service!Exchange
<1>6. QED
  BY <1>5 DEF Service!Next

(* A chunk is relayed, or refused for the cap.                             *)
LEMMA ChunkImplements ==
  ASSUME IInv, NEW c \in Chunks, Chunk(c) PROVE [Service!Next]_(Service!vars)
<1>1. pc = "stream" /\ answer = None /\ sends > 0 /\ total = Len(received)
  BY DEF Chunk, IInv, HopInv, BodyInv
<1>2. UNCHANGED sends
  BY DEF Chunk, historyVars
<1>3. CASE total' > MaxResponse
  <2>1. answer' = Error("502") /\ UNCHANGED received
    BY <1>3, <1>1, LenProperties DEF Chunk, Respond, IInv, BodyInv
  <2>2. QED
    BY <1>1, <1>2, <2>1, RefusalImplements
<1>4. CASE total' <= MaxResponse
  <2>1. received' = received \o c /\ UNCHANGED answer /\ Len(received) + Len(c) <= MaxResponse
    BY <1>4, <1>1, LenProperties DEF Chunk, IInv, BodyInv
  <2>2. Service!Relay(c)
    BY <1>1, <1>2, <2>1 DEF Service!Relay
  <2>3. QED
    BY <2>2 DEF Service!Next
<1>5. QED
  BY <1>3, <1>4 DEF Chunk

(* The end of the body completes the service.                              *)
LEMMA EndImplements ==
  ASSUME IInv, End PROVE [Service!Next]_(Service!vars)
<1>1. pc = "stream" /\ answer = None /\ sends > 0 /\ reply.code \in Codes
  BY DEF End, IInv, HopInv
<1>2. answer' = Success(reply.code, Encode(received))
  BY LastGroup DEF End, Respond
<1>3. answer' = Service!Success(reply.code, Service!Encode(received))
  BY <1>2, SameEncoding DEF Success, Service!Success
<1>4. UNCHANGED <<sends, received>>
  BY DEF End, historyVars, bodyVars
<1>5. Service!Complete
  BY <1>1, <1>3, <1>4 DEF Service!Complete
<1>6. QED
  BY <1>5 DEF Service!Next

(* proxy_handler implements the service: every one of its steps is a step  *)
(* of ProxyService or none, for bodies of any length in any chunks.        *)
THEOREM Implements == Spec => ImplementsService
<1>1. Init => Service!Init
  BY DEF Init, Service!Init
<1>2. IInv /\ [Next]_vars => [Service!Next]_(Service!vars)
  <2> SUFFICES ASSUME IInv, [Next]_vars PROVE [Service!Next]_(Service!vars)
    OBVIOUS
  <2>1. CASE UNCHANGED vars
    BY <2>1 DEF vars, historyVars, bodyVars, Service!vars
  <2>2. QED
    BY <2>1, ChecksImplement, SendImplements, ChunkImplements, EndImplements DEF Next
<1>3. QED
  BY <1>1, <1>2, ProxyInv, PTL DEF Spec, ImplementsService, Service!Spec

-----------------------------------------------------------------------------
(* The addresses.  Induction over the naturals, as a fact about sets.      *)
LEMMA NatSets ==
  ASSUME NEW S, S \subseteq Nat, 0 \in S, \A n \in S : n + 1 \in S
  PROVE  S = Nat
<1> DEFINE less == {ss \in Nat \X Nat : ss[1] < ss[2]}
           T == Nat \ S
<1> SUFFICES ASSUME T # {} PROVE FALSE
  OBVIOUS
<1>1. IsWellFoundedOn(less, Nat)
  BY NatLessThanWellFounded DEF OpToRel
<1>2. T \subseteq Nat
  OBVIOUS
<1> HIDE DEF less, T
<1>3. PICK m \in T : \A y \in T : ~(<<y, m>> \in less)
  BY <1>1, <1>2, WFMin
<1> USE DEF less, T
<1>4. m - 1 \in Nat
  BY <1>3
<1>5. <<m - 1, m>> \in less
  BY <1>3, <1>4
<1> QED BY <1>3, <1>4, <1>5

(* The recursion that defines the powers of two has a solution.            *)
LEMMA Pow2Solution ==
  ASSUME NEW w \in Nat
  PROVE  \E f : f = [n \in 0..w |-> IF n = 0 THEN 1 ELSE 2 * f[n - 1]]
<1> DEFINE Solves(f, k) == f = [n \in 0..k |-> IF n = 0 THEN 1 ELSE 2 * f[n - 1]]
           S == {k \in Nat : \E f : Solves(f, k)}
<1>1. 0 \in S
  <2> DEFINE f == [n \in 0..0 |-> 1]
  <2>1. Solves(f, 0)
    OBVIOUS
  <2> QED BY <2>1
<1>2. ASSUME NEW k \in S PROVE k + 1 \in S
  <2>1. PICK f : Solves(f, k)
    OBVIOUS
  <2> DEFINE g == [n \in 0..(k + 1) |-> IF n = k + 1 THEN 2 * f[k] ELSE f[n]]
  <2>2. \A n \in 0..k : f[n] = IF n = 0 THEN 1 ELSE 2 * f[n - 1]
    BY <2>1
  <2>3. \A n \in 0..k : g[n] = f[n]
    OBVIOUS
  <2>4. ASSUME NEW n \in 0..(k + 1) PROVE g[n] = IF n = 0 THEN 1 ELSE 2 * g[n - 1]
    <3>1. CASE n = k + 1
      <4>1. n # 0 /\ n - 1 = k /\ k \in 0..k
        BY <3>1
      <4> QED BY <2>3, <3>1, <4>1
    <3>2. CASE n # k + 1
      <4>1. n \in 0..k /\ (n # 0 => n - 1 \in 0..k)
        BY <3>2
      <4>2. g[n] = f[n] /\ (n # 0 => g[n - 1] = f[n - 1])
        BY <2>3, <4>1
      <4> HIDE DEF g
      <4> QED BY <2>2, <4>1, <4>2
    <3> QED BY <3>1, <3>2
  <2>5. Solves(g, k + 1)
    BY <2>4
  <2>6. k + 1 \in Nat
    OBVIOUS
  <2> HIDE DEF g, Solves
  <2> QED BY <2>5, <2>6
<1> HIDE DEF S
<1>3. S = Nat
  <2>1. S \subseteq Nat
    BY DEF S
  <2> QED BY <1>1, <1>2, <2>1, NatSets
<1>4. w \in S
  BY <1>3
<1> QED BY <1>4 DEF S

(* The powers of two are what their recursion says.                        *)
LEMMA Pow2Is ==
  /\ Pow2[0] = 1
  /\ \A n \in 1..AddrBits : Pow2[n] = 2 * Pow2[n - 1]
<1>1. Pow2 = [n \in 0..AddrBits |-> IF n = 0 THEN 1 ELSE 2 * Pow2[n - 1]]
  BY Pow2Solution, BoundsAssumption DEF Pow2
<1>2. \A n \in 0..AddrBits : Pow2[n] = IF n = 0 THEN 1 ELSE 2 * Pow2[n - 1]
  BY <1>1
<1>3. 0 \in 0..AddrBits /\ \A n \in 1..AddrBits : n \in 0..AddrBits /\ n # 0
  BY BoundsAssumption
<1> QED BY <1>2, <1>3

(* A width splits into the bits before and after a prefix.                 *)
LEMMA Pow2Splits ==
  /\ \A n \in 0..AddrBits : Pow2[n] \in Nat \ {0}
  /\ \A p \in 0..AddrBits : \E k \in Nat \ {0} : Pow2[AddrBits] = k * Pow2[AddrBits - p]
<1> DEFINE S == {n \in Nat : n <= AddrBits => Pow2[n] \in Nat \ {0}}
           T == {p \in Nat : p <= AddrBits =>
                               \E k \in Nat \ {0} : Pow2[AddrBits] = k * Pow2[AddrBits - p]}
<1>0. AddrBits \in Nat
  BY BoundsAssumption
<1>1. S = Nat
  <2>1. 0 \in S
    BY Pow2Is
  <2>2. ASSUME NEW n \in S PROVE n + 1 \in S
    <3> SUFFICES ASSUME n + 1 <= AddrBits PROVE Pow2[n + 1] \in Nat \ {0}
      OBVIOUS
    <3>1. Pow2[n] \in Nat \ {0}
      BY <1>0
    <3>2. Pow2[n + 1] = 2 * Pow2[n]
      BY <1>0, Pow2Is, n + 1 \in 1..AddrBits, (n + 1) - 1 = n
    <3> QED BY <3>1, <3>2
  <2>3. S \subseteq Nat
    OBVIOUS
  <2> HIDE DEF S
  <2> QED BY <2>1, <2>2, <2>3, NatSets
<1>2. \A n \in 0..AddrBits : Pow2[n] \in Nat \ {0}
  <2>1. \A n \in Nat : n \in S
    BY <1>1
  <2> QED BY <1>0, <2>1
<1>3. T = Nat
  <2>1. 0 \in T
    <3>1. Pow2[AddrBits] = 1 * Pow2[AddrBits - 0]
      BY <1>0, <1>2
    <3> QED BY <3>1
  <2>2. ASSUME NEW p \in T PROVE p + 1 \in T
    <3> SUFFICES ASSUME p + 1 <= AddrBits
                 PROVE  \E k \in Nat \ {0} : Pow2[AddrBits] = k * Pow2[AddrBits - (p + 1)]
      OBVIOUS
    <3>1. PICK k \in Nat \ {0} : Pow2[AddrBits] = k * Pow2[AddrBits - p]
      BY <1>0
    <3> DEFINE m == Pow2[AddrBits - (p + 1)]
    <3>2. AddrBits - p \in 1..AddrBits /\ (AddrBits - p) - 1 = AddrBits - (p + 1)
      BY <1>0
    <3>3. Pow2[AddrBits - p] = 2 * m
      BY <3>2, Pow2Is
    <3>4. m \in Nat
      BY <1>0, <1>2
    <3> HIDE DEF m
    <3>5. k * (2 * m) = (2 * k) * m
      BY <3>4
    <3>6. Pow2[AddrBits] = (2 * k) * m /\ 2 * k \in Nat \ {0}
      BY <3>1, <3>3, <3>5
    <3> QED BY <3>6 DEF m
  <2>3. T \subseteq Nat
    OBVIOUS
  <2> HIDE DEF T
  <2> QED BY <2>1, <2>2, <2>3, NatSets
<1>4. ASSUME NEW p \in 0..AddrBits
      PROVE  \E k \in Nat \ {0} : Pow2[AddrBits] = k * Pow2[AddrBits - p]
  <2>1. p \in Nat /\ p <= AddrBits
    BY <1>0
  <2> HIDE DEF T
  <2>2. p \in T
    BY <1>3, <2>1
  <2> QED BY <2>1, <2>2 DEF T
<1> QED BY <1>2, <1>4

(* Division with remainder.                                                *)
LEMMA Division ==
  ASSUME NEW v \in Nat, NEW m \in Nat \ {0}
  PROVE  \E q \in Nat, r \in 0..(m - 1) : v \div m = q /\ v % m = r /\ v = m * q + r
<1>1. PICK q : q = v \div m
  OBVIOUS
<1>2. PICK r : r = v % m
  OBVIOUS
<1>3. v = m * q + r
  BY <1>1, <1>2
<1>4. q \in Nat /\ r \in 0..(m - 1)
  BY <1>1, <1>2
<1> QED BY <1>1, <1>2, <1>3, <1>4

(* A number below the divisor is the remainder of its sum with a multiple. *)
LEMMA Remainder ==
  ASSUME NEW m \in Nat \ {0}, NEW q \in Nat, NEW r \in 0..(m - 1)
  PROVE  (m * q + r) % m = r
<1> DEFINE v == m * q + r
<1>1. v \in Nat
  OBVIOUS
<1> HIDE DEF v
<1>2. PICK x \in Nat, s \in 0..(m - 1) : v \div m = x /\ v % m = s /\ v = m * x + s
  BY <1>1, Division
<1>3. m * q + r = m * x + s
  BY <1>2 DEF v
<1>4. \A k \in Nat : k >= 1 => m * k >= m
  OBVIOUS
<1>5. ~(q > x)
  <2> SUFFICES ASSUME q > x PROVE FALSE
    OBVIOUS
  <2>1. m * (q - x) >= m
    BY <1>4
  <2>2. m * (q - x) = m * q - m * x
    OBVIOUS
  <2> QED BY <1>3, <2>1, <2>2
<1>6. ~(x > q)
  <2> SUFFICES ASSUME x > q PROVE FALSE
    OBVIOUS
  <2>1. m * (x - q) >= m
    BY <1>4
  <2>2. m * (x - q) = m * x - m * q
    OBVIOUS
  <2> QED BY <1>3, <2>1, <2>2
<1>7. x = q
  BY <1>5, <1>6
<1> QED BY <1>2, <1>3, <1>7 DEF v

(* The weight of the last bit of a prefix of p bits.                       *)
Weight(p) == Pow2[AddrBits - p]

(* A weight is a positive number.                                          *)
LEMMA WeightType ==
  ASSUME NEW p \in 0..AddrBits
  PROVE  Weight(p) \in Nat \ {0}
<1>1. AddrBits - p \in 0..AddrBits
  BY BoundsAssumption
<1> QED BY <1>1, Pow2Splits DEF Weight

(* The complement of a mask of p leading ones is that weight less one.     *)
LEMMA MaskIs ==
  ASSUME NEW p \in 0..AddrBits
  PROVE  Pow2[AddrBits] - Mask(p) = Weight(p)
<1> DEFINE w == Pow2[AddrBits]
           m == Weight(p)
<1>0. w \in Nat \ {0} /\ m \in Nat \ {0}
  BY BoundsAssumption, Pow2Splits, WeightType, AddrBits \in 0..AddrBits
<1>1. CASE p = 0
  <2>1. AddrBits - p = AddrBits
    BY <1>1, BoundsAssumption
  <2>2. Mask(p) = 0 /\ Weight(p) = w
    BY <1>1, <2>1 DEF Mask, Weight
  <2> QED BY <1>0, <2>2
<1>2. CASE p # 0
  <2>1. PICK k \in Nat \ {0} : w = k * m
    BY Pow2Splits DEF Weight
  <2>2. Mask(p) = ((w - 1) * m) % w
    BY <1>2 DEF Mask, Weight
  <2> HIDE DEF w, m
  <2>3. k * m >= m
    BY <1>0
  <2>4. w - m \in 0..(w - 1) /\ m - 1 \in Nat
    BY <1>0, <2>1, <2>3
  <2>5. (w - 1) * m = w * (m - 1) + (w - m)
    BY <1>0
  <2>6. (w * (m - 1) + (w - m)) % w = w - m
    BY <1>0, <2>4, Remainder
  <2>7. Mask(p) = w - m
    BY <2>2, <2>5, <2>6
  <2> QED BY <1>0, <2>7 DEF w, m
<1> QED BY <1>1, <1>2

(* A mask keeps the leading bits.                                          *)
LEMMA AndIs ==
  ASSUME NEW p \in 0..AddrBits, NEW v \in Nat
  PROVE  /\ LeadingBits(v, p) \in Nat
         /\ And(v, Mask(p)) = Weight(p) * LeadingBits(v, p)
<1> DEFINE m == Weight(p)
<1>1. m \in Nat \ {0}
  BY WeightType
<1>2. And(v, Mask(p)) = v - (v % m) /\ LeadingBits(v, p) = v \div m
  BY MaskIs DEF And, LeadingBits, Weight
<1> HIDE DEF m
<1>3. PICK q \in Nat, r \in 0..(m - 1) : v \div m = q /\ v % m = r /\ v = m * q + r
  BY <1>1, Division
<1>4. v - r = m * q
  BY <1>1, <1>3
<1> QED BY <1>2, <1>3, <1>4 DEF m

(* Two addresses are equal under a mask exactly if they are in one block.  *)
LEMMA MaskedMeansSameBlock ==
  ASSUME NEW p \in 0..AddrBits, NEW v \in Nat, NEW b \in Nat
  PROVE  And(v, Mask(p)) = And(b, Mask(p)) <=> SameBlock(v, b, p)
<1> DEFINE m == Weight(p)
           x == LeadingBits(v, p)
           y == LeadingBits(b, p)
<1>1. m \in Nat \ {0} /\ x \in Nat /\ y \in Nat
  BY WeightType, AndIs
<1>2. And(v, Mask(p)) = m * x /\ And(b, Mask(p)) = m * y
  BY AndIs
<1> HIDE DEF m, x, y
<1>3. m * x = m * y <=> x = y
  BY <1>1
<1> QED BY <1>2, <1>3 DEF SameBlock, x, y

(* The code's check of an address decides what the operator's list means.  *)
LEMMA AllowedMeansPermitted ==
  ASSUME env \in Envs, NEW ip \in Addresses
  PROVE  AddrAllowed(FromEnv(env), ip) <=> Permitted(ip)
<1>0. Numbers \subseteq Nat
  BY BoundsAssumption, Pow2Splits, AddrBits \in 0..AddrBits DEF Numbers
<1>1. ip.bits \in Nat
  BY <1>0 DEF Addresses
<1>2. ASSUME NEW b \in PrivateBlocks
      PROVE  And(ip.bits, Mask(b.prefix)) = And(b.base, Mask(b.prefix))
               <=> SameBlock(ip.bits, b.base, b.prefix)
  <2>1. b.prefix \in 0..AddrBits /\ b.base \in Nat
    BY <1>0, InputsAssumption DEF Blocks
  <2> QED BY <1>1, <2>1, MaskedMeansSameBlock
<1>3. IsPrivateIp(ip) <=>
        \E b \in PrivateBlocks : /\ b.family = IF ip.family = "v6" THEN "v6" ELSE "v4"
                                 /\ SameBlock(ip.bits, b.base, b.prefix)
  BY <1>2 DEF IsPrivateIp
<1> DEFINE fits == {c \in env.cidrs : c.prefix <= AddrBits}
           cidr(c) == [network |-> And(c.base, Mask(c.prefix)), mask |-> Mask(c.prefix)]
<1>4. FromEnv(env).exact = env.exact /\ FromEnv(env).cidrs = {cidr(c) : c \in fits}
  BY DEF FromEnv
<1>5. ASSUME NEW c \in fits
      PROVE  And(ip.bits, cidr(c).mask) = cidr(c).network <=> SameBlock(ip.bits, c.base, c.prefix)
  <2>1. c \in [base : Numbers, prefix : Nat] /\ c.prefix <= AddrBits
    BY InputsAssumption DEF EnvType
  <2>2. c.prefix \in Nat /\ c.base \in Nat
    BY <1>0, <2>1
  <2>3. c.prefix \in 0..AddrBits
    <3> HIDE DEF fits
    <3> QED BY <2>1, <2>2, BoundsAssumption
  <2>4. And(ip.bits, Mask(c.prefix)) = And(c.base, Mask(c.prefix))
          <=> SameBlock(ip.bits, c.base, c.prefix)
    BY <1>1, <2>2, <2>3, MaskedMeansSameBlock
  <2> QED BY <2>4
<1>6. (\E b \in FromEnv(env).cidrs : And(ip.bits, b.mask) = b.network)
        <=> \E c \in fits : SameBlock(ip.bits, c.base, c.prefix)
  <2>1. (\E b \in FromEnv(env).cidrs : And(ip.bits, b.mask) = b.network)
          <=> \E c \in fits : And(ip.bits, cidr(c).mask) = cidr(c).network
    <3> HIDE DEF fits, cidr
    <3> QED BY <1>4
  <2> HIDE DEF fits, cidr
  <2> QED BY <1>5, <2>1
<1>7. AllowlistedAddr(FromEnv(env), ip) <=>
        \/ ip \in env.exact
        \/ ip.family = "v4"
           /\ \E c \in env.cidrs : c.prefix <= AddrBits /\ SameBlock(ip.bits, c.base, c.prefix)
  BY <1>4, <1>6 DEF AllowlistedAddr
<1> QED BY <1>3, <1>7 DEF AddrAllowed, Permitted

-----------------------------------------------------------------------------
(* The types of what IInv leaves open.                                     *)
HandlerType ==
  /\ env \in Envs /\ cfg = FromEnv(env)
  /\ request \in Requests \cup {None}
  /\ current \in Urls \cup {None}
  /\ pc \in {"resolve", "send"} => current \in Urls
  /\ method \in Methods
  /\ headers \subseteq Credentials \cup {"accept"}
  /\ vetted \in [url : Urls, addrs : Lookups] \cup {None}
  /\ reply \in [code : Codes, location : Urls \cup {None}] \cup {None}
  /\ answer \in Answers \cup {None}
  /\ visited \subseteq Urls

(* A check is spent by the request it was made for: before the next one,   *)
(* and once a body is streamed, there is none.                             *)
VetInv ==
  /\ pc \in {"idle", "resolve", "stream"} => vetted = None
  /\ pc = "send" => /\ vetted # None /\ vetted.url = current
                    /\ \A ip \in vetted.addrs : AddrAllowed(cfg, ip)
  /\ (vetted # None /\ answer = Error("403")) => \E ip \in vetted.addrs : ~AddrAllowed(cfg, ip)

(* Every error is an answer.                                               *)
LEMMA ErrorType ==
  ASSUME NEW status \in {"400", "403", "502"} PROVE Error(status) \in Answers
BY EmptySeq DEF Error, Answers

(* The request that passes the checks names a URL.                         *)
LEMMA AcceptedUrl ==
  ASSUME NEW r \in Requests, Rejection(r) = None PROVE r.url \in Urls
<1>1. r.url \in Urls \cup {None, Malformed}
  BY DEF RequestType
<1>2. QED
  BY <1>1, NoneAssumption DEF Rejection

(* The checks of the request leave types and check alone.                  *)
LEMMA AcceptVet ==
  ASSUME IInv, HandlerType, VetInv, NEW r \in Requests, Accept(r) PROVE HandlerType' /\ VetInv'
<1>1. /\ pc = "idle" /\ vetted = None /\ answer = None
      /\ UNCHANGED <<env, cfg, vetted, reply, visited>> /\ request' = r
  BY DEF Accept, IInv, HopInv, VetInv, historyVars
<1>2. VetInv'
  <2>1. pc' \in {"resolve", "done"}
    BY DEF Accept, Goto, Respond
  <2>2. QED
    BY <1>1, <2>1 DEF VetInv
<1>3. CASE Rejection(r) # None
  <2>1. pc' = "done" /\ answer' = Error(Rejection(r)) /\ UNCHANGED hopVars
    BY <1>3 DEF Accept, Respond
  <2>2. answer' \in Answers
    BY <1>3, <2>1, RejectionStatus, ErrorType
  <2>3. QED
    BY <1>1, <1>2, <2>1, <2>2 DEF HandlerType, hopVars
<1>4. CASE Rejection(r) = None
  <2>1. /\ current' = r.url
        /\ method' = IF r.method = None THEN "GET" ELSE r.method
        /\ headers' = Forwarded(r.headers)
        /\ (UNCHANGED answer \/ answer' = Error("502"))
    BY <1>4 DEF Accept, Goto, Respond
  <2>2. current' \in Urls
    BY <1>4, <2>1, AcceptedUrl
  <2>3. method' \in Methods /\ headers' \subseteq Credentials \cup {"accept"}
    <3>1. r.method \in Methods \cup {None} /\ r.headers \subseteq HeaderNames
      BY DEF RequestType
    <3>2. QED
      BY <2>1, <3>1 DEF Methods, Forwarded, HeaderNames, Credentials
  <2>4. answer' \in Answers \cup {None}
    BY <1>1, <2>1, ErrorType
  <2>5. QED
    BY <1>1, <1>2, <2>2, <2>3, <2>4 DEF HandlerType
<1>5. QED
  BY <1>3, <1>4

(* addr_ok, or a lookup that fails.                                        *)
LEMMA ResolveVet ==
  ASSUME IInv, HandlerType, VetInv, LookupFails \/ \E addrs \in Lookups : Resolve(addrs)
  PROVE  HandlerType' /\ VetInv'
<1>1. /\ pc = "resolve" /\ vetted = None /\ answer = None /\ current \in Urls
      /\ UNCHANGED <<env, cfg, request, current, method, headers, reply, visited>>
  BY DEF LookupFails, Resolve, IInv, HopInv, HandlerType, VetInv, hopVars, historyVars
<1>2. answer' \in Answers \cup {None}
  BY <1>1, ErrorType DEF LookupFails, Resolve, Goto, Respond
<1>3. CASE LookupFails
  <2>1. pc' = "done" /\ UNCHANGED vetted
    BY <1>3 DEF LookupFails, Respond
  <2>2. QED
    BY <1>1, <1>2, <2>1 DEF HandlerType, VetInv
<1>4. CASE \E addrs \in Lookups : Resolve(addrs)
  <2>1. PICK addrs \in Lookups : Resolve(addrs)
    BY <1>4
  <2>2. vetted' = [url |-> current, addrs |-> addrs]
    BY <2>1 DEF Resolve
  <2>3. /\ vetted' \in [url : Urls, addrs : Lookups] /\ vetted' # None
        /\ vetted'.url = current /\ vetted'.addrs = addrs
    BY <1>1, <2>2, NoneAssumption
  <2>4. HandlerType'
    <3>1. pc' \in {"send", "done"}
      BY <2>1 DEF Resolve, Goto, Respond
    <3>2. QED
      BY <1>1, <1>2, <2>3, <3>1 DEF HandlerType
  <2>5. CASE (\E ip \in addrs : ~AddrAllowed(cfg, ip)) /\ pc' = "done"
    BY <1>1, <2>3, <2>4, <2>5 DEF VetInv, AddrAllowed, AllowlistedAddr
  <2>6. CASE answer' = Error("502") /\ pc' = "done"
    <3>1. Error("502") # Error("403")
      BY DEF Error
    <3>2. QED
      BY <2>4, <2>6, <3>1 DEF VetInv
  <2>7. CASE (\A ip \in addrs : AddrAllowed(cfg, ip)) /\ pc' = "send" /\ answer' = None
    <3>1. Error("403") # None
      BY ErrorType, NoneAssumption
    <3>2. QED
      BY <1>1, <2>3, <2>4, <2>7, <3>1 DEF VetInv
  <2>8. QED
    BY <1>1, <2>1, <2>5, <2>6, <2>7 DEF Resolve, Goto, Respond
<1>5. QED
  BY <1>3, <1>4

(* An upstream request spends the check.                                   *)
LEMMA SendVet ==
  ASSUME IInv, HandlerType, VetInv,
         SendFails \/ \E code \in Codes, location \in Locations \cup {None} : Send(code, location)
  PROVE  HandlerType' /\ VetInv'
<1>1. /\ pc = "send" /\ answer = None /\ current \in Urls
      /\ visited' = visited \cup {current} /\ vetted' = None
      /\ UNCHANGED <<env, cfg, request>>
  BY DEF SendFails, Send, Contact, IInv, HopInv, HandlerType
<1>2. CASE SendFails
  <2>1. pc' = "done" /\ answer' = Error("502") /\ UNCHANGED <<current, method, headers, reply>>
    BY <1>2 DEF SendFails, Respond, hopVars
  <2>2. answer' \in Answers
    BY <2>1, ErrorType
  <2>3. QED
    BY <1>1, <2>1, <2>2 DEF HandlerType, VetInv
<1>3. CASE \E code \in Codes, location \in Locations \cup {None} : Send(code, location)
  <2>1. PICK code \in Codes, location \in Locations \cup {None} : Send(code, location)
    BY <1>3
  <2>2. CASE Followed(code, location)
    <3>1. location \in Urls
      BY <2>2 DEF Followed
    <3>2. /\ headers' \subseteq headers /\ method' \in {"GET", method} /\ current' = location
          /\ pc' = "resolve" /\ UNCHANGED <<answer, reply>>
      BY <2>1, <2>2 DEF Send, Redirect, Goto
    <3>3. QED
      BY <1>1, <3>1, <3>2 DEF HandlerType, VetInv, Methods
  <2>3. CASE ~Followed(code, location)
    <3>1. /\ reply' = [code |-> code, location |-> location]
          /\ pc' = "stream" /\ UNCHANGED <<answer, current, method, headers>>
      BY <2>1, <2>3 DEF Send, Goto, hopVars
    <3>2. reply' \in [code : Codes, location : Urls \cup {None}]
      BY <3>1
    <3>3. QED
      BY <1>1, <3>1, <3>2 DEF HandlerType, VetInv
  <2>4. QED
    BY <2>2, <2>3
<1>4. QED
  BY <1>2, <1>3

(* The body changes nothing but the answer.                                *)
LEMMA BodyVet ==
  ASSUME IInv, HandlerType, VetInv, End \/ BodyFails \/ \E c \in Chunks : Chunk(c)
  PROVE  HandlerType' /\ VetInv'
<1>1. /\ pc = "stream" /\ vetted = None /\ pc' \in {"stream", "done"}
      /\ UNCHANGED <<env, cfg, request, current, method, headers, vetted, reply, visited>>
  BY DEF End, BodyFails, Chunk, Respond, VetInv, hopVars, historyVars
<1>2. answer' \in Answers \cup {None}
  <2>1. CASE End
    <3>1. answer' = Success(reply.code, Encode(received))
      BY <2>1, LastGroup DEF End, Respond
    <3>2. Encode(received) \in Seq(Seq(Bytes))
      BY EncodeType DEF IInv, BodyInv
    <3>3. reply.code \in Codes
      BY <1>1 DEF IInv, HopInv
    <3>4. QED
      BY <3>1, <3>2, <3>3 DEF Success, Answers
  <2>2. CASE BodyFails
    BY <2>2, ErrorType DEF BodyFails, Respond
  <2>3. CASE \E c \in Chunks : Chunk(c)
    <3>1. answer' = Error("502") \/ UNCHANGED answer
      BY <2>3 DEF Chunk, Respond
    <3>2. answer = None
      BY <1>1 DEF IInv, HopInv
    <3>3. QED
      BY <3>1, <3>2, ErrorType
  <2>4. QED
    BY <2>1, <2>2, <2>3
<1>3. QED
  BY <1>1, <1>2 DEF HandlerType, VetInv

(* Both hold throughout.                                                   *)
THEOREM VetInvariant == Spec => [](IInv /\ HandlerType /\ VetInv)
<1>1. Init => HandlerType /\ VetInv
  <2> SUFFICES ASSUME Init PROVE HandlerType /\ VetInv
    OBVIOUS
  <2>1. HandlerType
    BY DEF Init, HandlerType, Methods
  <2>2. VetInv
    BY DEF Init, VetInv
  <2>3. QED
    BY <2>1, <2>2
<1>2. IInv /\ HandlerType /\ VetInv /\ [Next]_vars => HandlerType' /\ VetInv'
  <2> SUFFICES ASSUME IInv, HandlerType, VetInv, [Next]_vars PROVE HandlerType' /\ VetInv'
    OBVIOUS
  <2>1. CASE UNCHANGED vars
    <3>1. HandlerType'
      BY <2>1 DEF HandlerType, vars, hopVars, historyVars
    <3>2. VetInv'
      BY <2>1 DEF VetInv, AddrAllowed, AllowlistedAddr, vars, hopVars
    <3>3. QED
      BY <3>1, <3>2
  <2>2. QED
    BY <2>1, AcceptVet, ResolveVet, SendVet, BodyVet DEF Next
<1>3. QED
  BY <1>1, <1>2, ProxyInv, PTL DEF Spec

(* The handler's state keeps its types, for every width of an address and  *)
(* every limit.                                                            *)
THEOREM TypeCorrect == Spec => []TypeOK
<1>1. IInv /\ HandlerType => TypeOK
  <2> SUFFICES ASSUME IInv, HandlerType PROVE TypeOK
    OBVIOUS
  <2>1. b64 \in Seq(Seq(Bytes))
    BY EncodeType DEF IInv, BodyInv
  <2>2. /\ total \in Nat /\ carry \in Seq(Bytes) /\ received \in Seq(Bytes)
        /\ pc \in {"idle", "resolve", "send", "stream", "done"}
        /\ hops \in 0..MaxRedirects /\ sends \in Nat
    BY DEF IInv, BodyInv, HopInv
  <2>3. QED
    BY <2>1, <2>2 DEF HandlerType, TypeOK
<1>2. QED
  BY <1>1, VetInvariant, PTL

(* AddressesAreVetted for addresses of any width, any list of the operator *)
(* and any answers of the name server: before every upstream request all   *)
(* the addresses of its host were found permitted, and the masks of the    *)
(* code decide exactly what the operator's entries mean.                   *)
THEOREM AddressesVetted == Spec => []AddressesAreVetted
<1>1. IInv /\ HandlerType /\ VetInv => AddressesAreVetted
  <2> SUFFICES ASSUME HandlerType, VetInv PROVE AddressesAreVetted
    OBVIOUS
  <2>1. ASSUME vetted # None, NEW ip \in vetted.addrs
        PROVE  AddrAllowed(cfg, ip) <=> Permitted(ip)
    <3>1. ip \in Addresses
      BY <2>1 DEF HandlerType
    <3>2. env \in Envs /\ cfg = FromEnv(env)
      BY DEF HandlerType
    <3>3. QED
      BY <3>1, <3>2, AllowedMeansPermitted
  <2>2. QED
    BY <2>1 DEF VetInv, AddressesAreVetted
<1>2. QED
  BY <1>1, VetInvariant, PTL

=============================================================================
