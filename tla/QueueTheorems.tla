--------------------------- MODULE QueueTheorems ---------------------------
(***************************************************************************)
(* Facts that the library lacks: what the operations on the ready and the  *)
(* blocked queue do to the members of a queue, that they keep a queue free *)
(* of duplicates, and inductions up to a number over sets of numbers.      *)
(***************************************************************************)
EXTENDS Integers, SequencesExt, SequenceTheorems, WellFoundedInduction, TLAPS

LEMMA QueueMembers ==
  ASSUME NEW S, NEW q \in Seq(S)
  PROVE  /\ ToSet(q) = {q[j] : j \in 1 .. Len(q)}
         /\ IsInjective(q) <=> \A a, b \in 1 .. Len(q) : q[a] = q[b] => a = b
         /\ ToSet(q) \subseteq S
<1>1. Len(q) \in Nat /\ DOMAIN q = 1 .. Len(q)
  BY LenProperties
<1>2. \A j \in 1 .. Len(q) : q[j] \in S
  BY ElementOfSeq
<1>. QED
  BY <1>1, <1>2 DEF ToSet, IsInjective

(* The tail of the queue takes a new member.                               *)
LEMMA JoinAtTail ==
  ASSUME NEW S, NEW q \in Seq(S), NEW e \in S
  PROVE  /\ Append(q, e) \in Seq(S)
         /\ ToSet(Append(q, e)) = ToSet(q) \cup {e}
         /\ IsInjective(q) /\ e \notin ToSet(q) => IsInjective(Append(q, e))
<1> DEFINE r == Append(q, e)
<1>1. /\ r \in Seq(S) /\ Len(r) = Len(q) + 1 /\ Len(q) \in Nat
      /\ \A j \in 1 .. Len(q) : r[j] = q[j]
      /\ r[Len(q) + 1] = e
  BY AppendProperties, LenProperties
<1> HIDE DEF r
<1>2. ToSet(r) = ToSet(q) \cup {e}
  <2>1. ToSet(r) \subseteq ToSet(q) \cup {e}
    <3>1. \A j \in 1 .. Len(r) : j \in 1 .. Len(q) \/ j = Len(q) + 1
      BY <1>1
    <3>. QED
      BY <3>1, <1>1, QueueMembers
  <2>2. ToSet(q) \cup {e} \subseteq ToSet(r)
    <3>1. 1 .. Len(q) \subseteq 1 .. Len(r) /\ Len(q) + 1 \in 1 .. Len(r)
      BY <1>1
    <3>. QED
      BY <3>1, <1>1, QueueMembers
  <2>. QED
    BY <2>1, <2>2
<1>3. IsInjective(q) /\ e \notin ToSet(q) => IsInjective(r)
  <2> SUFFICES ASSUME IsInjective(q), e \notin ToSet(q),
                      NEW a \in 1 .. Len(r), NEW b \in 1 .. Len(r), r[a] = r[b]
               PROVE  a = b
    BY <1>1, QueueMembers
  <2>1. a \in 1 .. Len(q) \/ a = Len(q) + 1
    BY <1>1
  <2>2. b \in 1 .. Len(q) \/ b = Len(q) + 1
    BY <1>1
  <2>. QED
    BY <1>1, <2>1, <2>2, QueueMembers
<1>. QED
  BY <1>1, <1>2, <1>3 DEF r

(* The queue without the member at k.                                      *)
LEMMA LeaveAt ==
  ASSUME NEW S, NEW q \in Seq(S), NEW k \in 1 .. Len(q), IsInjective(q)
  PROVE  /\ RemoveAt(q, k) \in Seq(S)
         /\ Len(RemoveAt(q, k)) = Len(q) - 1
         /\ \A j \in 1 .. Len(q) - 1 :
              RemoveAt(q, k)[j] = IF j < k THEN q[j] ELSE q[j + 1]
         /\ ToSet(RemoveAt(q, k)) = ToSet(q) \ {q[k]}
         /\ IsInjective(RemoveAt(q, k))
<1> DEFINE r == RemoveAt(q, k)
<1>1. /\ r \in Seq(S) /\ Len(r) = Len(q) - 1 /\ Len(q) \in Nat
      /\ \A j \in 1 .. Len(q) - 1 : r[j] = IF j < k THEN q[j] ELSE q[j + 1]
  <2>1. Len(q) \in Nat /\ \A j \in 1 .. Len(q) : q[j] \in S
    BY LenProperties, ElementOfSeq
  <2> DEFINE s == SubSeq(q, 1, k - 1)  t == SubSeq(q, k + 1, Len(q))
  <2>2. /\ s \in Seq(S) /\ Len(s) = k - 1
        /\ \A j \in 1 .. k - 1 : s[j] = q[j]
    BY <2>1, SubSeqProperties
  <2>3. /\ t \in Seq(S) /\ Len(t) = Len(q) - k
        /\ \A j \in 1 .. Len(q) - k : t[j] = q[k + j]
    BY <2>1, SubSeqProperties
  <2> HIDE DEF s, t
  <2>4. /\ s \o t \in Seq(S) /\ Len(s \o t) = Len(s) + Len(t)
        /\ \A j \in 1 .. Len(s) + Len(t) :
             (s \o t)[j] = IF j <= Len(s) THEN s[j] ELSE t[j - Len(s)]
    BY <2>2, <2>3, ConcatProperties
  <2>5. r = s \o t
    BY DEF RemoveAt, s, t
  <2> HIDE DEF r
  <2>6. ASSUME NEW j \in 1 .. Len(q) - 1
        PROVE  r[j] = IF j < k THEN q[j] ELSE q[j + 1]
    <3>1. CASE j < k
      BY <3>1, <2>1, <2>2, <2>3, <2>4, <2>5
    <3>2. CASE j >= k
      <4>1. j - (k - 1) \in 1 .. Len(q) - k /\ k + (j - (k - 1)) = j + 1
        BY <3>2, <2>1
      <4>2. r[j] = t[j - (k - 1)]
        BY <3>2, <2>1, <2>2, <2>3, <2>4, <2>5
      <4>. QED
        BY <3>2, <4>1, <4>2, <2>1, <2>3
    <3>. QED
      BY <3>1, <3>2, <2>1
  <2>7. r \in Seq(S)
    BY <2>4, <2>5
  <2>8. Len(r) = Len(q) - 1
    BY <2>1, <2>2, <2>3, <2>4, <2>5
  <2>. QED
    BY <2>1, <2>6, <2>7, <2>8
<1> HIDE DEF r
<1>2. \A a, b \in 1 .. Len(q) : q[a] = q[b] => a = b
  BY QueueMembers
<1>3. ToSet(r) = ToSet(q) \ {q[k]}
  <2>1. ASSUME NEW j \in 1 .. Len(r) PROVE r[j] \in ToSet(q) \ {q[k]}
    <3>1. CASE j < k
      BY <3>1, <1>1, <1>2, QueueMembers
    <3>2. CASE j >= k
      BY <3>2, <1>1, <1>2, QueueMembers
    <3>. QED
      BY <3>1, <3>2, <1>1
  <2>2. ASSUME NEW j \in 1 .. Len(q), j # k PROVE \E l \in 1 .. Len(r) : r[l] = q[j]
    <3>1. CASE j < k
      <4>1. j \in 1 .. Len(r) /\ r[j] = q[j]
        BY <3>1, <1>1
      <4>. QED
        BY <4>1
    <3>2. CASE j > k
      <4>1. j - 1 \in 1 .. Len(r) /\ r[j - 1] = q[j]
        BY <3>2, <1>1
      <4>. QED
        BY <4>1
    <3>. QED
      BY <3>1, <3>2, <2>2, <1>1
  <2>3. ToSet(r) = {r[j] : j \in 1 .. Len(r)} /\ ToSet(q) = {q[j] : j \in 1 .. Len(q)}
    BY <1>1, QueueMembers
  <2>4. ToSet(r) \subseteq ToSet(q) \ {q[k]}
    BY <2>1, <2>3
  <2>5. ToSet(q) \ {q[k]} \subseteq ToSet(r)
    BY <2>2, <2>3
  <2>. QED
    BY <2>4, <2>5
<1>4. IsInjective(r)
  <2> SUFFICES ASSUME NEW a \in 1 .. Len(r), NEW b \in 1 .. Len(r), r[a] = r[b]
               PROVE  a = b
    BY <1>1, QueueMembers
  <2>. QED
    BY <1>1, <1>2
<1>. QED
  BY <1>1, <1>3, <1>4 DEF r

(* The head of the queue leaves it.                                        *)
LEMMA LeaveAtHead ==
  ASSUME NEW S, NEW q \in Seq(S), q # <<>>, IsInjective(q)
  PROVE  /\ Head(q) \in S /\ Head(q) \in ToSet(q)
         /\ Tail(q) \in Seq(S)
         /\ ToSet(Tail(q)) = ToSet(q) \ {Head(q)}
         /\ IsInjective(Tail(q))
<1> DEFINE r == Tail(q)
<1>1. /\ r \in Seq(S) /\ Len(r) = Len(q) - 1 /\ Len(q) \in Nat \ {0} /\ Head(q) \in S
      /\ \A j \in 1 .. Len(r) : r[j] = q[j + 1]
  BY HeadTailProperties, EmptySeq
<1>2. Head(q) = q[1]
  BY <1>1
<1> HIDE DEF r
<1>3. \A a, b \in 1 .. Len(q) : q[a] = q[b] => a = b
  BY QueueMembers
<1>4. 1 \in 1 .. Len(q) /\ Head(q) \in ToSet(q)
  BY <1>1, <1>2, QueueMembers
<1>5. ToSet(r) = ToSet(q) \ {Head(q)}
  <2>1. ASSUME NEW j \in 1 .. Len(r) PROVE r[j] \in ToSet(q) \ {Head(q)}
    BY <1>1, <1>2, <1>3, <1>4, QueueMembers
  <2>2. ASSUME NEW j \in 1 .. Len(q), j # 1 PROVE \E l \in 1 .. Len(r) : r[l] = q[j]
    <3>1. j - 1 \in 1 .. Len(r) /\ r[j - 1] = q[j]
      BY <2>2, <1>1
    <3>. QED
      BY <3>1
  <2>3. ToSet(r) = {r[j] : j \in 1 .. Len(r)} /\ ToSet(q) = {q[j] : j \in 1 .. Len(q)}
    BY <1>1, QueueMembers
  <2>4. ToSet(r) \subseteq ToSet(q) \ {Head(q)}
    BY <2>1, <2>3
  <2>5. ToSet(q) \ {Head(q)} \subseteq ToSet(r)
    BY <2>2, <2>3, <1>2
  <2>. QED
    BY <2>4, <2>5
<1>6. IsInjective(r)
  <2> SUFFICES ASSUME NEW a \in 1 .. Len(r), NEW b \in 1 .. Len(r), r[a] = r[b]
               PROVE  a = b
    BY <1>1, QueueMembers
  <2>. QED
    BY <1>1, <1>3
<1>. QED
  BY <1>1, <1>4, <1>5, <1>6 DEF r

(* A new member at k.                                                      *)
LEMMA JoinAt ==
  ASSUME NEW S, NEW q \in Seq(S), NEW e \in S, NEW k \in 1 .. Len(q) + 1
  PROVE  /\ InsertAt(q, k, e) \in Seq(S)
         /\ ToSet(InsertAt(q, k, e)) = ToSet(q) \cup {e}
         /\ IsInjective(q) /\ e \notin ToSet(q) => IsInjective(InsertAt(q, k, e))
         /\ Len(InsertAt(q, k, e)) = Len(q) + 1
         /\ \A j \in 1 .. Len(q) + 1 :
              InsertAt(q, k, e)[j] = IF j < k THEN q[j] ELSE IF j = k THEN e ELSE q[j - 1]
<1> DEFINE r == InsertAt(q, k, e)
<1>1. /\ r \in Seq(S) /\ Len(r) = Len(q) + 1 /\ Len(q) \in Nat
      /\ \A j \in 1 .. Len(q) + 1 :
           r[j] = IF j < k THEN q[j] ELSE IF j = k THEN e ELSE q[j - 1]
  <2>1. Len(q) \in Nat /\ \A j \in 1 .. Len(q) : q[j] \in S
    BY LenProperties, ElementOfSeq
  <2> DEFINE s == SubSeq(q, 1, k - 1)  t == SubSeq(q, k, Len(q))
  <2>2. /\ s \in Seq(S) /\ Len(s) = k - 1
        /\ \A j \in 1 .. k - 1 : s[j] = q[j]
    BY <2>1, SubSeqProperties
  <2>3. /\ t \in Seq(S) /\ Len(t) = Len(q) - k + 1
        /\ \A j \in 1 .. Len(q) - k + 1 : t[j] = q[k + j - 1]
    BY <2>1, SubSeqProperties
  <2> HIDE DEF s, t
  <2>4. s \o <<e>> = Append(s, e)
    BY <2>2, AppendIsConcat
  <2>5. /\ Append(s, e) \in Seq(S) /\ Len(Append(s, e)) = k
        /\ \A j \in 1 .. k - 1 : Append(s, e)[j] = q[j]
        /\ Append(s, e)[k] = e
    BY <2>2, AppendProperties
  <2> DEFINE u == Append(s, e)
  <2>6. r = u \o t
    BY <2>4 DEF InsertAt, s, t
  <2> HIDE DEF u
  <2>7. /\ u \o t \in Seq(S) /\ Len(u \o t) = k + Len(t)
        /\ \A j \in 1 .. k + Len(t) :
             (u \o t)[j] = IF j <= k THEN u[j] ELSE t[j - k]
    BY <2>3, <2>5, ConcatProperties DEF u
  <2> HIDE DEF r
  <2>8. ASSUME NEW j \in 1 .. Len(q) + 1
        PROVE  r[j] = IF j < k THEN q[j] ELSE IF j = k THEN e ELSE q[j - 1]
    <3>1. CASE j <= k
      BY <3>1, <2>1, <2>3, <2>5, <2>6, <2>7 DEF u
    <3>2. CASE j > k
      <4>1. j - k \in 1 .. Len(q) - k + 1 /\ k + (j - k) - 1 = j - 1
        BY <3>2, <2>1
      <4>2. r[j] = t[j - k]
        BY <3>2, <2>1, <2>3, <2>6, <2>7
      <4>. QED
        BY <3>2, <4>1, <4>2, <2>3
    <3>. QED
      BY <3>1, <3>2, <2>1
  <2>. QED
    BY <2>1, <2>3, <2>6, <2>7, <2>8
<1> HIDE DEF r
<1>2. ToSet(r) = ToSet(q) \cup {e}
  <2>1. ASSUME NEW j \in 1 .. Len(r) PROVE r[j] \in ToSet(q) \cup {e}
    <3>1. j < k \/ j = k \/ j > k
      BY <1>1
    <3>. QED
      BY <3>1, <1>1, QueueMembers
  <2>2. ASSUME NEW j \in 1 .. Len(q) PROVE \E l \in 1 .. Len(r) : r[l] = q[j]
    <3>1. CASE j < k
      <4>1. j \in 1 .. Len(r) /\ r[j] = q[j]
        BY <3>1, <1>1
      <4>. QED
        BY <4>1
    <3>2. CASE j >= k
      <4>1. j + 1 \in 1 .. Len(r) /\ r[j + 1] = q[j]
        BY <3>2, <1>1
      <4>. QED
        BY <4>1
    <3>. QED
      BY <3>1, <3>2, <1>1
  <2>3. k \in 1 .. Len(r) /\ r[k] = e
    BY <1>1
  <2>4. ToSet(r) = {r[j] : j \in 1 .. Len(r)} /\ ToSet(q) = {q[j] : j \in 1 .. Len(q)}
    BY <1>1, QueueMembers
  <2>5. ToSet(r) \subseteq ToSet(q) \cup {e}
    BY <2>1, <2>4
  <2>6. ToSet(q) \cup {e} \subseteq ToSet(r)
    BY <2>2, <2>3, <2>4
  <2>. QED
    BY <2>5, <2>6
<1>3. IsInjective(q) /\ e \notin ToSet(q) => IsInjective(r)
  <2> SUFFICES ASSUME IsInjective(q), e \notin ToSet(q),
                      NEW a \in 1 .. Len(r), NEW b \in 1 .. Len(r), r[a] = r[b]
               PROVE  a = b
    BY <1>1, QueueMembers
  <2>1. \A c, d \in 1 .. Len(q) : q[c] = q[d] => c = d
    BY QueueMembers
  <2>2. \A c \in 1 .. Len(q) : q[c] # e
    BY QueueMembers
  <2>3. CASE a = k \/ b = k
    <3>1. \A c \in 1 .. Len(r) : c # k => r[c] # e
      <4>1. \A c \in 1 .. Len(r) : c < k => c \in 1 .. Len(q) /\ r[c] = q[c]
        BY <1>1
      <4>2. \A c \in 1 .. Len(r) : c > k => c - 1 \in 1 .. Len(q) /\ r[c] = q[c - 1]
        BY <1>1
      <4>. QED
        BY <4>1, <4>2, <2>2, <1>1
    <3>2. r[k] = e
      BY <1>1
    <3>. QED
      BY <2>3, <3>1, <3>2
  <2>4. CASE a # k /\ b # k
    <3>1. /\ a < k => a \in 1 .. Len(q) /\ r[a] = q[a]
          /\ a > k => a - 1 \in 1 .. Len(q) /\ r[a] = q[a - 1]
      BY <1>1
    <3>2. /\ b < k => b \in 1 .. Len(q) /\ r[b] = q[b]
          /\ b > k => b - 1 \in 1 .. Len(q) /\ r[b] = q[b - 1]
      BY <1>1
    <3>3. /\ a < k /\ b < k => a = b
          /\ a < k /\ b > k => a = b - 1
          /\ a > k /\ b < k => a - 1 = b
          /\ a > k /\ b > k => a - 1 = b - 1
      BY <2>1, <3>1, <3>2
    <3>. QED
      BY <2>4, <3>3, <1>1
  <2>. QED
    BY <2>3, <2>4
<1>. QED
  BY <1>1, <1>2, <1>3 DEF r

-----------------------------------------------------------------------------
(* Induction up to a number, over a set.                                   *)
LEMMA UpTo ==
  ASSUME NEW m \in Nat, NEW T, 0 \in T, \A k \in 0 .. m - 1 : k \in T => k + 1 \in T
  PROVE  \A k \in 0 .. m : k \in T
<1> DEFINE S == {k \in 0 .. m : k \notin T}
<1>1. SUFFICES ASSUME S # {} PROVE FALSE
  OBVIOUS
<1>2. S \subseteq Nat
  OBVIOUS
<1>3. PICK k \in S : \A y \in S : <<y, k>> \notin OpToRel(<, Nat)
  BY <1>1, <1>2, WFMin, NatLessThanWellFounded
<1>4. k # 0 /\ k - 1 \in 0 .. m - 1 /\ (k - 1) + 1 = k /\ k - 1 \in 0 .. m
  OBVIOUS
<1>5. k - 1 \notin T
  BY <1>4
<1>6. <<k - 1, k>> \in OpToRel(<, Nat)
  BY <1>4 DEF OpToRel
<1>. QED
  BY <1>3, <1>4, <1>5, <1>6

(* Down from a number that everything above it has the property of.        *)
LEMMA DownFrom ==
  ASSUME NEW m \in Nat, NEW T, \A k \in Nat : k > m => k \in T,
         \A k \in 0 .. m : k + 1 \in T => k \in T
  PROVE  \A k \in Nat : k \in T
<1> DEFINE S == {j \in 0 .. m + 1 : m + 1 - j \in T}
<1>1. 0 \in S
  OBVIOUS
<1>2. ASSUME NEW j \in 0 .. m, j \in S PROVE j + 1 \in S
  <2>1. m - j \in 0 .. m /\ (m - j) + 1 = m + 1 - j /\ m + 1 - (j + 1) = m - j
    OBVIOUS
  <2>. QED
    BY <1>2, <2>1
<1>3. \A j \in 0 .. m + 1 : j \in S
  <2>. HIDE DEF S
  <2>1. m + 1 \in Nat /\ (m + 1) - 1 = m
    OBVIOUS
  <2>. QED
    BY <1>1, <1>2, <2>1, UpTo
<1>4. ASSUME NEW k \in 0 .. m PROVE k \in T
  <2>1. m + 1 - k \in 0 .. m + 1 /\ m + 1 - (m + 1 - k) = k
    OBVIOUS
  <2>. QED
    BY <1>3, <2>1
<1>. QED
  BY <1>4

=============================================================================
