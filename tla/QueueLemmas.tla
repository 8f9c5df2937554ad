----------------------------- MODULE QueueLemmas -----------------------------
(***************************************************************************)
(* Facts about FIFO queues as sequences, shared by the proof modules: what *)
(* Append and Tail do to the elements of a queue and to a queue of         *)
(* increasing numbers.                                                     *)
(***************************************************************************)
EXTENDS Queues, SequenceTheorems, TLAPS

(* Putting e into a queue adds e to its elements.                          *)
LEMMA RangeAppend ==
  ASSUME NEW S, NEW s \in Seq(S), NEW e \in S
  PROVE  Range(Append(s, e)) = Range(s) \cup {e}
<1>1. /\ Append(s, e) \in Seq(S)
      /\ Len(Append(s, e)) = Len(s) + 1
      /\ \A i \in 1..Len(s) : Append(s, e)[i] = s[i]
      /\ Append(s, e)[Len(s) + 1] = e
  BY AppendProperties
<1>2. /\ Len(s) \in Nat
      /\ DOMAIN s = 1..Len(s)
      /\ DOMAIN Append(s, e) = 1..(Len(s) + 1)
  BY <1>1, LenProperties
<1>3. ASSUME NEW x \in Range(Append(s, e))
      PROVE  x \in Range(s) \cup {e}
  BY <1>1, <1>2 DEF Range
<1>4. ASSUME NEW x \in Range(s) \cup {e}
      PROVE  x \in Range(Append(s, e))
  <2>1. CASE x = e
    BY <1>1, <1>2, <2>1 DEF Range
  <2>2. CASE x \in Range(s)
    <3>1. PICK i \in 1..Len(s) : x = s[i]
      BY <1>2, <2>2 DEF Range
    <3>2. i \in DOMAIN Append(s, e) /\ Append(s, e)[i] = x
      BY <1>1, <1>2, <3>1
    <3>3. QED
      BY <3>2 DEF Range
  <2>3. QED
    BY <2>1, <2>2
<1>5. QED
  BY <1>3, <1>4

(* The elements of a non-empty queue are its head and those of its tail.   *)
LEMMA RangeHeadTail ==
  ASSUME NEW S, NEW s \in Seq(S), s # <<>>
  PROVE  Range(s) = {Head(s)} \cup Range(Tail(s))
<1>1. /\ Tail(s) \in Seq(S)
      /\ Len(Tail(s)) = Len(s) - 1
      /\ \A i \in 1..Len(Tail(s)) : Tail(s)[i] = s[i + 1]
  BY HeadTailProperties
<1>2. /\ Len(s) \in Nat \ {0}
      /\ DOMAIN s = 1..Len(s)
      /\ DOMAIN Tail(s) = 1..(Len(s) - 1)
      /\ Head(s) = s[1]
  BY <1>1, LenProperties, EmptySeq
<1>3. ASSUME NEW x \in Range(s), x # Head(s)
      PROVE  x \in Range(Tail(s))
  <2>1. PICK i \in 1..Len(s) : x = s[i]
    BY <1>2 DEF Range
  <2>2. i - 1 \in DOMAIN Tail(s) /\ Tail(s)[i - 1] = x
    BY <1>1, <1>2, <1>3, <2>1
  <2>3. QED
    BY <2>2 DEF Range
<1>4. ASSUME NEW x \in Range(Tail(s))
      PROVE  x \in Range(s)
  <2>1. PICK i \in 1..Len(Tail(s)) : x = Tail(s)[i]
    BY <1>1, <1>2 DEF Range
  <2>2. i + 1 \in DOMAIN s /\ s[i + 1] = x
    BY <1>1, <1>2, <2>1
  <2>3. QED
    BY <2>2 DEF Range
<1>5. Head(s) \in Range(s)
  BY <1>2 DEF Range
<1>6. QED
  BY <1>3, <1>4, <1>5

(* What a put does to a queue: it has one element more.                    *)
LEMMA AfterAppend ==
  ASSUME NEW S, NEW s \in Seq(S), NEW e \in S, NEW t, t = Append(s, e)
  PROVE  /\ t \in Seq(S) /\ Len(s) \in Nat /\ Len(t) = Len(s) + 1
         /\ Range(t) = Range(s) \cup {e}
         /\ \A x \in Range(t) : x \in Range(s) \/ x = e
<1>1. Range(t) = Range(s) \cup {e}
  BY RangeAppend
<1>2. t \in Seq(S) /\ Len(s) \in Nat /\ Len(t) = Len(s) + 1
  BY AppendProperties, LenProperties
<1>3. QED
  BY <1>1, <1>2

(* What a get does to a queue: it has one element less.                    *)
LEMMA AfterTail ==
  ASSUME NEW S, NEW s \in Seq(S), s # <<>>, NEW t, t = Tail(s)
  PROVE  /\ t \in Seq(S) /\ Len(t) \in Nat /\ Len(s) = Len(t) + 1
         /\ Head(s) \in S /\ Range(s) = {Head(s)} \cup Range(t)
         /\ \A x \in Range(t) : x \in Range(s)
<1>1. t \in Seq(S) /\ Len(t) = Len(s) - 1 /\ Head(s) \in S
  BY HeadTailProperties
<1>2. Len(t) \in Nat /\ Len(s) \in Nat
  BY <1>1, LenProperties
<1>3. Range(s) = {Head(s)} \cup Range(t)
  BY RangeHeadTail
<1>4. QED
  BY <1>1, <1>2, <1>3

(* An increasing queue stays so when a larger number is put into it.       *)
LEMMA IncreasingAppend ==
  ASSUME NEW s \in Seq(Nat), NEW e \in Nat, Increasing(s),
         \A m \in Range(s) : m < e
  PROVE  Increasing(Append(s, e))
<1>1. /\ Append(s, e) \in Seq(Nat)
      /\ Len(Append(s, e)) = Len(s) + 1
      /\ \A i \in 1..Len(s) : Append(s, e)[i] = s[i]
      /\ Append(s, e)[Len(s) + 1] = e
  BY AppendProperties
<1>2. /\ Len(s) \in Nat
      /\ DOMAIN s = 1..Len(s)
      /\ DOMAIN Append(s, e) = 1..(Len(s) + 1)
  BY <1>1, LenProperties
<1>3. \A i \in 1..Len(s) : s[i] < e
  BY <1>2 DEF Range
<1>4. QED
  BY <1>1, <1>2, <1>3 DEF Increasing

(* Taking the head of an increasing queue leaves a queue of larger ones.   *)
LEMMA IncreasingTail ==
  ASSUME NEW s \in Seq(Nat), s # <<>>, Increasing(s)
  PROVE  /\ Increasing(Tail(s))
         /\ \A m \in Range(Tail(s)) : Head(s) < m
<1>1. /\ Tail(s) \in Seq(Nat)
      /\ Len(Tail(s)) = Len(s) - 1
      /\ \A i \in 1..Len(Tail(s)) : Tail(s)[i] = s[i + 1]
  BY HeadTailProperties
<1>2. /\ Len(s) \in Nat \ {0}
      /\ DOMAIN s = 1..Len(s)
      /\ DOMAIN Tail(s) = 1..(Len(s) - 1)
      /\ Head(s) = s[1]
  BY <1>1, LenProperties, EmptySeq
<1>3. Increasing(Tail(s))
  BY <1>1, <1>2 DEF Increasing
<1>4. ASSUME NEW m \in Range(Tail(s))
      PROVE  Head(s) < m
  <2>1. PICK i \in 1..(Len(s) - 1) : m = Tail(s)[i]
    BY <1>2 DEF Range
  <2>2. m = s[i + 1] /\ i + 1 \in DOMAIN s /\ 1 < i + 1
    BY <1>1, <1>2, <2>1
  <2>3. QED
    BY <1>2, <2>2 DEF Increasing
<1>5. QED
  BY <1>3, <1>4

(* Taking the sequence numbers commutes with putting a record in a queue.  *)
LEMMA SeqsAppend ==
  ASSUME NEW S, \A r \in S : r.seq \in Nat,
         NEW s \in Seq(S), NEW e \in S
  PROVE  /\ Seqs(s) \in Seq(Nat)
         /\ Seqs(Append(s, e)) = Append(Seqs(s), e.seq)
<1>1. /\ Append(s, e) \in Seq(S)
      /\ Len(Append(s, e)) = Len(s) + 1
      /\ \A i \in 1..Len(s) : Append(s, e)[i] = s[i]
      /\ Append(s, e)[Len(s) + 1] = e
  BY AppendProperties
<1>2. /\ Len(s) \in Nat
      /\ DOMAIN s = 1..Len(s)
      /\ \A i \in 1..Len(s) : s[i] \in S
      /\ DOMAIN Append(s, e) = 1..(Len(s) + 1)
  BY <1>1, LenProperties, ElementOfSeq
<1>3. Seqs(s) \in Seq(Nat) /\ Len(Seqs(s)) = Len(s)
  BY <1>2 DEF Seqs
<1>4. /\ Append(Seqs(s), e.seq) \in Seq(Nat)
      /\ Len(Append(Seqs(s), e.seq)) = Len(s) + 1
      /\ \A i \in 1..Len(s) : Append(Seqs(s), e.seq)[i] = Seqs(s)[i]
      /\ Append(Seqs(s), e.seq)[Len(s) + 1] = e.seq
  BY <1>3, AppendProperties
<1>5. Seqs(Append(s, e)) \in Seq(Nat) /\ Len(Seqs(Append(s, e))) = Len(s) + 1
  BY <1>1, <1>2 DEF Seqs
<1>6. \A i \in 1..(Len(s) + 1) :
        Seqs(Append(s, e))[i] = Append(Seqs(s), e.seq)[i]
  BY <1>1, <1>2, <1>4 DEF Seqs
<1>7. QED
  BY <1>3, <1>4, <1>5, <1>6, SeqEqual

(* ... and with taking one out.                                            *)
LEMMA SeqsTail ==
  ASSUME NEW S, \A r \in S : r.seq \in Nat,
         NEW s \in Seq(S), s # <<>>
  PROVE  /\ Seqs(s) \in Seq(Nat) /\ Seqs(s) # <<>>
         /\ Seqs(Tail(s)) = Tail(Seqs(s))
         /\ Head(Seqs(s)) = Head(s).seq
<1>1. /\ Tail(s) \in Seq(S)
      /\ Len(Tail(s)) = Len(s) - 1
      /\ \A i \in 1..Len(Tail(s)) : Tail(s)[i] = s[i + 1]
  BY HeadTailProperties
<1>2. /\ Len(s) \in Nat \ {0}
      /\ DOMAIN s = 1..Len(s)
      /\ \A i \in 1..Len(s) : s[i] \in S
      /\ DOMAIN Tail(s) = 1..(Len(s) - 1)
      /\ Head(s) = s[1]
  BY <1>1, LenProperties, EmptySeq, ElementOfSeq
<1>3. Seqs(s) \in Seq(Nat) /\ Len(Seqs(s)) = Len(s) /\ Seqs(s) # <<>>
  BY <1>2 DEF Seqs
<1>4. /\ Tail(Seqs(s)) \in Seq(Nat)
      /\ Len(Tail(Seqs(s))) = Len(s) - 1
      /\ \A i \in 1..(Len(s) - 1) : Tail(Seqs(s))[i] = Seqs(s)[i + 1]
      /\ Head(Seqs(s)) = Seqs(s)[1]
  BY <1>3, HeadTailProperties
<1>5. Seqs(Tail(s)) \in Seq(Nat) /\ Len(Seqs(Tail(s))) = Len(s) - 1
  BY <1>1, <1>2 DEF Seqs
<1>6. \A i \in 1..(Len(s) - 1) : Seqs(Tail(s))[i] = Tail(Seqs(s))[i]
  BY <1>1, <1>2, <1>4 DEF Seqs
<1>7. Seqs(Tail(s)) = Tail(Seqs(s))
  BY <1>2, <1>4, <1>5, <1>6, SeqEqual
<1>8. Head(Seqs(s)) = Head(s).seq
  BY <1>2, <1>4 DEF Seqs
<1>9. QED
  BY <1>3, <1>7, <1>8

(* What a get takes from a queue of at most k places, and what it leaves.  *)
LEMMA Takes ==
  ASSUME NEW S, NEW s \in Seq(S), s # <<>>, NEW t, t = Tail(s),
         NEW k \in Nat, Len(s) <= k
  PROVE  /\ t \in Seq(S) /\ Len(t) <= k
         /\ Head(s) \in S /\ Range(s) = {Head(s)} \cup Range(t)
<1>1. t \in Seq(S) /\ Len(t) = Len(s) - 1 /\ Head(s) \in S
  BY HeadTailProperties
<1>2. Len(s) \in Nat
  BY LenProperties
<1>3. Range(s) = {Head(s)} \cup Range(t)
  BY RangeHeadTail
<1>4. QED
  BY <1>1, <1>2, <1>3

(* What a put adds to a queue of k places that is not full.                *)
LEMMA Puts ==
  ASSUME NEW S, NEW s \in Seq(S), NEW e \in S, NEW k \in Nat, Len(s) < k
  PROVE  /\ Append(s, e) \in Seq(S) /\ Len(Append(s, e)) <= k
         /\ Range(Append(s, e)) = Range(s) \cup {e}
<1>1. Append(s, e) \in Seq(S) /\ Len(Append(s, e)) = Len(s) + 1
  BY AppendProperties
<1>2. Len(s) \in Nat
  BY LenProperties
<1>3. Range(Append(s, e)) = Range(s) \cup {e}
  BY RangeAppend
<1>4. QED
  BY <1>1, <1>2, <1>3

(* A queue of records keeps the order of their numbers f[r], whichever end *)
(* of it is touched.                                                       *)
Rising(f, s) == \A i, j \in DOMAIN s : i < j => f[s[i]] < f[s[j]]

LEMMA RisingTail ==
  ASSUME NEW S, NEW f \in [S -> Nat], NEW s \in Seq(S), s # <<>>, Rising(f, s)
  PROVE  /\ Rising(f, Tail(s))
         /\ \A x \in Range(Tail(s)) : f[Head(s)] < f[x]
<1>1. /\ Tail(s) \in Seq(S)
      /\ Len(Tail(s)) = Len(s) - 1
      /\ \A i \in 1..Len(Tail(s)) : Tail(s)[i] = s[i + 1]
  BY HeadTailProperties
<1>2. /\ Len(s) \in Nat \ {0}
      /\ DOMAIN s = 1..Len(s)
      /\ DOMAIN Tail(s) = 1..(Len(s) - 1)
      /\ Head(s) = s[1]
  BY <1>1, LenProperties, EmptySeq
<1>3. ASSUME NEW i \in DOMAIN Tail(s), NEW j \in DOMAIN Tail(s), i < j
      PROVE  f[Tail(s)[i]] < f[Tail(s)[j]]
  <2>1. /\ Tail(s)[i] = s[i + 1] /\ Tail(s)[j] = s[j + 1]
        /\ i + 1 \in DOMAIN s /\ j + 1 \in DOMAIN s /\ i + 1 < j + 1
    BY <1>1, <1>2, <1>3
  <2>2. f[s[i + 1]] < f[s[j + 1]]
    BY <2>1 DEF Rising
  <2>3. QED
    BY <2>1, <2>2
<1>4. ASSUME NEW x \in Range(Tail(s))
      PROVE  f[Head(s)] < f[x]
  <2>1. PICK i \in 1..(Len(s) - 1) : x = Tail(s)[i]
    BY <1>2 DEF Range
  <2>2. /\ x = s[i + 1] /\ i + 1 \in DOMAIN s /\ 1 \in DOMAIN s /\ 1 < i + 1
    BY <1>1, <1>2, <2>1
  <2>3. f[s[1]] < f[s[i + 1]]
    BY <2>2 DEF Rising
  <2>4. QED
    BY <1>2, <2>2, <2>3
<1>5. QED
  BY <1>3, <1>4 DEF Rising

LEMMA RisingAppend ==
  ASSUME NEW S, NEW f \in [S -> Nat], NEW s \in Seq(S), NEW e \in S,
         Rising(f, s), \A x \in Range(s) : f[x] < f[e]
  PROVE  Rising(f, Append(s, e))
<1>1. /\ Len(Append(s, e)) = Len(s) + 1
      /\ Append(s, e) \in Seq(S)
      /\ \A i \in 1..Len(s) : Append(s, e)[i] = s[i]
      /\ Append(s, e)[Len(s) + 1] = e
  BY AppendProperties
<1>2. /\ Len(s) \in Nat
      /\ DOMAIN s = 1..Len(s)
      /\ DOMAIN Append(s, e) = 1..(Len(s) + 1)
  BY <1>1, LenProperties
<1>3. \A i \in 1..Len(s) : f[s[i]] < f[e]
  BY <1>2 DEF Range
<1>4. ASSUME NEW i \in DOMAIN Append(s, e), NEW j \in DOMAIN Append(s, e),
             i < j
      PROVE  f[Append(s, e)[i]] < f[Append(s, e)[j]]
  <2>1. i \in 1..Len(s) /\ (j \in 1..Len(s) \/ j = Len(s) + 1)
    BY <1>2, <1>4
  <2>2. CASE j \in 1..Len(s)
    <3>1. f[s[i]] < f[s[j]]
      BY <1>2, <1>4, <2>1, <2>2 DEF Rising
    <3>2. QED
      BY <1>1, <2>1, <2>2, <3>1
  <2>3. CASE j = Len(s) + 1
    BY <1>1, <1>3, <2>1, <2>3
  <2>4. QED
    BY <2>1, <2>2, <2>3
<1>5. QED
  BY <1>4 DEF Rising

(* The numbers of the records in a queue.                                  *)
Numbers(f, s) == {f[x] : x \in Range(s)}

(* The record that leaves a rising queue has the smallest number in it.    *)
LEMMA OldestLeaves ==
  ASSUME NEW S, NEW f \in [S -> Nat], NEW s \in Seq(S), s # <<>>, Rising(f, s)
  PROVE  \E n \in Nat :
           /\ n = f[Head(s)] /\ Numbers(f, s) = {n} \cup Numbers(f, Tail(s))
           /\ Before({n}, Numbers(f, Tail(s))) /\ Rising(f, Tail(s))
<1>1. Head(s) \in S /\ Range(s) = {Head(s)} \cup Range(Tail(s))
  BY HeadTailProperties, RangeHeadTail
<1>2. /\ Rising(f, Tail(s))
      /\ \A x \in Range(Tail(s)) : f[Head(s)] < f[x]
  BY RisingTail
<1>3. QED
  BY <1>1, <1>2 DEF Numbers, Before

(* A record numbered above all others may enter it.                        *)
LEMMA NewestEnters ==
  ASSUME NEW S, NEW f \in [S -> Nat], NEW s \in Seq(S), NEW e \in S,
         Rising(f, s)
  PROVE  /\ Numbers(f, Append(s, e)) = Numbers(f, s) \cup {f[e]}
         /\ Before(Numbers(f, s), {f[e]}) => Rising(f, Append(s, e))
<1>1. Range(Append(s, e)) = Range(s) \cup {e}
  BY RangeAppend
<1>2. ASSUME Before(Numbers(f, s), {f[e]}) PROVE Rising(f, Append(s, e))
  <2>1. \A x \in Range(s) : f[x] < f[e]
    BY <1>2 DEF Before, Numbers
  <2>2. QED
    BY <2>1, RisingAppend
<1>3. QED
  BY <1>1, <1>2 DEF Numbers
-----------------------------------------------------------------------------
(* Two queues in a row are one queue, t the part further back: what is put *)
(* into t is put into both, ...                                            *)
LEMMA PutBehind ==
  ASSUME NEW S, NEW s \in Seq(S), NEW t \in Seq(S), NEW e \in S
  PROVE  s \o Append(t, e) = Append(s \o t, e)
<1>1. s \o t \in Seq(S) /\ <<e>> \in Seq(S)
  BY ConcatProperties
<1>2. Append(t, e) = t \o <<e>> /\ Append(s \o t, e) = (s \o t) \o <<e>>
  BY <1>1, AppendIsConcat
<1>3. QED
  BY <1>1, <1>2, ConcatAssociative

(* ... what t hands over to s stays where it was, ...                      *)
LEMMA HandOver ==
  ASSUME NEW S, NEW s \in Seq(S), NEW t \in Seq(S), t # <<>>
  PROVE  Append(s, Head(t)) \o Tail(t) = s \o t
<1>1. /\ Head(t) \in S /\ Tail(t) \in Seq(S) /\ Len(t) \in Nat \ {0}
      /\ Len(Tail(t)) = Len(t) - 1 /\ Len(s) \in Nat /\ Head(t) = t[1]
      /\ \A k \in 1..Len(Tail(t)) : Tail(t)[k] = t[k + 1]
  BY HeadTailProperties, LenProperties, EmptySeq
<1>2. /\ Append(s, Head(t)) \in Seq(S)
      /\ Len(Append(s, Head(t))) = Len(s) + 1
      /\ \A k \in 1..Len(s) : Append(s, Head(t))[k] = s[k]
      /\ Append(s, Head(t))[Len(s) + 1] = Head(t)
  BY <1>1, AppendProperties
<1> DEFINE l == Append(s, Head(t)) \o Tail(t)
           r == s \o t
<1>3. /\ l \in Seq(S) /\ Len(l) = Len(s) + Len(t)
      /\ \A k \in 1..(Len(s) + Len(t)) :
           l[k] = IF k <= Len(s) + 1 THEN Append(s, Head(t))[k]
                                     ELSE Tail(t)[k - (Len(s) + 1)]
  BY <1>1, <1>2, ConcatProperties
<1>4. /\ r \in Seq(S) /\ Len(r) = Len(s) + Len(t)
      /\ \A k \in 1..(Len(s) + Len(t)) :
           r[k] = IF k <= Len(s) THEN s[k] ELSE t[k - Len(s)]
  BY <1>1, ConcatProperties
<1>5. ASSUME NEW k \in 1..Len(l) PROVE l[k] = r[k]
  <2>1. CASE k <= Len(s)
    BY <1>1, <1>2, <1>3, <1>4, <2>1
  <2>2. CASE k = Len(s) + 1
    BY <1>1, <1>2, <1>3, <1>4, <2>2
  <2>3. CASE k > Len(s) + 1
    <3>1. k - (Len(s) + 1) \in 1..Len(Tail(t))
      BY <1>1, <1>3, <2>3
    <3>2. l[k] = Tail(t)[k - (Len(s) + 1)] /\ r[k] = t[k - Len(s)]
      BY <1>1, <1>3, <1>4, <2>3
    <3>3. (k - (Len(s) + 1)) + 1 = k - Len(s)
      BY <1>1, <1>3
    <3>4. QED
      BY <1>1, <3>1, <3>2, <3>3
  <2>4. QED
    BY <1>1, <1>3, <2>1, <2>2, <2>3
<1>6. QED
  BY <1>3, <1>4, <1>5, SeqEqual

(* ... and what is taken from s is taken from both.                        *)
LEMMA GetInFront ==
  ASSUME NEW S, NEW s \in Seq(S), NEW t \in Seq(S), s # <<>>
  PROVE  /\ s \o t # <<>> /\ Head(s \o t) = Head(s)
         /\ Tail(s \o t) = Tail(s) \o t
<1>1. /\ Tail(s) \in Seq(S) /\ Len(s) \in Nat \ {0} /\ Len(t) \in Nat
      /\ Len(Tail(s)) = Len(s) - 1 /\ Head(s) = s[1]
      /\ \A k \in 1..Len(Tail(s)) : Tail(s)[k] = s[k + 1]
  BY HeadTailProperties, LenProperties, EmptySeq
<1> DEFINE b == s \o t
           r == Tail(s) \o t
<1>2. /\ b \in Seq(S) /\ Len(b) = Len(s) + Len(t)
      /\ \A k \in 1..(Len(s) + Len(t)) :
           b[k] = IF k <= Len(s) THEN s[k] ELSE t[k - Len(s)]
  BY <1>1, ConcatProperties
<1>3. b # <<>>
  BY <1>1, <1>2, EmptySeq
<1>4. /\ Tail(b) \in Seq(S) /\ Len(Tail(b)) = Len(b) - 1 /\ Head(b) = b[1]
      /\ \A k \in 1..Len(Tail(b)) : Tail(b)[k] = b[k + 1]
  BY <1>2, <1>3, HeadTailProperties
<1>5. /\ r \in Seq(S) /\ Len(r) = Len(s) - 1 + Len(t)
      /\ \A k \in 1..(Len(s) - 1 + Len(t)) :
           r[k] = IF k <= Len(s) - 1 THEN Tail(s)[k]
                                     ELSE t[k - (Len(s) - 1)]
  BY <1>1, ConcatProperties
<1>6. ASSUME NEW k \in 1..Len(r) PROVE Tail(b)[k] = r[k]
  <2>1. Tail(b)[k] = b[k + 1] /\ k + 1 \in 1..(Len(s) + Len(t))
    BY <1>1, <1>2, <1>4, <1>5
  <2>2. CASE k <= Len(s) - 1
    BY <1>1, <1>2, <1>5, <2>1, <2>2
  <2>3. CASE k > Len(s) - 1
    <3>1. b[k + 1] = t[(k + 1) - Len(s)] /\ r[k] = t[k - (Len(s) - 1)]
      BY <1>1, <1>2, <1>5, <2>1, <2>3
    <3>2. (k + 1) - Len(s) = k - (Len(s) - 1)
      BY <1>1, <1>5
    <3>3. QED
      BY <2>1, <3>1, <3>2
  <2>4. QED
    BY <1>1, <1>5, <2>2, <2>3
<1>7. Len(Tail(b)) = Len(r)
  BY <1>1, <1>2, <1>4, <1>5
<1>8. Tail(b) = r
  BY <1>4, <1>5, <1>6, <1>7, SeqEqual
<1>9. QED
  BY <1>1, <1>2, <1>3, <1>4, <1>8
=============================================================================
