-------------------------- MODULE TraceFile_proofs --------------------------
(***************************************************************************)
(* The trace file over any number of recordings of any length.              *)
(***************************************************************************)
EXTENDS TraceFile, SequenceTheorems, FiniteSetTheorems, WellFoundedInduction, TLAPS

\* At most one recording writes, and it is the one that opened the file last.
WriterOwns == \A r \in Recordings : pc[r] = "writing" => owner = r

\* The file holds the owner's first pos words and nothing of anyone else; the
\* owner has saved exactly when these are all its words.
FileIsPrefix ==
  IF owner = NoOne THEN file = <<>>
  ELSE /\ encoded \in Encodings(Archives[owner])
       /\ pos \in 0..Len(encoded)
       /\ file = SubSeq(encoded, 1, pos)
       /\ pc[owner] = "saved" <=> pos = Len(encoded)

TraceFileInv ==
  /\ pc \in [Recordings -> {"idle", "writing", "saved", "killed"}]
  /\ owner \in Recordings \cup {NoOne}
  /\ WriterOwns
  /\ FileIsPrefix

-----------------------------------------------------------------------------
(* An encoding is a non-empty sequence of words. *)
LEMMA EncodingFacts ==
  ASSUME NEW r \in Recordings, NEW words \in Encodings(Archives[r])
  PROVE  /\ words \in Seq(Nat) /\ Len(words) \in Nat \ {0}
         /\ RoundTrip(words, Archives[r]) /\ NoPartLoads(words)
<1>1. words \in Seq(Nat) /\ RoundTrip(words, Archives[r]) /\ NoPartLoads(words)
  BY CodecAssumption
<1>2. words # <<>>
  BY <1>1, CodecAssumption DEF RoundTrip
<1> QED
  BY <1>1, <1>2

(* The first n words of a sequence. *)
LEMMA PrefixFacts ==
  ASSUME NEW words \in Seq(Nat), NEW n \in 0..Len(words)
  PROVE  /\ SubSeq(words, 1, n) \in Seq(Nat) /\ Len(SubSeq(words, 1, n)) = n
         /\ \A k \in 1..n : SubSeq(words, 1, n)[k] = words[k]
  BY SubSeqProperties

\* The file f after words[n + 1] has been written at position n + 1.
Written(f, words, n) ==
  [k \in 1..Max({n + 1, Len(f)}) |-> IF k = n + 1 THEN words[k] ELSE f[k]]

(* Appending the next word to the file is writing it at position pos + 1. *)
LEMMA WriteExtends ==
  ASSUME NEW words \in Seq(Nat), NEW n \in Nat, n < Len(words),
         NEW f, f = SubSeq(words, 1, n)
  PROVE  Written(f, words, n) = SubSeq(words, 1, n + 1)
<1> DEFINE g == Written(f, words, n)
<1>1. /\ f \in Seq(Nat) /\ Len(f) = n /\ \A k \in 1..n : f[k] = words[k]
      /\ n \in 0..Len(words) /\ n + 1 \in 0..Len(words)
  <2>1. n \in 0..Len(words) /\ n + 1 \in 0..Len(words)
    OBVIOUS
  <2> QED
    BY <2>1, PrefixFacts
<1>2. Max({n + 1, n}) = n + 1
  BY DEF Max
<1>3. g = [k \in 1..(n + 1) |-> IF k = n + 1 THEN words[k] ELSE f[k]]
  BY <1>1, <1>2 DEF Written
<1> HIDE DEF g
<1>4. \A k \in 1..(n + 1) : g[k] = words[k]
  <2> SUFFICES ASSUME NEW k \in 1..(n + 1) PROVE g[k] = words[k]
    OBVIOUS
  <2>1. CASE k = n + 1
    BY <1>3, <2>1
  <2>2. CASE k \in 1..n
    <3>1. k # n + 1 /\ f[k] = words[k]
      BY <1>1, <2>2
    <3> QED
      BY <1>3, <3>1
  <2> QED
    BY <2>1, <2>2
<1>5. \A k \in 1..(n + 1) : words[k] \in Nat
  OBVIOUS
<1>6. g \in [1..(n + 1) -> Nat]
  BY <1>3, <1>4, <1>5
<1>7. g \in Seq(Nat) /\ Len(g) = n + 1
  <2>1. n + 1 \in Nat
    OBVIOUS
  <2>2. g \in Seq(Nat)
    BY <1>6, <2>1
  <2>3. DOMAIN g = 1..(n + 1)
    BY <1>3
  <2> QED
    BY <2>1, <2>2, <2>3
<1> DEFINE p == SubSeq(words, 1, n + 1)
<1>8. p \in Seq(Nat) /\ Len(p) = n + 1 /\ \A k \in 1..(n + 1) : p[k] = words[k]
  BY <1>1, PrefixFacts
<1> HIDE DEF p
<1>9. g = p
  BY <1>4, <1>7, <1>8, SeqEqual
<1> QED
  BY <1>9 DEF p, g

(* Before the first recording there is no file. *)
LEMMA TraceFileInit == Init => TraceFileInv
  BY DEF Init, TraceFileInv, WriterOwns, FileIsPrefix

(* Opening the file empties it and makes the recording its owner. *)
LEMMA OpenInv ==
  ASSUME TraceFileInv, NEW r \in Recordings, Open(r)
  PROVE  TraceFileInv'
<1>1. /\ pc \in [Recordings -> {"idle", "writing", "saved", "killed"}]
      /\ \A q \in Recordings : pc[q] # "writing"
      /\ pc' = [pc EXCEPT ![r] = "writing"]
      /\ owner' = r /\ pos' = 0 /\ file' = <<>>
      /\ encoded' \in Encodings(Archives[r])
  BY DEF Open, TraceFileInv
<1>2. pc' \in [Recordings -> {"idle", "writing", "saved", "killed"}] /\ pc'[r] = "writing"
  BY <1>1
<1>3. WriterOwns'
  BY <1>1 DEF WriterOwns
<1>4. encoded' \in Seq(Nat) /\ Len(encoded') \in Nat \ {0}
  BY <1>1, EncodingFacts
<1>5. file' = SubSeq(encoded', 1, 0)
  BY <1>1, <1>4
<1>6. owner' # NoOne
  BY <1>1, ArchivesAssumption
<1>7. FileIsPrefix'
  BY <1>1, <1>2, <1>4, <1>5, <1>6 DEF FileIsPrefix
<1> QED
  BY <1>1, <1>2, <1>3, <1>7 DEF TraceFileInv

\* The recording that writes owns the file and has words left.
LEMMA WriterFacts ==
  ASSUME TraceFileInv, NEW r \in Recordings, pc[r] = "writing"
  PROVE  /\ owner = r /\ owner # NoOne
         /\ encoded \in Encodings(Archives[r])
         /\ encoded \in Seq(Nat) /\ Len(encoded) \in Nat
         /\ pos \in Nat /\ pos < Len(encoded) /\ file = SubSeq(encoded, 1, pos)
         /\ \A q \in Recordings : pc[q] = "writing" => q = r
<1>1. owner = r /\ owner # NoOne /\ \A q \in Recordings : pc[q] = "writing" => q = r
  BY ArchivesAssumption DEF TraceFileInv, WriterOwns
<1>2. /\ encoded \in Encodings(Archives[r]) /\ pos \in 0..Len(encoded)
      /\ file = SubSeq(encoded, 1, pos) /\ pos # Len(encoded)
  BY <1>1 DEF TraceFileInv, FileIsPrefix
<1>3. encoded \in Seq(Nat) /\ Len(encoded) \in Nat
  BY <1>2, EncodingFacts
<1> QED
  BY <1>1, <1>2, <1>3

(* A word written is the next word of the owner's encoding. *)
LEMMA WriteInv ==
  ASSUME TraceFileInv, NEW r \in Recordings, Write(r)
  PROVE  TraceFileInv'
<1>1. /\ pc[r] = "writing"
      /\ file' = Written(file, encoded, pos)
      /\ pos' = pos + 1
      /\ pc' = IF pos + 1 = Len(encoded) THEN [pc EXCEPT ![r] = "saved"] ELSE pc
      /\ encoded' = encoded /\ owner' = owner
  BY DEF Write, Written
<1>2. /\ owner = r /\ owner # NoOne
      /\ encoded \in Encodings(Archives[r])
      /\ encoded \in Seq(Nat) /\ Len(encoded) \in Nat
      /\ pos \in Nat /\ pos < Len(encoded) /\ file = SubSeq(encoded, 1, pos)
      /\ \A q \in Recordings : pc[q] = "writing" => q = r
  BY <1>1, WriterFacts
<1>3. file' = SubSeq(encoded, 1, pos + 1)
  BY <1>1, <1>2, WriteExtends
<1>4. /\ pc' \in [Recordings -> {"idle", "writing", "saved", "killed"}]
      /\ pc'[r] = "saved" <=> pos + 1 = Len(encoded)
      /\ \A q \in Recordings : pc'[q] = "writing" => q = r
  BY <1>1, <1>2 DEF TraceFileInv
<1>5. FileIsPrefix'
  <2>1. pos + 1 \in 0..Len(encoded)
    BY <1>2
  <2>2. encoded' \in Encodings(Archives[owner']) /\ owner' # NoOne
    BY <1>1, <1>2
  <2>3. pc'[owner'] = "saved" <=> pos' = Len(encoded')
    BY <1>1, <1>2, <1>4
  <2> QED
    BY <1>1, <1>3, <2>1, <2>2, <2>3 DEF FileIsPrefix
<1> QED
  BY <1>1, <1>2, <1>4, <1>5 DEF TraceFileInv, WriterOwns

(* A killed recording leaves a proper part of its words. *)
LEMMA KillInv ==
  ASSUME TraceFileInv, NEW r \in Recordings, Kill(r)
  PROVE  TraceFileInv'
<1>1. /\ pc[r] = "writing" /\ pc' = [pc EXCEPT ![r] = "killed"]
      /\ file' = file /\ encoded' = encoded /\ pos' = pos /\ owner' = owner
  BY DEF Kill
<1>2. /\ owner = r /\ owner # NoOne
      /\ encoded \in Encodings(Archives[r])
      /\ encoded \in Seq(Nat) /\ Len(encoded) \in Nat
      /\ pos \in Nat /\ pos < Len(encoded) /\ file = SubSeq(encoded, 1, pos)
      /\ \A q \in Recordings : pc[q] = "writing" => q = r
  BY <1>1, WriterFacts
<1>3. /\ pc' \in [Recordings -> {"idle", "writing", "saved", "killed"}]
      /\ pc'[r] = "killed" /\ \A q \in Recordings : pc'[q] # "writing"
  BY <1>1, <1>2 DEF TraceFileInv
<1>4. FileIsPrefix'
  BY <1>1, <1>2, <1>3 DEF FileIsPrefix
<1> QED
  BY <1>1, <1>2, <1>3, <1>4 DEF TraceFileInv, WriterOwns

(* The owner's words load when they are complete, and a part of them never. *)
LEMMA PrefixLoads == TraceFileInv => LoadableIffSaved
<1> SUFFICES ASSUME TraceFileInv PROVE LoadableIffSaved
  OBVIOUS
<1>1. CASE owner = NoOne
  BY <1>1, CodecAssumption DEF TraceFileInv, FileIsPrefix, LoadableIffSaved
<1>2. CASE owner # NoOne
  <2>1. /\ owner \in Recordings /\ encoded \in Encodings(Archives[owner])
        /\ pos \in 0..Len(encoded) /\ file = SubSeq(encoded, 1, pos)
        /\ pc[owner] = "saved" <=> pos = Len(encoded)
    BY <1>2 DEF TraceFileInv, FileIsPrefix
  <2>2. /\ encoded \in Seq(Nat) /\ Len(encoded) \in Nat
        /\ RoundTrip(encoded, Archives[owner]) /\ NoPartLoads(encoded)
    BY <2>1, EncodingFacts
  <2>3. CASE pos = Len(encoded)
    <3>1. file = encoded
      <4> DEFINE p == SubSeq(encoded, 1, pos)
      <4>1. p \in Seq(Nat) /\ Len(p) = pos /\ \A k \in 1..pos : p[k] = encoded[k]
        BY <2>1, <2>2, PrefixFacts
      <4> HIDE DEF p
      <4>2. p = encoded
        BY <2>2, <2>3, <4>1, SeqEqual
      <4> QED
        BY <2>1, <4>2 DEF p
    <3> QED
      BY <1>2, <2>1, <2>2, <2>3, <3>1 DEF RoundTrip, LoadableIffSaved
  <2>4. CASE pos # Len(encoded)
    <3>1. pos \in 0..(Len(encoded) - 1)
      BY <2>1, <2>2, <2>4
    <3> QED
      BY <2>1, <2>2, <2>4, <3>1 DEF NoPartLoads, LoadableIffSaved
  <2> QED
    BY <2>3, <2>4
<1> QED
  BY <1>1, <1>2

(* TraceFileInv is an invariant. *)
LEMMA TraceFileInvariance == Spec => []TraceFileInv
<1>1. TraceFileInv /\ [Next]_vars => TraceFileInv'
  <2> SUFFICES ASSUME TraceFileInv, [Next]_vars PROVE TraceFileInv'
    OBVIOUS
  <2>1. CASE UNCHANGED vars
    BY <2>1 DEF vars, TraceFileInv, WriterOwns, FileIsPrefix
  <2> QED
    BY <2>1, OpenInv, WriteInv, KillInv DEF Next
<1> QED
  BY <1>1, TraceFileInit, PTL DEF Spec

(* However many recordings go to one trace file, of whatever length and      *)
(* killed wherever, the file can be replayed exactly while the last one to   *)
(* open it has saved, and then yields its archive, for every codec that      *)
(* reads an encoding back and accepts no part of one.                        *)
THEOREM FileLoadsIffSaved == Spec => []LoadableIffSaved
  BY TraceFileInvariance, PrefixLoads, PTL

-----------------------------------------------------------------------------
(* Sorting.  The library's induction theorems cannot be instantiated by the  *)
(* provers, so the two inductions below are on the least counterexample.     *)

(* Every nonempty set of naturals has a least element. *)
LEMMA LeastNat ==
  ASSUME NEW T, T \subseteq Nat, T # {}
  PROVE  \E x \in T : \A y \in T : x <= y
<1>1. PICK x \in T : \A y \in T : ~(<<y, x>> \in OpToRel(<, Nat))
  BY NatLessThanWellFounded, WFMin, Zenon
<1>2. ASSUME NEW y \in T PROVE x <= y
  <2>1. ~(<<y, x>> \in OpToRel(<, Nat))
    BY <1>1, Zenon
  <2>2. x \in Nat /\ y \in Nat
    OBVIOUS
  <2>3. ~(y < x)
    BY <2>1, <2>2 DEF OpToRel
  <2> QED
    BY <2>2, <2>3
<1> QED
  BY <1>2

\* t lists the n elements of S, smallest first.
Lists(t, n, S) ==
  /\ t \in [1..n -> S]
  /\ \A i, j \in 1..n : i < j => t[i] < t[j]
  /\ \A x \in S : \E i \in 1..n : t[i] = x

(* A list of all but the least element is extended to a list of all. *)
LEMMA ListExtends ==
  ASSUME NEW S, S \subseteq Nat, NEW m \in S, \A x \in S : m <= x,
         NEW k \in Nat, NEW t, Lists(t, k, S \ {m})
  PROVE  \E u : Lists(u, k + 1, S)
<1> DEFINE u == [i \in 1..(k + 1) |-> IF i = 1 THEN m ELSE t[i - 1]]
<1>1. /\ t \in [1..k -> S \ {m}]
      /\ \A i, j \in 1..k : i < j => t[i] < t[j]
      /\ \A x \in S \ {m} : \E i \in 1..k : t[i] = x
  BY DEF Lists
<1>2. ASSUME NEW i \in 1..(k + 1), i # 1 PROVE i - 1 \in 1..k /\ u[i] = t[i - 1]
  BY <1>2
<1>3. u[1] = m
  OBVIOUS
<1>4. u \in [1..(k + 1) -> S]
  <2>1. ASSUME NEW i \in 1..(k + 1) PROVE u[i] \in S
    BY <1>1, <1>2, <1>3
  <2> QED
    BY <2>1
<1>5. DOMAIN u = 1..(k + 1)
  OBVIOUS
<1> HIDE DEF u
<1>6. ASSUME NEW i \in 1..(k + 1), NEW j \in 1..(k + 1), i < j PROVE u[i] < u[j]
  <2>1. j # 1 /\ j - 1 \in 1..k /\ u[j] = t[j - 1] /\ t[j - 1] \in S \ {m}
    BY <1>1, <1>2, <1>6
  <2>2. CASE i = 1
    <3>1. u[j] \in Nat /\ m \in Nat /\ m <= u[j] /\ u[j] # m
      BY <2>1
    <3> QED
      BY <1>3, <2>2, <3>1
  <2>3. CASE i # 1
    <3>1. i - 1 \in 1..k /\ u[i] = t[i - 1] /\ i - 1 < j - 1
      BY <1>2, <1>6, <2>3
    <3> QED
      BY <1>1, <2>1, <3>1
  <2> QED
    BY <2>2, <2>3
<1>7. ASSUME NEW x \in S PROVE \E i \in 1..(k + 1) : u[i] = x
  <2>1. CASE x = m
    BY <1>3, <2>1
  <2>2. CASE x # m
    <3>1. PICK i \in 1..k : t[i] = x
      BY <1>1, <2>2
    <3>2. i + 1 \in 1..(k + 1) /\ i + 1 # 1 /\ (i + 1) - 1 = i
      OBVIOUS
    <3>3. u[i + 1] = t[i]
      BY <1>2, <3>2
    <3> QED
      BY <3>1, <3>2, <3>3
  <2> QED
    BY <2>1, <2>2
<1> QED
  BY <1>4, <1>6, <1>7 DEF Lists

(* Every finite set of addresses has such a list. *)
LEMMA ListExists ==
  ASSUME NEW S, S \subseteq Nat, IsFiniteSet(S)
  PROVE  \E t : Lists(t, Cardinality(S), S)
<1> DEFINE Bad == {n \in Nat : \E Q \in SUBSET Nat : /\ IsFiniteSet(Q) /\ Cardinality(Q) = n
                                                 /\ ~\E t : Lists(t, n, Q)}
<1>1. Cardinality(S) \in Nat
  BY FS_CardinalityType
<1>2. SUFFICES ASSUME Bad # {} PROVE FALSE
  BY <1>1
<1>3. PICK n \in Bad : \A k \in Bad : n <= k
  BY <1>2, LeastNat
<1>4. PICK Q \in SUBSET Nat : IsFiniteSet(Q) /\ Cardinality(Q) = n /\ ~\E t : Lists(t, n, Q)
  BY <1>3
<1>5. n \in Nat
  BY <1>3
<1>6. n # 0
  <2> SUFFICES ASSUME n = 0 PROVE FALSE
    OBVIOUS
  <2>1. Q = {}
    BY <1>4, FS_EmptySet
  <2>2. Lists(<<>>, 0, {})
    BY DEF Lists
  <2> QED
    BY <1>4, <2>1, <2>2
<1>7. Q # {}
  BY <1>4, <1>6, FS_EmptySet
<1>8. PICK m \in Q : \A x \in Q : m <= x
  BY <1>7, LeastNat
<1> DEFINE R == Q \ {m}
<1>9. R \in SUBSET Nat /\ IsFiniteSet(R) /\ Cardinality(R) = n - 1
  BY <1>4, FS_RemoveElement
<1>10. n - 1 \in Nat /\ ~(n <= n - 1)
  BY <1>5, <1>6
<1>11. n - 1 \notin Bad
  BY <1>3, <1>10
<1>12. PICK t : Lists(t, n - 1, R)
  BY <1>9, <1>10, <1>11
<1>13. \E u : Lists(u, (n - 1) + 1, Q)
  BY <1>8, <1>10, <1>12, ListExtends
<1>14. (n - 1) + 1 = n
  BY <1>5
<1> QED
  BY <1>4, <1>13, <1>14

(* ... and only one. *)
LEMMA ListUnique ==
  ASSUME NEW S, S \subseteq Nat, NEW n \in Nat, NEW t, NEW u, Lists(t, n, S), Lists(u, n, S)
  PROVE  t = u
<1> DEFINE Bad == {k \in 1..n : t[k] # u[k]}
<1>1. /\ t \in [1..n -> S] /\ u \in [1..n -> S]
      /\ \A i, j \in 1..n : i < j => t[i] < t[j] /\ u[i] < u[j]
      /\ \A x \in S : (\E i \in 1..n : t[i] = x) /\ (\E i \in 1..n : u[i] = x)
  BY DEF Lists
<1>2. ASSUME Bad # {} PROVE FALSE
  <2>1. PICK k \in Bad : \A j \in Bad : k <= j
    <3>1. Bad \subseteq Nat
      OBVIOUS
    <3> QED
      BY <1>2, <3>1, LeastNat
  <2>2. /\ k \in 1..n /\ t[k] # u[k] /\ t[k] \in Nat /\ u[k] \in Nat
        /\ t[k] \in S /\ u[k] \in S
    BY <1>1, <2>1
  <2>3. ASSUME NEW j \in 1..n, j < k PROVE t[j] = u[j]
    BY <2>1, <2>2, <2>3
  <2>4. CASE t[k] < u[k]
    <3>1. PICK j \in 1..n : u[j] = t[k]
      BY <1>1, <2>2
    <3>2. CASE j < k
      BY <1>1, <2>2, <2>3, <3>1, <3>2
    <3>3. CASE j = k
      BY <2>2, <3>1, <3>3
    <3>4. CASE j > k
      BY <1>1, <2>2, <2>4, <3>1, <3>4
    <3> QED
      BY <2>2, <3>2, <3>3, <3>4
  <2>5. CASE u[k] < t[k]
    <3>1. PICK j \in 1..n : t[j] = u[k]
      BY <1>1, <2>2
    <3>2. CASE j < k
      BY <1>1, <2>2, <2>3, <3>1, <3>2
    <3>3. CASE j = k
      BY <2>2, <3>1, <3>3
    <3>4. CASE j > k
      BY <1>1, <2>2, <2>5, <3>1, <3>4
    <3> QED
      BY <2>2, <3>2, <3>3, <3>4
  <2> QED
    BY <2>2, <2>4, <2>5
<1>3. \A k \in 1..n : t[k] = u[k]
  BY <1>2
<1> QED
  BY <1>1, <1>3

(* An order of the HashMap is a bijection. *)
LEMMA OrderFacts ==
  ASSUME NEW S, IsFiniteSet(S), NEW s \in SetToSeqs(S), NEW n, n = Cardinality(S)
  PROVE  /\ n \in Nat /\ s \in [1..n -> S] /\ DOMAIN s = 1..n
         /\ \A i, j \in 1..n : s[i] = s[j] => i = j
         /\ \A x \in S : \E i \in 1..n : s[i] = x
<1>1. n \in Nat
  BY FS_CardinalityType
<1>2. s \in [1..n -> S] /\ \A i, j \in 1..n : i # j => s[i] # s[j]
  BY DEF SetToSeqs
<1>3. s \in Injection(1..n, S)
  BY <1>2 DEF Injection, IsInjective
<1>4. Cardinality(1..n) = n
  BY <1>1, FS_Interval
<1>5. s \in Surjection(1..n, S)
  BY <1>3, <1>4, FS_Injection
<1>6. \A x \in S : \E i \in 1..n : s[i] = x
  BY <1>5 DEF Surjection
<1> QED
  BY <1>1, <1>2, <1>6

(* sort_unstable lists the addresses, whatever their order was. *)
LEMMA SortLists ==
  ASSUME NEW S, S \subseteq Nat, IsFiniteSet(S), NEW s \in SetToSeqs(S)
  PROVE  Lists(sort_unstable(s), Cardinality(S), S)
<1> DEFINE n == Cardinality(S)
<1>1. /\ n \in Nat /\ s \in [1..n -> S] /\ DOMAIN s = 1..n
      /\ \A i, j \in 1..n : s[i] = s[j] => i = j
      /\ \A x \in S : \E i \in 1..n : s[i] = x
  BY OrderFacts
<1>2. PICK t : Lists(t, n, S)
  BY ListExists
<1> HIDE DEF n
<1>3. /\ t \in [1..n -> S]
      /\ \A i, j \in 1..n : i < j => t[i] < t[j]
      /\ \A x \in S : \E i \in 1..n : t[i] = x
  BY <1>2 DEF Lists
<1>4. t \in Rearranged(s) /\ Ascending(t)
  <2> DEFINE p == [i \in 1..n |-> CHOOSE j \in 1..n : s[j] = t[i]]
  <2>1. \A i \in 1..n : p[i] \in 1..n /\ s[p[i]] = t[i]
    BY <1>1, <1>3
  <2>2. p \in [1..n -> 1..n]
    BY <2>1
  <2> HIDE DEF p
  <2>3. ASSUME NEW i \in 1..n, NEW j \in 1..n, p[i] = p[j] PROVE i = j
    <3>1. t[i] = t[j] /\ t[i] \in Nat /\ t[j] \in Nat
      BY <1>3, <2>1, <2>3
    <3>2. ~(i < j) /\ ~(j < i)
      BY <1>3, <3>1
    <3> QED
      BY <1>1, <3>2
  <2>4. ASSUME NEW j \in 1..n PROVE \E i \in 1..n : p[i] = j
    <3>1. s[j] \in S
      BY <1>1
    <3>2. PICK i \in 1..n : t[i] = s[j]
      BY <1>3, <3>1
    <3>3. p[i] \in 1..n /\ s[p[i]] = s[j]
      BY <2>1, <3>2
    <3>4. p[i] = j
      BY <1>1, <3>3
    <3> QED
      BY <3>4
  <2>5. p \in Bijection(1..n, 1..n)
    BY <2>2, <2>3, <2>4 DEF Bijection, Injection, Surjection, IsInjective
  <2>6. t = [i \in DOMAIN s |-> s[p[i]]]
    BY <1>1, <1>3, <2>1
  <2>7. t \in Rearranged(s)
    BY <1>1, <2>5, <2>6 DEF Rearranged
  <2>8. ASSUME NEW i \in 1..n, NEW j \in 1..n, i < j PROVE t[i] <= t[j]
    <3>1. t[i] < t[j] /\ t[i] \in Nat /\ t[j] \in Nat
      BY <1>3, <2>8
    <3> QED
      BY <3>1
  <2>9. DOMAIN t = 1..n
    BY <1>3
  <2> QED
    BY <2>7, <2>8, <2>9 DEF Ascending
<1> DEFINE r == sort_unstable(s)
<1>5. r \in Rearranged(s) /\ Ascending(r)
  BY <1>4 DEF sort_unstable
<1> HIDE DEF r
<1>6. PICK p \in Bijection(1..n, 1..n) : r = [i \in 1..n |-> s[p[i]]]
  BY <1>1, <1>5 DEF Rearranged
<1>7. /\ p \in [1..n -> 1..n] /\ \A i, j \in 1..n : p[i] = p[j] => i = j
      /\ \A j \in 1..n : \E i \in 1..n : p[i] = j
  BY <1>6 DEF Bijection, Injection, Surjection, IsInjective
<1>8. DOMAIN r = 1..n /\ \A i \in 1..n : r[i] = s[p[i]] /\ p[i] \in 1..n /\ r[i] \in S
  BY <1>1, <1>6, <1>7
<1>9. r \in [1..n -> S]
  BY <1>6, <1>8
<1>10. ASSUME NEW i \in 1..n, NEW j \in 1..n, i < j PROVE r[i] < r[j]
  <2>1. r[i] <= r[j]
    BY <1>5, <1>8, <1>10 DEF Ascending
  <2>2. i # j
    BY <1>1, <1>10
  <2>3. p[i] # p[j]
    BY <1>7, <2>2
  <2>4. r[i] # r[j] /\ r[i] \in Nat /\ r[j] \in Nat
    <3>1. /\ r[i] = s[p[i]] /\ r[j] = s[p[j]] /\ p[i] \in 1..n /\ p[j] \in 1..n
          /\ r[i] \in S /\ r[j] \in S
      BY <1>8
    <3>2. s[p[i]] # s[p[j]]
      BY <1>1, <2>3, <3>1
    <3> QED
      BY <3>1, <3>2
  <2> QED
    BY <2>1, <2>4
<1>11. ASSUME NEW x \in S PROVE \E i \in 1..n : r[i] = x
  <2>1. PICK j \in 1..n : s[j] = x
    BY <1>1
  <2>2. PICK i \in 1..n : p[i] = j
    BY <1>7
  <2> QED
    BY <1>8, <2>1, <2>2
<1>12. Lists(r, n, S)
  BY <1>9, <1>10, <1>11 DEF Lists
<1> QED
  BY <1>12 DEF r, n

(* Two orders of the same HashMap are sorted to the same sequence, so the    *)
(* hasher is fed the same words.                                             *)
LEMMA HashIgnoresOrder ==
  ASSUME NEW a, DOMAIN a.memory_regions \subseteq Nat, IsFiniteSet(DOMAIN a.memory_regions),
         NEW mine \in Orders(a), NEW theirs \in Orders(a)
  PROVE  hash_state(a, mine) = hash_state(a, theirs)
<1> DEFINE S == DOMAIN a.memory_regions
<1>1. Cardinality(S) \in Nat
  BY FS_CardinalityType
<1>2. mine \in SetToSeqs(S) /\ theirs \in SetToSeqs(S)
  BY DEF Orders
<1> HIDE DEF S
<1>3. S \subseteq Nat /\ IsFiniteSet(S)
  BY DEF S
<1>4. Lists(sort_unstable(mine), Cardinality(S), S) /\ Lists(sort_unstable(theirs), Cardinality(S), S)
  BY <1>2, <1>3, SortLists
<1>5. sort_unstable(mine) = sort_unstable(theirs)
  BY <1>1, <1>3, <1>4, ListUnique
<1> QED
  BY <1>5 DEF hash_state

(* A replay computes the hash of a loaded snapshot as the recording would,   *)
(* for every set of regions and every order of the two HashMaps.             *)
THEOREM HashSurvives == Spec => []HashSurvivesTheFile
<1>1. TraceFileInv /\ LoadableIffSaved => HashSurvivesTheFile
  <2> SUFFICES ASSUME TraceFileInv, LoadableIffSaved, Load(file).ok,
                      NEW mine \in Orders(Load(file).val),
                      NEW theirs \in Orders(Archives[owner])
               PROVE  hash_state(Load(file).val, mine) = hash_state(Archives[owner], theirs)
    BY DEF HashSurvivesTheFile
  <2>1. owner # NoOne /\ Load(file).val = Archives[owner]
    BY DEF LoadableIffSaved
  <2>2. owner \in Recordings
    BY <2>1 DEF TraceFileInv
  <2>3. /\ DOMAIN Archives[owner].memory_regions \subseteq Nat
        /\ IsFiniteSet(DOMAIN Archives[owner].memory_regions)
    BY <2>2, ArchivesAssumption
  <2>4. mine \in Orders(Archives[owner])
    BY <2>1
  <2> QED
    BY <2>1, <2>3, <2>4, HashIgnoresOrder
<1> QED
  BY <1>1, TraceFileInvariance, FileLoadsIffSaved, PTL
=============================================================================
