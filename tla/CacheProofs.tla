---------------------------- MODULE CacheProofs ----------------------------
(***************************************************************************)
(* Theorems about Cache and about the ResourceCache on top of it, for any  *)
(* keys, values, sizes, widths and Pointers.                               *)
(*                                                                         *)
(* The first part is about the list: what access(), remove() and insert()  *)
(* do to the sequence of entries that the pointers hold together, and to   *)
(* the sum of the sizes of those entries.  The sequence is never a         *)
(* variable of the specification: the proofs carry it along as a witness.  *)
(***************************************************************************)
EXTENDS ResourceCache, FiniteSetTheorems, SequenceTheorems, WellFoundedInduction, TLAPS

\* The n entries in s are those of the map, and the list in that order.
Chain(n, s) ==
    /\ s \in [1..n -> entries]
    /\ \A k \in entries : \E i \in 1..n : s[i] = k
    /\ IsList(n, s)

\* s without its m-th element.
Removed(n, s, m) == [i \in 1..(n - 1) |-> IF i < m THEN s[i] ELSE s[i + 1]]

\* What unlinking k does to every pointer outside k, in one case each.
LEMMA ErasePointers ==
  ASSUME TypeOK, NEW k \in Key, Erase(k)
  PROVE  /\ \A x \in Key \ {k} : next'[x] = IF x = prev[k] THEN next[k] ELSE next[x]
         /\ \A x \in Key \ {k} : prev'[x] = IF x = next[k] THEN prev[k] ELSE prev[x]
<1>1. ASSUME NEW x \in Key \ {k}
      PROVE next'[x] = IF x = prev[k] THEN next[k] ELSE next[x]
  BY <1>1, NullAssumption DEF Erase, NextWithout, TypeOK, KeyOrNull
<1>2. ASSUME NEW x \in Key \ {k}
      PROVE prev'[x] = IF x = next[k] THEN prev[k] ELSE prev[x]
  BY <1>2, NullAssumption DEF Erase, PrevWithout, TypeOK, KeyOrNull
<1> QED  BY <1>1, <1>2

\* remove(Entry&) takes exactly its entry out of the list.
LEMMA EraseList ==
  ASSUME TypeOK, NEW n \in Nat, NEW s, Chain(n, s), NEW m \in 1..n, Erase(s[m])
  PROVE  Chain(n - 1, Removed(n, s, m))'
<1> DEFINE k == s[m]
           r == Removed(n, s, m)
<1>0. n # 0
  OBVIOUS
<1>1. /\ s \in [1..n -> entries]
      /\ \A x \in entries : \E i \in 1..n : s[i] = x
      /\ \A i, j \in 1..n : s[i] = s[j] => i = j
      /\ first = s[1] /\ last = s[n]
      /\ \A i \in 1..n : /\ next[s[i]] = IF i = n THEN NULL ELSE s[i + 1]
                         /\ prev[s[i]] = IF i = 1 THEN NULL ELSE s[i - 1]
  BY <1>0, Zenon DEF Chain, IsList
<1>2. k \in entries /\ k \in Key /\ entries \subseteq Key /\ k # NULL
  BY <1>1, NullAssumption DEF TypeOK
<1>3. entries' = entries \ {k}
  BY DEF Erase
<1>4. /\ \A x \in Key \ {k} : next'[x] = IF x = prev[k] THEN next[k] ELSE next[x]
      /\ \A x \in Key \ {k} : prev'[x] = IF x = next[k] THEN prev[k] ELSE prev[x]
  BY <1>2, ErasePointers
<1>5. \A i \in 1..(n - 1) : r[i] = IF i < m THEN s[i] ELSE s[i + 1]
  BY DEF Removed
<1>6. r \in [1..(n - 1) -> entries']
  <2>1. ASSUME NEW i \in 1..(n - 1) PROVE r[i] \in entries /\ r[i] # k
    <3>1. CASE i < m
      <4>1. i \in 1..n /\ i # m /\ r[i] = s[i]
        BY <3>1, <1>5
      <4> QED  BY <4>1, <1>1
    <3>2. CASE ~(i < m)
      <4>1. i + 1 \in 1..n /\ i + 1 # m /\ r[i] = s[i + 1]
        BY <3>2, <1>5
      <4> QED  BY <4>1, <1>1
    <3> QED  BY <3>1, <3>2
  <2> QED  BY <2>1, <1>3 DEF Removed
<1>7. \A x \in entries' : \E i \in 1..(n - 1) : r[i] = x
  <2> TAKE x \in entries'
  <2>1. PICK i \in 1..n : s[i] = x /\ i # m
    BY <1>1, <1>3
  <2>2. CASE i < m
    BY <2>1, <2>2, <1>5
  <2>3. CASE i > m
    <3>1. i - 1 \in 1..(n - 1) /\ r[i - 1] = x
      BY <2>1, <2>3, <1>5
    <3> QED  BY <3>1
  <2> QED  BY <2>1, <2>2, <2>3
<1>8. \A i, j \in 1..(n - 1) : r[i] = r[j] => i = j
  <2> DEFINE at(i) == IF i < m THEN i ELSE i + 1
  <2>1. \A i \in 1..(n - 1) : at(i) \in 1..n /\ r[i] = s[at(i)]
    BY <1>5
  <2>2. \A i, j \in 1..(n - 1) : at(i) = at(j) => i = j
    OBVIOUS
  <2> HIDE DEF at
  <2> QED  BY <2>1, <2>2, <1>1
<1> HIDE DEF r
<1>9. first' = IF n - 1 = 0 THEN NULL ELSE r[1]
  <2>1. first' = IF m = 1 THEN next[k] ELSE s[1]
    BY <1>1 DEF Erase
  <2> QED  BY <2>1, <1>1, <1>5
<1>10. last' = IF n - 1 = 0 THEN NULL ELSE r[n - 1]
  <2>1. last' = IF m = n THEN prev[k] ELSE s[n]
    BY <1>1 DEF Erase
  <2> QED  BY <2>1, <1>1, <1>5
<1>11. \A i \in 1..(n - 1) : next'[r[i]] = IF i = n - 1 THEN NULL ELSE r[i + 1]
  <2> TAKE i \in 1..(n - 1)
  <2>1. r[i] \in Key \ {k}
    BY <1>6, <1>3, <1>2
  <2>2. prev[k] = IF m = 1 THEN NULL ELSE s[m - 1]
    BY <1>1
  <2>3. next[k] = IF m = n THEN NULL ELSE s[m + 1]
    BY <1>1
  <2>4. CASE i < m - 1
    <3>1. r[i] = s[i] /\ r[i + 1] = s[i + 1] /\ r[i] # prev[k]
      BY <2>4, <1>5, <2>2, <1>1
    <3>2. next'[r[i]] = next[s[i]]
      BY <3>1, <2>1, <1>4
    <3>3. i \in 1..n /\ i # n /\ i # n - 1
      BY <2>4
    <3> QED  BY <3>1, <3>2, <3>3, <1>1
  <2>5. CASE i = m - 1
    <3>1. r[i] = s[i] /\ r[i] = prev[k]
      BY <2>5, <1>5, <2>2
    <3>2. next'[r[i]] = next[k]
      BY <3>1, <2>1, <1>4
    <3> QED  BY <3>2, <2>3, <2>5, <1>5
  <2>6. CASE i >= m
    <3>1. r[i] = s[i + 1] /\ r[i] # prev[k]
      BY <2>6, <1>5, <2>2, <1>1, NullAssumption, <2>1
    <3>2. next'[r[i]] = next[s[i + 1]]
      BY <3>1, <2>1, <1>4
    <3>3. next[s[i + 1]] = IF i + 1 = n THEN NULL ELSE s[i + 2]
      <4>1. i + 1 \in 1..n /\ (i + 1) + 1 = i + 2
        OBVIOUS
      <4> QED  BY <4>1, <1>1
    <3> QED  BY <3>2, <3>3, <2>6, <1>5
  <2> QED  BY <2>4, <2>5, <2>6
<1>12. \A i \in 1..(n - 1) : prev'[r[i]] = IF i = 1 THEN NULL ELSE r[i - 1]
  <2> TAKE i \in 1..(n - 1)
  <2>1. r[i] \in Key \ {k}
    BY <1>6, <1>3, <1>2
  <2>2. prev[k] = IF m = 1 THEN NULL ELSE s[m - 1]
    BY <1>1
  <2>3. next[k] = IF m = n THEN NULL ELSE s[m + 1]
    BY <1>1
  <2>4. CASE i < m
    <3>1. r[i] = s[i] /\ r[i] # next[k]
      <4>1. r[i] = s[i]
        BY <2>4, <1>5
      <4>2. CASE m = n
        <5>1. next[k] = NULL
          BY <4>2, <2>3
        <5> QED  BY <5>1, <4>1, <2>1, NullAssumption
      <4>3. CASE m # n
        <5>1. i \in 1..n /\ m + 1 \in 1..n /\ i # m + 1
          BY <4>3, <2>4
        <5>2. s[i] # s[m + 1]
          BY <5>1, <1>1
        <5> QED  BY <5>2, <4>1, <4>3, <2>3
      <4> QED  BY <4>2, <4>3, <4>1
    <3>2. prev'[r[i]] = prev[s[i]]
      BY <3>1, <2>1, <1>4
    <3>3. prev[s[i]] = IF i = 1 THEN NULL ELSE s[i - 1]
      <4>1. i \in 1..n
        OBVIOUS
      <4> QED  BY <4>1, <1>1
    <3>4. CASE i = 1
      BY <3>2, <3>3, <3>4
    <3>5. CASE i # 1
      <4>1. i - 1 \in 1..(n - 1) /\ i - 1 < m
        BY <3>5, <2>4
      <4>2. r[i - 1] = s[i - 1]
        BY <4>1, <1>5
      <4> QED  BY <3>2, <3>3, <3>5, <4>2
    <3> QED  BY <3>4, <3>5
  <2>5. CASE i = m
    <3>1. r[i] = next[k]
      BY <2>5, <1>5, <2>3
    <3>2. prev'[r[i]] = prev[k]
      BY <3>1, <2>1, <1>4
    <3>3. CASE i = 1
      BY <3>2, <3>3, <2>2, <2>5
    <3>4. CASE i # 1
      <4>1. i - 1 \in 1..(n - 1) /\ i - 1 < m
        BY <3>4, <2>5
      <4>2. r[i - 1] = s[i - 1]
        BY <4>1, <1>5
      <4> QED  BY <3>2, <3>4, <4>2, <2>2, <2>5
    <3> QED  BY <3>3, <3>4
  <2>6. CASE i > m
    <3>0. i + 1 \in 1..n /\ i - 1 \in 1..(n - 1) /\ i + 1 # m + 1 /\ m + 1 \in 1..n
      BY <2>6
    <3>1. r[i] = s[i + 1] /\ r[i] # next[k] /\ r[i - 1] = s[i]
      <4>1. r[i] = s[i + 1] /\ r[i - 1] = s[i]
        BY <2>6, <3>0, <1>5
      <4>2. next[k] = s[m + 1]
        BY <2>6, <2>3
      <4> QED  BY <4>1, <4>2, <3>0, <1>1
    <3>2. prev'[r[i]] = prev[s[i + 1]]
      BY <3>1, <2>1, <1>4
    <3>3. prev[s[i + 1]] = s[i]
      <4>1. i + 1 # 1 /\ (i + 1) - 1 = i
        OBVIOUS
      <4> QED  BY <3>0, <4>1, <1>1
    <3> QED  BY <3>1, <3>2, <3>3, <2>6
  <2> QED  BY <2>4, <2>5, <2>6
<1> QED  BY <1>6, <1>7, <1>8, <1>9, <1>10, <1>11, <1>12 DEF Chain, IsList, r

\* s with its m-th element moved to the front.
Fronted(n, s, m) == [i \in 1..n |-> IF i = 1 THEN s[m] ELSE IF i <= m THEN s[i - 1] ELSE s[i]]

\* What access() does to every pointer when it moves k to the front.
LEMMA MovePointers ==
  ASSUME TypeOK, NEW k \in Key, k # first, first \in Key, MoveToFront(k)
  PROVE  /\ next'[k] = first /\ prev'[k] = NULL /\ prev'[first] = k
         /\ \A x \in Key \ {k} : next'[x] = IF x = prev[k] THEN next[k] ELSE next[x]
         /\ \A x \in Key \ {k, first} :
               prev'[x] = IF x = next[k] THEN prev[k] ELSE prev[x]
<1>0. /\ NextWithout(k) \in [Key -> KeyOrNull] /\ PrevWithout(k) \in [Key -> KeyOrNull]
  BY DEF NextWithout, PrevWithout, TypeOK, KeyOrNull
<1>1. next'[k] = first /\ prev'[k] = NULL /\ prev'[first] = k
  BY <1>0 DEF MoveToFront
<1>2. ASSUME NEW x \in Key \ {k}
      PROVE next'[x] = IF x = prev[k] THEN next[k] ELSE next[x]
  <2>1. next'[x] = NextWithout(k)[x]
    BY <1>0, <1>2 DEF MoveToFront
  <2> QED  BY <2>1, <1>2, NullAssumption DEF NextWithout, TypeOK, KeyOrNull
<1>3. ASSUME NEW x \in Key \ {k, first}
      PROVE prev'[x] = IF x = next[k] THEN prev[k] ELSE prev[x]
  <2>1. prev'[x] = PrevWithout(k)[x]
    BY <1>0, <1>3 DEF MoveToFront
  <2> QED  BY <2>1, <1>3, NullAssumption DEF PrevWithout, TypeOK, KeyOrNull
<1> QED  BY <1>1, <1>2, <1>3

\* access() moves its entry to the front and keeps the order of the others.
LEMMA MoveList ==
  ASSUME TypeOK, NEW n \in Nat, NEW s, Chain(n, s), NEW m \in 2..n,
         MoveToFront(s[m]), entries' = entries
  PROVE  Chain(n, Fronted(n, s, m))'
<1> DEFINE k == s[m]
           r == Fronted(n, s, m)
<1>0. n # 0
  OBVIOUS
<1>1. /\ s \in [1..n -> entries]
      /\ \A x \in entries : \E i \in 1..n : s[i] = x
      /\ \A i, j \in 1..n : s[i] = s[j] => i = j
      /\ first = s[1] /\ last = s[n]
      /\ \A i \in 1..n : /\ next[s[i]] = IF i = n THEN NULL ELSE s[i + 1]
                         /\ prev[s[i]] = IF i = 1 THEN NULL ELSE s[i - 1]
  BY <1>0, Zenon DEF Chain, IsList
<1>m. 1 \in 1..n /\ n \in 1..n /\ m \in 1..n /\ m - 1 \in 1..n /\ m # 1
  OBVIOUS
<1>2. k \in entries /\ k \in Key /\ entries \subseteq Key /\ k # NULL /\ first \in Key /\ k # first
  BY <1>1, <1>m, NullAssumption DEF TypeOK
<1>3. /\ next'[k] = first /\ prev'[k] = NULL /\ prev'[first] = k
      /\ \A x \in Key \ {k} : next'[x] = IF x = prev[k] THEN next[k] ELSE next[x]
      /\ \A x \in Key \ {k, first} :
            prev'[x] = IF x = next[k] THEN prev[k] ELSE prev[x]
  BY <1>2, MovePointers
<1>4. prev[k] = s[m - 1] /\ next[k] = IF m = n THEN NULL ELSE s[m + 1]
  BY <1>1, <1>m
<1> DEFINE at(i) == IF i = 1 THEN m ELSE IF i <= m THEN i - 1 ELSE i
<1>5. \A i \in 1..n : r[i] = s[at(i)] /\ at(i) \in 1..n
  BY <1>m DEF Fronted
<1>6. \A i, j \in 1..n : at(i) = at(j) => i = j
  OBVIOUS
<1>7. \A j \in 1..n : \E i \in 1..n : at(i) = j
  <2> TAKE j \in 1..n
  <2>1. CASE j = m
    BY <2>1, <1>m
  <2>2. CASE j < m
    <3>1. j + 1 \in 1..n /\ at(j + 1) = j
      BY <2>2
    <3> QED  BY <3>1
  <2>3. CASE j > m
    <3>1. at(j) = j
      BY <2>3
    <3> QED  BY <3>1
  <2> QED  BY <2>1, <2>2, <2>3
<1>8. r \in [1..n -> entries']
  BY <1>5, <1>1 DEF Fronted
<1> HIDE DEF r
<1>9. \A i, j \in 1..n : r[i] = r[j] => i = j
  <2> HIDE DEF at
  <2> QED  BY <1>1, <1>5, <1>6
<1>10. \A x \in entries' : \E i \in 1..n : r[i] = x
  <2> HIDE DEF at
  <2> TAKE x \in entries'
  <2>1. PICK j \in 1..n : s[j] = x
    BY <1>1
  <2>2. PICK i \in 1..n : at(i) = j
    BY <1>7
  <2> QED  BY <2>1, <2>2, <1>5
<1>11. first' = r[1]
  BY <1>2, <1>5, <1>m DEF MoveToFront
<1>12. last' = r[n]
  <2>1. last' = IF k = last THEN prev[k] ELSE last
    BY <1>2 DEF MoveToFront
  <2>2. CASE m = n
    <3>1. at(n) = m - 1
      BY <2>2, <1>m
    <3> HIDE DEF at
    <3>2. r[n] = s[m - 1] /\ k = last
      BY <3>1, <2>2, <1>5, <1>m, <1>1
    <3> QED  BY <3>2, <2>1, <1>4
  <2>3. CASE m # n
    <3>1. at(n) = n
      BY <2>3, <1>m
    <3> HIDE DEF at
    <3>2. r[n] = s[n] /\ k # last
      BY <3>1, <2>3, <1>5, <1>m, <1>1
    <3> QED  BY <3>2, <2>1, <1>1
  <2> QED  BY <2>2, <2>3
<1>13. \A i \in 1..n : next'[r[i]] = IF i = n THEN NULL ELSE r[i + 1]
  <2> TAKE i \in 1..n
  <2>1. CASE i = 1
    <3>1. r[i] = k /\ 2 \in 1..n /\ r[2] = s[1]
      BY <2>1, <1>5, <1>m
    <3> QED  BY <3>1, <2>1, <1>3, <1>1, <1>m
  <2>2. CASE 1 < i /\ i < m
    <3>1. /\ i - 1 \in 1..n /\ i + 1 \in 1..n /\ i - 1 # m /\ i - 1 # m - 1 /\ i # n
          /\ i - 1 # n
      BY <2>2
    <3>2. r[i] = s[i - 1] /\ r[i + 1] = s[i]
      BY <2>2, <3>1, <1>5
    <3>3. r[i] \in Key \ {k} /\ r[i] # prev[k]
      BY <3>1, <3>2, <1>1, <1>2, <1>4, <1>m
    <3>4. next[s[i - 1]] = s[i]
      BY <3>1, <1>1
    <3> QED  BY <3>1, <3>2, <3>3, <3>4, <1>3
  <2>3. CASE i = m
    <3>1. r[i] = s[m - 1]
      BY <2>3, <1>5, <1>m
    <3>2. r[i] \in Key \ {k}
      BY <3>1, <1>1, <1>2, <1>m
    <3>3. next'[r[i]] = next[k]
      BY <3>1, <3>2, <1>3, <1>4
    <3>4. CASE m = n
      BY <3>3, <3>4, <2>3, <1>4
    <3>5. CASE m # n
      <4>1. m + 1 \in 1..n /\ r[m + 1] = s[m + 1]
        BY <3>5, <1>5
      <4> QED  BY <4>1, <3>3, <3>5, <2>3, <1>4
    <3> QED  BY <3>4, <3>5
  <2>4. CASE i > m
    <3>1. r[i] = s[i] /\ i # m /\ i # m - 1
      BY <2>4, <1>5
    <3>2. r[i] \in Key \ {k} /\ r[i] # prev[k]
      BY <3>1, <1>1, <1>2, <1>4, <1>m
    <3>3. next'[r[i]] = IF i = n THEN NULL ELSE s[i + 1]
      BY <3>1, <3>2, <1>3, <1>1
    <3>4. i # n => i + 1 \in 1..n /\ r[i + 1] = s[i + 1]
      BY <2>4, <1>5
    <3> QED  BY <3>3, <3>4
  <2> QED  BY <2>1, <2>2, <2>3, <2>4
<1>14. \A i \in 1..n : prev'[r[i]] = IF i = 1 THEN NULL ELSE r[i - 1]
  <2> TAKE i \in 1..n
  <2>1. CASE i = 1
    BY <2>1, <1>3, <1>5, <1>m
  <2>2. CASE i = 2
    <3>1. r[i] = s[1] /\ r[i - 1] = k
      BY <2>2, <1>5, <1>m
    <3> QED  BY <3>1, <2>2, <1>3, <1>1
  <2>3. CASE 2 < i /\ i <= m
    <3>1. /\ i - 1 \in 1..n /\ i - 2 \in 1..n /\ i - 1 # m /\ i - 1 # m + 1
          /\ i - 1 # 1 /\ (i - 1) - 1 = i - 2
      BY <2>3
    <3>2. r[i] = s[i - 1] /\ r[i - 1] = s[i - 2]
      BY <2>3, <3>1, <1>5
    <3>3. r[i] \in Key \ {k, first}
      <4>1. s[i - 1] # s[m] /\ s[i - 1] # s[1]
        BY <3>1, <1>1, <1>m
      <4>2. s[i - 1] \in entries
        BY <3>1, <1>1
      <4> QED  BY <4>1, <4>2, <3>2, <1>1, <1>2
    <3>4. r[i] # next[k]
      <4>1. CASE m = n
        BY <4>1, <1>4, <3>3, NullAssumption
      <4>2. CASE m # n
        <5>1. m + 1 \in 1..n /\ next[k] = s[m + 1]
          BY <4>2, <1>4
        <5> QED  BY <5>1, <3>1, <3>2, <1>1
      <4> QED  BY <4>1, <4>2
    <3>5. prev[s[i - 1]] = s[i - 2]
      <4>1. prev[s[i - 1]] = IF i - 1 = 1 THEN NULL ELSE s[(i - 1) - 1]
        BY <3>1, <1>1
      <4> QED  BY <4>1, <3>1
    <3> QED  BY <3>2, <3>3, <3>4, <3>5, <1>3, <2>3
  <2>4. CASE i = m + 1
    <3>1. r[i] = s[m + 1] /\ r[i - 1] = s[m - 1] /\ m # n /\ i # 1 /\ i # m
      BY <2>4, <1>5, <1>m
    <3>2. r[i] \in Key \ {k, first}
      BY <2>4, <3>1, <1>1, <1>2, <1>m
    <3> QED  BY <3>1, <3>2, <1>3, <1>4
  <2>5. CASE i > m + 1
    <3>1. i - 1 \in 1..n /\ m + 1 \in 1..n /\ m # n /\ i # m /\ i # 1 /\ i # m + 1
      BY <2>5
    <3>2. r[i] = s[i] /\ r[i - 1] = s[i - 1]
      BY <2>5, <3>1, <1>5
    <3>3. r[i] \in Key \ {k, first} /\ r[i] # next[k]
      BY <3>1, <3>2, <1>1, <1>2, <1>4, <1>m
    <3>4. prev'[r[i]] = prev[s[i]]
      BY <3>2, <3>3, <1>3
    <3>5. prev[s[i]] = s[i - 1]
      BY <3>1, <1>1
    <3> QED  BY <3>1, <3>2, <3>4, <3>5
  <2>6. i = 1 \/ i = 2 \/ (2 < i /\ i <= m) \/ i = m + 1 \/ i > m + 1
    BY <1>m
  <2> HIDE DEF k, at
  <2> QED  BY <2>1, <2>2, <2>3, <2>4, <2>5, <2>6
<1>15. n # 0
  BY <1>m
<1>16. Chain(n, r)'
  <2> HIDE DEF k, at
  <2> QED  BY <1>8, <1>9, <1>10, <1>11, <1>12, <1>13, <1>14, <1>15 DEF Chain, IsList
<1> QED  BY <1>16 DEF r

\* s with k put before it.
Pushed(n, s, k) == [i \in 1..(n + 1) |-> IF i = 1 THEN k ELSE s[i - 1]]

\* insert() of a new key puts its entry at the front.
LEMMA LinkList ==
  ASSUME TypeOK, NEW n \in Nat, NEW s, Chain(n, s), NEW k \in Key \ entries,
         prev[k] = NULL, next[k] = NULL,
         NEW v, NEW size, NEW lock, Link(k, v, size, lock)
  PROVE  Chain(n + 1, Pushed(n, s, k))'
<1> DEFINE r == Pushed(n, s, k)
<1>1. /\ s \in [1..n -> entries]
      /\ \A x \in entries : \E i \in 1..n : s[i] = x
      /\ \A i, j \in 1..n : s[i] = s[j] => i = j
      /\ first = (IF n = 0 THEN NULL ELSE s[1])
      /\ last  = (IF n = 0 THEN NULL ELSE s[n])
      /\ \A i \in 1..n : /\ next[s[i]] = IF i = n THEN NULL ELSE s[i + 1]
                         /\ prev[s[i]] = IF i = 1 THEN NULL ELSE s[i - 1]
  BY DEF Chain, IsList
<1>2. entries' = entries \cup {k} /\ entries \subseteq Key /\ k \notin entries
  BY DEF Link, TypeOK
<1>3. \A i \in 1..(n + 1) : r[i] = IF i = 1 THEN k ELSE s[i - 1]
  BY DEF Pushed
<1>4. r \in [1..(n + 1) -> entries']
  <2>1. \A i \in 1..(n + 1) : i = 1 \/ i - 1 \in 1..n
    OBVIOUS
  <2> QED  BY <2>1, <1>1, <1>2 DEF Pushed
<1>5. \A x \in entries' : \E i \in 1..(n + 1) : r[i] = x
  <2> TAKE x \in entries'
  <2>1. CASE x = k
    BY <2>1, <1>3
  <2>2. CASE x # k
    <3>1. PICK i \in 1..n : s[i] = x
      BY <2>2, <1>1, <1>2
    <3>2. i + 1 \in 1..(n + 1) /\ r[i + 1] = x
      BY <3>1, <1>3
    <3> QED  BY <3>2
  <2> QED  BY <2>1, <2>2
<1> HIDE DEF r
<1>6. \A i, j \in 1..(n + 1) : r[i] = r[j] => i = j
  <2> TAKE i, j \in 1..(n + 1)
  <2>1. i = 1 \/ i - 1 \in 1..n
    OBVIOUS
  <2>2. j = 1 \/ j - 1 \in 1..n
    OBVIOUS
  <2> QED  BY <2>1, <2>2, <1>1, <1>2, <1>3
<1>7. first' = r[1]
  BY <1>3 DEF Link
<1>8. last' = r[n + 1]
  <2>1. CASE n = 0
    BY <2>1, <1>1, <1>3 DEF Link
  <2>2. CASE n # 0
    <3>1. last = s[n] /\ last # NULL
      BY <2>2, <1>1, <1>2, NullAssumption
    <3> QED  BY <3>1, <2>2, <1>3 DEF Link
  <2> QED  BY <2>1, <2>2
<1>9. ASSUME NEW i \in 1..(n + 1)
      PROVE  /\ next'[r[i]] = IF i = n + 1 THEN NULL ELSE r[i + 1]
             /\ prev'[r[i]] = IF i = 1 THEN NULL ELSE r[i - 1]
  <2>1. CASE n = 0
    BY <2>1, <1>1, <1>3 DEF Link
  <2>2. CASE n # 0
    <3>1. first = s[1] /\ first \in entries /\ first # NULL /\ first # k /\ first \in Key
      BY <2>2, <1>1, <1>2, NullAssumption
    <3>2. next' = [next EXCEPT ![k] = first] /\ prev' = [prev EXCEPT ![first] = k]
      BY <3>1 DEF Link
    <3>3. next'[k] = first /\ prev'[first] = k /\ prev'[k] = NULL
      BY <3>1, <3>2 DEF TypeOK
    <3>4. CASE i = 1
      <4>1. r[1] = k /\ r[2] = s[1] /\ 2 \in 1..(n + 1)
        BY <2>2, <1>3
      <4> QED  BY <4>1, <3>1, <3>3, <3>4, <2>2
    <3>5. CASE i = 2
      <4>1. r[2] = s[1] /\ r[1] = k /\ s[1] # k
        BY <2>2, <1>3, <3>1
      <4>2. next'[s[1]] = next[s[1]] /\ next[s[1]] = IF n = 1 THEN NULL ELSE s[2]
        BY <2>2, <3>1, <3>2, <1>1 DEF TypeOK
      <4>3. n # 1 => r[3] = s[2]
        BY <2>2, <1>3
      <4> QED  BY <4>1, <4>2, <4>3, <3>1, <3>3, <3>5, <2>2
    <3>6. CASE i > 2
      <4>1. i - 1 \in 1..n /\ i - 2 \in 1..n /\ i - 1 # 1 /\ (i - 1) - 1 = i - 2 /\ (i - 1) + 1 = i
        BY <3>6
      <4>2. r[i] = s[i - 1] /\ r[i - 1] = s[i - 2]
        BY <4>1, <3>6, <1>3
      <4>3. s[i - 1] # k /\ s[i - 1] # first /\ s[i - 1] \in Key
        BY <4>1, <3>1, <1>1, <1>2
      <4>4. next'[r[i]] = next[s[i - 1]] /\ prev'[r[i]] = prev[s[i - 1]]
        BY <4>2, <4>3, <3>2 DEF TypeOK
      <4>5. /\ next[s[i - 1]] = IF i - 1 = n THEN NULL ELSE s[i]
            /\ prev[s[i - 1]] = s[i - 2]
        BY <4>1, <1>1
      <4>6. i # n + 1 => r[i + 1] = s[i]
        BY <3>6, <1>3
      <4> QED  BY <4>2, <4>4, <4>5, <4>6, <3>6
    <3> QED  BY <3>4, <3>5, <3>6
  <2> QED  BY <2>1, <2>2
<1> QED  BY <1>4, <1>5, <1>6, <1>7, <1>8, <1>9 DEF Chain, IsList, r

-----------------------------------------------------------------------------
(* Running totals.                                                         *)

\* t[i] is the sum of the sizes c of the first i entries in s, and occ of all:
\* what a sum over a set would be, in a form that needs no induction to update.
IsTotal(n, s, t, c, occ) ==
    /\ t \in [0..n -> Nat]
    /\ t[0] = 0 /\ t[n] = occ
    /\ \A i \in 1..n : t[i] = t[i - 1] + c[s[i]]
    /\ \A i, j \in 0..n : i <= j => t[i] <= t[j]

\* Without one element, the total is smaller by that element's size.
LEMMA TotalRemoved ==
  ASSUME NEW n \in Nat, NEW s, NEW t, NEW c, NEW occ, IsTotal(n, s, t, c, occ),
         \A i \in 1..n : c[s[i]] \in Nat,
         NEW m \in 1..n, NEW d, \A i \in 1..n : i # m => d[s[i]] = c[s[i]]
  PROVE  /\ occ \in Nat /\ c[s[m]] <= occ
         /\ \E u : IsTotal(n - 1, Removed(n, s, m), u, d, occ - c[s[m]])
<1> DEFINE x == c[s[m]]
           r == Removed(n, s, m)
           u == [i \in 0..(n - 1) |-> IF i < m THEN t[i] ELSE t[i + 1] - x]
<1>1. /\ t \in [0..n -> Nat]
      /\ t[0] = 0 /\ t[n] = occ
      /\ \A i \in 1..n : t[i] = t[i - 1] + c[s[i]]
      /\ \A i, j \in 0..n : i <= j => t[i] <= t[j]
  BY DEF IsTotal
<1>2. x \in Nat /\ t[m] = t[m - 1] + x /\ m - 1 \in 0..n /\ m \in 0..n /\ n \in 0..n
  BY <1>1
<1>3. \A i \in 0..n : t[i] \in Nat
  BY <1>1
<1>4. \A i \in 0..n : i >= m => t[i] >= x
  <2> TAKE i \in 0..n
  <2>1. ASSUME i >= m PROVE t[m] <= t[i]
    BY <2>1, <1>1, <1>2
  <2> QED  BY <2>1, <1>2, <1>3
<1>5. occ \in Nat /\ x <= occ
  BY <1>1, <1>2, <1>3, <1>4
<1>6. \A i \in 0..(n - 1) : i \in 0..n /\ i + 1 \in 0..n
  OBVIOUS
<1>7. \A i \in 0..(n - 1) : u[i] = IF i < m THEN t[i] ELSE t[i + 1] - x
  OBVIOUS
<1> HIDE DEF x
<1>8. u \in [0..(n - 1) -> Nat]
  <2>1. \A i \in 0..(n - 1) : (IF i < m THEN t[i] ELSE t[i + 1] - x) \in Nat
    BY <1>2, <1>3, <1>4, <1>6
  <2> QED  BY <2>1
<1> HIDE DEF u
<1>9. u[0] = 0 /\ u[n - 1] = occ - x
  <2>1. 0 \in 0..(n - 1) /\ n - 1 \in 0..(n - 1) /\ (n - 1) + 1 = n /\ 0 < m
    OBVIOUS
  <2>2. u[0] = 0
    BY <2>1, <1>7, <1>1
  <2>3. CASE m = n
    BY <2>1, <2>3, <1>1, <1>2, <1>3, <1>7
  <2>4. CASE m # n
    BY <2>1, <2>4, <1>1, <1>7
  <2> QED  BY <2>2, <2>3, <2>4
<1>10. \A i \in 1..(n - 1) : u[i] = u[i - 1] + d[r[i]]
  <2> TAKE i \in 1..(n - 1)
  <2>1. /\ i \in 0..(n - 1) /\ i - 1 \in 0..(n - 1) /\ i \in 1..n /\ i + 1 \in 1..n
        /\ (i - 1) + 1 = i /\ (i + 1) - 1 = i
    OBVIOUS
  <2>2. r[i] = IF i < m THEN s[i] ELSE s[i + 1]
    BY DEF Removed
  <2>3. d[r[i]] = IF i < m THEN c[s[i]] ELSE c[s[i + 1]]
    BY <2>1, <2>2
  <2>4. t[i] = t[i - 1] + c[s[i]] /\ t[i + 1] = t[i] + c[s[i + 1]]
    BY <2>1, <1>1
  <2>5. t[i] \in Nat /\ t[i - 1] \in Nat /\ t[i + 1] \in Nat /\ c[s[i]] \in Nat
        /\ c[s[i + 1]] \in Nat
    BY <2>1, <1>3
  <2>6. u[i] = IF i < m THEN t[i] ELSE t[i + 1] - x
    BY <2>1, <1>7
  <2>7. u[i - 1] = IF i - 1 < m THEN t[i - 1] ELSE t[i] - x
    BY <2>1, <1>7
  <2>8. CASE i < m
    BY <2>3, <2>4, <2>6, <2>7, <2>8
  <2>9. CASE i = m
    BY <2>3, <2>4, <2>5, <2>6, <2>7, <2>9, <1>2
  <2>10. CASE i > m
    BY <2>3, <2>4, <2>5, <2>6, <2>7, <2>10, <1>2
  <2> QED  BY <2>8, <2>9, <2>10
<1>11. \A i, j \in 0..(n - 1) : i <= j => u[i] <= u[j]
  <2> SUFFICES ASSUME NEW i \in 0..(n - 1), NEW j \in 0..(n - 1), i <= j
               PROVE  u[i] <= u[j]
    OBVIOUS
  <2>1. /\ i \in 0..n /\ j \in 0..n /\ i + 1 \in 0..n /\ j + 1 \in 0..n
        /\ i + 1 <= j + 1
    OBVIOUS
  <2>2. t[i] \in Nat /\ t[j] \in Nat /\ t[i + 1] \in Nat /\ t[j + 1] \in Nat
    BY <2>1, <1>3
  <2>3. /\ u[i] = IF i < m THEN t[i] ELSE t[i + 1] - x
        /\ u[j] = IF j < m THEN t[j] ELSE t[j + 1] - x
    BY <1>7
  <2>4. t[i] <= t[j] /\ t[i + 1] <= t[j + 1]
    BY <2>1, <1>1
  <2>5. CASE j < m
    BY <2>3, <2>4, <2>5
  <2>6. CASE i >= m
    BY <2>2, <2>3, <2>4, <2>6, <1>2
  <2>7. CASE i < m /\ j >= m
    <3>1. t[i] <= t[m - 1] /\ t[m] <= t[j + 1]
      BY <2>1, <2>7, <1>1, <1>2
    <3> QED  BY <3>1, <2>2, <2>3, <2>7, <1>2, <1>3
  <2> QED  BY <2>5, <2>6, <2>7
<1>12. IsTotal(n - 1, r, u, d, occ - x)
  BY <1>8, <1>9, <1>10, <1>11 DEF IsTotal
<1> QED  BY <1>5, <1>12 DEF x

\* Moving an element to the front keeps the total.
LEMMA TotalFronted ==
  ASSUME NEW n \in Nat, NEW s, NEW t, NEW c, NEW occ, IsTotal(n, s, t, c, occ),
         \A i \in 1..n : c[s[i]] \in Nat, NEW m \in 1..n
  PROVE  \E u : IsTotal(n, Fronted(n, s, m), u, c, occ)
<1> DEFINE x == c[s[m]]
           r == Fronted(n, s, m)
           u == [i \in 0..n |-> IF i = 0 THEN 0 ELSE IF i <= m THEN t[i - 1] + x ELSE t[i]]
<1>1. /\ t \in [0..n -> Nat]
      /\ t[0] = 0 /\ t[n] = occ
      /\ \A i \in 1..n : t[i] = t[i - 1] + c[s[i]]
      /\ \A i, j \in 0..n : i <= j => t[i] <= t[j]
  BY DEF IsTotal
<1>2. x \in Nat /\ t[m] = t[m - 1] + x /\ m - 1 \in 0..n /\ m \in 0..n /\ n \in 0..n
  BY <1>1
<1>3. \A i \in 0..n : t[i] \in Nat
  BY <1>1
<1> HIDE DEF x
<1>4. \A i \in 1..n : i \in 0..n /\ i - 1 \in 0..n
  OBVIOUS
<1>5. u \in [0..n -> Nat]
  <2>1. \A i \in 0..n : (IF i = 0 THEN 0 ELSE IF i <= m THEN t[i - 1] + x ELSE t[i]) \in Nat
    <3> TAKE i \in 0..n
    <3>1. CASE i = 0
      BY <3>1
    <3>2. CASE i # 0
      <4>1. i - 1 \in 0..n
        BY <3>2
      <4> QED  BY <3>2, <4>1, <1>2, <1>3
    <3> QED  BY <3>1, <3>2
  <2> QED  BY <2>1
<1>6. \A i \in 0..n : u[i] = IF i = 0 THEN 0 ELSE IF i <= m THEN t[i - 1] + x ELSE t[i]
  OBVIOUS
<1> HIDE DEF u
<1>7. u[0] = 0 /\ u[n] = occ
  <2>1. 0 \in 0..n /\ n # 0
    OBVIOUS
  <2>2. CASE m = n
    BY <2>1, <2>2, <1>1, <1>2, <1>6
  <2>3. CASE m # n
    BY <2>1, <2>3, <1>1, <1>2, <1>6
  <2> QED  BY <2>2, <2>3
<1>8. \A i \in 1..n : u[i] = u[i - 1] + c[r[i]]
  <2> TAKE i \in 1..n
  <2>1. r[i] = IF i = 1 THEN s[m] ELSE IF i <= m THEN s[i - 1] ELSE s[i]
    BY DEF Fronted
  <2>2. /\ u[i] = IF i <= m THEN t[i - 1] + x ELSE t[i]
        /\ u[i - 1] = IF i - 1 = 0 THEN 0 ELSE IF i - 1 <= m THEN t[(i - 1) - 1] + x ELSE t[i - 1]
    BY <1>4, <1>6
  <2>3. CASE i = 1
    <3>1. u[1] = 0 + x /\ u[1 - 1] = 0
      BY <2>2, <2>3, <1>1
    <3> QED  BY <3>1, <2>1, <2>3 DEF x
  <2>4. CASE i # 1 /\ i <= m
    <3>1. i - 1 \in 1..n /\ (i - 1) - 1 \in 0..n
      BY <2>4
    <3>2. t[i - 1] = t[(i - 1) - 1] + c[s[i - 1]] /\ c[s[i - 1]] \in Nat
          /\ t[(i - 1) - 1] \in Nat
      BY <3>1, <1>1, <1>3
    <3> QED  BY <3>2, <2>1, <2>2, <2>4, <1>2
  <2>5. CASE i = m + 1
    <3>1. i - 1 = m /\ (i - 1) - 1 = m - 1 /\ i # 1
      BY <2>5
    <3>2. u[i - 1] = t[m]
      BY <3>1, <2>2, <1>2
    <3>3. r[i] = s[i] /\ u[i] = t[i] /\ t[i] = t[m] + c[s[i]]
      BY <3>1, <2>1, <2>2, <2>5, <1>1
    <3> QED  BY <3>2, <3>3
  <2>6. CASE i > m + 1
    <3>1. t[i] = t[i - 1] + c[s[i]]
      BY <1>1
    <3>2. i # 1 /\ ~(i <= m) /\ i - 1 # 0 /\ ~(i - 1 <= m)
      BY <2>6
    <3>3. r[i] = s[i] /\ u[i] = t[i] /\ u[i - 1] = t[i - 1]
      BY <3>2, <2>1, <2>2
    <3> QED  BY <3>1, <3>3
  <2>7. i = 1 \/ (i # 1 /\ i <= m) \/ i = m + 1 \/ i > m + 1
    OBVIOUS
  <2> QED  BY <2>3, <2>4, <2>5, <2>6, <2>7
<1>9. \A i, j \in 0..n : i <= j => u[i] <= u[j]
  <2> SUFFICES ASSUME NEW i \in 0..n, NEW j \in 0..n, i <= j
               PROVE  u[i] <= u[j]
    OBVIOUS
  <2>0. u[i] \in Nat /\ u[j] \in Nat
    BY <1>5
  <2>1. CASE i = 0
    BY <2>0, <2>1, <1>7
  <2>2. CASE i # 0
    <3>1. i - 1 \in 0..n /\ j - 1 \in 0..n /\ i - 1 <= j - 1 /\ j # 0
      BY <2>2
    <3>2. /\ t[i - 1] \in Nat /\ t[j - 1] \in Nat /\ t[i] \in Nat /\ t[j] \in Nat
          /\ t[m] \in Nat /\ t[m - 1] \in Nat
      BY <3>1, <1>2, <1>3
    <3>3. t[i - 1] <= t[j - 1] /\ t[i] <= t[j]
      BY <3>1, <1>1
    <3>4. /\ u[i] = IF i <= m THEN t[i - 1] + x ELSE t[i]
          /\ u[j] = IF j <= m THEN t[j - 1] + x ELSE t[j]
      BY <2>2, <3>1, <1>6
    <3>5. CASE j <= m
      BY <3>2, <3>3, <3>4, <3>5, <1>2
    <3>6. CASE i > m
      BY <3>2, <3>3, <3>4, <3>6
    <3>7. CASE i <= m /\ j > m
      <4>1. t[i - 1] <= t[m - 1] /\ t[m] <= t[j]
        BY <3>1, <3>7, <1>1, <1>2
      <4> QED  BY <4>1, <3>2, <3>4, <3>7, <1>2
    <3> QED  BY <3>5, <3>6, <3>7
  <2> QED  BY <2>1, <2>2
<1>10. IsTotal(n, r, u, c, occ)
  BY <1>5, <1>7, <1>8, <1>9 DEF IsTotal
<1> QED  BY <1>10

\* One more element adds its size to the total.
LEMMA TotalPushed ==
  ASSUME NEW n \in Nat, NEW s, NEW t, NEW c, NEW occ, IsTotal(n, s, t, c, occ),
         \A i \in 1..n : c[s[i]] \in Nat,
         NEW k, NEW d, d[k] \in Nat, \A i \in 1..n : d[s[i]] = c[s[i]]
  PROVE  \E u : IsTotal(n + 1, Pushed(n, s, k), u, d, occ + d[k])
<1> DEFINE x == d[k]
           r == Pushed(n, s, k)
           u == [i \in 0..(n + 1) |-> IF i = 0 THEN 0 ELSE t[i - 1] + x]
<1>1. /\ t \in [0..n -> Nat]
      /\ t[0] = 0 /\ t[n] = occ
      /\ \A i \in 1..n : t[i] = t[i - 1] + c[s[i]]
      /\ \A i, j \in 0..n : i <= j => t[i] <= t[j]
  BY DEF IsTotal
<1>2. x \in Nat
  OBVIOUS
<1> HIDE DEF x
<1>3. \A i \in 0..(n + 1) : i = 0 \/ (i \in 1..(n + 1) /\ i - 1 \in 0..n)
  OBVIOUS
<1>4. \A i \in 1..(n + 1) : t[i - 1] \in Nat /\ i \in 0..(n + 1)
  BY <1>1, <1>3
<1>5. u \in [0..(n + 1) -> Nat]
  BY <1>1, <1>2, <1>3
<1>6. u[0] = 0 /\ \A i \in 1..(n + 1) : u[i] = t[i - 1] + x
  OBVIOUS
<1> HIDE DEF u
<1>7. u[n + 1] = occ + x
  <2>1. n + 1 \in 1..(n + 1) /\ (n + 1) - 1 = n
    OBVIOUS
  <2> QED  BY <2>1, <1>1, <1>6
<1>8. \A i \in 1..(n + 1) : u[i] = u[i - 1] + d[r[i]]
  <2> TAKE i \in 1..(n + 1)
  <2>1. r[i] = IF i = 1 THEN k ELSE s[i - 1]
    BY DEF Pushed
  <2>2. CASE i = 1
    <3>1. u[1] = 0 + x /\ u[1 - 1] = 0
      BY <2>2, <1>1, <1>6
    <3> QED  BY <3>1, <2>1, <2>2 DEF x
  <2>3. CASE i # 1
    <3>1. i - 1 \in 1..n /\ i - 1 \in 1..(n + 1) /\ (i - 1) - 1 \in 0..n
      BY <2>3
    <3>2. u[i] = t[i - 1] + x /\ u[i - 1] = t[(i - 1) - 1] + x
      BY <3>1, <1>6
    <3>3. t[i - 1] = t[(i - 1) - 1] + d[r[i]]
      BY <3>1, <2>1, <2>3, <1>1
    <3>4. t[i - 1] \in Nat /\ t[(i - 1) - 1] \in Nat
      BY <3>1, <1>4
    <3>5. d[r[i]] \in Nat
      BY <3>1, <2>1, <2>3
    <3> QED  BY <3>2, <3>3, <3>4, <3>5, <1>2
  <2> QED  BY <2>2, <2>3
<1>9. \A i, j \in 0..(n + 1) : i <= j => u[i] <= u[j]
  <2> SUFFICES ASSUME NEW i \in 0..(n + 1), NEW j \in 0..(n + 1), i <= j
               PROVE  u[i] <= u[j]
    OBVIOUS
  <2>0. u[i] \in Nat /\ u[j] \in Nat
    BY <1>5
  <2>1. CASE i = 0
    BY <2>0, <2>1, <1>6
  <2>2. CASE i # 0
    <3>1. i - 1 \in 0..n /\ j - 1 \in 0..n /\ i - 1 <= j - 1 /\ i \in 1..(n + 1)
          /\ j \in 1..(n + 1)
      BY <2>2
    <3>2. t[i - 1] <= t[j - 1] /\ u[i] = t[i - 1] + x /\ u[j] = t[j - 1] + x
      BY <3>1, <1>1, <1>6
    <3> QED  BY <3>1, <3>2, <1>1, <1>2
  <2> QED  BY <2>1, <2>2
<1>10. IsTotal(n + 1, r, u, d, occ + x)
  BY <1>5, <1>6, <1>7, <1>8, <1>9 DEF IsTotal
<1> QED  BY <1>10 DEF x

-----------------------------------------------------------------------------
(* Sums.  The library's sum over a set chooses a function on all subsets   *)
(* of the set; that there is one, and only one, is shown by induction over *)
(* the subsets, which the library states for sets instead of predicates.   *)

\* Induction over the subsets of a finite set.
LEMMA SubsetInduction ==
  ASSUME NEW S, IsFiniteSet(S), NEW G,
         \A T \in SUBSET S : (\A U \in SUBSET T : U # T => U \in G) => T \in G
  PROVE  \A T \in SUBSET S : T \in G
<1>1. IsWellFoundedOn(StrictSubsetOrdering(S), SUBSET S)
  BY FS_StrictSubsetOrderingWellFounded, FS_FiniteSubsetsOfFinite
<1>2. SUFFICES ASSUME (SUBSET S) \ G # {} PROVE FALSE
  OBVIOUS
<1>3. PICK T \in (SUBSET S) \ G : \A U \in (SUBSET S) \ G : ~(<<U, T>> \in StrictSubsetOrdering(S))
  <2> DEFINE R == StrictSubsetOrdering(S)
             A == SUBSET S
             D == (SUBSET S) \ G
  <2>1. IsWellFoundedOn(R, A) /\ D \subseteq A /\ D # {}
    BY <1>1, <1>2
  <2>2. ASSUME IsWellFoundedOn(R, A), D \subseteq A, D # {}
        PROVE  \E x \in D : \A y \in D : ~ (<<y, x>> \in R)
    <3> HIDE DEF R, A, D
    <3> QED  BY <2>2, WFMin
  <2> QED  BY <2>1, <2>2
<1>4. ASSUME NEW U \in SUBSET T, U # T PROVE U \in G
  <2>1. <<U, T>> \in StrictSubsetOrdering(S)
    BY <1>4 DEF StrictSubsetOrdering
  <2> QED  BY <2>1, <1>3
<1> QED  BY <1>3, <1>4

\* Induction up to a number.
LEMMA IntervalInduction ==
  ASSUME NEW n \in Nat, NEW G, 0 \in G, \A i \in 1..n : i - 1 \in G => i \in G
  PROVE  \A i \in 0..n : i \in G
<1> DEFINE S == 1..n
           H == {T \in SUBSET S : \A i \in 0..n : T = 1..i => i \in G}
<1>1. ASSUME NEW T \in SUBSET S, \A U \in SUBSET T : U # T => U \in H
      PROVE  T \in H
  <2> SUFFICES ASSUME NEW i \in 1..n, T = 1..i PROVE i \in G
    OBVIOUS
  <2>1. 1..(i - 1) \in SUBSET T /\ i \in T /\ i \notin 1..(i - 1)
    OBVIOUS
  <2>2. 1..(i - 1) \in H
    BY <1>1, <2>1
  <2> QED  BY <2>2
<1>2. IsFiniteSet(S)
  BY FS_Interval
<1>3. \A T \in SUBSET S : T \in H
  <2> HIDE DEF S, H
  <2> QED  BY <1>1, <1>2, SubsetInduction
<1>4. ASSUME NEW i \in 0..n PROVE i \in G
  <2>1. 1..i \in SUBSET S
    OBVIOUS
  <2>2. 1..i \in H
    BY <1>3, <2>1
  <2> QED  BY <2>2
<1> QED  BY <1>4

\* The element that a sum over s takes first.
Some(s) == CHOOSE x \in s : TRUE

\* One step of a sum of the f[x].
Added(f, g, s) == IF s = {} THEN 0 ELSE f[Some(s)] + g[s \ {Some(s)}]

\* g is the sum of f over every subset of S.
Sums(f, S, g) == g = [s \in SUBSET S |-> Added(f, g, s)]

\* The library sums by such a function.
LEMMA SumIs ==
  ASSUME NEW f, NEW S
  PROVE  SumFunctionOnSet(f, S) = (CHOOSE g : Sums(f, S, g))[S]
BY Zenon DEF SumFunctionOnSet, FoldFunctionOnSet, MapThenFoldSet, Sums, Added, Some

\* A sum over part of the set is the same sum.
LEMMA SumsSub ==
  ASSUME NEW f, NEW S, NEW g, Sums(f, S, g), NEW T \in SUBSET S,
         NEW h, h = [s \in SUBSET T |-> g[s]]
  PROVE  Sums(f, T, h)
<1>1. ASSUME NEW s \in SUBSET T PROVE h[s] = Added(f, h, s)
  <2>1. s \in SUBSET S /\ s \ {Some(s)} \in SUBSET T
    OBVIOUS
  <2>2. g[s] = Added(f, g, s)
    BY <2>1 DEF Sums
  <2>3. h[s] = g[s] /\ h[s \ {Some(s)}] = g[s \ {Some(s)}]
    BY <2>1
  <2> QED  BY <2>2, <2>3 DEF Added
<1>2. h = [s \in SUBSET T |-> h[s]]
  OBVIOUS
<1> QED  BY <1>1, <1>2 DEF Sums

\* There is only one such function ...
LEMMA SumsUnique ==
  ASSUME NEW f, NEW S, IsFiniteSet(S), NEW g, NEW h, Sums(f, S, g), Sums(f, S, h)
  PROVE  \A T \in SUBSET S : g[T] = h[T]
<1> DEFINE G == {T \in SUBSET S : g[T] = h[T]}
<1>1. ASSUME NEW T \in SUBSET S, \A U \in SUBSET T : U # T => U \in G
      PROVE  T \in G
  <2>1. g[T] = Added(f, g, T) /\ h[T] = Added(f, h, T)
    BY DEF Sums
  <2>2. T # {} => Some(T) \in T
    BY DEF Some
  <2>3. T # {} => g[T \ {Some(T)}] = h[T \ {Some(T)}]
    BY <2>2, <1>1
  <2> QED  BY <2>1, <2>3 DEF Added
<1>2. \A T \in SUBSET S : T \in G
  <2> HIDE DEF G
  <2> QED  BY <1>1, SubsetInduction
<1> QED  BY <1>2

\* ... and there is one.
LEMMA SumsExist ==
  ASSUME NEW f, NEW S, IsFiniteSet(S)
  PROVE  \A T \in SUBSET S : \E g : Sums(f, T, g)
<1> DEFINE G == {T \in SUBSET S : \E g : Sums(f, T, g)}
           val(s) == (CHOOSE g : Sums(f, s, g))[s]
<1>1. ASSUME NEW T \in SUBSET S, \A U \in SUBSET T : U # T => U \in G
      PROVE  T \in G
  <2> DEFINE whole == IF T = {} THEN 0 ELSE f[Some(T)] + val(T \ {Some(T)})
             h == [s \in SUBSET T |-> IF s = T THEN whole ELSE val(s)]
  <2>0. T # {} => Some(T) \in T
    BY DEF Some
  <2>1. h[T] = Added(f, h, T)
    <3>1. T # {} => h[T \ {Some(T)}] = val(T \ {Some(T)})
      <4> HIDE DEF val
      <4> QED  BY <2>0
    <3>2. h[T] = whole
      OBVIOUS
    <3> HIDE DEF val, h
    <3> QED  BY <3>1, <3>2 DEF Added
  <2>2. ASSUME NEW U \in SUBSET T, U # T PROVE h[U] = Added(f, h, U)
    <3> DEFINE V == U \ {Some(U)}
    <3>1. PICK g : Sums(f, U, g) /\ g = CHOOSE k : Sums(f, U, k)
      BY <1>1, <2>2, Zenon
    <3>2. h[U] = g[U]
      BY <3>1, <2>2
    <3>3. g[U] = Added(f, g, U)
      BY <3>1 DEF Sums
    <3>4. ASSUME U # {} PROVE g[V] = h[V]
      <4>1. Some(U) \in U
        BY <3>4 DEF Some
      <4>2. V \in SUBSET T /\ V \in SUBSET U /\ V # T
        BY <4>1, <2>2
      <4>3. PICK k : Sums(f, V, k) /\ k = CHOOSE j : Sums(f, V, j)
        <5> HIDE DEF V
        <5> QED  BY <1>1, <4>2, Zenon
      <4>4. h[V] = k[V]
        <5> HIDE DEF V
        <5> QED  BY <4>2, <4>3
      <4>5. PICK j : j = [s \in SUBSET V |-> g[s]]
        OBVIOUS
      <4>6. Sums(f, V, j)
        <5> HIDE DEF V
        <5> QED  BY <3>1, <4>2, <4>5, SumsSub
      <4>7. k[V] = j[V]
        <5>1. IsFiniteSet(V) /\ V \in SUBSET V
          BY <4>2, FS_Subset
        <5> HIDE DEF V
        <5> QED  BY <4>3, <4>6, <5>1, SumsUnique
      <4>8. j[V] = g[V]
        <5> HIDE DEF V
        <5> QED  BY <4>5
      <4> QED  BY <4>4, <4>7, <4>8
    <3> HIDE DEF h
    <3> QED  BY <3>2, <3>3, <3>4 DEF Added
  <2>3. h = [s \in SUBSET T |-> h[s]]
    OBVIOUS
  <2> HIDE DEF h
  <2>4. Sums(f, T, h)
    <3>1. \A s \in SUBSET T : h[s] = Added(f, h, s)
      BY <2>1, <2>2
    <3> QED  BY <3>1, <2>3 DEF Sums
  <2> QED  BY <2>4
<1>2. \A T \in SUBSET S : T \in G
  <2> HIDE DEF G
  <2> QED  BY <1>1, SubsetInduction
<1> QED  BY <1>2

\* A sum is its first term and the sum of the others.
LEMMA SumUnfolds ==
  ASSUME NEW f, NEW S, IsFiniteSet(S)
  PROVE  SumFunctionOnSet(f, S) =
           IF S = {} THEN 0 ELSE f[Some(S)] + SumFunctionOnSet(f, S \ {Some(S)})
<1>1. PICK g : Sums(f, S, g) /\ g = CHOOSE k : Sums(f, S, k)
  BY SumsExist, Zenon
<1>2. g[S] = Added(f, g, S) /\ SumFunctionOnSet(f, S) = g[S]
  BY <1>1, SumIs DEF Sums
<1>3. ASSUME S # {} PROVE g[S \ {Some(S)}] = SumFunctionOnSet(f, S \ {Some(S)})
  <2> DEFINE V == S \ {Some(S)}
  <2>1. V \in SUBSET S /\ V \in SUBSET V /\ IsFiniteSet(V)
    BY FS_Subset
  <2> HIDE DEF V
  <2>2. PICK k : Sums(f, V, k) /\ k = CHOOSE j : Sums(f, V, j)
    BY <2>1, SumsExist, Zenon
  <2>3. PICK h : h = [s \in SUBSET V |-> g[s]]
    OBVIOUS
  <2>4. Sums(f, V, h)
    BY <1>1, <2>1, <2>3, SumsSub
  <2>5. k[V] = h[V]
    BY <2>1, <2>2, <2>4, SumsUnique
  <2>6. SumFunctionOnSet(f, V) = k[V]
    BY <2>2, SumIs
  <2> QED  BY <2>1, <2>3, <2>5, <2>6 DEF V
<1> QED  BY <1>2, <1>3 DEF Added

\* A sum of sizes is a number, and does not depend on the order of its terms.
LEMMA SumWithout ==
  ASSUME NEW S, IsFiniteSet(S), NEW f, \A x \in S : f[x] \in Nat
  PROVE  /\ SumFunctionOnSet(f, S) \in Nat
         /\ \A x \in S : SumFunctionOnSet(f, S) = f[x] + SumFunctionOnSet(f, S \ {x})
<1> DEFINE sum(T) == SumFunctionOnSet(f, T)
           G == {T \in SUBSET S : sum(T) \in Nat /\ \A x \in T : sum(T) = f[x] + sum(T \ {x})}
<1>1. \A T \in SUBSET S : sum(T) = IF T = {} THEN 0 ELSE f[Some(T)] + sum(T \ {Some(T)})
  BY SumUnfolds, FS_Subset, Zenon
<1>2. \A T \in SUBSET S : T # {} => Some(T) \in T
  BY DEF Some
<1> HIDE DEF sum
<1>3. ASSUME NEW T \in SUBSET S, \A U \in SUBSET T : U # T => U \in G
      PROVE  T \in G
  <2>1. CASE T = {}
    BY <2>1, <1>1
  <2>2. CASE T # {}
    <3>1. PICK c \in T : c = Some(T)
      BY <1>2, <2>2
    <3>2. sum(T) = f[c] + sum(T \ {c})
      BY <1>1, <2>2, <3>1
    <3>3. \A x \in T : T \ {x} \in G
      BY <1>3
    <3>4. sum(T) \in Nat
      BY <3>2, <3>3
    <3>5. ASSUME NEW x \in T, x # c PROVE sum(T) = f[x] + sum(T \ {x})
      <4>1. PICK U : U = (T \ {c}) \ {x}
        OBVIOUS
      <4>2. sum(T \ {c}) = f[x] + sum(U)
        BY <3>3, <3>5, <4>1
      <4>3. sum(T \ {x}) = f[c] + sum(U)
        <5>1. U = (T \ {x}) \ {c}
          BY <4>1
        <5> QED  BY <3>3, <3>5, <5>1
      <4>4. U \in SUBSET T /\ U # T
        BY <4>1
      <4>5. sum(U) \in Nat
        BY <4>4, <1>3
      <4> QED  BY <3>2, <4>2, <4>3, <4>5
    <3> QED  BY <3>2, <3>4, <3>5
  <2> QED  BY <2>1, <2>2
<1>4. S \in G
  <2>1. \A T \in SUBSET S : T \in G
    <3> HIDE DEF G
    <3> QED  BY <1>3, SubsetInduction
  <2> QED  BY <2>1
<1> QED  BY <1>4 DEF sum

\* The n elements of s are those of E, each once.
Enumerates(n, E, s) ==
    /\ s \in [1..n -> E]
    /\ \A x \in E : \E i \in 1..n : s[i] = x
    /\ \A i, j \in 1..n : s[i] = s[j] => i = j

\* The running totals along a sequence of all elements end with the sum over them.
LEMMA TotalIsSum ==
  ASSUME NEW n \in Nat, NEW E, NEW s, NEW t, NEW c, NEW occ,
         Enumerates(n, E, s), \A x \in E : c[x] \in Nat,
         IsTotal(n, s, t, c, occ)
  PROVE  IsFiniteSet(E) /\ occ = SumFunctionOnSet(c, E)
<1>0. /\ s \in [1..n -> E]
      /\ \A x \in E : \E i \in 1..n : s[i] = x
      /\ \A i, j \in 1..n : s[i] = s[j] => i = j
  BY DEF Enumerates
<1> DEFINE P(i) == {s[j] : j \in 1..i}
           sum(i) == SumFunctionOnSet(c, P(i))
           G == {i \in 0..n : sum(i) = t[i]}
<1>1. IsFiniteSet(E)
  <2>1. s \in Surjection(1..n, E)
    BY <1>0 DEF Surjection
  <2> QED  BY <2>1, FS_Surjection, FS_Interval
<1>2. \A i \in 0..n : IsFiniteSet(P(i)) /\ \A x \in P(i) : c[x] \in Nat
  BY <1>0, <1>1, FS_Subset
<1>3. sum(0) = 0
  <2>1. P(0) = {}
    OBVIOUS
  <2>2. SumFunctionOnSet(c, {}) = 0
    BY SumUnfolds, FS_EmptySet
  <2> QED  BY <2>1, <2>2
<1>4. ASSUME NEW i \in 1..n PROVE sum(i) = c[s[i]] + sum(i - 1)
  <2>1. P(i) \ {s[i]} = P(i - 1) /\ s[i] \in P(i)
    BY <1>0
  <2>2. SumFunctionOnSet(c, P(i)) = c[s[i]] + SumFunctionOnSet(c, P(i) \ {s[i]})
    <3>1. i \in 0..n /\ s[i] \in P(i)
      BY <2>1
    <3> HIDE DEF P
    <3>2. IsFiniteSet(P(i)) /\ (\A x \in P(i) : c[x] \in Nat)
      BY <1>2, <3>1
    <3> QED  BY <3>1, <3>2, SumWithout
  <2> HIDE DEF P
  <2> QED  BY <2>1, <2>2
<1>5. n \in G
  <2> HIDE DEF sum, P
  <2>1. 0 \in G
    BY <1>3 DEF IsTotal
  <2>2. ASSUME NEW i \in 1..n, i - 1 \in G PROVE i \in G
    <3>1. t[i] = t[i - 1] + c[s[i]] /\ t[i - 1] \in Nat /\ c[s[i]] \in Nat
      BY <1>0 DEF IsTotal
    <3> QED  BY <1>4, <2>2, <3>1
  <2>3. \A i \in 0..n : i \in G
    <3> HIDE DEF G
    <3>1. \A i \in 1..n : i - 1 \in G => i \in G
      BY <2>2
    <3> QED  BY <2>1, <3>1, IntervalInduction, Zenon
  <2>4. n \in 0..n
    OBVIOUS
  <2> HIDE DEF G
  <2> QED  BY <2>3, <2>4
<1>6. P(n) = E
  BY <1>0
<1> QED  BY <1>1, <1>5, <1>6 DEF IsTotal

-----------------------------------------------------------------------------
(* Types.                                                                  *)

\* The arguments a call in progress needs are there.
CallOK ==
    /\ call.fn = "insert" => call.key \in Key /\ call.value \in Value
    /\ call.fn = "lock" => call.key \in Key

TypeInv == TypeOK /\ CallOK

-----------------------------------------------------------------------------

\* Unsigned subtraction and addition stay within the width.
LEMMA WrapType == \A i \in Int : Wrapped(i) \in cachesize_t
  BY SizesAssumption DEF cachesize_t, Wrapped

\* Unlinking a key leaves well-typed pointers.
LEMMA WithoutType ==
  ASSUME TypeOK, NEW k \in Key
  PROVE  /\ NextWithout(k) \in [Key -> KeyOrNull]
         /\ PrevWithout(k) \in [Key -> KeyOrNull]
  BY DEF TypeOK, NextWithout, PrevWithout, KeyOrNull

\* The part of TypeOK about the cache's contents.
ContentsType ==
    /\ entries \subseteq Key
    /\ vPtr \in [Key -> ValueOrNull]
    /\ cost \in [Key -> cachesize_t]
    /\ locked \in [Key -> BOOLEAN]
    /\ prev \in [Key -> KeyOrNull]
    /\ next \in [Key -> KeyOrNull]
    /\ first \in KeyOrNull
    /\ last \in KeyOrNull
    /\ occupied \in cachesize_t

\* The contents stay well-typed when remove(Entry&) erases an entry ...
LEMMA EraseType ==
  ASSUME TypeOK, NEW k \in Key, Erase(k)
  PROVE  ContentsType' /\ live' \subseteq Value
<1>1. NextWithout(k) \in [Key -> KeyOrNull] /\ PrevWithout(k) \in [Key -> KeyOrNull]
  BY WithoutType
<1>2. next' \in [Key -> KeyOrNull] /\ prev' \in [Key -> KeyOrNull]
  BY <1>1 DEF Erase, KeyOrNull
<1>3. first' \in KeyOrNull /\ last' \in KeyOrNull
  BY DEF TypeOK, Erase
<1>4. occupied' \in cachesize_t
  <2>1. occupied - cost[k] \in Int
    BY SizesAssumption DEF TypeOK, cachesize_t
  <2> QED  BY <2>1, WrapType DEF Erase, OccupiedWithout
<1>5. /\ vPtr' \in [Key -> ValueOrNull]
      /\ cost' \in [Key -> cachesize_t]
      /\ locked' \in [Key -> BOOLEAN]
  BY SizesAssumption DEF TypeOK, Erase, ValueOrNull, cachesize_t
<1>6. entries' \subseteq Key /\ live' \subseteq Value
  BY DEF TypeOK, Erase, Delete
<1> QED  BY <1>2, <1>3, <1>4, <1>5, <1>6 DEF ContentsType

\* ... when insert() adds one ...
LEMMA LinkType ==
  ASSUME TypeOK, NEW k \in Key, NEW v \in Value, NEW size \in cachesize_t,
         NEW lock \in BOOLEAN, Link(k, v, size, lock)
  PROVE  ContentsType'
<1>1. next' \in [Key -> KeyOrNull] /\ prev' \in [Key -> KeyOrNull]
  BY DEF TypeOK, Link, KeyOrNull
<1>2. first' \in KeyOrNull /\ last' \in KeyOrNull
  BY DEF TypeOK, Link, KeyOrNull
<1>3. occupied' \in cachesize_t
  <2>1. occupied + size \in Int
    BY SizesAssumption DEF TypeOK, cachesize_t
  <2> QED  BY <2>1, WrapType DEF Link
<1>4. /\ vPtr' \in [Key -> ValueOrNull]
      /\ cost' \in [Key -> cachesize_t]
      /\ locked' \in [Key -> BOOLEAN]
  <2>1. CASE k \in entries
    BY <2>1 DEF TypeOK, Link, fields
  <2>2. CASE k \notin entries
    BY <2>2 DEF TypeOK, Link, ValueOrNull
  <2> QED  BY <2>1, <2>2
<1>5. entries' \subseteq Key
  BY DEF TypeOK, Link
<1> QED  BY <1>1, <1>2, <1>3, <1>4, <1>5 DEF ContentsType

\* ... and when access() moves one.
LEMMA MoveToFrontType ==
  ASSUME TypeOK, NEW k \in Key, MoveToFront(k)
  PROVE  /\ next' \in [Key -> KeyOrNull]
         /\ prev' \in [Key -> KeyOrNull]
         /\ first' \in KeyOrNull
         /\ last' \in KeyOrNull
<1>1. CASE k = first
  BY <1>1 DEF TypeOK, MoveToFront, links
<1>2. CASE k # first
  <2>1. NextWithout(k) \in [Key -> KeyOrNull] /\ PrevWithout(k) \in [Key -> KeyOrNull]
    BY WithoutType
  <2> QED  BY <1>2, <2>1 DEF TypeOK, MoveToFront, KeyOrNull
<1> QED  BY <1>1, <1>2

\* A call that enters free() has well-typed locals and has returned nothing.
LEMMA EnterFreeType ==
  ASSUME TypeOK, NEW f \in Functions, NEW k \in KeyOrNull, NEW v \in ValueOrNull,
         NEW size \in cachesize_t, NEW lock \in BOOLEAN, NEW target \in cachesize_t,
         EnterFree(f, k, v, size, lock, target),
         f = "insert" => k \in Key /\ v \in Value,
         f = "lock" => k \in Key
  PROVE  /\ call' \in Call
         /\ CallOK'
         /\ ret' \in [fn  : {"none"}, key : {NULL}, res : {NULL}]
<1>1. Overfilled \in BOOLEAN
  BY DEF Overfilled
<1>2. call' \in Call
  BY <1>1 DEF EnterFree, Call, TypeOK
<1>3. CallOK'
  BY DEF EnterFree, CallOK
<1>4. ret' \in [fn  : {"none"}, key : {NULL}, res : {NULL}]
  BY DEF EnterFree, NoAnswer, Answer
<1> QED  BY <1>2, <1>3, <1>4

\* The two values of `call' outside free() are well-typed.
LEMMA NoCallType == NoCall \in Call /\ [NoCall EXCEPT !.fn = "gone"] \in Call
<1>1. NoCall \in Call
  BY SizesAssumption DEF NoCall, Call, Functions, KeyOrNull, ValueOrNull, cachesize_t
<1>2. [NoCall EXCEPT !.fn = "gone"] \in Call
  BY <1>1 DEF Call, Functions
<1> QED  BY <1>1, <1>2

Rets == [fn  : {"none", "insert", "item", "remove", "lock", "free", "clear"},
         key : KeyOrNull,
         res : ValueOrNull \cup BOOLEAN]

\* TypeOK, split into the contents and the rest ...
LEMMA TypeParts == TypeOK <=> /\ ContentsType
                              /\ capacity \in cachesize_t
                              /\ live \subseteq Value
                              /\ call \in Call
                              /\ ret \in Rets
  BY DEF TypeOK, ContentsType, Rets

\* ... also in the next state.
LEMMA TypePartsNext == TypeOK' <=> /\ ContentsType'
                                   /\ capacity' \in cachesize_t
                                   /\ live' \subseteq Value
                                   /\ call' \in Call
                                   /\ ret' \in Rets
  BY DEF TypeOK, ContentsType, Rets

\* Steps that leave the contents alone keep their types.
LEMMA ContentsUnchanged ==
  ASSUME TypeOK, UNCHANGED contents
  PROVE  ContentsType'
  BY DEF TypeOK, ContentsType, contents, fields, links

\* What a step that returns leaves in `call' and `ret'.
LEMMA ReturnType ==
  ASSUME NEW a, Return(a)
  PROVE  call' \in Call /\ CallOK' /\ ret' = a
  BY NoCallType DEF Return, CallOK, NoCall

\* Every step keeps the types.
LEMMA StepType == TypeInv /\ [Next]_vars => TypeInv'
<1> SUFFICES ASSUME TypeInv, [Next]_vars PROVE TypeInv'
  OBVIOUS
<1> USE DEF TypeInv
<1>sz. Sizes \subseteq cachesize_t /\ 0 \in cachesize_t
  BY SizesAssumption DEF cachesize_t
<1>t. /\ capacity \in cachesize_t /\ live \subseteq Value
      /\ call \in Call /\ ret \in Rets /\ ContentsType
  BY TypeParts
<1>null. NULL \in KeyOrNull /\ NULL \in ValueOrNull
  BY DEF KeyOrNull, ValueOrNull
<1>none. [fn  : {"none"}, key : {NULL}, res : {NULL}] \subseteq Rets
  BY <1>null DEF Rets
<1>1. ASSUME Skip PROVE TypeInv'
  <2>1. call' \in Call /\ CallOK'
    BY <1>1, <1>t DEF Skip, Advance, Call, CallOK, TypeOK, LoopOn, KeyOrNull
  <2>2. ContentsType' /\ capacity' \in cachesize_t /\ live' \subseteq Value /\ ret' \in Rets
    BY <1>1, <1>t, ContentsUnchanged DEF Skip
  <2> QED  BY <2>1, <2>2, TypePartsNext
<1>2. ASSUME Evict PROVE TypeInv'
  <2>0. call.cur \in Key
    BY <1>2, <1>t DEF Evict, LoopOn, Call, KeyOrNull
  <2>1. call' \in Call /\ CallOK'
    BY <1>2, <1>t, <2>0 DEF Evict, Advance, Call, CallOK, TypeOK
  <2>2. ContentsType' /\ live' \subseteq Value
    BY <1>2, <2>0, EraseType DEF Evict
  <2>3. capacity' \in cachesize_t /\ ret' \in Rets
    BY <1>2, <1>t DEF Evict
  <2> QED  BY <2>1, <2>2, <2>3, TypePartsNext
<1>3. ASSUME InsertRefused PROVE TypeInv'
  <2>1. Answer("insert", call.key, FALSE) \in Rets
    BY <1>t DEF Answer, Rets, Call
  <2>2. call' \in Call /\ CallOK' /\ ret' \in Rets
    BY <1>3, <2>1, ReturnType DEF InsertRefused
  <2>3. ContentsType' /\ capacity' \in cachesize_t /\ live' \subseteq Value
    BY <1>3, <1>t, ContentsUnchanged DEF InsertRefused, Delete
  <2> QED  BY <2>2, <2>3, TypePartsNext
<1>4. ASSUME InsertDone PROVE TypeInv'
  <2>0. /\ call.key \in Key /\ call.value \in Value
        /\ call.size \in cachesize_t /\ call.lock \in BOOLEAN
    BY <1>4, <1>t DEF InsertDone, CallOK, Call
  <2>1. Answer("insert", call.key, TRUE) \in Rets
    BY <2>0 DEF Answer, Rets, KeyOrNull
  <2>2. call' \in Call /\ CallOK' /\ ret' \in Rets
    BY <1>4, <2>1, ReturnType DEF InsertDone
  <2>3. ContentsType'
    BY <1>4, <2>0, LinkType DEF InsertDone
  <2>4. capacity' \in cachesize_t /\ live' \subseteq Value
    BY <1>4, <1>t DEF InsertDone
  <2> QED  BY <2>2, <2>3, <2>4, TypePartsNext
<1>5. ASSUME LockDone PROVE TypeInv'
  <2>1. call.key \in Key
    BY <1>5 DEF LockDone, CallOK
  <2>2. Answer("lock", call.key, IF ReadsEntry THEN vPtr[call.key] ELSE NULL) \in Rets
    BY <2>1, <1>null DEF Answer, Rets, KeyOrNull, TypeOK
  <2>3. call' \in Call /\ CallOK' /\ ret' \in Rets
    BY <1>5, <2>2, ReturnType DEF LockDone
  <2>4. ContentsType' /\ capacity' \in cachesize_t /\ live' \subseteq Value
    BY <1>5, <1>t, ContentsUnchanged DEF LockDone
  <2> QED  BY <2>3, <2>4, TypePartsNext
<1>6. ASSUME FreeDone PROVE TypeInv'
  <2>1. Answer(IF call.target = 0 THEN "clear" ELSE "free", NULL,
               occupied <= call.target) \in Rets
    BY <1>null DEF Answer, Rets
  <2>2. call' \in Call /\ CallOK' /\ ret' \in Rets
    BY <1>6, <2>1, ReturnType DEF FreeDone
  <2>3. ContentsType' /\ capacity' \in cachesize_t /\ live' \subseteq Value
    BY <1>6, <1>t, ContentsUnchanged DEF FreeDone
  <2> QED  BY <2>2, <2>3, TypePartsNext
<1>7. ASSUME ResizeDone PROVE TypeInv'
  <2>1. NoAnswer \in Rets
    BY <1>null DEF NoAnswer, Answer, Rets
  <2>2. call' \in Call /\ CallOK' /\ ret' \in Rets
    BY <1>7, <2>1, ReturnType DEF ResizeDone
  <2>3. ContentsType' /\ capacity' \in cachesize_t /\ live' \subseteq Value
    BY <1>7, <1>t, ContentsUnchanged DEF ResizeDone, Call
  <2> QED  BY <2>2, <2>3, TypePartsNext
<1>8. ASSUME DestroyDone PROVE TypeInv'
  <2>1. call' \in Call /\ CallOK'
    BY <1>8, NoCallType DEF DestroyDone, NoCall, CallOK
  <2>2. ContentsType'
    BY <1>8, <1>sz, <1>null DEF DestroyDone, DropMap, ContentsType
  <2>3. capacity' \in cachesize_t /\ live' \subseteq Value /\ ret' \in Rets
    BY <1>8, <1>t DEF DestroyDone
  <2> QED  BY <2>1, <2>2, <2>3, TypePartsNext
<1>9. ASSUME NEW k \in Key, NEW v \in Value, NEW size \in Sizes, InsertTooBig(k, v, size)
      PROVE TypeInv'
  <2>1. Answer("insert", k, FALSE) \in Rets
    BY DEF Answer, Rets, KeyOrNull
  <2>2. call' \in Call /\ CallOK' /\ ret' \in Rets
    BY <1>9, <2>1, ReturnType DEF InsertTooBig
  <2>3. ContentsType' /\ capacity' \in cachesize_t /\ live' \subseteq Value
    BY <1>9, <1>t, ContentsUnchanged DEF InsertTooBig
  <2> QED  BY <2>2, <2>3, TypePartsNext
<1>10. ASSUME NEW k \in Key, NEW v \in Value, NEW size \in Sizes, NEW lock \in BOOLEAN,
              InsertCall(k, v, size, lock)
       PROVE TypeInv'
  <2> DEFINE target == IF size > capacity THEN 0 ELSE capacity - size
  <2>1. target \in cachesize_t /\ size \in cachesize_t
    BY <1>sz, <1>t, SizesAssumption DEF cachesize_t
  <2>2. EnterFree("insert", k, v, size, lock, target)
    BY <1>10 DEF InsertCall, RoomFor
  <2>3. "insert" \in Functions /\ k \in KeyOrNull /\ v \in ValueOrNull
    BY DEF Functions, KeyOrNull, ValueOrNull
  <2> HIDE DEF target
  <2>4. call' \in Call /\ CallOK' /\ ret' \in [fn  : {"none"}, key : {NULL}, res : {NULL}]
    BY <2>1, <2>2, <2>3, EnterFreeType
  <2>5. ContentsType' /\ capacity' \in cachesize_t /\ live' \subseteq Value
    BY <1>10, <1>t, ContentsUnchanged DEF InsertCall
  <2> QED  BY <2>4, <2>5, <1>none, TypePartsNext
<1>11. ASSUME NEW k \in Key, Item(k) PROVE TypeInv'
  <2>1. Answer("item", k, vPtr[k]) \in Rets
    BY DEF Answer, Rets, KeyOrNull, TypeOK
  <2>2. call' \in Call /\ CallOK' /\ ret' \in Rets
    BY <1>11, <2>1, ReturnType DEF Item
  <2>3. /\ next' \in [Key -> KeyOrNull] /\ prev' \in [Key -> KeyOrNull]
        /\ first' \in KeyOrNull /\ last' \in KeyOrNull
    BY <1>11, MoveToFrontType DEF Item, TypeOK, links
  <2>4. ContentsType'
    BY <1>11, <1>t, <2>3 DEF Item, ContentsType, fields
  <2>5. capacity' \in cachesize_t /\ live' \subseteq Value
    BY <1>11, <1>t DEF Item
  <2> QED  BY <2>2, <2>4, <2>5, TypePartsNext
<1>12. ASSUME NEW k \in Key, Remove(k) PROVE TypeInv'
  <2>1. Answer("remove", k, ~locked[k]) \in Rets
    BY DEF Answer, Rets, KeyOrNull
  <2>2. call' \in Call /\ CallOK' /\ ret' \in Rets
    BY <1>12, <2>1, ReturnType DEF Remove, Removable
  <2>3. ContentsType' /\ live' \subseteq Value
    BY <1>12, <1>t, ContentsUnchanged, EraseType DEF Remove
  <2>4. capacity' \in cachesize_t
    BY <1>12, <1>t DEF Remove
  <2> QED  BY <2>2, <2>3, <2>4, TypePartsNext
<1>13. ASSUME NEW k \in Key, LockMissing(k) PROVE TypeInv'
  <2>1. Answer("lock", k, NULL) \in Rets
    BY <1>null DEF Answer, Rets, KeyOrNull
  <2>2. call' \in Call /\ CallOK' /\ ret' \in Rets
    BY <1>13, <2>1, ReturnType DEF LockMissing
  <2>3. ContentsType' /\ capacity' \in cachesize_t /\ live' \subseteq Value
    BY <1>13, <1>t, ContentsUnchanged DEF LockMissing
  <2> QED  BY <2>2, <2>3, TypePartsNext
<1>14. ASSUME NEW k \in Key, NEW lock \in BOOLEAN, LockCall(k, lock) PROVE TypeInv'
  <2>1. EnterFree("lock", k, NULL, 0, lock, capacity)
    BY <1>14 DEF LockCall
  <2>2. "lock" \in Functions /\ k \in KeyOrNull
    BY DEF Functions, KeyOrNull
  <2>3. call' \in Call /\ CallOK' /\ ret' \in [fn  : {"none"}, key : {NULL}, res : {NULL}]
    BY <1>null, <1>sz, <1>t, <2>1, <2>2, EnterFreeType
  <2>4. ContentsType' /\ capacity' \in cachesize_t /\ live' \subseteq Value
    BY <1>14, <1>t DEF LockCall, ContentsType, links
  <2> QED  BY <2>3, <2>4, <1>none, TypePartsNext
<1>15. ASSUME NEW f \in {"free", "resize", "destroy"}, NEW size \in cachesize_t,
              NEW target \in cachesize_t,
              EnterFree(f, NULL, NULL, size, FALSE, target),
              UNCHANGED <<contents, capacity, live>>
       PROVE TypeInv'
  <2>1. f \in Functions /\ FALSE \in BOOLEAN /\ f # "insert" /\ f # "lock"
    BY DEF Functions
  <2>2. call' \in Call /\ CallOK' /\ ret' \in [fn  : {"none"}, key : {NULL}, res : {NULL}]
    BY <1>15, <1>null, <2>1, EnterFreeType
  <2>3. ContentsType' /\ capacity' \in cachesize_t /\ live' \subseteq Value
    BY <1>15, <1>t, ContentsUnchanged
  <2> QED  BY <2>2, <2>3, <1>none, TypePartsNext
<1>16. ASSUME NEW size \in Sizes, FreeCall(size) \/ ResizeCall(size) PROVE TypeInv'
  BY <1>15, <1>16, <1>sz DEF FreeCall, ResizeCall
<1>17. ASSUME DestroyCall PROVE TypeInv'
  BY <1>15, <1>17, <1>sz DEF DestroyCall
<1>18. ASSUME UNCHANGED vars PROVE TypeInv'
  BY <1>18, <1>t DEF vars, contents, fields, links, TypeOK, CallOK
<1> QED
  BY <1>1, <1>2, <1>3, <1>4, <1>5, <1>6, <1>7, <1>8, <1>9, <1>10, <1>11, <1>12,
     <1>13, <1>14, <1>16, <1>17, <1>18
  DEF Next, Begin, Continue, BeginOther, BeginInsert

\* The empty cache is well-typed.
LEMMA InitType == Init => TypeInv
  BY SizesAssumption, NoCallType
  DEF Init, TypeInv, TypeOK, CallOK, KeyOrNull, ValueOrNull, cachesize_t, NoAnswer,
      Answer, NoCall

\* Every variable keeps its type; in particular the unsigned sizes never
\* leave their width and every cursor is a key or null.
THEOREM Typing == Spec => []TypeOK
<1>1. Spec => []TypeInv
  BY InitType, StepType, PTL DEF Spec
<1> QED  BY <1>1, PTL DEF TypeInv

-----------------------------------------------------------------------------
(* The inductive invariant.                                                *)

\* Every field of a key outside the map has its null value.
Fields ==
    \A k \in Key : IF k \in entries
                  THEN vPtr[k] \in Value
                  ELSE /\ vPtr[k] = NULL /\ cost[k] = 0 /\ locked[k] = FALSE
                       /\ prev[k] = NULL /\ next[k] = NULL

\* The n entries in s form the list, and their sizes add up to `occupied'.
Structured(n, s) == Chain(n, s) /\ \E t : IsTotal(n, s, t, cost, occupied)

\* The entries free() has passed, those behind its cursor, are all locked.
Swept(n, s) ==
    Freeing => \/ call.cur = NULL /\ \A k \in entries : locked[k]
               \/ \E i \in 1..n : /\ s[i] = call.cur
                                 /\ \A j \in 1..n : j > i => locked[s[j]]

ListInv == \E n \in Nat : \E s : Structured(n, s) /\ Swept(n, s)

\* What a call in progress has established about its arguments.
Args ==
    /\ call.fn = "insert" =>
          /\ call.key \notin entries
          /\ occupied + call.size <= MaxSize
          /\ call.size <= capacity \/ call.lock
          /\ call.target = IF call.size > capacity THEN 0 ELSE capacity - call.size
    /\ call.fn = "lock" => call.target = capacity
    /\ call.fn = "resize" => call.target = call.size
    /\ call.fn = "destroy" => call.target = 0

\* OverfilledByLocks, while the entry lock() unlocks may still be there.
ByLocks ==
    Overfilled => \A k \in entries : \/ locked[k] \/ cost[k] = 0
                                     \/ call.fn = "lock" /\ call.key = k

LockRuns ==
    call.fn = "lock" =>
        /\ call.lock => call.key \in entries /\ locked[call.key]
        /\ ~call.lock /\ ~call.over => call.key \in entries /\ ~Overfilled
        /\ ~call.lock /\ call.over /\ call.key \in entries =>
              Overfilled /\ ~locked[call.key]

RetInv == (Freeing => ret = NoAnswer) /\ Answers

Rest == Fields /\ ListInv /\ Args /\ ByLocks /\ LockRuns /\ Owned /\ RetInv
Inv  == TypeInv /\ Rest

-----------------------------------------------------------------------------
(* The list and the totals under the operations on the contents.           *)

\* The entries of the list are keys of the map, with sizes.
LEMMA CostType ==
  ASSUME TypeOK, NEW n \in Nat, NEW s, Chain(n, s)
  PROVE  \A i \in 1..n : cost[s[i]] \in Nat /\ s[i] \in Key /\ s[i] \in entries
  BY SizesAssumption DEF TypeOK, Chain, cachesize_t

\* Erasing the m-th entry leaves the list without it, and the total without
\* its size; the unsigned subtraction does not wrap.
LEMMA EraseStructured ==
  ASSUME TypeOK, NEW n \in Nat, NEW s, Structured(n, s), NEW m \in 1..n, Erase(s[m])
  PROVE  /\ Structured(n - 1, Removed(n, s, m))'
         /\ occupied' = occupied - cost[s[m]]
         /\ cost[s[m]] <= occupied
<1>1. Chain(n, s)
  BY DEF Structured
<1>2. PICK t : IsTotal(n, s, t, cost, occupied)
  BY DEF Structured
<1> DEFINE x == cost[s[m]]
<1>3. /\ \A i \in 1..n : cost[s[i]] \in Nat /\ s[i] \in Key
      /\ \A i, j \in 1..n : s[i] = s[j] => i = j
  BY <1>1, CostType DEF Chain, IsList
<1>4. \A i \in 1..n : i # m => cost'[s[i]] = cost[s[i]]
  BY <1>3 DEF Erase, TypeOK
<1>5. /\ occupied \in Nat /\ x <= occupied
      /\ \E u : IsTotal(n - 1, Removed(n, s, m), u, cost', occupied - x)
  BY <1>2, <1>3, <1>4, TotalRemoved
<1>6. occupied' = occupied - x
  <2>1. occupied - x \in 0..MaxSize
    BY <1>3, <1>5, SizesAssumption DEF TypeOK, cachesize_t
  <2>2. Wrapped(occupied - x) = occupied - x
    BY <2>1, SizesAssumption DEF Wrapped
  <2> QED  BY <2>2 DEF Erase, OccupiedWithout
<1>7. Chain(n - 1, Removed(n, s, m))'
  BY <1>1, EraseList
<1> QED  BY <1>5, <1>6, <1>7 DEF Structured

\* Nothing occupied: all sizes are 0.
LEMMA ZeroTotal ==
  ASSUME TypeOK, NEW n \in Nat, NEW s, Structured(n, s), occupied = 0
  PROVE  \A y \in entries : cost[y] = 0
<1> TAKE y \in entries
<1>1. PICK t : IsTotal(n, s, t, cost, occupied)
  BY DEF Structured
<1>2. PICK i \in 1..n : s[i] = y
  BY DEF Structured, Chain
<1>3. /\ t[i] = t[i - 1] + cost[y] /\ t[i] \in Nat /\ t[i - 1] \in Nat
      /\ t[i] <= t[n] /\ t[n] = 0
  BY <1>1, <1>2 DEF IsTotal
<1>4. cost[y] \in Nat
  BY SizesAssumption DEF TypeOK, cachesize_t
<1> QED  BY <1>3, <1>4

\* The list and the total stay when nothing they depend on changes.
LEMMA SameStructured ==
  ASSUME NEW n, NEW s, Structured(n, s), UNCHANGED <<entries, links, cost, occupied>>
  PROVE  Structured(n, s)'
  BY DEF Structured, Chain, IsList, links

\* A hit re-orders the list and keeps the total.
LEMMA MoveStructured ==
  ASSUME TypeOK, NEW n \in Nat, NEW s, Structured(n, s), NEW k \in entries,
         MoveToFront(k), UNCHANGED <<entries, cost, occupied>>
  PROVE  \E r : Structured(n, r)'
<1>1. Chain(n, s)
  BY DEF Structured
<1>2. PICK t : IsTotal(n, s, t, cost, occupied)
  BY DEF Structured
<1>3. PICK m \in 1..n : s[m] = k
  BY <1>1 DEF Chain
<1>4. CASE m = 1
  <2>1. k = first
    BY <1>1, <1>3, <1>4 DEF Chain, IsList
  <2> QED  BY <2>1, SameStructured DEF MoveToFront
<1>5. CASE m # 1
  <2>1. m \in 2..n
    BY <1>5
  <2>2. Chain(n, Fronted(n, s, m))'
    BY <1>1, <1>3, <2>1, MoveList
  <2>3. \E u : IsTotal(n, Fronted(n, s, m), u, cost, occupied)
    BY <1>1, <1>2, CostType, TotalFronted
  <2> QED  BY <2>2, <2>3 DEF Structured
<1> QED  BY <1>4, <1>5

\* A new entry that fits the width goes to the front and adds its size.
LEMMA LinkStructured ==
  ASSUME TypeOK, Fields, NEW n \in Nat, NEW s, Structured(n, s),
         NEW k \in Key \ entries, NEW v, NEW size \in cachesize_t, NEW lock,
         occupied + size <= MaxSize, Link(k, v, size, lock)
  PROVE  /\ Structured(n + 1, Pushed(n, s, k))'
         /\ occupied' = occupied + size
<1>1. Chain(n, s)
  BY DEF Structured
<1>2. PICK t : IsTotal(n, s, t, cost, occupied)
  BY DEF Structured
<1>3. \A i \in 1..n : cost[s[i]] \in Nat /\ s[i] \in Key /\ s[i] \in entries
  BY <1>1, CostType
<1>4. size \in Nat /\ occupied \in Nat
  BY SizesAssumption DEF TypeOK, cachesize_t
<1>5. cost' = [cost EXCEPT ![k] = size]
  BY DEF Link
<1>6. cost'[k] = size /\ \A i \in 1..n : cost'[s[i]] = cost[s[i]]
  BY <1>3, <1>5 DEF TypeOK
<1>7. \E u : IsTotal(n + 1, Pushed(n, s, k), u, cost', occupied + size)
  BY <1>2, <1>3, <1>4, <1>6, TotalPushed
<1>8. occupied' = occupied + size
  <2>1. occupied + size \in 0..MaxSize
    BY <1>4, SizesAssumption
  <2>2. Wrapped(occupied + size) = occupied + size
    BY <2>1, SizesAssumption DEF Wrapped
  <2> QED  BY <2>2 DEF Link
<1>9. prev[k] = NULL /\ next[k] = NULL
  BY DEF Fields
<1>10. Chain(n + 1, Pushed(n, s, k))'
  BY <1>1, <1>9, LinkList
<1> QED  BY <1>7, <1>8, <1>10 DEF Structured

\* free() starts at the end of the list.
LEMMA SweepStarts ==
  ASSUME NEW n \in Nat, NEW s, Structured(n, s)', call'.cur = last'
  PROVE  Swept(n, s)'
<1>1. Chain(n, s)'
  BY DEF Structured
<1>2. CASE n = 0
  <2>1. last' = NULL /\ entries' = {}
    BY <1>1, <1>2 DEF Chain, IsList
  <2> QED  BY <2>1 DEF Swept
<1>3. CASE n # 0
  <2>1. n \in 1..n /\ s[n] = last' /\ \A j \in 1..n : ~(j > n)
    BY <1>1, <1>3 DEF Chain, IsList
  <2> QED  BY <2>1 DEF Swept
<1> QED  BY <1>2, <1>3

\* Outside free() nothing has been passed.
LEMMA NotSweeping ==
  ASSUME NEW n, NEW s, ~Freeing'
  PROVE  Swept(n, s)'
  BY DEF Swept, Freeing

-----------------------------------------------------------------------------
(* Every action preserves the invariant (TypeInv is StepType's).           *)

\* free() passes a locked entry.
LEMMA SkipKeeps == ASSUME Inv, Skip PROVE Rest'
<1> USE DEF Inv, TypeInv, Rest
<1>1. /\ Freeing /\ call.cur # NULL /\ locked[call.cur]
      /\ call' = [call EXCEPT !.cur = prev[call.cur]]
      /\ UNCHANGED <<contents, capacity, live, ret>>
  BY DEF Skip, Advance, LoopOn, Removable
<1>2. /\ call'.fn = call.fn /\ call'.key = call.key /\ call'.value = call.value
      /\ call'.size = call.size /\ call'.lock = call.lock
      /\ call'.target = call.target /\ call'.over = call.over
      /\ call'.cur = prev[call.cur]
  BY <1>1 DEF TypeOK, Call
<1>3. UNCHANGED <<entries, vPtr, cost, locked, prev, next, first, last, occupied, capacity, live, ret>>
  BY <1>1 DEF contents, fields, links
<1>4. ListInv'
  <2>1n. PICK n \in Nat : \E s : Structured(n, s) /\ Swept(n, s)
    BY DEF ListInv
  <2>1. PICK s : Structured(n, s) /\ Swept(n, s)
    BY <2>1n
  <2>2. PICK i \in 1..n : s[i] = call.cur /\ \A j \in 1..n : j > i => locked[s[j]]
    BY <1>1, <2>1 DEF Swept
  <2>3. Structured(n, s)'
    BY <1>3, <2>1, SameStructured DEF links
  <2>4. Chain(n, s)
    BY <2>1 DEF Structured
  <2>5. prev[s[i]] = IF i = 1 THEN NULL ELSE s[i - 1]
    BY <2>4 DEF Chain, IsList
  <2>6. \A j \in 1..n : j > i - 1 => locked[s[j]]
    BY <1>1, <2>2
  <2>7. Swept(n, s)'
    <3>1. CASE i = 1
      <4>1. \A k \in entries : locked[k]
        BY <2>4, <2>6, <3>1 DEF Chain
      <4> QED  BY <4>1, <1>2, <1>3, <2>2, <2>5, <3>1 DEF Swept
    <3>2. CASE i # 1
      <4>1. i - 1 \in 1..n /\ s[i - 1] = call'.cur
        BY <1>2, <2>2, <2>5, <3>2
      <4> QED  BY <4>1, <1>3, <2>6 DEF Swept
    <3> QED  BY <3>1, <3>2
  <2> QED  BY <2>3, <2>7 DEF ListInv
<1>5. Args'
  BY <1>2, <1>3 DEF Args
<1>6. ByLocks' /\ LockRuns'
  BY <1>2, <1>3 DEF ByLocks, LockRuns, Overfilled
<1>7. Owned'
  BY <1>2, <1>3 DEF Owned, Alive
<1>8. RetInv'
  BY <1>1, <1>2, <1>3 DEF RetInv, Answers, Freeing
<1>9. Fields'
  BY <1>3 DEF Fields
<1> QED  BY <1>4, <1>5, <1>6, <1>7, <1>8, <1>9

\* What erasing an unlocked entry changes, whoever asks for it.
LEMMA EraseEffect ==
  ASSUME TypeOK, NEW k \in Key, Erase(k)
  PROVE  /\ entries' = entries \ {k}
         /\ \A x \in Key \ {k} : /\ vPtr'[x] = vPtr[x] /\ cost'[x] = cost[x]
                                 /\ locked'[x] = locked[x]
         /\ vPtr'[k] = NULL /\ cost'[k] = 0 /\ locked'[k] = FALSE
         /\ next'[k] = NULL /\ prev'[k] = NULL
         /\ live' = live \ {vPtr[k]}
<1>1. NextWithout(k) \in [Key -> KeyOrNull] /\ PrevWithout(k) \in [Key -> KeyOrNull]
  BY WithoutType
<1>2. next'[k] = NULL /\ prev'[k] = NULL
  BY <1>1 DEF Erase
<1> QED  BY <1>2 DEF Erase, Delete, TypeOK

\* Erasing an entry resets its fields and no others.
LEMMA EraseFields ==
  ASSUME TypeOK, Fields, ListInv, NEW k \in entries, Erase(k)
  PROVE  Fields'
<1>0. k \in Key
  BY DEF TypeOK
<1>1n. PICK n \in Nat : \E s : Structured(n, s)
  BY DEF ListInv
<1>1. PICK s : Structured(n, s)
  BY <1>1n
<1>2. Chain(n, s)
  BY <1>1 DEF Structured
<1>3. PICK m \in 1..n : s[m] = k
  BY <1>2 DEF Chain
<1>4. /\ prev[k] = NULL \/ prev[k] \in entries
      /\ next[k] = NULL \/ next[k] \in entries
  <2>1. prev[k] = IF m = 1 THEN NULL ELSE s[m - 1]
    BY <1>2, <1>3 DEF Chain, IsList
  <2>2. next[k] = IF m = n THEN NULL ELSE s[m + 1]
    BY <1>2, <1>3 DEF Chain, IsList
  <2>3. m # 1 => m - 1 \in 1..n
    OBVIOUS
  <2>4. m # n => m + 1 \in 1..n
    OBVIOUS
  <2> QED  BY <2>1, <2>2, <2>3, <2>4, <1>2 DEF Chain
<1>5. /\ \A x \in Key \ {k} : next'[x] = IF x = prev[k] THEN next[k] ELSE next[x]
      /\ \A x \in Key \ {k} : prev'[x] = IF x = next[k] THEN prev[k] ELSE prev[x]
  BY <1>0, ErasePointers
<1>6. ASSUME NEW x \in Key, x \notin entries', x # k
      PROVE  next'[x] = NULL /\ prev'[x] = NULL
  <2>1. x \notin entries
    BY <1>0, <1>6, EraseEffect
  <2>2. x # prev[k] /\ x # next[k]
    BY <2>1, <1>4, <1>6, NullAssumption
  <2> QED  BY <2>1, <2>2, <1>5, <1>6 DEF Fields
<1> QED  BY <1>0, <1>6, EraseEffect DEF Fields

\* The list and the totals under the erasure of any entry.
LEMMA EraseTotals ==
  ASSUME TypeOK, ListInv, NEW k \in entries, Erase(k)
  PROVE  /\ occupied' = occupied - cost[k] /\ cost[k] <= occupied
         /\ occupied \in Nat /\ cost[k] \in Nat
<1>1n. PICK n \in Nat : \E s : Structured(n, s)
  BY DEF ListInv
<1>1. PICK s : Structured(n, s)
  BY <1>1n
<1>2. PICK m \in 1..n : s[m] = k
  BY <1>1 DEF Structured, Chain
<1>3. occupied \in Nat /\ cost[k] \in Nat
  BY SizesAssumption DEF TypeOK, cachesize_t
<1> QED  BY <1>1, <1>2, <1>3, EraseStructured

\* free() erases an unlocked entry and goes on with the one before it.
LEMMA EvictKeeps == ASSUME Inv, Evict PROVE Rest'
<1> USE DEF Inv, TypeInv, Rest
<1> DEFINE k == call.cur
<1>1. /\ Freeing /\ k # NULL /\ ~locked[k] /\ occupied > call.target
      /\ call' = [call EXCEPT !.cur = prev[k]]
      /\ Erase(k)
      /\ UNCHANGED <<capacity, ret>>
  BY DEF Evict, Advance, LoopOn, Removable
<1>2. /\ call'.fn = call.fn /\ call'.key = call.key /\ call'.value = call.value
      /\ call'.size = call.size /\ call'.lock = call.lock
      /\ call'.target = call.target /\ call'.over = call.over
      /\ call'.cur = prev[k]
  BY <1>1 DEF TypeOK, Call
<1>3n. PICK n \in Nat : \E s : Structured(n, s) /\ Swept(n, s)
  BY DEF ListInv
<1>3. PICK s : Structured(n, s) /\ Swept(n, s)
  BY <1>3n
<1>4. PICK m \in 1..n : s[m] = k /\ \A j \in 1..n : j > m => locked[s[j]]
  BY <1>1, <1>3 DEF Swept
<1>5. Chain(n, s)
  BY <1>3 DEF Structured
<1>6. k \in entries /\ k \in Key
  BY <1>4, <1>5, CostType
<1>7. /\ entries' = entries \ {k}
      /\ \A x \in Key \ {k} : /\ vPtr'[x] = vPtr[x] /\ cost'[x] = cost[x]
                              /\ locked'[x] = locked[x]
      /\ live' = live \ {vPtr[k]}
  BY <1>1, <1>6, EraseEffect
<1>8. /\ occupied' = occupied - cost[k] /\ cost[k] <= occupied
      /\ occupied \in Nat /\ cost[k] \in Nat
  BY <1>1, <1>6, EraseTotals
<1>9. entries \subseteq Key
  BY DEF TypeOK
<1> HIDE DEF k
<1>10. ListInv'
  <2> DEFINE r == Removed(n, s, m)
  <2>1. Structured(n - 1, r)'
    BY <1>1, <1>3, <1>4, EraseStructured
  <2>2. \A i \in 1..(n - 1) : r[i] = IF i < m THEN s[i] ELSE s[i + 1]
    BY DEF Removed
  <2>3. Chain(n - 1, r)'
    BY <2>1 DEF Structured
  <2>4. \A i \in 1..(n - 1) : r[i] \in entries'
    BY <2>3 DEF Chain
  <2>5. prev[k] = IF m = 1 THEN NULL ELSE s[m - 1]
    BY <1>4, <1>5 DEF Chain, IsList
  <2> HIDE DEF r
  <2>6. \A j \in 1..(n - 1) : j > m - 1 => locked'[r[j]]
    <3> SUFFICES ASSUME NEW j \in 1..(n - 1), j > m - 1 PROVE locked'[r[j]]
      OBVIOUS
    <3>1. r[j] = s[j + 1] /\ j + 1 \in 1..n /\ j + 1 > m
      BY <2>2
    <3>2. r[j] \in Key \ {k}
      BY <2>4, <1>7, <1>9
    <3> QED  BY <3>1, <3>2, <1>4, <1>7
  <2>7. Swept(n - 1, r)'
    <3>1. CASE m = 1
      <4>1. \A x \in entries' : locked'[x]
        BY <2>3, <2>6, <3>1 DEF Chain
      <4> QED  BY <4>1, <1>2, <2>5, <3>1 DEF Swept
    <3>2. CASE m # 1
      <4>1. m - 1 \in 1..(n - 1) /\ r[m - 1] = s[m - 1]
        BY <2>2, <3>2
      <4>2. r[m - 1] = call'.cur
        BY <4>1, <1>2, <2>5, <3>2
      <4> QED  BY <4>1, <4>2, <2>6 DEF Swept
    <3> QED  BY <3>1, <3>2
  <2>8. n - 1 \in Nat
    OBVIOUS
  <2> QED  BY <2>1, <2>7, <2>8 DEF ListInv
<1>11. Args'
  <2>1. call.size \in Nat /\ MaxSize \in Nat
    BY SizesAssumption DEF TypeOK, Call, cachesize_t
  <2> QED  BY <2>1, <1>1, <1>2, <1>7, <1>8 DEF Args
<1>12. capacity \in Nat /\ call.target \in Nat
  BY SizesAssumption DEF TypeOK, Call, cachesize_t
<1>13. ByLocks'
  <2> SUFFICES ASSUME Overfilled', NEW x \in entries'
               PROVE  (locked[x] \/ cost[x] = 0 \/ (call.fn = "lock" /\ call.key = x))'
    BY DEF ByLocks
  <2>1. Overfilled
    BY <1>1, <1>8, <1>12 DEF Overfilled
  <2>2. x \in entries /\ x \in Key \ {k}
    BY <1>7, <1>9
  <2> QED  BY <2>1, <2>2, <1>2, <1>7 DEF ByLocks
<1>14. LockRuns'
  <2> SUFFICES ASSUME call.fn = "lock" PROVE LockRuns'
    BY <1>2 DEF LockRuns
  <2>1. Overfilled
    BY <1>1 DEF Args, Overfilled
  <2>2. CASE call.lock
    <3>1. call.key \in entries /\ locked[call.key]
      BY <2>2 DEF LockRuns
    <3>2. call.key # k /\ call.key \in Key
      BY <3>1, <1>1, <1>9 DEF k
    <3> QED  BY <2>2, <3>1, <3>2, <1>2, <1>7 DEF LockRuns
  <2>3. CASE ~call.lock
    <3>1. call.over
      BY <2>1, <2>3 DEF LockRuns
    <3>2. ASSUME call.key \in entries' PROVE Overfilled' /\ ~locked'[call.key]
      <4>1. call.key \in entries /\ call.key # k /\ call.key \in Key
        BY <3>2, <1>7, <1>9
      <4>2. Overfilled /\ ~locked[call.key]
        BY <2>3, <3>1, <4>1 DEF LockRuns
      <4>3. cost[k] = 0
        BY <4>1, <4>2, <1>1, <1>6 DEF ByLocks, k
      <4> QED  BY <4>1, <4>2, <4>3, <1>1, <1>7, <1>8 DEF Overfilled
    <3> QED  BY <2>3, <3>1, <3>2, <1>2 DEF LockRuns
  <2> QED  BY <2>2, <2>3
<1>15. Owned'
  <2>1. \A x \in entries' : x \in entries /\ x # k /\ vPtr'[x] = vPtr[x]
    BY <1>7, <1>9
  <2>2. \A x \in entries : x # k => x \in entries' /\ vPtr[x] # vPtr[k]
    BY <1>6, <1>7 DEF Owned, Alive
  <2>3. call.fn = "insert" => call.value # vPtr[k]
    BY <1>6 DEF Owned, Alive
  <2>4. {vPtr'[x] : x \in entries'} = {vPtr[x] : x \in entries} \ {vPtr[k]}
    BY <2>1, <2>2, <1>6
  <2>5. live' = {vPtr'[x] : x \in entries'}
                  \cup (IF call.fn = "insert" THEN {call.value} ELSE {})
    <3>1. live = {vPtr[x] : x \in entries}
                   \cup (IF call.fn = "insert" THEN {call.value} ELSE {})
      BY <1>1 DEF Owned, Alive, Freeing
    <3> QED  BY <2>3, <2>4, <3>1, <1>7
  <2>6. \A x, y \in entries' : vPtr'[x] = vPtr'[y] => x = y
    BY <2>1 DEF Owned, Alive
  <2>7. call.fn = "insert" => \A x \in entries' : vPtr'[x] # call.value
    BY <2>1 DEF Owned, Alive
  <2> QED  BY <2>5, <2>6, <2>7, <1>2 DEF Owned, Alive
<1>16. RetInv'
  <2>1. ret' = NoAnswer
    BY <1>1 DEF RetInv
  <2> QED  BY <2>1 DEF RetInv, Answers, NoAnswer, Answer
<1>17. Fields'
  BY <1>1, <1>6, EraseFields DEF k
<1> QED  BY <1>10, <1>11, <1>13, <1>14, <1>15, <1>16, <1>17

\* A step that leaves the list alone keeps it, when it starts or ends free().
LEMMA ListKept ==
  ASSUME ListInv, UNCHANGED <<entries, links, cost, occupied>>,
         ~Freeing' \/ call'.cur = last'
  PROVE  ListInv'
<1>1n. PICK n \in Nat : \E s : Structured(n, s)
  BY DEF ListInv
<1>1. PICK s : Structured(n, s)
  BY <1>1n
<1>2. Structured(n, s)'
  BY <1>1, SameStructured
<1>3. Swept(n, s)'
  BY <1>2, SweepStarts, NotSweeping
<1> QED  BY <1>2, <1>3 DEF ListInv

\* free() gives up only when nothing unlocked is left.
LEMMA GivenUp ==
  ASSUME TypeOK, ListInv, LoopDone, occupied > call.target
  PROVE  \A k \in entries : locked[k]
<1>1. Freeing /\ call.cur = NULL
  BY DEF LoopDone
<1>2n. PICK n \in Nat : \E s : Structured(n, s) /\ Swept(n, s)
  BY DEF ListInv
<1>2. PICK s : Structured(n, s) /\ Swept(n, s)
  BY <1>2n
<1>3. CASE \A k \in entries : locked[k]
  BY <1>3
<1>4. CASE \E i \in 1..n : s[i] = call.cur
  <2>1. PICK i \in 1..n : s[i] = NULL
    BY <1>1, <1>4
  <2>2. NULL \in Key
    BY <1>2, <2>1, CostType DEF Structured
  <2> QED  BY <2>2, NullAssumption
<1> QED  BY <1>1, <1>2, <1>3, <1>4 DEF Swept

\* No call is in progress after one has returned.
LEMMA ReturnEffect ==
  ASSUME NEW a, Return(a)
  PROVE  /\ call'.fn = "none" /\ ret' = a /\ ~Freeing' /\ Idle'
         /\ Args' /\ LockRuns'
  BY DEF Return, NoCall, Freeing, Idle, Args, LockRuns

\* Steps that end a call and leave the contents as they are.
LEMMA QuietReturn ==
  ASSUME Inv, UNCHANGED contents, NEW a, Return(a),
         Overfilled' => \A k \in entries : locked[k] \/ cost[k] = 0
  PROVE  Fields' /\ ListInv' /\ Args' /\ ByLocks' /\ LockRuns'
<1> USE DEF Inv, Rest
<1>1. UNCHANGED <<entries, vPtr, cost, locked, prev, next, first, last, occupied>>
  BY DEF contents, fields, links
<1>2. Args' /\ LockRuns' /\ ~Freeing'
  BY ReturnEffect
<1>3. ListInv'
  BY <1>1, <1>2, ListKept DEF links
<1>4. Fields'
  BY <1>1 DEF Fields
<1>5. ByLocks'
  BY <1>1 DEF ByLocks
<1> QED  BY <1>2, <1>3, <1>4, <1>5

\* insert() deletes a value there is no room for.
LEMMA InsertRefusedKeeps == ASSUME Inv, InsertRefused PROVE Rest'
<1> USE DEF Inv, TypeInv, Rest
<1>1. /\ call.fn = "insert" /\ UNCHANGED <<contents, capacity>>
      /\ live' = live \ {call.value}
      /\ Return(Answer("insert", call.key, FALSE))
  BY DEF InsertRefused, Delete
<1>2. UNCHANGED <<entries, vPtr, cost, locked, occupied, capacity>>
  BY <1>1 DEF contents, fields
<1>3. Overfilled' => \A k \in entries : locked[k] \/ cost[k] = 0
  BY <1>1, <1>2 DEF ByLocks, Overfilled
<1>4. Fields' /\ ListInv' /\ Args' /\ ByLocks' /\ LockRuns'
  BY <1>1, <1>3, QuietReturn
<1>5. call'.fn = "none" /\ ~Freeing' /\ ret' = Answer("insert", call.key, FALSE)
  BY <1>1, ReturnEffect
<1>6. Owned'
  BY <1>1, <1>2, <1>5 DEF Owned, Alive
<1>7. RetInv'
  BY <1>1, <1>2, <1>5 DEF RetInv, Answers, Answer, Args
<1> QED  BY <1>4, <1>6, <1>7

\* insert() adds the new entry.
LEMMA InsertDoneKeeps == ASSUME Inv, InsertDone PROVE Rest'
<1> USE DEF Inv, TypeInv, Rest
<1> DEFINE k == call.key
           size == call.size
<1>1. /\ LoopDone /\ call.fn = "insert" /\ UNCHANGED <<capacity, live>>
      /\ occupied <= call.target \/ call.lock
      /\ Link(k, call.value, size, call.lock)
      /\ Return(Answer("insert", k, TRUE))
  BY DEF InsertDone
<1>2. /\ k \in Key \ entries /\ call.value \in Value /\ size \in cachesize_t
      /\ call.lock \in BOOLEAN
  BY <1>1 DEF TypeOK, CallOK, Call, Args
<1>3n. PICK n \in Nat : \E s : Structured(n, s)
  BY DEF ListInv
<1>3. PICK s : Structured(n, s)
  BY <1>3n
<1>4. occupied + size <= MaxSize /\ (size <= capacity \/ call.lock)
      /\ call.target = IF size > capacity THEN 0 ELSE capacity - size
  BY <1>1 DEF Args
<1>5. PICK r : Structured(n + 1, r)' /\ occupied' = occupied + size
  <2>1. PICK q : q = k
    OBVIOUS
  <2>2. Structured(n + 1, Pushed(n, s, q))' /\ occupied' = occupied + size
    BY <2>1, <1>1, <1>2, <1>3, <1>4, LinkStructured
  <2> QED  BY <2>2
<1>6. call'.fn = "none" /\ ~Freeing' /\ ret' = Answer("insert", k, TRUE) /\ Args' /\ LockRuns'
  BY <1>1, ReturnEffect
<1>7. ListInv'
  <2>1. Swept(n + 1, r)'
    BY <1>6, NotSweeping
  <2> QED  BY <1>5, <2>1 DEF ListInv
<1>8. /\ entries' = entries \cup {k}
      /\ vPtr' = [vPtr EXCEPT ![k] = call.value]
      /\ cost' = [cost EXCEPT ![k] = size]
      /\ locked' = [locked EXCEPT ![k] = call.lock]
  BY <1>1, <1>2 DEF Link
<1>9. entries \subseteq Key
  BY DEF TypeOK
<1>10. /\ vPtr'[k] = call.value /\ cost'[k] = size /\ locked'[k] = call.lock
       /\ \A x \in Key \ {k} : /\ vPtr'[x] = vPtr[x] /\ cost'[x] = cost[x]
                               /\ locked'[x] = locked[x]
  BY <1>2, <1>8 DEF TypeOK
<1>11. Fields'
  <2>1. ASSUME NEW x \in Key, x \notin entries'
        PROVE  prev'[x] = NULL /\ next'[x] = NULL
    <3>1. x # k /\ x \notin entries
      BY <1>8, <2>1
    <3>2. CASE first = NULL
      BY <1>1, <3>1, <3>2 DEF Link, Fields
    <3>3. CASE first # NULL
      <4>1. first \in entries
        <5>1. first = IF n = 0 THEN NULL ELSE s[1]
          BY <1>3 DEF Structured, Chain, IsList
        <5>2. n # 0 /\ 1 \in 1..n
          BY <5>1, <3>3
        <5> QED  BY <5>1, <5>2, <1>3 DEF Structured, Chain
      <4>2. next' = [next EXCEPT ![k] = first] /\ prev' = [prev EXCEPT ![first] = k]
        BY <1>1, <3>3 DEF Link
      <4> QED  BY <3>1, <4>1, <4>2, <2>1 DEF Fields, TypeOK
    <3> QED  BY <3>2, <3>3
  <2>2. ASSUME NEW x \in Key PROVE
          IF x \in entries' THEN vPtr'[x] \in Value
          ELSE vPtr'[x] = NULL /\ cost'[x] = 0 /\ locked'[x] = FALSE
    BY <1>2, <1>8, <1>10 DEF Fields
  <2> QED  BY <2>1, <2>2 DEF Fields
<1>12. occupied \in Nat /\ capacity \in Nat /\ size \in Nat
  BY <1>2, SizesAssumption DEF TypeOK, cachesize_t
<1>13. ByLocks'
  <2> SUFFICES ASSUME Overfilled', NEW x \in entries'
               PROVE  locked'[x] \/ cost'[x] = 0
    BY DEF ByLocks
  <2>1. occupied + size > capacity
    BY <1>1, <1>5 DEF Overfilled
  <2>2. CASE occupied > call.target
    <3>1. call.lock /\ \A y \in entries : locked[y]
      BY <2>2, <1>1, <1>12, <1>4, GivenUp
    <3> QED  BY <3>1, <1>8, <1>9, <1>10
  <2>3. CASE occupied <= call.target
    <3>1. size > capacity /\ call.lock /\ occupied = 0
      BY <2>1, <2>3, <1>4, <1>12
    <3>2. \A y \in entries : cost[y] = 0
      BY <3>1, <1>3, ZeroTotal
    <3> QED  BY <3>1, <3>2, <1>8, <1>9, <1>10
  <2> QED  BY <2>2, <2>3, <1>4, <1>12
<1>14. Owned'
  <2>1. \A x \in entries : vPtr'[x] = vPtr[x] /\ vPtr[x] # call.value
    BY <1>1, <1>2, <1>9, <1>10 DEF Owned, Alive
  <2>2. {vPtr'[x] : x \in entries'} = {vPtr[x] : x \in entries} \cup {call.value}
    BY <2>1, <1>8, <1>10
  <2>3. live' = {vPtr'[x] : x \in entries'}
    BY <2>2, <1>1 DEF Owned, Alive
  <2>4. \A x, y \in entries' : vPtr'[x] = vPtr'[y] => x = y
    BY <2>1, <1>8, <1>10 DEF Owned, Alive
  <2> QED  BY <2>3, <2>4, <1>6 DEF Owned, Alive
<1>15. RetInv'
  BY <1>6, <1>8 DEF RetInv, Answers, Answer
<1> QED  BY <1>6, <1>7, <1>11, <1>13, <1>14, <1>15

\* lock() returns its entry, or nothing when free() has erased it.
LEMMA LockDoneKeeps == ASSUME Inv, LockDone PROVE Rest'
<1> USE DEF Inv, TypeInv, Rest
<1> DEFINE k == call.key
           res == IF ReadsEntry THEN vPtr[k] ELSE NULL
<1>1. /\ LoopDone /\ call.fn = "lock" /\ UNCHANGED <<contents, capacity, live>>
      /\ Return(Answer("lock", k, res))
  BY DEF LockDone
<1>2. UNCHANGED <<entries, vPtr, cost, locked, occupied, capacity, live>>
  BY <1>1 DEF contents, fields
<1>3. call'.fn = "none" /\ ~Freeing' /\ ret' = Answer("lock", k, res)
  BY <1>1, ReturnEffect
<1>4. occupied \in Nat /\ capacity \in Nat /\ call.target = capacity
  BY <1>1, SizesAssumption DEF TypeOK, cachesize_t, Args
<1>5. Overfilled => \A x \in entries : locked[x]
  BY <1>1, <1>4, GivenUp DEF Overfilled
<1>6. Overfilled' => \A x \in entries : locked[x] \/ cost[x] = 0
  BY <1>2, <1>5 DEF Overfilled
<1>7. Fields' /\ ListInv' /\ Args' /\ ByLocks' /\ LockRuns'
  BY <1>1, <1>6, QuietReturn
<1>8. Owned'
  BY <1>1, <1>2, <1>3 DEF Owned, Alive
<1>9. k \in Key /\ call.lock \in BOOLEAN /\ call.over \in BOOLEAN
  BY <1>1 DEF TypeOK, CallOK, Call
<1>10. res = vPtr[k] /\ (res # NULL <=> k \in entries)
  <2>1. k \in entries => vPtr[k] # NULL
    BY <1>9, NullAssumption DEF Fields
  <2>2. k \notin entries => vPtr[k] = NULL
    BY <1>9 DEF Fields
  <2>3. CASE ~ReadsEntry
    <3>1. k \notin entries
      BY <2>3, <1>1, <1>5 DEF LockRuns, ReadsEntry
    <3> QED  BY <2>2, <2>3, <3>1
  <2>4. CASE ReadsEntry
    BY <2>1, <2>2, <2>4
  <2> QED  BY <2>3, <2>4
<1> HIDE DEF res
<1>11. RetInv'
  BY <1>2, <1>3, <1>10 DEF RetInv, Answers, Answer
<1> QED  BY <1>7, <1>8, <1>11

\* Calls that have not begun or are over own no argument.
LEMMA SameOwned ==
  ASSUME Owned, UNCHANGED <<entries, vPtr, live>>,
         call.fn # "gone", call.fn # "insert", call'.fn # "insert"
  PROVE  Owned'
  BY DEF Owned, Alive

\* Answers of the other functions promise nothing.
LEMMA SilentAnswers ==
  ASSUME NEW a, ret' = a, a.fn \notin {"lock", "insert"}
  PROVE  Answers'
  BY DEF Answers

\* free() and clear() return.
LEMMA FreeDoneKeeps == ASSUME Inv, FreeDone PROVE Rest'
<1> USE DEF Inv, TypeInv, Rest
<1> DEFINE a == Answer(IF call.target = 0 THEN "clear" ELSE "free", NULL,
                       occupied <= call.target)
<1>1. /\ call.fn = "free" /\ UNCHANGED <<contents, capacity, live>> /\ Return(a)
  BY DEF FreeDone
<1>2. UNCHANGED <<entries, vPtr, cost, locked, occupied, capacity, live>>
  BY <1>1 DEF contents, fields
<1>3. call'.fn = "none" /\ ~Freeing' /\ ret' = a
  BY <1>1, ReturnEffect
<1>4. Overfilled' => \A x \in entries : locked[x] \/ cost[x] = 0
  BY <1>1, <1>2 DEF ByLocks, Overfilled
<1>5. Fields' /\ ListInv' /\ Args' /\ ByLocks' /\ LockRuns'
  BY <1>1, <1>4, QuietReturn
<1>6. Owned'
  BY <1>1, <1>2, <1>3, SameOwned
<1>7. RetInv'
  <2>1. a.fn \notin {"lock", "insert"}
    BY DEF Answer
  <2> HIDE DEF a
  <2> QED  BY <2>1, <1>3, SilentAnswers DEF RetInv
<1> QED  BY <1>5, <1>6, <1>7

\* resize() sets a capacity that free() has reached or only locked entries exceed.
LEMMA ResizeDoneKeeps == ASSUME Inv, ResizeDone PROVE Rest'
<1> USE DEF Inv, TypeInv, Rest
<1>1. /\ call.fn = "resize" /\ LoopDone /\ capacity' = call.size
      /\ UNCHANGED <<contents, live>> /\ Return(NoAnswer)
  BY DEF ResizeDone
<1>2. UNCHANGED <<entries, vPtr, cost, locked, occupied, live>>
  BY <1>1 DEF contents, fields
<1>3. call'.fn = "none" /\ ~Freeing' /\ ret' = NoAnswer
  BY <1>1, ReturnEffect
<1>4. Overfilled' => \A x \in entries : locked[x] \/ cost[x] = 0
  <2>1. call.target = call.size
    BY <1>1 DEF Args
  <2> QED  BY <2>1, <1>1, <1>2, GivenUp DEF Overfilled
<1>5. Fields' /\ ListInv' /\ Args' /\ ByLocks' /\ LockRuns'
  BY <1>1, <1>4, QuietReturn
<1>6. Owned'
  BY <1>1, <1>2, <1>3, SameOwned
<1>7. RetInv'
  BY <1>3 DEF RetInv, Answers, NoAnswer, Answer
<1> QED  BY <1>5, <1>6, <1>7

\* The destructor ends, and the entries clear() could not remove go as well.
LEMMA DestroyDoneKeeps == ASSUME Inv, DestroyDone PROVE Rest'
<1> USE DEF Inv, TypeInv, Rest
<1>1. /\ call.fn = "destroy" /\ Freeing /\ call' = [NoCall EXCEPT !.fn = "gone"]
      /\ DropMap /\ UNCHANGED <<capacity, live, ret>>
  BY DEF DestroyDone, LoopDone
<1>2. /\ entries' = {} /\ first' = NULL /\ last' = NULL /\ occupied' = 0
      /\ \A k \in Key : vPtr'[k] = NULL /\ prev'[k] = NULL /\ next'[k] = NULL
      /\ ret' = ret
  BY <1>1 DEF DropMap
<1>3. call'.fn = "gone" /\ ~Freeing'
  BY <1>1 DEF NoCall, Freeing
<1>4. Fields'
  BY <1>1 DEF Fields, DropMap
<1>5. ListInv'
  <2>1. PICK s : s = [i \in 1..0 |-> NULL]
    OBVIOUS
  <2>2. PICK t : t = [i \in 0..0 |-> 0]
    OBVIOUS
  <2>3. Chain(0, s)'
    BY <1>2, <2>1 DEF Chain, IsList
  <2>4. IsTotal(0, s, t, cost', occupied')
    BY <1>2, <2>2 DEF IsTotal
  <2>5. Swept(0, s)'
    BY <1>3 DEF Swept
  <2>6. PICK zero \in Nat : zero = 0
    OBVIOUS
  <2>7. Structured(zero, s)'
    BY <2>3, <2>4, <2>6 DEF Structured
  <2>8. Swept(zero, s)'
    BY <2>5, <2>6
  <2> QED  BY <2>7, <2>8 DEF ListInv
<1>6. Args' /\ LockRuns'
  BY <1>3 DEF Args, LockRuns
<1>7. ByLocks'
  BY <1>2 DEF ByLocks
<1>8. Owned'
  BY <1>2, <1>3 DEF Owned, Alive
<1>9. RetInv'
  BY <1>1, <1>2, <1>3 DEF RetInv, Answers, NoAnswer, Answer
<1> QED  BY <1>4, <1>5, <1>6, <1>7, <1>8, <1>9

\* insert() refuses a value that can never fit.
LEMMA InsertTooBigKeeps ==
  ASSUME Inv, NEW k \in Key \ entries, NEW v \in Value, NEW size \in Sizes,
         InsertTooBig(k, v, size)
  PROVE  Rest'
<1> USE DEF Inv, TypeInv, Rest
<1>1. /\ call.fn = "none" /\ UNCHANGED <<contents, capacity, live>>
      /\ Return(Answer("insert", k, FALSE))
  BY DEF InsertTooBig, Idle
<1>2. UNCHANGED <<entries, vPtr, cost, locked, occupied, capacity, live>>
  BY <1>1 DEF contents, fields
<1>3. call'.fn = "none" /\ ~Freeing' /\ ret' = Answer("insert", k, FALSE)
  BY <1>1, ReturnEffect
<1>4. Overfilled' => \A x \in entries : locked[x] \/ cost[x] = 0
  BY <1>1, <1>2 DEF ByLocks, Overfilled
<1>5. Fields' /\ ListInv' /\ Args' /\ ByLocks' /\ LockRuns'
  BY <1>1, <1>4, QuietReturn
<1>6. Owned'
  BY <1>1, <1>2, <1>3, SameOwned
<1>7. RetInv'
  BY <1>2, <1>3 DEF RetInv, Answers, Answer
<1> QED  BY <1>5, <1>6, <1>7

\* What a call that enters free() leaves in `call' and `ret'.
LEMMA EnterEffect ==
  ASSUME NEW f, NEW k, NEW v, NEW size, NEW lock, NEW target,
         EnterFree(f, k, v, size, lock, target)
  PROVE  /\ call'.fn = f /\ call'.key = k /\ call'.value = v /\ call'.size = size
         /\ call'.lock = lock /\ call'.target = target /\ call'.cur = last
         /\ call'.over = Overfilled /\ ret' = NoAnswer /\ RetInv'
  BY DEF EnterFree, RetInv, Answers, NoAnswer, Answer

\* insert() takes the value over and starts to make room.
LEMMA InsertCallKeeps ==
  ASSUME Inv, NEW k \in Key \ entries, NEW v \in Value, NEW size \in Sizes,
         NEW lock \in BOOLEAN, occupied + size <= MaxSize,
         InsertCall(k, v, size, lock)
  PROVE  Rest'
<1> USE DEF Inv, TypeInv, Rest
<1> DEFINE target == IF size > capacity THEN 0 ELSE capacity - size
<1>1. /\ call.fn = "none" /\ UNCHANGED <<contents, capacity>>
      /\ v \notin live /\ live' = live \cup {v} /\ (size <= capacity \/ lock)
      /\ EnterFree("insert", k, v, size, lock, target)
  BY DEF InsertCall, Idle, RoomFor
<1>2. UNCHANGED <<entries, vPtr, cost, locked, prev, next, first, last, occupied, capacity>>
  BY <1>1 DEF contents, fields, links
<1>3. /\ call'.fn = "insert" /\ call'.key = k /\ call'.value = v /\ call'.size = size
      /\ call'.lock = lock /\ call'.target = target /\ call'.cur = last /\ RetInv'
  BY <1>1, EnterEffect
<1>4. Fields'
  BY <1>2 DEF Fields
<1>5. ListInv'
  BY <1>2, <1>3, ListKept DEF links
<1>6. Args' /\ LockRuns'
  BY <1>1, <1>2, <1>3 DEF Args, LockRuns
<1>7. ByLocks'
  BY <1>1, <1>2 DEF ByLocks, Overfilled
<1>8. Owned'
  <2>1. live = {vPtr[x] : x \in entries}
    BY <1>1 DEF Owned, Alive
  <2>2. \A x \in entries : vPtr[x] # v
    BY <2>1, <1>1
  <2> QED  BY <2>1, <2>2, <1>1, <1>2, <1>3 DEF Owned, Alive
<1> QED  BY <1>3, <1>4, <1>5, <1>6, <1>7, <1>8

\* A lookup moves the entry it finds to the front.
LEMMA ItemKeeps == ASSUME Inv, NEW k \in Key, Item(k) PROVE Rest'
<1> USE DEF Inv, TypeInv, Rest
<1>1. /\ call.fn = "none" /\ UNCHANGED <<entries, fields, occupied, capacity, live>>
      /\ IF k \in entries THEN MoveToFront(k) ELSE UNCHANGED links
      /\ Return(Answer("item", k, vPtr[k]))
  BY DEF Item, Idle
<1>2. UNCHANGED <<entries, vPtr, cost, locked, occupied, capacity, live>>
  BY <1>1 DEF fields
<1>3. /\ call'.fn = "none" /\ ~Freeing' /\ ret' = Answer("item", k, vPtr[k])
      /\ Args' /\ LockRuns'
  BY <1>1, ReturnEffect
<1>4n. PICK n \in Nat : \E s : Structured(n, s)
  BY DEF ListInv
<1>4. PICK s : Structured(n, s)
  BY <1>4n
<1>5. ListInv'
  <2>1. PICK r : Structured(n, r)'
    <3>1. CASE k \in entries
      BY <3>1, <1>1, <1>2, <1>4, MoveStructured
    <3>2. CASE k \notin entries
      BY <3>2, <1>1, <1>2, <1>4, SameStructured
    <3> QED  BY <3>1, <3>2
  <2>2. Swept(n, r)'
    BY <1>3, NotSweeping
  <2> QED  BY <2>1, <2>2 DEF ListInv
<1>6. Fields'
  <2>1. CASE k \notin entries
    BY <2>1, <1>1, <1>2 DEF Fields, links
  <2>2. CASE k \in entries /\ k = first
    BY <2>2, <1>1, <1>2 DEF Fields, links, MoveToFront
  <2>3. CASE k \in entries /\ k # first
    <3>1. Chain(n, s)
      BY <1>4 DEF Structured
    <3>2. PICK m \in 1..n : s[m] = k
      BY <2>3, <3>1 DEF Chain
    <3>3. first \in entries
      <4>1. 1 \in 1..n /\ n # 0
        BY <3>2
      <4> QED  BY <3>1, <4>1 DEF Chain, IsList
    <3>4. /\ prev[k] = NULL \/ prev[k] \in entries
          /\ next[k] = NULL \/ next[k] \in entries
      <4>1. prev[k] = IF m = 1 THEN NULL ELSE s[m - 1]
        BY <3>1, <3>2 DEF Chain, IsList
      <4>2. next[k] = IF m = n THEN NULL ELSE s[m + 1]
        BY <3>1, <3>2 DEF Chain, IsList
      <4>3. m # 1 => m - 1 \in 1..n
        OBVIOUS
      <4>4. m # n => m + 1 \in 1..n
        OBVIOUS
      <4> QED  BY <4>1, <4>2, <4>3, <4>4, <3>1 DEF Chain
    <3>5. /\ \A x \in Key \ {k} : next'[x] = IF x = prev[k] THEN next[k] ELSE next[x]
          /\ \A x \in Key \ {k, first} :
                prev'[x] = IF x = next[k] THEN prev[k] ELSE prev[x]
      BY <2>3, <3>3, <1>1, MovePointers DEF TypeOK
    <3>6. ASSUME NEW x \in Key, x \notin entries
          PROVE  next'[x] = NULL /\ prev'[x] = NULL
      BY <2>3, <3>3, <3>4, <3>5, <3>6, NullAssumption DEF Fields
    <3> QED  BY <3>6, <1>2 DEF Fields
  <2> QED  BY <2>1, <2>2, <2>3
<1>7. ByLocks'
  BY <1>1, <1>2 DEF ByLocks, Overfilled
<1>8. Owned'
  BY <1>1, <1>2, <1>3, SameOwned
<1>9. RetInv'
  BY <1>3 DEF RetInv, Answers, Answer
<1> QED  BY <1>3, <1>5, <1>6, <1>7, <1>8, <1>9

\* remove(key) erases an unlocked entry.
LEMMA RemoveKeeps == ASSUME Inv, NEW k \in Key, Remove(k) PROVE Rest'
<1> USE DEF Inv, TypeInv, Rest
<1>1. /\ call.fn = "none" /\ k \in entries /\ UNCHANGED capacity
      /\ Return(Answer("remove", k, ~locked[k]))
  BY DEF Remove, Idle, Removable
<1>2. /\ call'.fn = "none" /\ ~Freeing' /\ ret' = Answer("remove", k, ~locked[k])
      /\ Args' /\ LockRuns'
  BY <1>1, ReturnEffect
<1>3. RetInv'
  BY <1>2 DEF RetInv, Answers, Answer
<1>4. CASE locked[k] /\ UNCHANGED <<contents, live>>
  <2>1. UNCHANGED <<entries, vPtr, cost, locked, occupied, live>>
    BY <1>4 DEF contents, fields
  <2>2. Overfilled' => \A x \in entries : locked[x] \/ cost[x] = 0
    BY <1>1, <2>1 DEF ByLocks, Overfilled
  <2>3. Fields' /\ ListInv' /\ ByLocks'
    BY <1>1, <1>4, <2>2, QuietReturn
  <2>4. Owned'
    BY <1>1, <1>2, <2>1, SameOwned
  <2> QED  BY <1>2, <1>3, <2>3, <2>4
<1>5. CASE Erase(k)
  <2>1. /\ entries' = entries \ {k}
        /\ \A x \in Key \ {k} : /\ vPtr'[x] = vPtr[x] /\ cost'[x] = cost[x]
                                /\ locked'[x] = locked[x]
        /\ live' = live \ {vPtr[k]}
    BY <1>5, EraseEffect
  <2>2. /\ occupied' = occupied - cost[k] /\ cost[k] <= occupied
        /\ occupied \in Nat /\ cost[k] \in Nat /\ capacity \in Nat
    BY <1>1, <1>5, EraseTotals, SizesAssumption DEF TypeOK, cachesize_t
  <2>3. Fields'
    BY <1>1, <1>5, EraseFields
  <2>4. ListInv'
    <3>1n. PICK n \in Nat : \E s : Structured(n, s)
      BY DEF ListInv
    <3>1. PICK s : Structured(n, s)
      BY <3>1n
    <3>2. PICK m \in 1..n : s[m] = k
      BY <1>1, <3>1 DEF Structured, Chain
    <3>3. Structured(n - 1, Removed(n, s, m))' /\ n - 1 \in Nat
      BY <1>5, <3>1, <3>2, EraseStructured
    <3>4. Swept(n - 1, Removed(n, s, m))'
      BY <1>2, NotSweeping
    <3> QED  BY <3>3, <3>4 DEF ListInv
  <2>5. entries \subseteq Key
    BY DEF TypeOK
  <2>6. ByLocks'
    <3> SUFFICES ASSUME Overfilled', NEW x \in entries' PROVE locked'[x] \/ cost'[x] = 0
      BY DEF ByLocks
    <3>1. Overfilled
      BY <1>1, <2>2 DEF Overfilled
    <3>2. x \in entries /\ x \in Key \ {k}
      BY <2>1, <2>5
    <3> QED  BY <3>1, <3>2, <1>1, <2>1 DEF ByLocks
  <2>7. Owned'
    <3>1. \A x \in entries' : x \in entries /\ x # k /\ vPtr'[x] = vPtr[x]
      BY <2>1, <2>5
    <3>2. \A x \in entries : x # k => x \in entries' /\ vPtr[x] # vPtr[k]
      BY <1>1, <2>1 DEF Owned, Alive
    <3>3. {vPtr'[x] : x \in entries'} = {vPtr[x] : x \in entries} \ {vPtr[k]}
      BY <3>1, <3>2, <1>1
    <3>4. live' = {vPtr'[x] : x \in entries'}
      BY <3>3, <1>1, <2>1 DEF Owned, Alive
    <3>5. \A x, y \in entries' : vPtr'[x] = vPtr'[y] => x = y
      BY <3>1 DEF Owned, Alive
    <3> QED  BY <3>4, <3>5, <1>2 DEF Owned, Alive
  <2> QED  BY <1>2, <1>3, <2>3, <2>4, <2>6, <2>7
<1> QED  BY <1>4, <1>5 DEF Remove, Removable

\* lock() of a key that is not cached changes nothing.
LEMMA LockMissingKeeps == ASSUME Inv, NEW k \in Key, LockMissing(k) PROVE Rest'
<1> USE DEF Inv, TypeInv, Rest
<1>1. /\ call.fn = "none" /\ k \notin entries /\ UNCHANGED <<contents, capacity, live>>
      /\ Return(Answer("lock", k, NULL))
  BY DEF LockMissing, Idle
<1>2. UNCHANGED <<entries, vPtr, cost, locked, occupied, capacity, live>>
  BY <1>1 DEF contents, fields
<1>3. call'.fn = "none" /\ ~Freeing' /\ ret' = Answer("lock", k, NULL)
  BY <1>1, ReturnEffect
<1>4. Overfilled' => \A x \in entries : locked[x] \/ cost[x] = 0
  BY <1>1, <1>2 DEF ByLocks, Overfilled
<1>5. Fields' /\ ListInv' /\ Args' /\ ByLocks' /\ LockRuns'
  BY <1>1, <1>4, QuietReturn
<1>6. Owned'
  BY <1>1, <1>2, <1>3, SameOwned
<1>7. vPtr[k] = NULL
  BY <1>1 DEF Fields
<1>8. RetInv'
  BY <1>1, <1>2, <1>3, <1>7 DEF RetInv, Answers, Answer
<1> QED  BY <1>5, <1>6, <1>8

\* lock() changes the lock of its entry and starts to free.
LEMMA LockCallKeeps ==
  ASSUME Inv, NEW k \in Key, NEW lock \in BOOLEAN, LockCall(k, lock)
  PROVE  Rest'
<1> USE DEF Inv, TypeInv, Rest
<1>1. /\ call.fn = "none" /\ k \in entries /\ locked' = [locked EXCEPT ![k] = lock]
      /\ EnterFree("lock", k, NULL, 0, lock, capacity)
      /\ UNCHANGED <<entries, vPtr, cost, links, occupied, capacity, live>>
  BY DEF LockCall, Idle
<1>2. UNCHANGED <<prev, next, first, last>>
  BY <1>1 DEF links
<1>3. /\ call'.fn = "lock" /\ call'.key = k /\ call'.lock = lock
      /\ call'.target = capacity /\ call'.cur = last /\ call'.over = Overfilled
      /\ RetInv'
  BY <1>1, EnterEffect
<1>4. locked'[k] = lock /\ \A x \in Key \ {k} : locked'[x] = locked[x]
  BY <1>1 DEF TypeOK
<1>5. Fields'
  BY <1>1, <1>2, <1>4 DEF Fields
<1>6. ListInv'
  BY <1>1, <1>2, <1>3, ListKept
<1>7. Args'
  BY <1>1, <1>3 DEF Args
<1>8. ByLocks'
  <2>1. entries \subseteq Key
    BY DEF TypeOK
  <2> QED  BY <2>1, <1>1, <1>3, <1>4 DEF ByLocks, Overfilled
<1>9. LockRuns'
  BY <1>1, <1>3, <1>4 DEF LockRuns, Overfilled
<1>10. Owned'
  BY <1>1, <1>3, SameOwned
<1> QED  BY <1>3, <1>5, <1>6, <1>7, <1>8, <1>9, <1>10

\* free(), clear(), resize() and the destructor begin alike.
LEMMA FreeCallsKeep ==
  ASSUME Inv, Idle, NEW f \in {"free", "resize", "destroy"}, NEW size, NEW target,
         EnterFree(f, NULL, NULL, size, FALSE, target), f = "resize" => target = size,
         f = "destroy" => target = 0,
         UNCHANGED <<contents, capacity, live>>
  PROVE  Rest'
<1> USE DEF Inv, TypeInv, Rest
<1>1. UNCHANGED <<entries, vPtr, cost, locked, prev, next, first, last, occupied,
                  capacity, live>>
  BY DEF contents, fields, links
<1>2. /\ call'.fn = f /\ call'.size = size /\ call'.target = target
      /\ call'.cur = last /\ RetInv'
  BY DEF EnterFree, RetInv, Answers, NoAnswer, Answer
<1>3. Fields'
  BY <1>1 DEF Fields
<1>4. ListInv'
  BY <1>1, <1>2, ListKept DEF links
<1>5. Args' /\ LockRuns'
  BY <1>2 DEF Args, LockRuns
<1>6. ByLocks'
  BY <1>1 DEF ByLocks, Overfilled, Idle
<1>7. Owned'
  BY <1>1, <1>2, SameOwned DEF Idle
<1> QED  BY <1>2, <1>3, <1>4, <1>5, <1>6, <1>7

\* Nothing changes.
LEMMA StutterKeeps == ASSUME Inv, UNCHANGED vars PROVE Rest'
<1> USE DEF Inv, TypeInv, Rest
<1>1. UNCHANGED <<entries, vPtr, cost, locked, prev, next, first, last, occupied,
                  capacity, live, call, ret>>
  BY DEF vars, contents, fields, links
<1>2. ListInv'
  <2>1n. PICK n \in Nat : \E s : Structured(n, s) /\ Swept(n, s)
    BY DEF ListInv
  <2>1. PICK s : Structured(n, s) /\ Swept(n, s)
    BY <2>1n
  <2>2. Structured(n, s)'
    BY <1>1, <2>1, SameStructured DEF links
  <2>3. Swept(n, s)'
    BY <1>1, <2>1 DEF Swept, Freeing
  <2> QED  BY <2>2, <2>3 DEF ListInv
<1>3. Fields' /\ Args' /\ ByLocks' /\ LockRuns'
  BY <1>1 DEF Fields, Args, ByLocks, LockRuns, Overfilled
<1>4. Owned' /\ RetInv'
  BY <1>1 DEF Owned, Alive, RetInv, Answers, Freeing
<1> QED  BY <1>2, <1>3, <1>4

\* The invariant is inductive.
LEMMA StepInv == Inv /\ [Next]_vars => Inv'
<1> SUFFICES ASSUME Inv, [Next]_vars PROVE Inv'
  OBVIOUS
<1>1. TypeInv'
  BY StepType DEF Inv
<1>2. Rest'
  <2>1. ASSUME NEW size \in Sizes, FreeCall(size) PROVE Rest'
    BY <2>1, FreeCallsKeep DEF FreeCall
  <2>2. ASSUME NEW size \in Sizes, ResizeCall(size) PROVE Rest'
    BY <2>2, FreeCallsKeep DEF ResizeCall
  <2>3. ASSUME DestroyCall PROVE Rest'
    BY <2>3, FreeCallsKeep DEF DestroyCall
  <2>4. CASE Continue
    BY <2>4, SkipKeeps, EvictKeeps, InsertRefusedKeeps, InsertDoneKeeps, LockDoneKeeps,
       FreeDoneKeeps, ResizeDoneKeeps, DestroyDoneKeeps DEF Continue
  <2>5. CASE BeginOther
    BY <2>1, <2>2, <2>3, <2>5, ItemKeeps, RemoveKeeps, LockMissingKeeps, LockCallKeeps
    DEF BeginOther
  <2>6. ASSUME NEW k \in Key \ entries, NEW size \in Sizes,
               occupied + size <= MaxSize, BeginInsert(k, size)
        PROVE  Rest'
    BY <2>6, InsertTooBigKeeps, InsertCallKeeps DEF BeginInsert
  <2> QED  BY <2>4, <2>5, <2>6, StutterKeeps DEF Next, Begin
<1> QED  BY <1>1, <1>2 DEF Inv

\* The empty cache satisfies the invariant.
LEMMA InitInv == Init => Inv
<1> SUFFICES ASSUME Init PROVE Inv
  OBVIOUS
<1>1. TypeInv
  BY InitType
<1>2. /\ entries = {} /\ call.fn = "none" /\ ret = NoAnswer /\ occupied = 0
      /\ first = NULL /\ last = NULL /\ live = {}
  BY DEF Init, NoCall
<1>3. ListInv
  <2> DEFINE s == [i \in 1..0 |-> NULL]
             t == [i \in 0..0 |-> 0]
  <2>1. Chain(0, s)
    BY <1>2 DEF Chain, IsList
  <2>2. IsTotal(0, s, t, cost, occupied)
    BY <1>2 DEF IsTotal
  <2>3. Swept(0, s)
    BY <1>2 DEF Swept, Freeing
  <2> HIDE DEF s, t
  <2> QED  BY <2>1, <2>2, <2>3 DEF ListInv, Structured
<1>4. Fields
  BY DEF Init, Fields
<1>5. Args /\ ByLocks /\ LockRuns /\ Owned
  BY <1>2 DEF Args, ByLocks, LockRuns, Owned, Alive
<1>6. RetInv
  BY <1>2 DEF RetInv, Answers, NoAnswer, Answer
<1> QED  BY <1>1, <1>3, <1>4, <1>5, <1>6 DEF Inv, Rest

-----------------------------------------------------------------------------
(* The contract.  The list the pointers make is the sequence of entries    *)
(* that LruContract calls order, and every action is one of its actions.   *)

\* s begins with head, and every element is followed by its successor.
Follows(n, s, head, succ) ==
    /\ n # 0 => s[1] = head
    /\ \A i \in 1..n : succ[s[i]] = IF i = n THEN NULL ELSE s[i + 1]

\* Following pointers leads to one sequence only.
LEMMA OneList ==
  ASSUME NEW n \in Nat, NEW s, NEW r, NEW head, NEW succ,
         Follows(n, s, head, succ), Follows(n, r, head, succ)
  PROVE  \A i \in 1..n : s[i] = r[i]
<1> USE DEF Follows
<1> DEFINE G == {i \in 0..n : i # 0 => s[i] = r[i]}
<1>1. 0 \in G
  OBVIOUS
<1>2. ASSUME NEW i \in 1..n, i - 1 \in G PROVE i \in G
  <2>1. CASE i = 1
    BY <2>1
  <2>2. CASE i # 1
    <3>1. PICK j \in 1..n : j = i - 1 /\ j # n /\ j + 1 = i
      BY <2>2
    <3>2. s[j] = r[j]
      BY <1>2, <3>1
    <3>3. succ[s[j]] = s[i] /\ succ[r[j]] = r[i]
      BY <3>1
    <3> QED  BY <3>2, <3>3
  <2> QED  BY <2>1, <2>2
<1>3. \A i \in 0..n : i \in G
  <2> HIDE DEF G
  <2>1. \A i \in 1..n : i - 1 \in G => i \in G
    BY <1>2
  <2> QED  BY <1>1, <2>1, IntervalInduction, Zenon
<1> QED  BY <1>3

\* The only list there is is the one that Order chooses.
LEMMA OrderIs ==
  ASSUME NEW n \in Nat, NEW s, Chain(n, s)
  PROVE  Cardinality(entries) = n /\ Order = s
<1>1. s \in Bijection(1..n, entries)
  BY DEF Chain, IsList, Bijection, Injection, Surjection, IsInjective
<1>2. Cardinality(entries) = n
  BY <1>1, FS_CountingElements DEF ExistsBijection
<1>3. s \in Lists
  BY <1>2 DEF Chain, Lists
<1>4. ASSUME NEW r \in Lists PROVE r = s
  <2>1. r \in [1..n -> entries] /\ IsList(n, r)
    BY <1>2 DEF Lists
  <2>2. \A i \in 1..n : s[i] = r[i]
    <3>1. Follows(n, s, first, next) /\ Follows(n, r, first, next)
      BY <2>1 DEF Chain, IsList, Follows
    <3> QED  BY <3>1, OneList
  <2> QED  BY <2>1, <2>2 DEF Chain
<1> QED  BY <1>2, <1>3, <1>4 DEF Order

\* The same of the next state.
LEMMA OrderIsNext ==
  ASSUME NEW n \in Nat, NEW s, Chain(n, s)'
  PROVE  Order' = s
<1>0. s \in [1..n -> entries']
  BY DEF Chain
<1>1. s \in Bijection(1..n, entries')
  BY DEF Chain, IsList, Bijection, Injection, Surjection, IsInjective
<1>2. Cardinality(entries') = n
  BY <1>1, FS_CountingElements DEF ExistsBijection
<1>3. s \in Lists'
  BY <1>2 DEF Chain, Lists
<1>4. ASSUME NEW r \in Lists' PROVE r = s
  <2>1. r \in [1..n -> entries'] /\ IsList(n, r)'
    BY <1>2 DEF Lists
  <2>2. \A i \in 1..n : s[i] = r[i]
    <3>1. Follows(n, s, first', next') /\ Follows(n, r, first', next')
      BY <2>1 DEF Chain, IsList, Follows
    <3> QED  BY <3>1, OneList
  <2> QED  BY <1>0, <2>1, <2>2
<1> QED  BY <1>3, <1>4 DEF Order

\* A list as a sequence.
LEMMA SeqOfList ==
  ASSUME NEW n \in Nat, NEW E, NEW s \in [1..n -> E]
  PROVE  s \in Seq(E) /\ Len(s) = n
<1>1. s \in Seq(E)
  OBVIOUS
<1> QED  BY <1>1, LenProperties

\* What the contract sees of the list, the map and the occupied size.
LEMMA OrderFacts ==
  ASSUME TypeOK, NEW n \in Nat, NEW s, Structured(n, s)
  PROVE  /\ Order = s /\ s \in [1..n -> entries]
         /\ \A i, j \in 1..n : s[i] = s[j] => i = j
         /\ Contract!Cached = entries /\ Contract!Total = occupied
<1>1. Chain(n, s) /\ Order = s
  BY OrderIs DEF Structured
<1>2. /\ s \in [1..n -> entries]
      /\ \A x \in entries : \E i \in 1..n : s[i] = x
      /\ \A i, j \in 1..n : s[i] = s[j] => i = j
  BY <1>1 DEF Chain, IsList
<1>3. Contract!Cached = entries
  BY <1>1, <1>2 DEF Contract!Cached, Contract!Range
<1>4. PICK c : c = [k \in entries |-> cost[k]]
  OBVIOUS
<1>5. \A x \in entries : c[x] = cost[x] /\ c[x] \in Nat
  BY <1>4, SizesAssumption DEF TypeOK, cachesize_t
<1>6. PICK t : IsTotal(n, s, t, c, occupied)
  <2>1. PICK t : IsTotal(n, s, t, cost, occupied)
    BY DEF Structured
  <2>2. IsTotal(n, s, t, c, occupied)
    BY <1>2, <1>5, <2>1 DEF IsTotal
  <2> QED  BY <2>2
<1>7. occupied = SumFunctionOnSet(c, entries)
  BY <1>2, <1>5, <1>6, TotalIsSum DEF Enumerates
<1>8. Contract!SumFunctionOnSet(c, entries) = SumFunctionOnSet(c, entries)
  BY Zenon DEF SumFunctionOnSet, FoldFunctionOnSet, MapThenFoldSet,
     Contract!SumFunctionOnSet, Contract!FoldFunctionOnSet, Contract!MapThenFoldSet
<1>9. Contract!Total = occupied
  BY <1>3, <1>4, <1>7, <1>8, Zenon DEF Contract!Total
<1> QED  BY <1>1, <1>2, <1>3, <1>9

\* A sequence without one element, as the contract writes it.
LEMMA RemovedIs ==
  ASSUME NEW n \in Nat, NEW E, NEW s \in [1..n -> E], NEW m \in 1..n
  PROVE  SubSeq(s, 1, m - 1) \o SubSeq(s, m + 1, n) = Removed(n, s, m)
<1>1. s \in Seq(E) /\ Len(s) = n
  BY SeqOfList
<1>2. PICK a, b : a = SubSeq(s, 1, m - 1) /\ b = SubSeq(s, m + 1, n)
  OBVIOUS
<1>3. /\ a \in Seq(E) /\ Len(a) = m - 1
      /\ \A i \in 1..(m - 1) : a[i] = s[i]
  <2>1. \A i \in 1..(m - 1) : s[i] \in E
    OBVIOUS
  <2> QED  BY <1>2, <2>1, SubSeqProperties
<1>4. /\ b \in Seq(E) /\ Len(b) = n - m
      /\ \A i \in 1..(n - m) : b[i] = s[m + i]
  <2>1. \A i \in (m + 1)..n : s[i] \in E
    OBVIOUS
  <2> QED  BY <1>2, <2>1, SubSeqProperties
<1>5. PICK r : r = a \o b
  OBVIOUS
<1>6. /\ r \in Seq(E) /\ Len(r) = n - 1
      /\ \A i \in 1..(n - 1) : r[i] = IF i < m THEN a[i] ELSE b[i - (m - 1)]
  <2>1. /\ r \in Seq(E) /\ Len(r) = Len(a) + Len(b)
        /\ \A i \in 1..(Len(a) + Len(b)) : r[i] = IF i <= Len(a) THEN a[i] ELSE b[i - Len(a)]
    BY <1>3, <1>4, <1>5, ConcatProperties
  <2> QED  BY <1>3, <1>4, <2>1
<1>7. \A i \in 1..(n - 1) : r[i] = Removed(n, s, m)[i]
  BY <1>3, <1>4, <1>6 DEF Removed
<1>8. r = [i \in 1..(n - 1) |-> r[i]]
  BY <1>6, LenProperties
<1>9. Removed(n, s, m) = [i \in 1..(n - 1) |-> Removed(n, s, m)[i]]
  BY DEF Removed
<1> QED  BY <1>2, <1>5, <1>7, <1>8, <1>9

\* The contract's view of a state.
ViewSize  == [k \in entries |-> cost[k]]
ViewHeld    == {k \in entries : locked[k]}
ViewGoal    == IF Freeing THEN call.target ELSE NULL
ViewHit     == IF ret.fn = "item" /\ ret.res # NULL THEN ret.key ELSE NULL

\* The contract's order without an entry.
LEMMA WithoutIs ==
  ASSUME TypeOK, NEW n \in Nat, NEW s, Structured(n, s), NEW m \in 1..n
  PROVE  Contract!Without(s[m]) = Removed(n, s, m)
<1>1. /\ Order = s /\ s \in [1..n -> entries]
      /\ \A i, j \in 1..n : s[i] = s[j] => i = j
  BY OrderFacts
<1>2. s \in Seq(entries) /\ Len(s) = n
  BY <1>1, SeqOfList
<1>3. (CHOOSE i \in DOMAIN s : s[i] = s[m]) = m
  BY <1>1
<1>4. SubSeq(s, 1, m - 1) \o SubSeq(s, m + 1, n) = Removed(n, s, m)
  BY <1>1, RemovedIs
<1>5. Contract!Without(s[m]) = SubSeq(s, 1, m - 1) \o SubSeq(s, m + 1, Len(s))
  BY <1>1, <1>3, Zenon DEF Contract!Without, Contract!RemoveAt
<1> QED  BY <1>2, <1>4, <1>5

\* What erasing an entry is to the contract.
LEMMA EraseIs ==
  ASSUME TypeOK, NEW n \in Nat, NEW s, Structured(n, s), NEW m \in 1..n,
         NEW k, k = s[m], Erase(k), ~locked[k]
  PROVE  /\ k \in entries
         /\ Order' = Contract!Without(k) /\ Contract!Forget(k)
         /\ ViewHeld' = ViewHeld
<1>1. Structured(n - 1, Removed(n, s, m))'
  BY EraseStructured
<1>2. Order' = Removed(n, s, m)
  BY <1>1, OrderIsNext DEF Structured
<1>3. Contract!Cached = entries /\ k \in entries /\ k \in Key
  BY OrderFacts DEF TypeOK
<1>4. /\ entries' = entries \ {k}
      /\ \A x \in entries \ {k} : cost'[x] = cost[x] /\ locked'[x] = locked[x]
  BY <1>3, EraseEffect DEF TypeOK
<1>5. Order' = Contract!Without(k)
  BY <1>2, WithoutIs
<1>6. Contract!Forget(k)
  BY <1>3, <1>4 DEF Contract!Forget
<1>7. ViewHeld' = ViewHeld
  BY <1>4 DEF ViewHeld
<1> QED  BY <1>3, <1>5, <1>6, <1>7

\* A step of free() evicts the entry that has not been used for longest.
LEMMA EvictIs == ASSUME Inv, Evict PROVE \E k \in Key : Contract!Evict(k)
<1> USE DEF Inv, TypeInv, Rest
<1>0. PICK k : k = call.cur
  OBVIOUS
<1>1. /\ Freeing /\ k # NULL /\ occupied > call.target /\ ~locked[k]
      /\ call' = Advance /\ Erase(k) /\ UNCHANGED <<capacity, ret>>
  BY <1>0 DEF Evict, LoopOn, Removable
<1>2n. PICK n \in Nat : \E s : Structured(n, s) /\ Swept(n, s)
  BY DEF ListInv
<1>2. PICK s : Structured(n, s) /\ Swept(n, s)
  BY <1>2n
<1>3. PICK m \in 1..n : s[m] = k /\ \A j \in 1..n : j > m => locked[s[j]]
  BY <1>0, <1>1, <1>2 DEF Swept
<1>4. /\ k \in entries /\ Order' = Contract!Without(k) /\ Contract!Forget(k)
      /\ ViewHeld' = ViewHeld
  <2>1. TypeOK /\ Structured(n, s) /\ k = s[m] /\ Erase(k) /\ ~locked[k]
    BY <1>1, <1>2, <1>3
  <2> QED  BY <2>1, EraseIs, Zenon
<1>5. /\ Order = s /\ s \in [1..n -> entries] /\ Contract!Total = occupied
  BY <1>2, OrderFacts
<1>6. Contract!LeastRecent(k)
  <2>1. m \in DOMAIN Order /\ Order[m] = k /\ k \notin ViewHeld
    BY <1>1, <1>3, <1>5 DEF ViewHeld
  <2>2. \A j \in DOMAIN Order : j > m => Order[j] \in ViewHeld
    BY <1>3, <1>5 DEF ViewHeld
  <2> QED  BY <2>1, <2>2, Zenon DEF Contract!LeastRecent, ViewHeld
<1>7. ViewGoal = call.target /\ ViewGoal' = ViewGoal /\ ViewGoal # NULL /\ ViewHit' = ViewHit
  BY <1>1, NullAssumption DEF Advance, Freeing, TypeOK, Call, cachesize_t, ViewGoal, ViewHit
<1>8. Contract!Total > ViewGoal
  BY <1>1, <1>5, <1>7
<1>9. UNCHANGED <<ViewHeld, capacity, ViewGoal, ViewHit>>
  BY <1>1, <1>4, <1>7
<1>10. Contract!Evict(k)
  BY <1>4, <1>6, <1>7, <1>8, <1>9, Zenon DEF Contract!Evict, ViewHeld, ViewGoal, ViewHit
<1>11. k \in Key
  BY <1>4 DEF TypeOK
<1> QED  BY <1>10, <1>11

\* The order of the entries does not change with fields that are not links.
LEMMA SameOrder ==
  ASSUME ListInv, UNCHANGED <<entries, links, cost, occupied>>
  PROVE  Order' = Order
<1>1n. PICK n \in Nat : \E s : Structured(n, s)
  BY DEF ListInv
<1>1. PICK s : Structured(n, s)
  BY <1>1n
<1>2. Structured(n, s)'
  BY <1>1, SameStructured
<1> QED  BY <1>1, <1>2, OrderIs, OrderIsNext DEF Structured

\* The entries and their total, in any state of the invariant.
LEMMA ViewFacts ==
  ASSUME Inv
  PROVE  Contract!Cached = entries /\ Contract!Total = occupied
<1>1n. PICK n \in Nat : \E s : Structured(n, s)
  BY DEF Inv, Rest, ListInv
<1>1. PICK s : Structured(n, s)
  BY <1>1n
<1> QED  BY <1>1, OrderFacts DEF Inv, TypeInv

\* Between calls the contract has no goal, and a call sets it.
LEMMA GoalIs ==
  ASSUME TypeOK
  PROVE  /\ Idle => ViewGoal = NULL
         /\ Freeing => ViewGoal = call.target /\ ViewGoal # NULL
  BY NullAssumption DEF ViewGoal, Freeing, Idle, TypeOK, Call, cachesize_t

\* A call that changes nothing and reports no hit.
LEMMA IgnoreIs ==
  ASSUME Inv, Idle, UNCHANGED <<contents, capacity>>, NEW a, Return(a),
         a.fn # "item" \/ a.res = NULL
  PROVE  Contract!Ignore
<1> USE DEF Inv, TypeInv, Rest
<1>1. UNCHANGED <<entries, cost, locked, links, occupied, capacity>>
  BY DEF contents, fields
<1>2. Order' = Order /\ ViewSize' = ViewSize /\ ViewHeld' = ViewHeld
  BY <1>1, SameOrder DEF ViewSize, ViewHeld
<1>3. ViewGoal = NULL /\ ViewGoal' = NULL /\ ViewHit' = NULL
  BY ReturnEffect, GoalIs DEF ViewGoal, ViewHit
<1>4. UNCHANGED <<Order, ViewSize, ViewHeld, capacity, ViewGoal>>
  BY <1>1, <1>2, <1>3
<1> QED  BY <1>3, <1>4, Zenon DEF Contract!Ignore, ViewSize, ViewHeld, ViewGoal, ViewHit

\* A call that starts to free, and may change the lock of one entry.
LEMMA BeginIs ==
  ASSUME Inv, Idle, NEW f \in Functions \ {"none", "gone"}, NEW k, NEW v, NEW size,
         NEW lock, NEW target \in cachesize_t,
         EnterFree(f, k, v, size, lock, target),
         UNCHANGED <<entries, cost, links, occupied, capacity>>,
         ViewHeld' = ViewHeld \/ \E x \in entries : ViewHeld' \cup {x} = ViewHeld \cup {x}
  PROVE  \E g \in cachesize_t, h \in SUBSET Key : Contract!Begin(g, h)
<1> USE DEF Inv, TypeInv, Rest
<1>1. PICK h : h = ViewHeld'
  OBVIOUS
<1>2. Order' = Order /\ ViewSize' = ViewSize
  BY SameOrder DEF ViewSize
<1>3. /\ call'.fn = f /\ call'.target = target /\ ret' = NoAnswer
  BY EnterEffect
<1>4. ViewGoal = NULL /\ ViewGoal' = target /\ ViewHit' = NULL
  BY <1>3, GoalIs DEF ViewGoal, ViewHit, Freeing, NoAnswer, Answer
<1>5. Contract!Cached = entries
  BY ViewFacts
<1>6. h \subseteq Contract!Cached /\ h \in SUBSET Key
  BY <1>1, <1>5 DEF ViewHeld, TypeOK
<1>7. h = ViewHeld \/ \E x \in Contract!Cached : h \cup {x} = ViewHeld \cup {x}
  BY <1>1, <1>5
<1>8. UNCHANGED <<Order, ViewSize, capacity>>
  BY <1>2
<1>9. Contract!Begin(target, h)
  BY <1>1, <1>4, <1>6, <1>7, <1>8, Zenon DEF Contract!Begin, ViewSize, ViewHeld, ViewGoal, ViewHit
<1> QED  BY <1>6, <1>9

\* free() has done what it can.
LEMMA EndIs ==
  ASSUME Inv, LoopDone, ~Freeing', ret'.fn # "item"
  PROVE  Contract!End
<1> USE DEF Inv, TypeInv, Rest
<1>1. Freeing /\ ViewGoal = call.target /\ ViewGoal # NULL /\ ViewGoal' = NULL
  BY GoalIs DEF LoopDone, ViewGoal
<1>2. ViewHit' = ViewHit
  BY <1>1 DEF RetInv, NoAnswer, Answer, ViewHit
<1>3. Contract!Total <= ViewGoal \/ Contract!Cached \subseteq ViewHeld
  <2>1. Contract!Total = occupied /\ Contract!Cached = entries
    BY ViewFacts
  <2>2. occupied \in Nat /\ call.target \in Nat
    BY SizesAssumption DEF TypeOK, Call, cachesize_t
  <2>3. CASE occupied > call.target
    BY <2>1, <2>3, GivenUp DEF ViewHeld
  <2> QED  BY <1>1, <2>1, <2>2, <2>3
<1> QED  BY <1>1, <1>2, <1>3, Zenon DEF Contract!End, ViewHeld, ViewGoal, ViewHit

\* A call that has only freed returns.
LEMMA EndFreeIs ==
  ASSUME Inv, LoopDone, ~Freeing', ret'.fn # "item", UNCHANGED <<contents, capacity>>
  PROVE  Contract!EndFree
<1> USE DEF Inv, TypeInv, Rest
<1>1. UNCHANGED <<entries, cost, locked, links, occupied, capacity>>
  BY DEF contents, fields
<1>2. UNCHANGED <<Order, ViewSize, ViewHeld, capacity>>
  BY <1>1, SameOrder DEF ViewSize, ViewHeld
<1> QED  BY <1>2, EndIs, Zenon DEF Contract!EndFree, ViewSize, ViewHeld

\* resize() has freed down to the new capacity.
LEMMA EndResizeIs == ASSUME Inv, ResizeDone PROVE Contract!EndResize
<1> USE DEF Inv, TypeInv, Rest
<1>1. /\ LoopDone /\ call.fn = "resize" /\ capacity' = call.size
      /\ Return(NoAnswer) /\ UNCHANGED contents
  BY DEF ResizeDone
<1>2. UNCHANGED <<entries, cost, locked, links, occupied>>
  BY <1>1 DEF contents, fields
<1>3. UNCHANGED <<Order, ViewSize, ViewHeld>>
  BY <1>2, SameOrder DEF ViewSize, ViewHeld
<1>4. ~Freeing' /\ ret' = NoAnswer
  BY <1>1, ReturnEffect
<1>5. Contract!End
  BY <1>1, <1>4, EndIs DEF NoAnswer, Answer
<1>6. capacity' = ViewGoal
  BY <1>1, GoalIs DEF LoopDone, Args
<1> QED  BY <1>3, <1>5, <1>6, Zenon DEF Contract!EndResize, ViewSize, ViewHeld, ViewGoal

\* A sequence with an element put before it.
LEMMA PushedIs ==
  ASSUME NEW n \in Nat, NEW E, NEW s \in [1..n -> E], NEW k
  PROVE  <<k>> \o s = Pushed(n, s, k)
<1>1. s \in Seq(E) /\ Len(s) = n
  BY SeqOfList
<1>2. PICK F : F = E \cup {k}
  OBVIOUS
<1>3. <<k>> \in Seq(F) /\ Len(<<k>>) = 1 /\ <<k>>[1] = k /\ s \in Seq(F)
  BY <1>1, <1>2
<1>4. PICK r : r = <<k>> \o s
  OBVIOUS
<1>5. /\ r \in Seq(F) /\ Len(r) = 1 + n
      /\ \A i \in 1..(1 + n) : r[i] = IF i <= 1 THEN <<k>>[i] ELSE s[i - 1]
  BY <1>1, <1>3, <1>4, ConcatProperties
<1>6. r = [i \in 1..(n + 1) |-> r[i]]
  BY <1>5, LenProperties
<1>7. \A i \in 1..(n + 1) : r[i] = IF i = 1 THEN k ELSE s[i - 1]
  BY <1>3, <1>5
<1>8. r = Pushed(n, s, k)
  BY <1>6, <1>7 DEF Pushed
<1> QED  BY <1>4, <1>8

\* A sequence with an element moved to its front.
LEMMA FrontedIs ==
  ASSUME NEW n \in Nat, NEW E, NEW s \in [1..n -> E], NEW m \in 1..n
  PROVE  <<s[m]>> \o Removed(n, s, m) = Fronted(n, s, m)
<1>1. PICK r : r = Removed(n, s, m)
  OBVIOUS
<1>2. /\ r \in [1..(n - 1) -> E] /\ n - 1 \in Nat
      /\ \A i \in 1..(n - 1) : r[i] = IF i < m THEN s[i] ELSE s[i + 1]
  BY <1>1 DEF Removed
<1>3. <<s[m]>> \o r = Pushed(n - 1, r, s[m])
  BY <1>2, PushedIs
<1>4. Pushed(n - 1, r, s[m]) = [i \in 1..n |-> IF i = 1 THEN s[m] ELSE r[i - 1]]
  BY DEF Pushed
<1>5. \A i \in 1..n : i # 1 => r[i - 1] = IF i <= m THEN s[i - 1] ELSE s[i]
  BY <1>2
<1>6. Pushed(n - 1, r, s[m]) = Fronted(n, s, m)
  BY <1>4, <1>5 DEF Fronted
<1> QED  BY <1>1, <1>3, <1>6

\* A lookup that finds its entry.
LEMMA TouchIs ==
  ASSUME Inv, NEW k \in entries, Item(k)
  PROVE  Contract!Touch(k)
<1> USE DEF Inv, TypeInv, Rest
<1>1. /\ Idle /\ UNCHANGED <<entries, vPtr, cost, locked, occupied, capacity>>
      /\ MoveToFront(k) /\ Return(Answer("item", k, vPtr[k]))
  BY DEF Item, fields
<1>2n. PICK n \in Nat : \E s : Structured(n, s)
  BY DEF ListInv
<1>2. PICK s : Structured(n, s)
  BY <1>2n
<1>3. /\ Order = s /\ s \in [1..n -> entries] /\ Contract!Cached = entries
      /\ Chain(n, s)
  BY <1>2, OrderFacts DEF Structured
<1>4. PICK m \in 1..n : s[m] = k
  BY <1>3 DEF Chain
<1>5. Contract!Without(k) = Removed(n, s, m)
  BY <1>2, <1>4, WithoutIs
<1>6. <<k>> \o Removed(n, s, m) = Fronted(n, s, m)
  BY <1>3, <1>4, FrontedIs
<1>7. Order' = Fronted(n, s, m)
  <2>1. CASE m = 1
    <3>1. k = first
      BY <1>3, <1>4, <2>1 DEF Chain, IsList
    <3>2. Order' = s
      BY <1>1, <1>3, <3>1, SameOrder DEF MoveToFront
    <3>3. s = Fronted(n, s, m)
      <4>1. \A i \in 1..n : s[i] = IF i = 1 THEN s[m] ELSE IF i <= m THEN s[i - 1] ELSE s[i]
        BY <2>1
      <4>2. s = [i \in 1..n |-> s[i]]
        BY <1>3
      <4> QED  BY <4>1, <4>2 DEF Fronted
    <3> QED  BY <3>2, <3>3
  <2>2. CASE m # 1
    <3>1. m \in 2..n
      BY <2>2
    <3>2. Chain(n, Fronted(n, s, m))'
      BY <1>1, <1>3, <1>4, <3>1, MoveList
    <3> QED  BY <3>2, OrderIsNext
  <2> QED  BY <2>1, <2>2
<1>8. ViewSize' = ViewSize /\ ViewHeld' = ViewHeld
  BY <1>1 DEF ViewSize, ViewHeld
<1>9. k \in Key /\ vPtr[k] # NULL
  BY NullAssumption DEF Fields, TypeOK
<1>10. ViewGoal = NULL /\ ViewGoal' = NULL /\ ViewHit' = k
  BY <1>1, <1>9, ReturnEffect, GoalIs DEF ViewGoal, ViewHit, Answer
<1>11. Order' = <<k>> \o Contract!Without(k)
  BY <1>5, <1>6, <1>7
<1>12. UNCHANGED <<ViewSize, ViewHeld, capacity, ViewGoal>>
  BY <1>1, <1>8, <1>10
<1> QED  BY <1>3, <1>10, <1>11, <1>12, Zenon DEF Contract!Touch, ViewSize, ViewHeld, ViewGoal, ViewHit

\* remove() of an unlocked entry.
LEMMA DropIs ==
  ASSUME Inv, NEW k \in Key, Remove(k), ~locked[k]
  PROVE  Contract!Drop(k)
<1> USE DEF Inv, TypeInv, Rest
<1>1. /\ Idle /\ k \in entries /\ UNCHANGED capacity /\ Erase(k)
      /\ Return(Answer("remove", k, Removable(k)))
  BY DEF Remove, Removable
<1>2n. PICK n \in Nat : \E s : Structured(n, s)
  BY DEF ListInv
<1>2. PICK s : Structured(n, s)
  BY <1>2n
<1>3. PICK m \in 1..n : k = s[m]
  BY <1>1, <1>2 DEF Structured, Chain
<1>4. Order' = Contract!Without(k) /\ Contract!Forget(k) /\ ViewHeld' = ViewHeld
  <2>1. TypeOK /\ Structured(n, s) /\ k = s[m] /\ Erase(k) /\ ~locked[k]
    BY <1>1, <1>2, <1>3
  <2> QED  BY <2>1, EraseIs, Zenon
<1>5. ViewGoal = NULL /\ ViewGoal' = NULL /\ ViewHit' = NULL
  BY <1>1, ReturnEffect, GoalIs DEF ViewGoal, ViewHit, Answer
<1>6. k \in Contract!Cached \ ViewHeld
  BY <1>1, ViewFacts DEF ViewHeld
<1>7. UNCHANGED <<ViewHeld, capacity, ViewGoal>>
  BY <1>1, <1>4, <1>5
<1> QED  BY <1>4, <1>5, <1>6, <1>7, Zenon DEF Contract!Drop, ViewHeld, ViewGoal, ViewHit

\* insert() admits its entry.
LEMMA AdmitIs ==
  ASSUME Inv, InsertDone
  PROVE  \E k \in Key, c \in cachesize_t, hold \in BOOLEAN : Contract!EndAdmit(k, c, hold)
<1> USE DEF Inv, TypeInv, Rest
<1>0. PICK k, v, c, hold : k = call.key /\ v = call.value /\ c = call.size /\ hold = call.lock
  OBVIOUS
<1>1. /\ LoopDone /\ call.fn = "insert" /\ UNCHANGED <<capacity, live>>
      /\ occupied <= call.target \/ hold
      /\ Link(k, v, c, hold)
      /\ Return(Answer("insert", k, TRUE))
  BY <1>0 DEF InsertDone
<1>2. k \in Key \ entries /\ c \in cachesize_t /\ hold \in BOOLEAN
  BY <1>0, <1>1 DEF TypeOK, CallOK, Call, Args
<1>3n. PICK n \in Nat : \E s : Structured(n, s)
  BY DEF ListInv
<1>3. PICK s : Structured(n, s)
  BY <1>3n
<1>4. /\ occupied + c <= MaxSize /\ (c <= capacity \/ hold)
      /\ call.target = IF c > capacity THEN 0 ELSE capacity - c
  BY <1>0, <1>1 DEF Args
<1>5. Structured(n + 1, Pushed(n, s, k))'
  BY <1>1, <1>2, <1>3, <1>4, LinkStructured
<1>6. Order = s /\ s \in [1..n -> entries] /\ Contract!Cached = entries
      /\ Contract!Total = occupied
  BY <1>3, OrderFacts
<1>7. Order' = <<k>> \o Order
  <2>1. Order' = Pushed(n, s, k)
    BY <1>5, OrderIsNext DEF Structured
  <2> QED  BY <2>1, <1>6, PushedIs
<1>8. /\ entries' = entries \cup {k} /\ entries \subseteq Key
      /\ cost' = [cost EXCEPT ![k] = c]
      /\ locked' = [locked EXCEPT ![k] = hold]
  BY <1>1, <1>2 DEF Link, TypeOK
<1>9. /\ cost'[k] = c /\ locked'[k] = hold
      /\ \A x \in entries : cost'[x] = cost[x] /\ locked'[x] = locked[x]
  BY <1>2, <1>8 DEF TypeOK
<1>10. ViewSize' = [x \in Contract!Cached \cup {k} |-> IF x = k THEN c ELSE ViewSize[x]]
  BY <1>2, <1>6, <1>8, <1>9 DEF ViewSize
<1>11. ViewHeld' = IF hold THEN ViewHeld \cup {k} ELSE ViewHeld
  BY <1>2, <1>8, <1>9 DEF ViewHeld
<1>12. ~Freeing' /\ ret'.fn = "insert"
  BY <1>1, ReturnEffect DEF Answer
<1>13. Contract!End
  BY <1>1, <1>12, EndIs
<1>14. occupied \in Nat /\ capacity \in Nat /\ c \in Nat
  BY <1>2, SizesAssumption DEF TypeOK, cachesize_t
<1>15. \/ Contract!Total + c <= capacity
       \/ hold /\ \A x \in Contract!Cached \ ViewHeld : ViewSize[x] = 0
  <2>1. CASE occupied > call.target
    <3>1. call.target \in Nat
      BY SizesAssumption DEF TypeOK, Call, cachesize_t
    <3>2. hold
      BY <2>1, <3>1, <1>1, <1>14
    <3>3. \A x \in entries : locked[x]
      BY <2>1, <1>1, GivenUp
    <3> QED  BY <3>2, <3>3, <1>6 DEF ViewHeld
  <2>2. CASE occupied <= call.target /\ c <= capacity
    BY <2>2, <1>4, <1>6, <1>14
  <2>3. CASE occupied <= call.target /\ c > capacity
    <3>1. hold /\ occupied = 0
      BY <2>3, <1>4, <1>14
    <3>2. \A y \in entries : cost[y] = 0
      BY <3>1, <1>3, ZeroTotal
    <3> QED  BY <3>1, <3>2, <1>6 DEF ViewSize
  <2>4. call.target \in Nat
    BY SizesAssumption DEF TypeOK, Call, cachesize_t
  <2> QED  BY <2>1, <2>2, <2>3, <2>4, <1>14
<1>16. k \notin Contract!Cached
  BY <1>2, <1>6
<1>17. UNCHANGED capacity
  BY <1>1
<1>18. Contract!EndAdmit(k, c, hold)
  BY <1>7, <1>10, <1>11, <1>13, <1>15, <1>16, <1>17, Zenon DEF Contract!EndAdmit, ViewSize, ViewHeld
<1> QED  BY <1>2, <1>18

\* The empty cache is one of the contract's initial states.
LEMMA ContractInit == Init => Contract!Init
<1> SUFFICES ASSUME Init PROVE Contract!Init
  OBVIOUS
<1>1. Inv
  BY InitInv
<1>2. entries = {} /\ ~Freeing /\ ret = NoAnswer /\ capacity \in cachesize_t
  BY SizesAssumption DEF Init, NoCall, Freeing, cachesize_t
<1>3. Order = <<>>
  <2>1n. PICK n \in Nat : \E s : Structured(n, s)
    BY <1>1 DEF Inv, Rest, ListInv
  <2>1. PICK s : Structured(n, s)
    BY <2>1n
  <2>2. Order = s /\ s \in [1..n -> entries]
    BY <1>1, <2>1, OrderFacts DEF Inv, TypeInv
  <2>3. n = 0
    <3>1. n # 0 => 1 \in 1..n
      OBVIOUS
    <3> QED  BY <3>1, <2>2, <1>2
  <2>4. s \in Seq(entries) /\ Len(s) = 0
    BY <2>2, <2>3, SeqOfList
  <2> QED  BY <2>2, <2>4, EmptySeq
<1>4. ViewSize = <<>> /\ ViewHeld = {}
  BY <1>2 DEF ViewSize, ViewHeld
<1>5. ViewGoal = NULL /\ ViewHit = NULL
  BY <1>2 DEF ViewGoal, ViewHit, NoAnswer, Answer
<1>6. Alive = TRUE
  BY DEF Init, NoCall, Alive
<1> QED  BY <1>2, <1>3, <1>4, <1>5, <1>6, Zenon DEF Contract!Init, ViewSize, ViewHeld, ViewGoal, ViewHit

\* A step that the contract does not see.
LEMMA ContractStutter ==
  ASSUME Inv, UNCHANGED <<contents, capacity, ret>>, Freeing' = Freeing,
         Freeing => call'.target = call.target, Alive' = Alive
  PROVE  UNCHANGED Contract!vars
<1>1. UNCHANGED <<entries, cost, locked, links, occupied, capacity, ret>>
  BY DEF contents, fields
<1>2. Order' = Order /\ ViewSize' = ViewSize /\ ViewHeld' = ViewHeld
  BY <1>1, SameOrder DEF ViewSize, ViewHeld, Inv, Rest
<1>3. ViewGoal' = ViewGoal /\ ViewHit' = ViewHit
  BY <1>1 DEF ViewGoal, ViewHit
<1>4. capacity' = capacity /\ Alive' = Alive
  BY <1>1
<1> QED  BY <1>2, <1>3, <1>4, Zenon DEF Contract!vars, ViewSize, ViewHeld, ViewGoal, ViewHit

\* The destructor drops what clearing has left.
LEMMA DestroyIs == ASSUME Inv, DestroyDone PROVE Contract!Next
<1> USE DEF Inv, TypeInv, Rest
<1>1. /\ LoopDone /\ call.fn = "destroy" /\ DropMap /\ ret' = ret /\ capacity' = capacity
      /\ call'.fn = "gone"
  BY DEF DestroyDone, NoCall
<1>2. ~Freeing' /\ ret' = NoAnswer
  BY <1>1 DEF Freeing, LoopDone, RetInv
<1>3. Contract!End
  BY <1>1, <1>2, EndIs DEF NoAnswer, Answer
<1>4. ViewGoal = 0
  BY <1>1, GoalIs DEF LoopDone, Args
<1>5. ViewSize' = <<>> /\ ViewHeld' = {}
  BY <1>1 DEF DropMap, ViewSize, ViewHeld
<1>6. Order' = <<>>
  <2>1. PICK s : s = [i \in 1..0 |-> NULL]
    OBVIOUS
  <2>2. PICK zero \in Nat : zero = 0
    OBVIOUS
  <2>3. Chain(zero, s)'
    BY <1>1, <2>1, <2>2 DEF DropMap, Chain, IsList
  <2>4. Order' = s
    BY <2>3, OrderIsNext
  <2>5. s \in [1..zero -> {}]
    BY <2>1, <2>2
  <2>6. s \in Seq({}) /\ Len(s) = 0
    BY <2>2, <2>5, SeqOfList
  <2> QED  BY <2>4, <2>6, EmptySeq
<1>7. Alive = TRUE /\ Alive' = FALSE
  BY <1>1 DEF Alive
<1>8. Contract!Destroy
  BY <1>1, <1>3, <1>4, <1>5, <1>6, <1>7, Zenon DEF Contract!Destroy, ViewSize, ViewHeld, ViewGoal
<1> QED  BY <1>7, <1>8, Zenon DEF Contract!Next

\* Every other step is some work of the contract's, or one it does not see.
LEMMA WorkStep ==
  ASSUME Inv, [Next]_vars, ~DestroyDone
  PROVE  Contract!Work \/ UNCHANGED Contract!vars
<1> USE DEF Inv, TypeInv, Rest
<1>1. CASE Skip
  <2>1. Freeing /\ call' = Advance /\ UNCHANGED <<contents, capacity, ret>>
    BY <1>1 DEF Skip, LoopOn
  <2>2. Freeing' /\ call'.target = call.target
    BY <2>1 DEF Advance, Freeing, TypeOK, Call
  <2> QED  BY <2>1, <2>2, ContractStutter DEF Alive, Freeing
<1>2. CASE Evict
  BY <1>2, EvictIs DEF Contract!Work
<1>3. CASE InsertRefused
  <2>1. LoopDone /\ UNCHANGED <<contents, capacity>> /\ ~Freeing' /\ ret'.fn = "insert"
    BY <1>3, ReturnEffect DEF InsertRefused, Answer
  <2>2. Contract!EndFree
    BY <2>1, EndFreeIs
  <2> QED  BY <2>2 DEF Contract!Work
<1>4. CASE InsertDone
  BY <1>4, AdmitIs DEF Contract!Work
<1>5. CASE LockDone
  <2>1. LoopDone /\ UNCHANGED <<contents, capacity>> /\ ~Freeing' /\ ret'.fn = "lock"
    BY <1>5, ReturnEffect DEF LockDone, Answer
  <2>2. Contract!EndFree
    BY <2>1, EndFreeIs
  <2> QED  BY <2>2 DEF Contract!Work
<1>6. CASE FreeDone
  <2>1. LoopDone /\ UNCHANGED <<contents, capacity>> /\ ~Freeing' /\ ret'.fn # "item"
    BY <1>6, ReturnEffect DEF FreeDone, Answer
  <2>2. Contract!EndFree
    BY <2>1, EndFreeIs
  <2> QED  BY <2>2 DEF Contract!Work
<1>7. CASE ResizeDone
  BY <1>7, EndResizeIs DEF Contract!Work
<1>9. ASSUME NEW k \in Key, Item(k) PROVE Contract!Work
  <2>1. CASE k \in entries
    BY <1>9, <2>1, TouchIs DEF Contract!Work
  <2>2. CASE k \notin entries
    <3>1. Idle /\ UNCHANGED <<contents, capacity>> /\ Return(Answer("item", k, vPtr[k]))
      BY <1>9, <2>2 DEF Item, contents
    <3>2. vPtr[k] = NULL
      BY <2>2 DEF Fields
    <3>3. Contract!Ignore
      BY <3>1, <3>2, IgnoreIs DEF Answer
    <3> QED  BY <3>3 DEF Contract!Work
  <2> QED  BY <2>1, <2>2
<1>10. ASSUME NEW k \in Key, Remove(k) PROVE Contract!Work
  <2>1. CASE locked[k]
    <3>1. Idle /\ UNCHANGED <<contents, capacity>> /\ Return(Answer("remove", k, Removable(k)))
      BY <1>10, <2>1 DEF Remove, Removable
    <3>2. Contract!Ignore
      BY <3>1, IgnoreIs DEF Answer
    <3> QED  BY <3>2 DEF Contract!Work
  <2>2. CASE ~locked[k]
    BY <1>10, <2>2, DropIs DEF Contract!Work
  <2> QED  BY <2>1, <2>2
<1>11. ASSUME NEW k \in Key, LockMissing(k) PROVE Contract!Work
  <2>1. Idle /\ UNCHANGED <<contents, capacity>> /\ Return(Answer("lock", k, NULL))
    BY <1>11 DEF LockMissing
  <2>2. Contract!Ignore
    BY <2>1, IgnoreIs DEF Answer
  <2> QED  BY <2>2 DEF Contract!Work
<1>12. ASSUME NEW k \in Key, NEW lock \in BOOLEAN, LockCall(k, lock) PROVE Contract!Work
  <2>1. /\ Idle /\ k \in entries /\ locked' = [locked EXCEPT ![k] = lock]
        /\ EnterFree("lock", k, NULL, 0, lock, capacity)
        /\ UNCHANGED <<entries, cost, links, occupied, capacity>>
    BY <1>12 DEF LockCall
  <2>2. \A x \in entries \ {k} : locked'[x] = locked[x]
    BY <2>1 DEF TypeOK
  <2>3. ViewHeld' \cup {k} = ViewHeld \cup {k}
    BY <2>1, <2>2 DEF ViewHeld
  <2>4. "lock" \in Functions \ {"none", "gone"} /\ capacity \in cachesize_t
    BY DEF Functions, TypeOK
  <2>5. \E g \in cachesize_t, h \in SUBSET Key : Contract!Begin(g, h)
    BY <2>1, <2>3, <2>4, BeginIs
  <2> QED  BY <2>5 DEF Contract!Work
<1>13. ASSUME NEW f \in {"free", "resize", "destroy", "insert"}, NEW k, NEW v, NEW size, NEW lock,
              NEW target \in cachesize_t, Idle, EnterFree(f, k, v, size, lock, target),
              UNCHANGED <<contents, capacity>>
       PROVE  Contract!Work
  <2>1. UNCHANGED <<entries, cost, links, occupied, capacity>> /\ ViewHeld' = ViewHeld
    BY <1>13 DEF contents, fields, ViewHeld
  <2>2. f \in Functions \ {"none", "gone"}
    BY DEF Functions
  <2>3. \E g \in cachesize_t, h \in SUBSET Key : Contract!Begin(g, h)
    BY <1>13, <2>1, <2>2, BeginIs
  <2> QED  BY <2>3 DEF Contract!Work
<1>14. ASSUME NEW size \in Sizes, FreeCall(size) \/ ResizeCall(size)
       PROVE  Contract!Work
  <2>1. size \in cachesize_t
    BY SizesAssumption DEF cachesize_t
  <2> QED  BY <2>1, <1>13, <1>14 DEF FreeCall, ResizeCall
<1>15. ASSUME NEW k \in Key, NEW size \in Sizes, BeginInsert(k, size)
       PROVE  Contract!Work
  <2>1. size \in Nat /\ capacity \in 0..MaxSize /\ MaxSize \in Nat
    BY SizesAssumption DEF TypeOK, cachesize_t
  <2>2. RoomFor(size) \in cachesize_t
    BY <2>1 DEF RoomFor, cachesize_t
  <2>3. ASSUME NEW v \in Value, InsertTooBig(k, v, size) PROVE Contract!Work
    <3>1. Idle /\ UNCHANGED <<contents, capacity>> /\ Return(Answer("insert", k, FALSE))
      BY <2>3 DEF InsertTooBig
    <3>2. Contract!Ignore
      BY <3>1, IgnoreIs DEF Answer
    <3> QED  BY <3>2 DEF Contract!Work
  <2>4. ASSUME NEW v \in Value, NEW lock \in BOOLEAN, InsertCall(k, v, size, lock)
        PROVE  Contract!Work
    BY <2>2, <2>4, <1>13 DEF InsertCall
  <2> QED  BY <1>15, <2>3, <2>4 DEF BeginInsert
<1>16. CASE UNCHANGED vars
  <2>1. UNCHANGED <<contents, capacity, ret, call>>
    BY <1>16 DEF vars
  <2> QED  BY <2>1, ContractStutter DEF Freeing, Alive
<1>17. CASE DestroyCall
  <2>1. 0 \in cachesize_t
    BY SizesAssumption DEF cachesize_t
  <2> QED  BY <2>1, <1>13, <1>17 DEF DestroyCall
<1>18. CASE Continue
  BY <1>1, <1>2, <1>3, <1>4, <1>5, <1>6, <1>7, <1>18 DEF Continue
<1>19. CASE BeginOther
  BY <1>9, <1>10, <1>11, <1>12, <1>14, <1>17, <1>19 DEF BeginOther
<1> QED  BY <1>15, <1>16, <1>18, <1>19 DEF Next, Begin

\* Nothing else ends the cache, and nothing happens to it after its end.
LEMMA StaysAlive == ASSUME TypeOK, Next, ~DestroyDone PROVE Alive /\ Alive'
<1>1. CASE Skip \/ Evict
  <2>1. Freeing /\ call' = Advance
    BY <1>1 DEF Skip, Evict, LoopOn
  <2>2. Advance.fn = call.fn
    BY DEF Advance, TypeOK, Call
  <2> QED  BY <2>1, <2>2 DEF Freeing, Alive
<1>2. ASSUME NEW answer, Idle \/ Freeing, Return(answer) PROVE Alive /\ Alive'
  BY <1>2 DEF Return, NoCall, Idle, Freeing, Alive
<1>3. ASSUME NEW f \in {"insert", "lock", "free", "resize", "destroy"},
             NEW k, NEW v, NEW size, NEW lock, NEW target, Idle,
             EnterFree(f, k, v, size, lock, target)
      PROVE  Alive /\ Alive'
  BY <1>3 DEF EnterFree, Idle, Alive
<1>4. CASE InsertRefused \/ InsertDone \/ LockDone \/ FreeDone \/ ResizeDone
  BY <1>2, <1>4 DEF InsertRefused, InsertDone, LockDone, FreeDone, ResizeDone, LoopDone
<1>5. CASE BeginOther
  BY <1>2, <1>3, <1>5 DEF BeginOther, Item, Remove, LockMissing, LockCall, FreeCall,
                          ResizeCall, DestroyCall
<1>6. ASSUME NEW k \in Key, NEW size \in Sizes, BeginInsert(k, size) PROVE Alive /\ Alive'
  BY <1>2, <1>3, <1>6 DEF BeginInsert, InsertTooBig, InsertCall
<1> QED  BY <1>1, <1>4, <1>5, <1>6 DEF Next, Begin, Continue

\* Every step is one of the contract's, or one it does not see.
LEMMA ContractStep == Inv /\ [Next]_vars => [Contract!Next]_Contract!vars
<1> SUFFICES ASSUME Inv, [Next]_vars PROVE Contract!Next \/ UNCHANGED Contract!vars
  OBVIOUS
<1>1. CASE DestroyDone
  BY <1>1, DestroyIs
<1>2. CASE UNCHANGED vars
  <2>1. UNCHANGED <<contents, capacity, ret, call>>
    BY <1>2 DEF vars
  <2> QED  BY <2>1, ContractStutter DEF Freeing, Alive
<1>3. CASE Next /\ ~DestroyDone
  <2>1. Alive = TRUE /\ Alive' = Alive
    BY <1>3, StaysAlive DEF Alive, Inv, TypeInv
  <2>2. Contract!Work \/ UNCHANGED Contract!vars
    BY <1>3, WorkStep
  <2> QED  BY <2>1, <2>2, Zenon DEF Contract!Next
<1> QED  BY <1>1, <1>2, <1>3

-----------------------------------------------------------------------------
(* The theorems.                                                           *)

\* Every reachable state satisfies the invariant.
LEMMA Invariance == Spec => []Inv
  BY InitInv, StepInv, PTL DEF Spec

\* The list is always well formed: the pointers set by insert(), access() and
\* remove() string together exactly the entries of the map, in both directions.
THEOREM ListCorrect == Spec => []ListOK
<1>1. Inv => ListOK
  <2> SUFFICES ASSUME Inv PROVE ListOK
    OBVIOUS
  <2>1n. PICK n \in Nat : \E s : Chain(n, s)
    BY DEF Inv, Rest, ListInv, Structured
  <2>1. PICK s : Chain(n, s)
    BY <2>1n
  <2>2. s \in Bijection(1..n, entries)
    BY <2>1 DEF Chain, IsList, Bijection, Injection, Surjection, IsInjective
  <2>3. Cardinality(entries) = n
    BY <2>2, FS_CountingElements DEF ExistsBijection
  <2>4. s \in Lists
    BY <2>1, <2>3 DEF Lists, Chain
  <2> QED  BY <2>4 DEF ListOK
<1> QED  BY <1>1, Invariance, PTL

\* Between calls, a cache above its capacity holds nothing but locked entries
\* (and entries of size 0), whatever was inserted, unlocked or resized before.
THEOREM OverfilledOnlyByLocks == Spec => []OverfilledByLocks
<1>1. Inv => OverfilledByLocks
  BY DEF Inv, Rest, ByLocks, OverfilledByLocks, Idle
<1> QED  BY <1>1, Invariance, PTL

\* As long as the cache lives, values are neither leaked nor deleted twice:
\* the live ones are those of the entries and the one an insert() in progress
\* brings.  (What the destructor leaves of them is leaked: DestructorDeletes.)
THEOREM Ownership == Spec => []Owned
<1>1. Inv => Owned
  BY DEF Inv, Rest
<1> QED  BY <1>1, Invariance, PTL

\* lock() never reads an entry that the free() it has called has erased.
THEOREM NoStaleEntryRead == Spec => []LockReadsLive
<1>1. Inv => LockReadsLive
  BY DEF Inv, TypeInv, TypeOK, Call, Rest, LockRuns, LockReadsLive, ReadsEntry
<1> QED  BY <1>1, Invariance, PTL

\* lock() returns the entry's value, or null exactly if it has removed the
\* entry or there was none; insert() returns whether the key is cached.
THEOREM AnswersTrue == Spec => []Answers
<1>1. Inv => Answers
  BY DEF Inv, Rest, RetInv
<1> QED  BY <1>1, Invariance, PTL

\* No step removes a locked entry or changes its value.
THEOREM LockedEntriesStay == Spec => LockedStays
<1>1. ASSUME Inv, [Next]_vars, NEW k \in entries, locked[k], Alive'
      PROVE  k \in entries' /\ vPtr'[k] = vPtr[k]
  <2>0. TypeOK /\ CallOK /\ Args /\ k \in Key
    BY <1>1 DEF Inv, TypeInv, Rest, TypeOK
  <2>1. ASSUME UNCHANGED <<entries, vPtr>> PROVE k \in entries' /\ vPtr'[k] = vPtr[k]
    BY <2>1, <1>1
  <2>2. ASSUME NEW j \in Key, Erase(j), ~locked[j] PROVE k \in entries' /\ vPtr'[k] = vPtr[k]
    BY <2>0, <2>2, <1>1, EraseEffect
  <2>3. CASE Evict
    <3>1. call.cur \in Key
      BY <2>0, <2>3 DEF Evict, LoopOn, TypeOK, Call, KeyOrNull
    <3> QED  BY <3>1, <2>2, <2>3 DEF Evict, Removable
  <2>4. CASE InsertDone
    <3>1. call.key \in Key /\ call.key # k /\ call.key \notin entries
      BY <2>0, <2>4, <1>1 DEF InsertDone, CallOK, Args
    <3> QED  BY <3>1, <2>0, <2>4, <1>1 DEF InsertDone, Link, TypeOK
  <2>5. CASE Continue /\ ~Evict /\ ~InsertDone
    BY <1>1, <2>1, <2>5 DEF Continue, Skip, InsertRefused, LockDone, FreeDone, ResizeDone,
                      DestroyDone, NoCall, Alive, contents, fields
  <2>6. ASSUME NEW j \in Key, Item(j) \/ LockMissing(j) \/ \E lock \in BOOLEAN : LockCall(j, lock)
        PROVE  k \in entries' /\ vPtr'[k] = vPtr[k]
    BY <2>1, <2>6 DEF Item, LockMissing, LockCall, contents, fields
  <2>7. ASSUME NEW j \in Key, Remove(j) PROVE k \in entries' /\ vPtr'[k] = vPtr[k]
    BY <2>1, <2>2, <2>7 DEF Remove, Removable, contents, fields
  <2>8. CASE BeginOther
    BY <2>1, <2>6, <2>7, <2>8 DEF BeginOther, FreeCall, ResizeCall, DestroyCall, contents, fields
  <2>9. ASSUME NEW j \in Key, NEW size \in Sizes, BeginInsert(j, size)
        PROVE  k \in entries' /\ vPtr'[k] = vPtr[k]
    BY <2>1, <2>9 DEF BeginInsert, InsertTooBig, InsertCall, contents, fields
  <2>10. CASE UNCHANGED vars
    BY <2>1, <2>10 DEF vars, contents, fields
  <2> QED  BY <2>3, <2>4, <2>5, <2>8, <2>9, <2>10, <1>1 DEF Next, Begin
<1>2. Inv /\ [Next]_vars =>
        [Alive' => \A k \in entries : locked[k] => k \in entries' /\ vPtr'[k] = vPtr[k]]_vars
  BY <1>1
<1> QED  BY <1>2, Invariance, PTL DEF Spec, LockedStays

\* The occupied size is the sum of the sizes of the cached entries.
THEOREM SizesAddUp == Spec => []Accounted
<1>1. Inv => Accounted
  <2> SUFFICES ASSUME Inv PROVE Accounted
    OBVIOUS
  <2>1n. PICK n \in Nat : \E s : Structured(n, s)
    BY DEF Inv, Rest, ListInv
  <2>1. PICK s : Structured(n, s)
    BY <2>1n
  <2>2. PICK t : IsTotal(n, s, t, cost, occupied)
    BY <2>1 DEF Structured
  <2>3. /\ s \in [1..n -> entries]
        /\ \A x \in entries : \E i \in 1..n : s[i] = x
        /\ \A i, j \in 1..n : s[i] = s[j] => i = j
    BY <2>1 DEF Structured, Chain, IsList
  <2>4. \A x \in entries : cost[x] \in Nat
    BY SizesAssumption DEF Inv, TypeInv, TypeOK, cachesize_t
  <2>5. Enumerates(n, entries, s)
    BY <2>3 DEF Enumerates
  <2>6. occupied = SumFunctionOnSet(cost, entries)
    BY <2>2, <2>4, <2>5, TotalIsSum
  <2> QED  BY <2>6, Zenon DEF Accounted
<1> QED  BY <1>1, Invariance, PTL

\* The linked list implements the least recently used cache of LruContract.
THEOREM ContractImplemented == Spec => ImplementsContract
<1>1. Init => Contract!Init
  BY ContractInit
<1>2. Inv /\ [Next]_vars => [Contract!Next]_Contract!vars
  BY ContractStep
<1> QED  BY <1>1, <1>2, Invariance, PTL DEF Spec, ImplementsContract, Contract!Spec

-----------------------------------------------------------------------------
(* ResourceCache.  Inv is the invariant of the cache below: the steps of a *)
(* ResourceCache turn out to be steps of a Cache that is used the way it   *)
(* has to be, so that all that is proved of Cache holds here as well.      *)

Frames == [fn   : {"getEntry", "lock", "release", "resize", "clear", "destroy"},
           key  : KeyOrNull,
           lock : BOOLEAN,
           at   : {"cache", "loader", "members"}]

FieldTypes ==
    /\ ptrs \in [Pointer -> [key : KeyOrNull, locked : BOOLEAN]]
    /\ entry \in [Key -> ValueOrNull]
    /\ lockCount \in [Key -> 0..MaxCount]
    /\ sharedPtr \in [Value -> KeyOrNull]
    /\ stack \in Seq(Frames)

\* Calls in progress wait for the loader, but for the innermost.  What is
\* being loaded is not cached, and is loaded by one of them only.
LoadersOK == \A i \in 1..Len(stack) :
    /\ i < Len(stack) => stack[i].at = "loader"
    /\ stack[i].at = "loader" => stack[i].fn = "getEntry" /\ stack[i].key \in Key \ entries
    /\ \A j \in 1..Len(stack) : i < j => stack[i].key # stack[j].key

\* The call of the cache that the frame f waits for is under way.
Waits(f) ==
    \/ f.fn = "getEntry" /\ call.fn = "insert" /\ call.key = f.key /\ call.lock = f.lock
    \/ f.fn = "lock" /\ call.fn = "lock" /\ call.key = f.key /\ call.lock /\ f.lock
    \/ f.fn = "release" /\ call.fn = "lock" /\ call.key = f.key /\ ~call.lock /\ ~f.lock
    \/ f.fn = "resize" /\ call.fn = "resize" /\ ~f.lock
    \/ f.fn \in {"clear", "destroy"} /\ call.fn = "free" /\ ~f.lock

TopOK ==
    /\ stack = <<>> => Idle
    /\ stack # <<>> =>
         /\ Top.at = "loader" => Idle
         /\ Top.at = "cache" => Waits(Top)
         /\ Top.at = "members" => /\ Top.fn = "destroy" /\ ~Top.lock
                                  /\ call.fn \in {"none", "destroy", "gone"}

Above  == FieldTypes /\ LoadersOK /\ TopOK /\ DirectPointers /\ LockCounts
ResInv == Inv /\ Above

-----------------------------------------------------------------------------
(* The stack.                                                              *)

LEMMA PushIs ==
  ASSUME stack \in Seq(Frames), NEW f \in Frames, Push(f)
  PROVE  /\ stack' \in Seq(Frames) /\ stack' # <<>>
         /\ Len(stack) \in Nat /\ Len(stack') = Len(stack) + 1 /\ stack'[Len(stack')] = f
         /\ \A i \in 1..Len(stack) : stack'[i] = stack[i]
  BY DEF Push

LEMMA PopIs ==
  ASSUME stack \in Seq(Frames), stack # <<>>, Pop
  PROVE  /\ stack' \in Seq(Frames) /\ Len(stack) \in Nat \ {0}
         /\ Len(stack') = Len(stack) - 1
         /\ \A i \in 1..(Len(stack) - 1) : stack'[i] = stack[i]
         /\ Top \in Frames
<1>1. Len(stack) \in Nat \ {0} /\ Top \in Frames
  BY DEF Top
<1>2. PICK n \in Nat : n = Len(stack) - 1
  BY <1>1
<1>3. SubSeq(stack, 1, n) \in Seq(Frames) /\ Len(SubSeq(stack, 1, n)) = n
      /\ \A i \in 1..n : SubSeq(stack, 1, n)[i] = stack[i]
  BY <1>1, <1>2
<1> QED  BY <1>1, <1>2, <1>3 DEF Pop

LEMMA SetTopIs ==
  ASSUME stack \in Seq(Frames), stack # <<>>, NEW f \in Frames,
         stack' = [stack EXCEPT ![Len(stack)] = f]
  PROVE  /\ stack' \in Seq(Frames) /\ stack' # <<>> /\ Len(stack) \in Nat \ {0}
         /\ Len(stack') = Len(stack) /\ stack'[Len(stack')] = f
         /\ \A i \in 1..(Len(stack) - 1) : stack'[i] = stack[i]
         /\ Top \in Frames
<1>1. PICK n : n = Len(stack)
  OBVIOUS
<1>2. n \in Nat \ {0} /\ DOMAIN stack = 1..n /\ Top \in Frames
  BY <1>1 DEF Top
<1>3. \A i \in 1..n : [stack EXCEPT ![n] = f][i] = IF i = n THEN f ELSE stack[i]
  BY <1>2
<1>4. stack' \in Seq(Frames) /\ Len(stack') = n
  BY <1>1, <1>2
<1> QED  BY <1>1, <1>2, <1>3, <1>4

LEMMA TopIs ==
  ASSUME FieldTypes, stack # <<>>
  PROVE  Top \in Frames /\ Len(stack) \in Nat \ {0} /\ Top = stack[Len(stack)]
         /\ Len(stack) \in 1..Len(stack)
  BY DEF FieldTypes, Top

LEMMA LoadersSame ==
  ASSUME FieldTypes, LoadersOK, stack' = stack, entries' \subseteq entries
  PROVE  LoadersOK'
  BY DEF LoadersOK

LEMMA LoadersPush ==
  ASSUME FieldTypes, LoadersOK, entries' = entries,
         NEW f \in Frames, Push(f), stack # <<>> => Top.at = "loader",
         f.key \notin {stack[i].key : i \in 1..Len(stack)},
         f.at = "loader" => f.fn = "getEntry" /\ f.key \in Key \ entries
  PROVE  LoadersOK'
<1>1. /\ stack' \in Seq(Frames) /\ Len(stack) \in Nat /\ Len(stack') = Len(stack) + 1
      /\ stack'[Len(stack')] = f /\ \A i \in 1..Len(stack) : stack'[i] = stack[i]
  BY PushIs DEF FieldTypes
<1>2. \A i \in 1..Len(stack) : stack[i].at = "loader"
  <2> SUFFICES ASSUME NEW i \in 1..Len(stack) PROVE stack[i].at = "loader"
    OBVIOUS
  <2>1. CASE i < Len(stack)
    BY <2>1 DEF LoadersOK
  <2>2. CASE i = Len(stack)
    BY <1>1, <2>2, TopIs
  <2> QED  BY <1>1, <2>1, <2>2
<1>3. ASSUME NEW i \in 1..Len(stack')
      PROVE  /\ i < Len(stack') => stack'[i].at = "loader"
             /\ stack'[i].at = "loader" => stack'[i].fn = "getEntry" /\ stack'[i].key \in Key \ entries'
             /\ \A j \in 1..Len(stack') : i < j => stack'[i].key # stack'[j].key
  <2>1. CASE i \in 1..Len(stack)
    <3>1. /\ stack'[i] = stack[i] /\ stack[i].at = "loader"
      BY <1>1, <1>2, <2>1
    <3>3. \A j \in 1..Len(stack') : i < j => stack'[i].key # stack'[j].key
      <4> SUFFICES ASSUME NEW j \in 1..Len(stack'), i < j PROVE stack[i].key # stack'[j].key
        BY <3>1
      <4>1. CASE j = Len(stack')
        BY <1>1, <2>1, <4>1
      <4>2. CASE j \in 1..Len(stack)
        BY <1>1, <2>1, <4>2 DEF LoadersOK
      <4> QED  BY <1>1, <4>1, <4>2
    <3> QED  BY <2>1, <3>1, <3>3 DEF LoadersOK
  <2>2. CASE i = Len(stack')
    BY <1>1, <2>2
  <2> QED  BY <1>1, <2>1, <2>2
<1> QED  BY <1>3 DEF LoadersOK

LEMMA LoadersPop ==
  ASSUME FieldTypes, LoadersOK, stack # <<>>, Pop,
         entries' \subseteq entries \cup {Top.key}
  PROVE  LoadersOK' /\ (stack' # <<>> => Top'.at = "loader")
<1>1. /\ stack' \in Seq(Frames) /\ Len(stack) \in Nat \ {0} /\ Len(stack') = Len(stack) - 1
      /\ \A i \in 1..(Len(stack) - 1) : stack'[i] = stack[i]
  BY PopIs DEF FieldTypes
<1>2. Top = stack[Len(stack)] /\ Len(stack) \in 1..Len(stack)
  BY TopIs
<1>3. ASSUME NEW i \in 1..Len(stack')
      PROVE  /\ i \in 1..Len(stack) /\ stack'[i] = stack[i] /\ stack[i].at = "loader"
             /\ stack[i].key \in Key \ entries'
             /\ \A j \in 1..Len(stack') : i < j => stack[i].key # stack'[j].key
  <2>1. i \in 1..Len(stack) /\ i < Len(stack) /\ stack'[i] = stack[i]
    BY <1>1
  <2>2. stack[i].at = "loader"
    BY <2>1 DEF LoadersOK
  <2>3. stack[i].key \in Key \ entries
    BY <2>1, <2>2 DEF LoadersOK
  <2>4. stack[i].key # Top.key
    BY <1>2, <2>1 DEF LoadersOK
  <2>6. \A j \in 1..Len(stack') : i < j => stack[i].key # stack'[j].key
    BY <1>1, <2>1 DEF LoadersOK
  <2> QED  BY <2>1, <2>2, <2>3, <2>4, <2>6
<1>4. LoadersOK'
  <2> SUFFICES ASSUME NEW i \in 1..Len(stack')
               PROVE  /\ i < Len(stack') => stack'[i].at = "loader"
                      /\ stack'[i].at = "loader" =>
                           stack'[i].fn = "getEntry" /\ stack'[i].key \in Key \ entries'
                      /\ \A j \in 1..Len(stack') : i < j => stack'[i].key # stack'[j].key
    BY DEF LoadersOK
  <2> QED  BY <1>3 DEF LoadersOK
<1>5. stack' # <<>> => Top'.at = "loader"
  <2> SUFFICES ASSUME stack' # <<>> PROVE Top'.at = "loader"
    OBVIOUS
  <2>1. Len(stack') \in 1..Len(stack')
    BY <1>1
  <2> QED  BY <1>3, <2>1 DEF Top
<1> QED  BY <1>4, <1>5

LEMMA LoadersSetTop ==
  ASSUME FieldTypes, LoadersOK, entries' = entries, stack # <<>>,
         NEW f \in Frames, stack' = [stack EXCEPT ![Len(stack)] = f],
         f.key = Top.key,
         f.at = "loader" => f.fn = "getEntry" /\ f.key \in Key \ entries
  PROVE  LoadersOK'
<1>1. /\ stack' \in Seq(Frames) /\ Len(stack) \in Nat \ {0} /\ Len(stack') = Len(stack)
      /\ stack'[Len(stack')] = f /\ \A i \in 1..(Len(stack) - 1) : stack'[i] = stack[i]
  BY SetTopIs DEF FieldTypes
<1>2. PICK n : n = Len(stack) /\ n \in Nat \ {0} /\ Top = stack[n]
  BY TopIs
<1>3. /\ \A i \in 1..n : i < n => stack'[i] = stack[i]
      /\ stack'[n] = f /\ Len(stack') = n
  <2>1. \A i \in 1..n : i < n => i \in 1..(n - 1)
    BY <1>2
  <2>2. \A i \in 1..(n - 1) : stack'[i] = stack[i]
    BY <1>1, <1>2
  <2> QED  BY <1>1, <1>2, <2>1, <2>2
<1>4. \A i \in 1..n : stack'[i].key = stack[i].key
  <2> SUFFICES ASSUME NEW i \in 1..n PROVE stack'[i].key = stack[i].key
    OBVIOUS
  <2>1. i < n \/ i = n
    BY <1>2
  <2> QED  BY <1>2, <1>3, <2>1
<1> SUFFICES ASSUME NEW i \in 1..n
             PROVE  /\ i < n => stack'[i].at = "loader"
                    /\ stack'[i].at = "loader" =>
                         stack'[i].fn = "getEntry" /\ stack'[i].key \in Key \ entries
                    /\ \A j \in 1..n : i < j => stack'[i].key # stack'[j].key
  BY <1>3 DEF LoadersOK
<1>5. i < n => stack'[i].at = "loader"
  BY <1>2, <1>3 DEF LoadersOK
<1>7. \A j \in 1..n : i < j => stack'[i].key # stack'[j].key
  BY <1>2, <1>4 DEF LoadersOK
<1>8. stack'[i].at = "loader" => stack'[i].fn = "getEntry" /\ stack'[i].key \in Key \ entries
  <2>1. CASE i = n
    BY <1>3, <2>1
  <2>2. CASE i < n
    BY <1>2, <1>3, <2>2 DEF LoadersOK
  <2> QED  BY <1>2, <2>1, <2>2
<1> QED  BY <1>5, <1>7, <1>8

-----------------------------------------------------------------------------
(* The lock counts.                                                        *)

LEMMA HoldersFinite ==
  ASSUME NEW k
  PROVE  /\ Holders(k) \subseteq Pointer /\ IsFiniteSet(Holders(k))
         /\ Cardinality(Holders(k)) \in 0..MaxCount
         /\ Cardinality(Holders(k)) = 0 <=> Holders(k) = {}
<1>1. Holders(k) \subseteq Pointer
  BY DEF Holders
<1>2. IsFiniteSet(Holders(k)) /\ Cardinality(Holders(k)) <= Cardinality(Pointer)
  BY <1>1, PointersAssumption, FS_Subset
<1>3. Cardinality(Holders(k)) \in Nat /\ Cardinality(Pointer) \in Nat
  BY <1>2, PointersAssumption, FS_CardinalityType
<1> QED  BY <1>1, <1>2, <1>3, PointersAssumption, MaxCountAssumption, FS_EmptySet

LEMMA CountSmall ==
  ASSUME NEW n \in 0..MaxCount
  PROVE  Count(n) = n
  BY MaxCountAssumption DEF Count

LEMMA CountsSame ==
  ASSUME LockCounts, ptrs' = ptrs, lockCount' = lockCount
  PROVE  LockCounts' /\ \A k : Holders(k)' = Holders(k)
  BY DEF LockCounts, Holders

\* A Pointer that holds no lock is changed, or one gets another's key.
LEMMA PointerMoves ==
  ASSUME FieldTypes, LockCounts, NEW p \in Pointer, ~ptrs[p].locked, NEW k \in KeyOrNull,
         ptrs' = [ptrs EXCEPT ![p] = [key |-> k, locked |-> FALSE]], lockCount' = lockCount
  PROVE  /\ ptrs' \in [Pointer -> [key : KeyOrNull, locked : BOOLEAN]]
         /\ LockCounts' /\ \A j \in Key : Holders(j)' = Holders(j)
<1>1. ptrs' \in [Pointer -> [key : KeyOrNull, locked : BOOLEAN]]
  BY DEF FieldTypes
<1>2. ~ptrs'[p].locked /\ \A q \in Pointer : q # p => ptrs'[q] = ptrs[q]
  BY DEF FieldTypes
<1>3. \A j \in Key : Holders(j)' = Holders(j)
  BY <1>2 DEF Holders
<1> QED  BY <1>1, <1>3 DEF LockCounts

LEMMA CountLockIs ==
  ASSUME FieldTypes, LockCounts, NEW p \in Pointer, NEW lock \in BOOLEAN, NEW k \in Key,
         ptrs[p].key = k, CountLock(p, lock)
  PROVE  /\ ptrs' \in [Pointer -> [key : KeyOrNull, locked : BOOLEAN]]
         /\ lockCount' \in [Key -> 0..MaxCount] /\ LockCounts'
         /\ \A j \in Key : Holders(j) \subseteq Holders(j)'
         /\ lock => Holders(k)' # {}
<1>1. CASE lock /\ ~ptrs[p].locked
  <2>1. ptrs' = [ptrs EXCEPT ![p].locked = TRUE] /\ lockCount' = [lockCount EXCEPT ![k] = Count(@ + 1)]
    BY <1>1 DEF CountLock
  <2>2. ptrs' \in [Pointer -> [key : KeyOrNull, locked : BOOLEAN]]
    BY <2>1 DEF FieldTypes
  <2>3. /\ ptrs'[p].locked /\ ptrs'[p].key = k
        /\ \A q \in Pointer : q # p => ptrs'[q] = ptrs[q]
    BY <2>1 DEF FieldTypes
  <2>4. Holders(k)' = Holders(k) \cup {p} /\ p \notin Holders(k)
    BY <1>1, <2>3 DEF Holders
  <2>5. \A j \in Key : j # k => Holders(j)' = Holders(j)
    BY <1>1, <2>3 DEF Holders
  <2>6. PICK n \in 0..MaxCount : n = Cardinality(Holders(k)) /\ lockCount[k] = n
    BY HoldersFinite DEF LockCounts
  <2>7. Cardinality(Holders(k) \cup {p}) = n + 1
    BY <2>4, <2>6, HoldersFinite, FS_AddElement, ZenonT(30)
  <2>8. n + 1 \in 0..MaxCount
    <3>1. Holders(k) \cup {p} \subseteq Pointer
      BY HoldersFinite
    <3>2. Cardinality(Holders(k) \cup {p}) <= Cardinality(Pointer)
      BY <3>1, PointersAssumption, FS_Subset
    <3>3. Cardinality(Pointer) \in Nat
      BY PointersAssumption, FS_CardinalityType
    <3> QED  BY <2>6, <2>7, <3>2, <3>3, PointersAssumption, MaxCountAssumption
  <2>9. lockCount'[k] = n + 1 /\ \A j \in Key : j # k => lockCount'[j] = lockCount[j]
    BY <2>1, <2>6, <2>8, CountSmall DEF FieldTypes
  <2>10. lockCount' \in [Key -> 0..MaxCount]
    BY <2>1, <2>6, <2>8, CountSmall DEF FieldTypes
  <2>11. LockCounts'
    <3> SUFFICES ASSUME NEW j \in Key PROVE lockCount'[j] = Cardinality(Holders(j)')
      BY DEF LockCounts
    <3>1. CASE j = k
      BY <2>4, <2>7, <2>9, <3>1
    <3>2. CASE j # k
      BY <2>5, <2>9, <3>2 DEF LockCounts
    <3> QED  BY <3>1, <3>2
  <2>12. \A j \in Key : Holders(j) \subseteq Holders(j)'
    BY <2>4, <2>5
  <2> QED  BY <2>2, <2>4, <2>10, <2>11, <2>12
<1>2. CASE ~(lock /\ ~ptrs[p].locked)
  <2>1. ptrs' = ptrs /\ lockCount' = lockCount
    BY <1>2 DEF CountLock
  <2>2. \A j : Holders(j)' = Holders(j)
    BY <2>1 DEF Holders
  <2>3. lock => p \in Holders(k)
    BY <1>2 DEF Holders
  <2> QED  BY <2>1, <2>2, <2>3, CountsSame DEF FieldTypes
<1> QED  BY <1>1, <1>2

LEMMA ReleaseIs ==
  ASSUME FieldTypes, LockCounts, NEW p \in Pointer, NEW k \in Key, ptrs[p].key = k, ptrs[p].locked,
         ptrs' = Unlocked(p), lockCount' = [lockCount EXCEPT ![k] = Count(@ - 1)]
  PROVE  /\ ptrs' \in [Pointer -> [key : KeyOrNull, locked : BOOLEAN]]
         /\ lockCount' \in [Key -> 0..MaxCount] /\ LockCounts'
         /\ \A j \in Key : j # k => Holders(j)' = Holders(j)
         /\ LastLock(k) <=> Holders(k)' = {}
<1>1. ptrs' \in [Pointer -> [key : KeyOrNull, locked : BOOLEAN]]
  BY DEF FieldTypes, Unlocked
<1>2. ~ptrs'[p].locked /\ \A q \in Pointer : q # p => ptrs'[q] = ptrs[q]
  BY DEF FieldTypes, Unlocked
<1>3. Holders(k)' = Holders(k) \ {p} /\ p \in Holders(k)
  BY <1>2 DEF Holders
<1>4. \A j \in Key : j # k => Holders(j)' = Holders(j)
  BY <1>2 DEF Holders
<1>5. PICK n \in 0..MaxCount : n = Cardinality(Holders(k)) /\ lockCount[k] = n
  BY HoldersFinite DEF LockCounts
<1>6. n > 0
  BY <1>3, <1>5, HoldersFinite
<1>7. PICK m \in 0..MaxCount : m = n - 1
  BY <1>5, <1>6, MaxCountAssumption
<1>8. Cardinality(Holders(k) \ {p}) = m /\ IsFiniteSet(Holders(k) \ {p})
  BY <1>3, <1>5, <1>7, HoldersFinite, FS_RemoveElement
<1>9. lockCount'[k] = m /\ \A j \in Key : j # k => lockCount'[j] = lockCount[j]
  BY <1>5, <1>7, CountSmall DEF FieldTypes
<1>10. lockCount' \in [Key -> 0..MaxCount]
  BY <1>5, <1>7, CountSmall DEF FieldTypes
<1>11. LockCounts'
  <2> SUFFICES ASSUME NEW j \in Key PROVE lockCount'[j] = Cardinality(Holders(j)')
    BY DEF LockCounts
  <2>1. CASE j = k
    BY <1>3, <1>8, <1>9, <2>1
  <2>2. CASE j # k
    BY <1>4, <1>9, <2>2 DEF LockCounts
  <2> QED  BY <2>1, <2>2
<1>12. LastLock(k) <=> m = 0
  BY <1>5, <1>7 DEF LastLock
<1>13. m = 0 <=> Holders(k)' = {}
  BY <1>3, <1>8, FS_EmptySet
<1> QED  BY <1>1, <1>4, <1>10, <1>11, <1>12, <1>13

-----------------------------------------------------------------------------
(* Every step keeps the invariant, and is a step of the cache below or     *)
(* leaves it alone.                                                        *)

\* Nothing comes to life again.
LEMMA AliveBefore == ASSUME Inv, [Next]_vars, Alive' PROVE Alive
<1>1. ~DestroyDone
  BY DEF DestroyDone, NoCall, Alive
<1>2. CASE UNCHANGED vars
  BY <1>2 DEF vars, Alive
<1> QED  BY <1>1, <1>2, StaysAlive DEF Inv, TypeInv

LEMMA DirectSame ==
  ASSUME Inv, DirectPointers, [Next]_vars, entry' = entry, sharedPtr' = sharedPtr, vPtr' = vPtr
  PROVE  DirectPointers'
  BY AliveBefore DEF DirectPointers

LEMMA SameVars ==
  ASSUME UNCHANGED vars
  PROVE  UNCHANGED <<entries, vPtr, cost, locked, capacity, live, call, ret>>
  BY DEF vars, contents, fields

LEMMA EntriesAre ==
  ASSUME Inv
  PROVE  /\ entries \subseteq Key /\ vPtr \in [Key -> ValueOrNull]
         /\ \A k \in Key : k \in entries <=> vPtr[k] # NULL
         /\ \A k \in entries : vPtr[k] \in Value
  BY NullAssumption DEF Inv, TypeInv, TypeOK, Rest, Fields

LEMMA ClientTop ==
  ASSUME ClientRuns, stack # <<>>
  PROVE  Top.at = "loader"
  BY DEF ClientRuns, InLoader

LEMMA ValidIs ==
  ASSUME NEW p \in Pointer, Valid(p)
  PROVE  ptrs[p].key \in Key /\ ClientRuns /\ Idle
  BY DEF Valid, ClientRuns

LEMMA UsableIs ==
  ASSUME NEW p \in Pointer, Usable(p)
  PROVE  /\ ptrs[p].key \in Key /\ ClientRuns /\ Idle
         /\ ptrs[p].key \notin {stack[i].key : i \in 1..Len(stack)}
  BY ValidIs DEF Usable

\* The Pointers are changed, the calls and the cache are not.
LEMMA QuietKeeps ==
  ASSUME ResInv, UNCHANGED <<vars, entry, sharedPtr, stack>>,
         ptrs' \in [Pointer -> [key : KeyOrNull, locked : BOOLEAN]],
         lockCount' \in [Key -> 0..MaxCount], LockCounts'
  PROVE  Above' /\ [Next]_vars
<1> USE DEF ResInv, Above
<1>1. UNCHANGED <<entries, vPtr, locked, call>>
  BY SameVars
<1>2. FieldTypes'
  BY DEF FieldTypes
<1>3. LoadersOK'
  BY <1>1, LoadersSame
<1>4. TopOK'
  BY <1>1 DEF TopOK, Top, Idle, Waits
<1>5. DirectPointers'
  BY <1>1, DirectSame
<1> QED  BY <1>2, <1>3, <1>4, <1>5

LEMMA GetEntryPointerKeeps ==
  ASSUME ResInv, NEW p \in Pointer, ~ptrs[p].locked, NEW k \in Key, GetEntryPointer(p, k)
  PROVE  Above' /\ [Next]_vars
<1>1. k \in KeyOrNull /\ FieldTypes /\ LockCounts
  BY DEF KeyOrNull, ResInv, Above
<1>2. /\ ptrs' = [ptrs EXCEPT ![p] = [key |-> k, locked |-> FALSE]] /\ lockCount' = lockCount
      /\ UNCHANGED <<vars, entry, sharedPtr, stack>>
  BY DEF GetEntryPointer
<1>3. /\ ptrs' \in [Pointer -> [key : KeyOrNull, locked : BOOLEAN]]
      /\ LockCounts'
  BY <1>1, <1>2, PointerMoves
<1> QED  BY <1>1, <1>2, <1>3, QuietKeeps DEF FieldTypes

LEMMA CopyPointerKeeps ==
  ASSUME ResInv, NEW p \in Pointer, ~ptrs[p].locked, NEW q \in Pointer, CopyPointer(p, q)
  PROVE  Above' /\ [Next]_vars
<1>1. FieldTypes /\ LockCounts
  BY DEF ResInv, Above
<1>k. PICK k \in KeyOrNull : k = ptrs[q].key
  BY <1>1 DEF FieldTypes
<1>2. /\ ptrs' = [ptrs EXCEPT ![p] = [key |-> k, locked |-> FALSE]] /\ lockCount' = lockCount
      /\ UNCHANGED <<vars, entry, sharedPtr, stack>>
  BY <1>k DEF CopyPointer
<1>3. /\ ptrs' \in [Pointer -> [key : KeyOrNull, locked : BOOLEAN]]
      /\ LockCounts'
  BY <1>1, <1>2, PointerMoves
<1> QED  BY <1>1, <1>2, <1>3, QuietKeeps DEF FieldTypes

LEMMA GetEntryDirectKeeps ==
  ASSUME ResInv, NEW p \in Pointer, NEW lock \in BOOLEAN, GetEntryDirect(p, lock)
  PROVE  Above' /\ [Next]_vars
<1>1. FieldTypes /\ LockCounts /\ ptrs[p].key \in Key
  BY UsableIs DEF ResInv, Above, GetEntryDirect
<1>2. CountLock(p, lock) /\ UNCHANGED <<vars, entry, sharedPtr, stack>>
  BY DEF GetEntryDirect
<1> QED  BY <1>1, <1>2, CountLockIs, QuietKeeps

\* A call begins that the cache or the loader has to go on with.
LEMMA PushKeeps ==
  ASSUME ResInv, stack # <<>> => Top.at = "loader",
         NEW f \in Frames, Push(f), UNCHANGED <<entry, sharedPtr, entries, vPtr>>,
         ptrs' \in [Pointer -> [key : KeyOrNull, locked : BOOLEAN]],
         lockCount' \in [Key -> 0..MaxCount], LockCounts', Next,
         f.key \notin {stack[i].key : i \in 1..Len(stack)},
         f.at = "loader" => f.fn = "getEntry" /\ f.key \in Key \ entries /\ Idle',
         f.at = "cache" => Waits(f)',
         f.at # "members"
  PROVE  Above'
<1> USE DEF ResInv, Above
<1>1. stack' \in Seq(Frames) /\ stack' # <<>> /\ Top' = f
  BY PushIs DEF FieldTypes, Top
<1>2. FieldTypes'
  BY <1>1 DEF FieldTypes
<1>3. LoadersOK'
  BY LoadersPush
<1>4. TopOK'
  BY <1>1 DEF TopOK
<1>5. DirectPointers'
  BY DirectSame
<1> QED  BY <1>2, <1>3, <1>4, <1>5

LEMMA LockMissingIs ==
  ASSUME NEW k \in Key, LockMissing(k)
  PROVE  /\ Idle' /\ Next /\ k \notin entries
         /\ UNCHANGED <<entries, vPtr, cost, locked, capacity, live>>
  BY DEF LockMissing, Return, NoCall, Idle, contents, fields, Next, Begin, BeginOther

LEMMA LockCallIs ==
  ASSUME NEW k \in Key, NEW lock \in BOOLEAN, LockCall(k, lock)
  PROVE  /\ call'.fn = "lock" /\ call'.key = k /\ call'.lock = lock /\ Next
         /\ k \in entries /\ locked' = [locked EXCEPT ![k] = lock]
         /\ UNCHANGED <<entries, vPtr, cost, capacity, live>>
  BY DEF LockCall, EnterFree, Next, Begin, BeginOther

LEMMA GetEntryLockKeeps ==
  ASSUME ResInv, NEW p \in Pointer, GetEntryLock(p)
  PROVE  Above' /\ [Next]_vars
<1> USE DEF ResInv, Above
<1>k. PICK k \in Key : k = ptrs[p].key
  BY UsableIs DEF GetEntryLock
<1>1. /\ k \notin {stack[i].key : i \in 1..Len(stack)}
      /\ stack # <<>> => Top.at = "loader"
  BY <1>k, UsableIs, ClientTop DEF GetEntryLock
<1>2. CountLock(p, TRUE) /\ UNCHANGED <<entry, sharedPtr>>
  BY DEF GetEntryLock
<1>3. /\ ptrs' \in [Pointer -> [key : KeyOrNull, locked : BOOLEAN]]
      /\ lockCount' \in [Key -> 0..MaxCount] /\ LockCounts'
  BY <1>k, <1>2, CountLockIs
<1>5. CASE LockCall(k, TRUE) /\ Push(Frame("lock", k, TRUE, "cache"))
  <2>1. PICK f \in Frames : f = Frame("lock", k, TRUE, "cache")
    BY DEF Frame, Frames, KeyOrNull
  <2>2. f.fn = "lock" /\ f.key = k /\ f.lock = TRUE /\ f.at = "cache"
    BY <2>1 DEF Frame
  <2>3. /\ call'.fn = "lock" /\ call'.key = k /\ call'.lock = TRUE /\ Next
        /\ UNCHANGED <<entries, vPtr>>
    BY <1>5, LockCallIs
  <2>4. Waits(f)'
    BY <2>2, <2>3 DEF Waits
  <2> QED  BY <1>1, <1>2, <1>3, <1>5, <2>1, <2>2, <2>3, <2>4, PushKeeps
<1>6. CASE LockMissing(k) /\ Push(Frame("getEntry", k, TRUE, "loader"))
  <2>1. PICK f \in Frames : f = Frame("getEntry", k, TRUE, "loader")
    BY DEF Frame, Frames, KeyOrNull
  <2>2. f.fn = "getEntry" /\ f.key = k /\ f.lock = TRUE /\ f.at = "loader"
    BY <2>1 DEF Frame
  <2>3. Idle' /\ Next /\ k \notin entries /\ UNCHANGED <<entries, vPtr>>
    BY <1>6, LockMissingIs
  <2> QED  BY <1>1, <1>2, <1>3, <1>6, <2>1, <2>2, <2>3, PushKeeps
<1> QED  BY <1>k, <1>5, <1>6 DEF GetEntryLock

LEMMA GetEntryLookupKeeps ==
  ASSUME ResInv, NEW p \in Pointer, NEW lock \in BOOLEAN, GetEntryLookup(p, lock)
  PROVE  Above' /\ [Next]_vars
<1> USE DEF ResInv, Above
<1>k. PICK k \in Key : k = ptrs[p].key
  BY UsableIs DEF GetEntryLookup
<1>1. /\ k \notin {stack[i].key : i \in 1..Len(stack)}
      /\ stack # <<>> => Top.at = "loader"
  BY <1>k, UsableIs, ClientTop DEF GetEntryLookup
<1>2. CountLock(p, lock) /\ Item(k) /\ entry[k] = NULL
  BY <1>k DEF GetEntryLookup
<1>3. /\ ptrs' \in [Pointer -> [key : KeyOrNull, locked : BOOLEAN]]
      /\ lockCount' \in [Key -> 0..MaxCount] /\ LockCounts'
  BY <1>k, <1>2, CountLockIs
<1>5. vPtr[k] = NULL /\ k \notin entries
  BY <1>2, EntriesAre DEF DirectPointers, Item, Idle, Alive
<1>6. /\ Idle' /\ Next /\ UNCHANGED <<entries, vPtr>> /\ ret'.res = vPtr[k]
  BY <1>2 DEF Item, Return, NoCall, Idle, Answer, fields, Next, Begin, BeginOther
<1>7. Push(Frame("getEntry", k, FALSE, "loader")) /\ UNCHANGED <<entry, sharedPtr>>
  BY <1>k, <1>5, <1>6 DEF GetEntryLookup
<1>8. PICK f \in Frames : f = Frame("getEntry", k, FALSE, "loader")
  BY DEF Frame, Frames, KeyOrNull
<1>9. f.fn = "getEntry" /\ f.key = k /\ f.lock = FALSE /\ f.at = "loader"
  BY <1>8 DEF Frame
<1> QED  BY <1>1, <1>3, <1>5, <1>6, <1>7, <1>8, <1>9, PushKeeps

\* While client code runs, every call in progress is loading a key that the
\* cache does not have.
LEMMA AllLoading ==
  ASSUME ResInv, stack # <<>> => Top.at = "loader", NEW i \in 1..Len(stack)
  PROVE  stack[i].key \in Key \ entries
<1>1. stack \in Seq(Frames) /\ Len(stack) \in Nat
  BY DEF ResInv, Above, FieldTypes
<1>2. stack[i].at = "loader"
  <2>1. CASE i < Len(stack)
    BY <2>1 DEF ResInv, Above, LoadersOK
  <2>2. CASE i = Len(stack)
    BY <1>1, <2>2 DEF Top
  <2> QED  BY <1>1, <2>1, <2>2
<1> QED  BY <1>2 DEF ResInv, Above, LoadersOK

LEMMA ReleaseKeeps ==
  ASSUME ResInv, NEW p \in Pointer, Release(p)
  PROVE  Above' /\ [Next]_vars
<1> USE DEF ResInv, Above
<1>k. PICK k \in Key : k = ptrs[p].key
  BY ValidIs DEF Release
<1>1. stack # <<>> => Top.at = "loader"
  BY ValidIs, ClientTop DEF Release
<1>2. /\ ptrs[p].locked /\ ptrs' = Unlocked(p) /\ UNCHANGED <<entry, sharedPtr>>
      /\ lockCount' = [lockCount EXCEPT ![k] = Count(@ - 1)]
  BY <1>k DEF Release
<1>3. /\ ptrs' \in [Pointer -> [key : KeyOrNull, locked : BOOLEAN]]
      /\ lockCount' \in [Key -> 0..MaxCount] /\ LockCounts'
  BY <1>k, <1>2, ReleaseIs
<1>6. CASE ~LastLock(k) /\ UNCHANGED <<vars, stack>>
  BY <1>2, <1>3, <1>6, QuietKeeps
<1>7. CASE LastLock(k) /\ LockMissing(k) /\ UNCHANGED stack
  <2>1. Idle' /\ Next /\ k \notin entries /\ UNCHANGED <<entries, vPtr>>
    BY <1>7, LockMissingIs
  <2>2. FieldTypes'
    BY <1>2, <1>3, <1>7 DEF FieldTypes
  <2>3. LoadersOK'
    BY <1>7, <2>1, LoadersSame
  <2>4. TopOK'
    BY <1>1, <1>7, <2>1 DEF TopOK, Top
  <2>5. DirectPointers'
    BY <1>2, <2>1, DirectSame
  <2> QED  BY <1>3, <2>1, <2>2, <2>3, <2>4, <2>5
<1>8. CASE LastLock(k) /\ LockCall(k, FALSE) /\ Push(Frame("release", k, FALSE, "cache"))
  <2>1. PICK f \in Frames : f = Frame("release", k, FALSE, "cache")
    BY DEF Frame, Frames, KeyOrNull
  <2>2. f.fn = "release" /\ f.key = k /\ f.lock = FALSE /\ f.at = "cache"
    BY <2>1 DEF Frame
  <2>3. /\ call'.fn = "lock" /\ call'.key = k /\ call'.lock = FALSE /\ Next
        /\ k \in entries /\ UNCHANGED <<entries, vPtr>>
    BY <1>8, LockCallIs
  <2>4. Waits(f)'
    BY <2>2, <2>3 DEF Waits
  <2>5. k \notin {stack[i].key : i \in 1..Len(stack)}
    BY <1>1, <2>3, AllLoading
  <2> QED  BY <1>1, <1>2, <1>3, <1>8, <2>1, <2>2, <2>3, <2>4, <2>5, PushKeeps
<1> QED  BY <1>k, <1>6, <1>7, <1>8 DEF Release

\* The innermost call returns: to the loader that has made it, if to any.
LEMMA PopKeeps ==
  ASSUME ResInv, stack # <<>>, Pop, UNCHANGED <<ptrs, lockCount>>, Idle',
         entries' \subseteq entries \cup {Top.key},
         entry' \in [Key -> ValueOrNull], sharedPtr' \in [Value -> KeyOrNull],
         DirectPointers'
  PROVE  Above'
<1> USE DEF ResInv, Above
<1>1. LockCounts'
  BY CountsSame
<1>2. LoadersOK' /\ (stack' # <<>> => Top'.at = "loader")
  BY LoadersPop
<1>3. FieldTypes'
  BY PopIs DEF FieldTypes
<1>4. TopOK'
  BY <1>2 DEF TopOK
<1> QED  BY <1>1, <1>2, <1>3, <1>4

\* The call that waits for the cache, or for the loader, is the innermost.
LEMMA InnermostIs ==
  ASSUME ResInv, stack # <<>>
  PROVE  /\ Top \in Frames
         /\ Top.at = "loader" => Top.fn = "getEntry" /\ Top.key \in Key \ entries /\ Idle
         /\ Top.at = "cache" => Waits(Top)
<1> USE DEF ResInv, Above
<1>1. Top \in Frames /\ Len(stack) \in 1..Len(stack) /\ Top = stack[Len(stack)]
  BY TopIs
<1> QED  BY <1>1 DEF LoadersOK, TopOK

\* What a key that is not cached is returned as changes nothing.
LEMMA ReturnsNothing ==
  ASSUME ResInv, Alive, NEW k \in Key, k \notin entries, Returned(k, NULL)
  PROVE  entry' = entry /\ sharedPtr' = sharedPtr
<1>1. entry[k] = NULL /\ entry \in [Key -> ValueOrNull]
  BY EntriesAre DEF ResInv, Above, DirectPointers, FieldTypes
<1> QED  BY <1>1 DEF Returned

LEMMA LoadFailsKeeps ==
  ASSUME ResInv, LoadFails
  PROVE  Above' /\ [Next]_vars
<1> USE DEF ResInv, Above
<1>1. /\ stack # <<>> /\ Top.key \in Key \ entries /\ Idle /\ Pop
      /\ UNCHANGED <<vars, ptrs, lockCount>> /\ Returned(Top.key, NULL)
  BY InnermostIs DEF LoadFails, InLoader
<1>2. entry' = entry /\ sharedPtr' = sharedPtr
  BY <1>1, ReturnsNothing DEF Idle, Alive
<1>3. UNCHANGED <<entries, vPtr, call>>
  BY <1>1, SameVars
<1>4. DirectPointers' /\ Idle'
  BY <1>1, <1>2, <1>3, DirectSame DEF Idle
<1> QED  BY <1>1, <1>2, <1>3, <1>4, PopKeeps DEF FieldTypes

LEMMA LoadTooBigKeeps ==
  ASSUME ResInv, NEW v \in Value, NEW size \in Sizes, occupied + size <= MaxSize,
         LoadTooBig(v, size)
  PROVE  Above' /\ [Next]_vars
<1> USE DEF ResInv, Above
<1>k. PICK k \in Key : k = Top.key /\ k \notin entries
  BY InnermostIs DEF LoadTooBig, InLoader
<1>1. /\ stack # <<>> /\ Pop /\ UNCHANGED <<ptrs, lockCount>> /\ Returned(k, NULL)
      /\ InsertTooBig(k, v, size)
  BY <1>k DEF LoadTooBig, InLoader
<1>2. entry' = entry /\ sharedPtr' = sharedPtr
  BY <1>k, <1>1, ReturnsNothing DEF InsertTooBig, Idle, Alive
<1>3. UNCHANGED <<entries, vPtr>> /\ Idle'
  BY <1>1 DEF InsertTooBig, contents, fields, Return, NoCall, Idle
<1>4. Next
  <2>1. BeginInsert(k, size)
    BY <1>1 DEF BeginInsert
  <2> QED  BY <1>k, <2>1 DEF Next, Begin
<1>5. DirectPointers'
  BY <1>2, <1>3, <1>4, DirectSame
<1> QED  BY <1>1, <1>2, <1>3, <1>4, <1>5, PopKeeps DEF FieldTypes

\* The innermost call goes on to its next stage.
LEMMA StageKeeps ==
  ASSUME ResInv, stack # <<>>, UNCHANGED <<ptrs, lockCount, entry, sharedPtr, entries, vPtr>>, Next,
         NEW f \in Frames, f = [Top EXCEPT !.at = f.at],
         stack' = [stack EXCEPT ![Len(stack)].at = f.at], f.at # "loader",
         f.at = "cache" => Waits(f)',
         f.at = "members" => f.fn = "destroy" /\ ~f.lock /\ call'.fn \in {"none", "destroy", "gone"}
  PROVE  Above'
<1> USE DEF ResInv, Above
<1>1. f.key = Top.key
  BY InnermostIs DEF Frames
<1>2. stack' = [stack EXCEPT ![Len(stack)] = f]
  BY DEF Top
<1>3. stack' \in Seq(Frames) /\ stack' # <<>> /\ Top' = f
  BY <1>2, SetTopIs DEF FieldTypes, Top
<1>5. LockCounts'
  BY CountsSame
<1>6. LoadersOK'
  BY <1>1, <1>2, LoadersSetTop
<1>7. TopOK'
  BY <1>3 DEF TopOK
<1>8. DirectPointers'
  BY DirectSame
<1>9. FieldTypes'
  BY <1>3 DEF FieldTypes
<1> QED  BY <1>5, <1>6, <1>7, <1>8, <1>9

LEMMA LoadInsertsKeeps ==
  ASSUME ResInv, NEW v \in Value, NEW size \in Sizes, occupied + size <= MaxSize,
         LoadInserts(v, size)
  PROVE  Above' /\ [Next]_vars
<1> USE DEF ResInv, Above
<1>k. PICK k \in Key : k = Top.key /\ k \notin entries
  BY InnermostIs DEF LoadInserts, InLoader
<1>l. PICK lock \in BOOLEAN : lock = Top.lock
  BY InnermostIs DEF LoadInserts, InLoader, Frames
<1>1. /\ stack # <<>> /\ UNCHANGED <<ptrs, entry, lockCount, sharedPtr>>
      /\ InsertCall(k, v, size, lock) /\ stack' = [stack EXCEPT ![Len(stack)].at = "cache"]
      /\ Top.fn = "getEntry" /\ Top \in Frames
  BY <1>k, <1>l, InnermostIs DEF LoadInserts, InLoader
<1>f. PICK f : f = [Top EXCEPT !.at = "cache"]
  OBVIOUS
<1>2. /\ f \in Frames /\ f.at = "cache" /\ f.fn = "getEntry" /\ f.key = k /\ f.lock = lock
  BY <1>k, <1>l, <1>1, <1>f DEF Frames
<1>3. /\ UNCHANGED <<entries, vPtr>>
      /\ call'.fn = "insert" /\ call'.key = k /\ call'.lock = lock
  BY <1>1 DEF InsertCall, contents, fields, EnterFree
<1>4. Waits(f)'
  BY <1>2, <1>3 DEF Waits
<1>5. Next
  <2>1. BeginInsert(k, size)
    BY <1>1 DEF BeginInsert
  <2> QED  BY <1>k, <2>1 DEF Next, Begin
<1> QED  BY <1>1, <1>2, <1>3, <1>4, <1>5, <1>f, StageKeeps

LEMMA DoCacheDoneKeeps ==
  ASSUME ResInv, DoCacheDone
  PROVE  Above' /\ [Next]_vars
<1> USE DEF ResInv, Above
<1>1. /\ stack # <<>> /\ Top.fn = "getEntry" /\ Top.at = "cache" /\ Pop
      /\ UNCHANGED <<ptrs, lockCount>>
  BY DEF DoCacheDone, InCache
<1>2. call.fn = "insert" /\ call.key = Top.key /\ call.lock = Top.lock
  BY <1>1, InnermostIs DEF Waits
<1>k. PICK k \in Key : k = call.key /\ k = Top.key /\ k \notin entries
  BY <1>2 DEF Inv, TypeInv, CallOK, Rest, Args
<1>v. PICK v \in Value : v = call.value
  BY <1>2 DEF Inv, TypeInv, CallOK
<1>3. Alive
  BY <1>2 DEF Alive
<1>4. entry[k] = NULL /\ vPtr[k] = NULL
  BY <1>3, <1>k, EntriesAre DEF DirectPointers
<1>5. CASE InsertDone /\ Returned(call.key, call.value)
  <2>1. /\ entries' = entries \cup {k} /\ vPtr' = [vPtr EXCEPT ![k] = v]
        /\ Idle' /\ Next
    BY <1>5, <1>k, <1>v DEF InsertDone, Link, fields, Return, NoCall, Idle, Next, Continue
  <2>2. entry' = [entry EXCEPT ![k] = v] /\ sharedPtr' = [sharedPtr EXCEPT ![v] = k]
    BY <1>4, <1>5, <1>k, <1>v, NullAssumption DEF Returned
  <2>3. entry' \in [Key -> ValueOrNull] /\ sharedPtr' \in [Value -> KeyOrNull]
    BY <2>2 DEF FieldTypes, ValueOrNull, KeyOrNull
  <2>4. DirectPointers'
    <3> SUFFICES ASSUME NEW j \in Key
                 PROVE  entry'[j] = vPtr'[j] /\ (entry'[j] # NULL => sharedPtr'[entry'[j]] = j)
      BY DEF DirectPointers
    <3>1. CASE j = k
      <4>1. entry'[k] = v /\ vPtr'[k] = v /\ sharedPtr'[v] = k
        BY <2>1, <2>2, EntriesAre DEF FieldTypes
      <4> QED  BY <3>1, <4>1
    <3>2. CASE j # k
      <4>1. entry'[j] = entry[j] /\ vPtr'[j] = vPtr[j] /\ entry[j] = vPtr[j]
        BY <1>3, <2>1, <2>2, <3>2, EntriesAre DEF FieldTypes, DirectPointers
      <4>2. CASE entry[j] # NULL
        <5>1. entry[j] \in Value /\ entry[j] # v
          BY <1>2, <1>v, <4>1, <4>2, EntriesAre DEF Inv, Rest, Owned, Alive
        <5>2. sharedPtr'[entry[j]] = sharedPtr[entry[j]]
          BY <2>2, <5>1 DEF FieldTypes
        <5> QED  BY <1>3, <4>1, <4>2, <5>2 DEF DirectPointers
      <4> QED  BY <4>1, <4>2
    <3> QED  BY <3>1, <3>2
  <2> QED  BY <1>1, <1>k, <2>1, <2>3, <2>4, PopKeeps
<1>6. CASE InsertRefused /\ Returned(call.key, NULL)
  <2>1. UNCHANGED <<entries, vPtr>> /\ Idle' /\ Next
    BY <1>6 DEF InsertRefused, contents, fields, Return, NoCall, Idle, Next, Continue
  <2>2. entry' = entry /\ sharedPtr' = sharedPtr
    BY <1>3, <1>6, <1>k, ReturnsNothing
  <2>3. DirectPointers'
    BY <2>1, <2>2, DirectSame
  <2> QED  BY <1>1, <2>1, <2>2, <2>3, PopKeeps DEF FieldTypes
<1> QED  BY <1>5, <1>6 DEF DoCacheDone

\* free() goes on, for whatever call.
LEMMA LoopKeeps ==
  ASSUME ResInv, Freeing, call' = Advance, UNCHANGED <<ptrs, lockCount, stack>>,
         entries' \subseteq entries,
         entry' \in [Key -> ValueOrNull], sharedPtr' \in [Value -> KeyOrNull],
         DirectPointers'
  PROVE  Above'
<1> USE DEF ResInv, Above
<1>1. call'.fn = call.fn /\ call'.key = call.key /\ call'.lock = call.lock
  BY DEF Advance, Inv, TypeInv, TypeOK, Call
<1>3. LockCounts'
  BY CountsSame
<1>4. LoadersOK'
  BY LoadersSame
<1>5. TopOK'
  BY <1>1 DEF TopOK, Top, Idle, Waits, Freeing
<1>6. FieldTypes'
  BY DEF FieldTypes
<1> QED  BY <1>3, <1>4, <1>5, <1>6

LEMMA CacheSkipsKeeps ==
  ASSUME ResInv, CacheSkips
  PROVE  Above' /\ [Next]_vars
<1>1. /\ UNCHANGED <<entries, vPtr, ptrs, entry, lockCount, sharedPtr, stack>>
      /\ Freeing /\ call' = Advance /\ Next
  BY DEF CacheSkips, Skip, LoopOn, contents, fields, Next, Continue
<1>2. DirectPointers'
  BY <1>1, DirectSame DEF ResInv, Above
<1> QED  BY <1>1, <1>2, LoopKeeps DEF ResInv, Above, FieldTypes

\* free() stands on an entry of the map.
LEMMA CursorIs ==
  ASSUME Inv, Freeing, call.cur # NULL
  PROVE  call.cur \in entries
<1>1n. PICK n \in Nat : \E s : Structured(n, s) /\ Swept(n, s)
  BY DEF Inv, Rest, ListInv
<1>1. PICK s : Structured(n, s) /\ Swept(n, s)
  BY <1>1n
<1>2. PICK m \in 1..n : s[m] = call.cur
  BY <1>1 DEF Swept
<1> QED  BY <1>1, <1>2 DEF Structured, Chain

LEMMA CacheEvictsKeeps ==
  ASSUME ResInv, CacheEvicts
  PROVE  Above' /\ [Next]_vars
<1> USE DEF ResInv, Above
<1>1. /\ Evict /\ EntryDestroyed(vPtr[call.cur]) /\ UNCHANGED <<ptrs, lockCount, stack>>
      /\ Freeing /\ call.cur # NULL /\ call' = Advance /\ Erase(call.cur) /\ Next
  BY DEF CacheEvicts, Evict, LoopOn, Next, Continue
<1>k. PICK k \in Key : k = call.cur /\ k \in entries
  BY <1>1, CursorIs, EntriesAre
<1>v. PICK v \in Value : v = vPtr[k] /\ v = entry[k] /\ sharedPtr[v] = k
  BY <1>1, <1>k, EntriesAre, NullAssumption DEF DirectPointers, Freeing, Alive
<1>2. /\ entries' = entries \ {k} /\ vPtr'[k] = NULL
      /\ \A x \in Key \ {k} : vPtr'[x] = vPtr[x]
  BY <1>1, <1>k, EraseEffect DEF Inv, TypeInv
<1>3. entry' = [entry EXCEPT ![k] = NULL] /\ sharedPtr' = [sharedPtr EXCEPT ![v] = NULL]
  BY <1>1, <1>k, <1>v, NullAssumption DEF EntryDestroyed, EntryDeleted
<1>4. entry' \in [Key -> ValueOrNull] /\ sharedPtr' \in [Value -> KeyOrNull]
  BY <1>3 DEF FieldTypes, ValueOrNull, KeyOrNull
<1>5. DirectPointers'
  <2> SUFFICES ASSUME NEW j \in Key
               PROVE  entry'[j] = vPtr'[j] /\ (entry'[j] # NULL => sharedPtr'[entry'[j]] = j)
    BY DEF DirectPointers
  <2>1. CASE j = k
    BY <1>2, <1>3, <2>1 DEF FieldTypes
  <2>2. CASE j # k
    <3>1. entry'[j] = entry[j] /\ vPtr'[j] = vPtr[j] /\ entry[j] = vPtr[j]
      BY <1>1, <1>2, <1>3, <2>2 DEF FieldTypes, DirectPointers, Freeing, Alive
    <3>2. CASE entry[j] # NULL
      <4>1. j \in entries /\ entry[j] \in Value
        BY <3>1, <3>2, EntriesAre
      <4>2. entry[j] # v
        BY <1>k, <1>v, <2>2, <3>1, <4>1 DEF Inv, Rest, Owned, Alive
      <4>3. sharedPtr'[entry[j]] = sharedPtr[entry[j]]
        BY <1>3, <4>1, <4>2 DEF FieldTypes
      <4> QED  BY <1>1, <3>1, <3>2, <4>3 DEF DirectPointers, Freeing, Alive
    <3> QED  BY <3>1, <3>2
  <2> QED  BY <2>1, <2>2
<1> QED  BY <1>1, <1>2, <1>4, <1>5, LoopKeeps

\* A call returns that has found what it was to find, or looked for nothing.
LEMMA ReturnsKeeps ==
  ASSUME ResInv, stack # <<>>, Pop, UNCHANGED <<ptrs, lockCount, entry, sharedPtr, contents>>, Idle', Next
  PROVE  Above'
<1> USE DEF ResInv, Above
<1>1. UNCHANGED <<entries, vPtr>>
  BY DEF contents, fields
<1>2. DirectPointers'
  BY <1>1, DirectSame
<1> QED  BY <1>1, <1>2, PopKeeps DEF FieldTypes

LEMMA LockReturnsKeeps ==
  ASSUME ResInv, LockReturns
  PROVE  Above' /\ [Next]_vars
<1> USE DEF ResInv, Above
<1>1. stack # <<>> /\ Top.fn = "lock" /\ Top.at = "cache" /\ UNCHANGED <<ptrs, lockCount>>
  BY DEF LockReturns, InCache
<1>2. call.fn = "lock" /\ call.key = Top.key /\ call.lock
  BY <1>1, InnermostIs DEF Waits
<1>k. PICK k \in entries : k = Top.key /\ k = call.key
  BY <1>2 DEF Inv, Rest, LockRuns
<1>3. /\ UNCHANGED contents /\ Idle' /\ Next /\ ret'.res = vPtr[k]
  BY <1>2, <1>k DEF LockReturns, LockDone, Return, NoCall, Idle, Answer, ReadsEntry, Next, Continue
<1>4. vPtr[k] # NULL /\ entry[k] = vPtr[k] /\ k \in Key
  BY <1>2, <1>k, EntriesAre DEF DirectPointers, Alive
<1>5. Returned(k, vPtr[k]) /\ Pop
  BY <1>k, <1>3, <1>4 DEF LockReturns, Found
<1>6. entry' = entry /\ sharedPtr' = sharedPtr
  BY <1>4, <1>5 DEF Returned, FieldTypes
<1> QED  BY <1>1, <1>3, <1>5, <1>6, ReturnsKeeps

LEMMA OthersReturnKeep ==
  ASSUME ResInv, ReleaseReturns \/ ResizeReturns \/ ClearReturns
  PROVE  Above' /\ [Next]_vars
<1>1. /\ stack # <<>> /\ Pop /\ UNCHANGED <<ptrs, lockCount, entry, sharedPtr>>
      /\ LockDone \/ ResizeDone \/ FreeDone
  BY DEF ReleaseReturns, ResizeReturns, ClearReturns, InCache
<1>2. UNCHANGED contents /\ Idle' /\ Next
  BY <1>1 DEF LockDone, ResizeDone, FreeDone, Return, NoCall, Idle, Next, Continue
<1> QED  BY <1>1, <1>2, ReturnsKeeps

LEMMA CacheCallsKeep ==
  ASSUME ResInv, CacheCalls
  PROVE  Above' /\ [Next]_vars
<1> USE DEF ResInv, Above
<1>1. PICK fn \in {"resize", "clear", "destroy"} :
         /\ stack # <<>> => Top.at = "loader"
         /\ Push(Frame(fn, NULL, FALSE, "cache"))
         /\ UNCHANGED <<ptrs, entry, lockCount, sharedPtr, contents>> /\ Next
         /\ call'.fn = IF fn = "resize" THEN "resize" ELSE "free"
  <2>1. ASSUME NEW size \in Sizes, ResizeResourceCache(size)
        PROVE  /\ stack # <<>> => Top.at = "loader"
               /\ Push(Frame("resize", NULL, FALSE, "cache"))
               /\ UNCHANGED <<ptrs, entry, lockCount, sharedPtr, contents>> /\ Next
               /\ call'.fn = "resize"
    BY <2>1, ClientTop DEF ResizeResourceCache, ResizeCall, EnterFree, Next, Begin, BeginOther
  <2>2. ASSUME Clear
        PROVE  /\ stack # <<>> => Top.at = "loader"
               /\ Push(Frame("clear", NULL, FALSE, "cache"))
               /\ UNCHANGED <<ptrs, entry, lockCount, sharedPtr, contents>> /\ Next
               /\ call'.fn = "free"
    BY <2>2, ClientTop, ClearAssumption DEF Clear, FreeCall, EnterFree, Next, Begin, BeginOther
  <2>3. ASSUME Destroy
        PROVE  /\ stack # <<>> => Top.at = "loader"
               /\ Push(Frame("destroy", NULL, FALSE, "cache"))
               /\ UNCHANGED <<ptrs, entry, lockCount, sharedPtr, contents>> /\ Next
               /\ call'.fn = "free"
    BY <2>3, ClearAssumption DEF Destroy, FreeCall, EnterFree, Next, Begin, BeginOther
  <2> QED  BY <2>1, <2>2, <2>3 DEF CacheCalls
<1>f. PICK f \in Frames : f = Frame(fn, NULL, FALSE, "cache")
  BY DEF Frame, Frames, KeyOrNull
<1>2. f.fn = fn /\ f.key = NULL /\ f.lock = FALSE /\ f.at = "cache"
  BY <1>f DEF Frame
<1>3. Waits(f)'
  BY <1>1, <1>2 DEF Waits
<1>4. UNCHANGED <<entries, vPtr>>
  BY <1>1 DEF contents, fields
<1>5. LockCounts'
  BY <1>1, CountsSame
<1>7. f.key \notin {stack[i].key : i \in 1..Len(stack)}
  BY <1>1, <1>2, AllLoading, NullAssumption
<1>8. Above'
  BY <1>1, <1>f, <1>2, <1>3, <1>4, <1>5, <1>7, PushKeeps DEF FieldTypes
<1> QED  BY <1>1, <1>8

LEMMA DestroyClearsKeeps ==
  ASSUME ResInv, DestroyClears
  PROVE  Above' /\ [Next]_vars
<1>1. /\ stack # <<>> /\ Top.fn = "destroy" /\ Top.at = "cache" /\ FreeDone
      /\ stack' = [stack EXCEPT ![Len(stack)].at = "members"]
      /\ UNCHANGED <<ptrs, entry, lockCount, sharedPtr>>
  BY DEF DestroyClears, InCache
<1>2. ~Top.lock /\ Top \in Frames
  BY <1>1, InnermostIs DEF Waits
<1>f. PICK f : f = [Top EXCEPT !.at = "members"]
  OBVIOUS
<1>3. f \in Frames /\ f.at = "members" /\ f.fn = "destroy" /\ ~f.lock
  BY <1>1, <1>2, <1>f DEF Frames
<1>4. UNCHANGED <<entries, vPtr>> /\ call'.fn = "none" /\ Next
  BY <1>1 DEF FreeDone, Return, NoCall, contents, fields, Next, Continue
<1> QED  BY <1>1, <1>3, <1>4, <1>f, StageKeeps

LEMMA DestroyMembersKeeps ==
  ASSUME ResInv, DestroyMembers
  PROVE  Above' /\ [Next]_vars
<1> USE DEF ResInv, Above
<1>1. /\ stack # <<>> /\ Top.at = "members" /\ UNCHANGED <<ptrs, entry, lockCount, sharedPtr, stack>>
      /\ DestroyCall \/ DestroyDone
  BY DEF DestroyMembers
<1>2. /\ call'.fn \in {"destroy", "gone"} /\ Next /\ entries' \subseteq entries
      /\ Alive' => vPtr' = vPtr
  <2>1. CASE DestroyCall
    BY <2>1 DEF DestroyCall, EnterFree, contents, fields, Next, Begin, BeginOther
  <2>2. CASE DestroyDone
    BY <2>2 DEF DestroyDone, DropMap, NoCall, Next, Continue, Alive
  <2> QED  BY <1>1, <2>1, <2>2
<1>3. LockCounts'
  BY <1>1, CountsSame
<1>4. LoadersOK'
  BY <1>1, <1>2, LoadersSame
<1>5. TopOK'
  BY <1>1, <1>2 DEF TopOK, Top
<1>6. DirectPointers'
  BY <1>1, <1>2, DirectSame DEF DirectPointers
<1>7. FieldTypes'
  BY <1>1 DEF FieldTypes
<1> QED  BY <1>2, <1>3, <1>4, <1>5, <1>6, <1>7

LEMMA StepKeeps ==
  ASSUME ResInv, ResourceNext
  PROVE  Above' /\ [Next]_vars
<1>1. CASE PointerCalls
  <2>1. PICK p \in Pointer :
          \/ /\ ~ptrs[p].locked
             /\ \/ \E k \in Key : GetEntryPointer(p, k)
                \/ \E q \in Pointer \ {p} : CopyPointer(p, q)
          \/ GetEntryLock(p)
          \/ \E lock \in BOOLEAN : GetEntryDirect(p, lock) \/ GetEntryLookup(p, lock)
          \/ Release(p)
    BY <1>1 DEF PointerCalls
  <2> QED  BY <2>1, GetEntryPointerKeeps, CopyPointerKeeps, GetEntryLockKeeps, GetEntryDirectKeeps,
              GetEntryLookupKeeps, ReleaseKeeps
<1>2. CASE Loads
  BY <1>2, LoadFailsKeeps, LoadTooBigKeeps, LoadInsertsKeeps DEF Loads
<1>3. CASE CacheCalls
  BY <1>3, CacheCallsKeep
<1>4. CASE Returns
  BY <1>4, CacheSkipsKeeps, CacheEvictsKeeps, DoCacheDoneKeeps, LockReturnsKeeps, OthersReturnKeep,
     DestroyClearsKeeps, DestroyMembersKeeps DEF Returns
<1> QED  BY <1>1, <1>2, <1>3, <1>4 DEF ResourceNext

LEMMA ResourceStep == ResInv /\ [ResourceNext]_resourceVars => ResInv' /\ [Next]_vars
<1> SUFFICES ASSUME ResInv, [ResourceNext]_resourceVars PROVE ResInv' /\ [Next]_vars
  OBVIOUS
<1>1. Above' /\ [Next]_vars
  <2>1. CASE UNCHANGED resourceVars
    <3>1. UNCHANGED <<vars, ptrs, entry, lockCount, sharedPtr, stack>>
      BY <2>1 DEF resourceVars
    <3>2. LockCounts' /\ FieldTypes /\ FieldTypes'
      BY <3>1, CountsSame DEF ResInv, Above, FieldTypes
    <3> QED  BY <3>1, <3>2, QuietKeeps DEF FieldTypes
  <2> QED  BY <2>1, StepKeeps
<1>2. Inv'
  BY <1>1, StepInv DEF ResInv
<1> QED  BY <1>1, <1>2 DEF ResInv

LEMMA ResourceStarts == ResourceInit => ResInv /\ Init
<1> SUFFICES ASSUME ResourceInit PROVE ResInv
  BY DEF ResourceInit
<1>1. Inv
  BY InitInv DEF ResourceInit
<1>2. /\ stack = <<>> /\ entries = {} /\ call.fn = "none"
      /\ \A k \in Key : vPtr[k] = NULL /\ entry[k] = NULL /\ lockCount[k] = 0
      /\ \A p \in Pointer : ~ptrs[p].locked
  BY DEF ResourceInit, Init, NoCall
<1>3. FieldTypes
  <2>1. 0 \in 0..MaxCount
    BY MaxCountAssumption
  <2> QED  BY <2>1 DEF ResourceInit, FieldTypes, KeyOrNull, ValueOrNull
<1>4. \A k \in Key : Holders(k) = {}
  BY <1>2 DEF Holders
<1>5. LockCounts
  BY <1>2, <1>4, FS_EmptySet DEF LockCounts
<1>6. LoadersOK /\ TopOK /\ DirectPointers
  BY <1>2 DEF LoadersOK, TopOK, Idle, DirectPointers
<1> QED  BY <1>1, <1>3, <1>5, <1>6 DEF ResInv, Above

(* Whatever loaders and clients do, in whatever order and however calls    *)
(* nest: the cache is as its own invariant says, every direct pointer is   *)
(* the entry's, and the counts are those of the Pointers.                  *)
THEOREM ResourceInvariance == ResourceSpec => []ResInv
  BY ResourceStarts, ResourceStep, PTL DEF ResourceSpec

-----------------------------------------------------------------------------
(* The theorems.                                                           *)

(* UsesCache, for any keys, values, Pointers and loaders, however deep the *)
(* loads nest: every step is one of a cache that is used as it has to be.  *)
(* Above all, no key is inserted that is in the cache already, although    *)
(* the lookup and the insertion have the whole of a load between them.     *)
(* What is proved of Cache therefore holds of a ResourceCache.             *)
THEOREM CacheIsUsedRight == ResourceSpec => UsesCache
  BY ResourceStarts, ResourceStep, ResourceInvariance, PTL DEF ResourceSpec, UsesCache

(* DirectPointers, likewise: the short cut past the cache never dangles,   *)
(* and is there whenever the entry is.                                     *)
THEOREM NeverDangles == ResourceSpec => []DirectPointers
<1>1. ResInv => DirectPointers
  BY DEF ResInv, Above
<1> QED  BY <1>1, ResourceInvariance, PTL

(* LockCounts, for as many Pointers as can be counted: the lock count is   *)
(* the number of Pointers that hold a lock.                                *)
THEOREM CountsHolders == ResourceSpec => []LockCounts
<1>1. ResInv => LockCounts
  BY DEF ResInv, Above
<1> QED  BY <1>1, ResourceInvariance, PTL

\* The entries that stay are locked as they were, or some have become so.
LocksStay == \A k \in entries \cap entries' : locked[k] => locked'[k]
LocksSame == \A k \in entries \cap entries' : locked[k] <=> locked'[k]

LEMMA ContentsLocks ==
  ASSUME UNCHANGED contents
  PROVE  LocksSame
  BY DEF contents, fields, LocksSame

\* A Pointer that locks an entry holds it from then on.
LEMMA PointersLocks ==
  ASSUME ResInv, NEW p \in Pointer,
         \/ /\ ~ptrs[p].locked
            /\ \/ \E k \in Key : GetEntryPointer(p, k)
               \/ \E q \in Pointer \ {p} : CopyPointer(p, q)
         \/ GetEntryLock(p)
         \/ \E lock \in BOOLEAN : GetEntryDirect(p, lock) \/ GetEntryLookup(p, lock)
  PROVE  /\ LocksStay
         /\ \A k \in Key : Holders(k) \subseteq Holders(k)'
         /\ \A k \in entries \cap entries' : locked'[k] => locked[k] \/ Holders(k)' # {}
<1> USE DEF ResInv, Above
<1>1. ASSUME ~ptrs[p].locked, NEW k \in KeyOrNull, UNCHANGED <<vars, lockCount>>,
             ptrs' = [ptrs EXCEPT ![p] = [key |-> k, locked |-> FALSE]]
      PROVE  LocksSame /\ \A j \in Key : Holders(j)' = Holders(j)
  BY <1>1, ContentsLocks, PointerMoves DEF vars
<1>2. ASSUME ~ptrs[p].locked, NEW k \in Key, GetEntryPointer(p, k)
      PROVE  LocksSame /\ \A j \in Key : Holders(j)' = Holders(j)
  BY <1>1, <1>2 DEF GetEntryPointer, KeyOrNull
<1>3. ASSUME ~ptrs[p].locked, NEW q \in Pointer, CopyPointer(p, q)
      PROVE  LocksSame /\ \A j \in Key : Holders(j)' = Holders(j)
  <2>1. PICK k \in KeyOrNull : k = ptrs[q].key
    BY DEF FieldTypes
  <2> QED  BY <1>1, <1>3, <2>1 DEF CopyPointer
<1>4. CASE GetEntryLock(p)
  <2>1. PICK k \in Key : k = ptrs[p].key
    BY <1>4, UsableIs DEF GetEntryLock
  <2>2. \A j \in Key : Holders(j) \subseteq Holders(j)'
    BY <1>4, <2>1, CountLockIs DEF GetEntryLock
  <2>3. Holders(k)' # {}
    BY <1>4, <2>1, CountLockIs DEF GetEntryLock
  <2>4. CASE LockCall(k, TRUE)
    <3>1. locked' = [locked EXCEPT ![k] = TRUE] /\ locked \in [Key -> BOOLEAN] /\ entries \subseteq Key
      BY <2>4, LockCallIs DEF Inv, TypeInv, TypeOK
    <3>2. \A j \in entries : j # k => locked'[j] = locked[j]
      BY <3>1
    <3>3. locked'[k]
      BY <3>1
    <3> QED  BY <2>2, <2>3, <3>2, <3>3 DEF LocksStay
  <2>5. CASE LockMissing(k)
    <3>1. locked' = locked
      BY <2>5, LockMissingIs
    <3> QED  BY <2>2, <3>1 DEF LocksStay
  <2> QED  BY <1>4, <2>1, <2>4, <2>5 DEF GetEntryLock
<1>5. ASSUME NEW lock \in BOOLEAN, GetEntryDirect(p, lock) \/ GetEntryLookup(p, lock)
      PROVE  locked' = locked /\ \A k \in Key : Holders(k) \subseteq Holders(k)'
  <2>1. CountLock(p, lock) /\ ptrs[p].key \in Key /\ locked' = locked
    BY <1>5, UsableIs, SameVars DEF GetEntryDirect, GetEntryLookup, Item, fields
  <2> QED  BY <2>1, CountLockIs
<1> QED  BY <1>2, <1>3, <1>4, <1>5 DEF LocksStay, LocksSame

LEMMA OthersLocks ==
  ASSUME ResInv, Loads \/ CacheCalls \/ Returns
  PROVE  LocksSame
<1>1. CASE Loads
  <2>1. UNCHANGED contents
    BY <1>1 DEF Loads, LoadFails, LoadTooBig, LoadInserts, InsertTooBig, InsertCall, vars
  <2> QED  BY <2>1, ContentsLocks
<1>2. CASE CacheCalls
  <2>1. UNCHANGED contents
    BY <1>2 DEF CacheCalls, ResizeResourceCache, Clear, Destroy, ResizeCall, FreeCall
  <2> QED  BY <2>1, ContentsLocks
<1>3. CASE CacheEvicts
  <2>1. call.cur \in Key /\ Erase(call.cur)
    BY <1>3, CursorIs, EntriesAre DEF CacheEvicts, Evict, LoopOn, ResInv
  <2> QED  BY <2>1, EraseEffect, EntriesAre DEF LocksSame, ResInv, Inv, TypeInv
<1>4. CASE DoCacheDone
  <2>1. CASE InsertDone
    <3>1. call.key \in Key /\ call.key \notin entries
      BY <2>1 DEF InsertDone, ResInv, Inv, TypeInv, CallOK, Rest, Args
    <3>2. \A k \in Key : k # call.key => locked'[k] = locked[k]
      BY <2>1, <3>1 DEF InsertDone, Link, ResInv, Inv, TypeInv, TypeOK
    <3> QED  BY <3>1, <3>2, EntriesAre DEF LocksSame, ResInv
  <2>2. CASE InsertRefused
    BY <2>2, ContentsLocks DEF InsertRefused
  <2> QED  BY <1>4, <2>1, <2>2 DEF DoCacheDone
<1>5. CASE Returns /\ ~CacheEvicts /\ ~DoCacheDone /\ ~DestroyDone
  <2>1. UNCHANGED contents
    BY <1>5 DEF Returns, CacheSkips, Skip, LockReturns, ReleaseReturns, LockDone, ResizeReturns,
                ResizeDone, ClearReturns, DestroyClears, FreeDone, DestroyMembers, DestroyCall
  <2> QED  BY <2>1, ContentsLocks
<1>6. CASE DestroyDone
  BY <1>6 DEF DestroyDone, DropMap, LocksSame
<1> QED  BY <1>1, <1>2, <1>3, <1>4, <1>5, <1>6

LEMMA ReleaseLocks ==
  ASSUME ResInv, NEW p \in Pointer, Release(p),
         NEW k \in entries, locked[k], k \in entries', ~locked'[k], NEW q \in Pointer, ptrs'[q].key = k
  PROVE  ~ptrs'[q].locked
<1>1. PICK j \in Key : j = ptrs[p].key
  BY ValidIs DEF Release
<1>2. k \in Key /\ locked \in [Key -> BOOLEAN]
  BY DEF ResInv, Inv, TypeInv, TypeOK
<1>3. CASE LastLock(j) /\ LockCall(j, FALSE)
  <2>1. k = j
    BY <1>2, <1>3, LockCallIs
  <2>2. LastLock(j) <=> Holders(j)' = {}
    BY <1>1, ReleaseIs DEF Release, ResInv, Above
  <2> QED  BY <1>3, <2>1, <2>2 DEF Holders
<1>4. CASE UNCHANGED vars \/ LockMissing(j)
  BY <1>4, LockMissingIs, SameVars
<1> QED  BY <1>1, <1>3, <1>4 DEF Release

(* UnlockedByLast, likewise: an entry that stays is unlocked only by the   *)
(* release of the last Pointer that holds it.                              *)
THEOREM OnlyLastUnlocks == ResourceSpec => UnlockedByLast
<1>1. ASSUME ResInv, ResourceNext, NEW k \in entries, locked[k], k \in entries', ~locked'[k],
             NEW q \in Pointer, ptrs'[q].key = k
      PROVE  ~ptrs'[q].locked
  <2>1. ~LocksStay
    BY <1>1 DEF LocksStay
  <2>2. PICK p \in Pointer : Release(p)
    <3>1. ~(Loads \/ CacheCalls \/ Returns)
      BY <1>1, <2>1, OthersLocks DEF LocksStay, LocksSame
    <3>2. PointerCalls
      BY <1>1, <3>1 DEF ResourceNext
    <3> QED  BY <1>1, <2>1, <3>2, PointersLocks DEF PointerCalls
  <2> QED  BY <1>1, <2>2, ReleaseLocks
<1>2. ResInv /\ [ResourceNext]_resourceVars =>
        [\A k \in entries : locked[k] /\ k \in entries' /\ ~locked'[k]
           => \A p \in Pointer : ptrs'[p].key = k => ~ptrs'[p].locked]_resourceVars
  BY <1>1
<1> QED  BY <1>2, ResourceInvariance, PTL DEF ResourceSpec, UnlockedByLast

LEMMA OthersPointers ==
  ASSUME Loads \/ CacheCalls \/ Returns
  PROVE  \A k : Holders(k)' = Holders(k)
<1>1. ptrs' = ptrs
  BY DEF Loads, LoadFails, LoadTooBig, LoadInserts, CacheCalls, ResizeResourceCache, Clear, Destroy,
         Returns, CacheSkips, CacheEvicts, DoCacheDone, LockReturns, ReleaseReturns, ResizeReturns,
         ClearReturns, DestroyClears, DestroyMembers
<1> QED  BY <1>1 DEF Holders

\* Nobody holds the entry after the last release, which has unlocked it.
LEMMA ReleaseUnlocks ==
  ASSUME ResInv, NEW p \in Pointer, Release(p), NEW k \in entries, locked'[k], Holders(k)' = {}
  PROVE  locked[k] /\ Holders(k) = {}
<1>1. PICK j \in Key : j = ptrs[p].key
  BY ValidIs DEF Release
<1>2. k \in Key /\ locked \in [Key -> BOOLEAN]
  BY DEF ResInv, Inv, TypeInv, TypeOK
<1>3. /\ LastLock(j) <=> Holders(j)' = {}
      /\ \A x \in Key : x # j => Holders(x)' = Holders(x)
  BY <1>1, ReleaseIs DEF Release, ResInv, Above
<1>4. k # j
  <2> SUFFICES ASSUME k = j PROVE FALSE
    OBVIOUS
  <2>1. LastLock(j)
    BY <1>3
  <2>2. CASE LockMissing(j)
    BY <2>2, LockMissingIs
  <2>3. CASE LockCall(j, FALSE)
    BY <1>2, <2>3, LockCallIs
  <2> QED  BY <1>1, <2>1, <2>2, <2>3 DEF Release
<1>5. locked'[k] = locked[k]
  <2>1. CASE UNCHANGED vars \/ LockMissing(j)
    BY <2>1, LockMissingIs, SameVars
  <2>2. CASE LockCall(j, FALSE)
    BY <1>2, <1>4, <2>2, LockCallIs
  <2> QED  BY <1>1, <2>1, <2>2 DEF Release
<1> QED  BY <1>2, <1>3, <1>4, <1>5

(* ReleasedUnlocks, likewise: no step leaves an entry locked that nobody   *)
(* holds any more, or locks one for nobody, unless it adds the entry.      *)
THEOREM LastReleaseUnlocks == ResourceSpec => ReleasedUnlocks
<1>1. ASSUME ResInv, ResourceNext, NEW k \in entries \cap entries', locked'[k], Holders(k)' = {}
      PROVE  locked[k] /\ Holders(k) = {}
  <2>1. k \in Key
    BY <1>1 DEF ResInv, Inv, TypeInv, TypeOK
  <2>2. CASE Loads \/ CacheCalls \/ Returns
    BY <1>1, <2>2, OthersLocks, OthersPointers DEF LocksSame
  <2>3. ASSUME NEW p \in Pointer, Release(p) PROVE locked[k] /\ Holders(k) = {}
    BY <1>1, <2>3, ReleaseUnlocks
  <2>4. CASE PointerCalls /\ ~\E p \in Pointer : Release(p)
    BY <1>1, <2>1, <2>4, PointersLocks DEF PointerCalls
  <2> QED  BY <1>1, <2>2, <2>3, <2>4 DEF ResourceNext
<1>2. ResInv /\ [ResourceNext]_resourceVars =>
        [\A k \in entries \cap entries' :
            locked'[k] /\ Holders(k)' = {} => locked[k] /\ Holders(k) = {}]_resourceVars
  BY <1>1
<1> QED  BY <1>2, ResourceInvariance, PTL DEF ResourceSpec, ReleasedUnlocks

=============================================================================
