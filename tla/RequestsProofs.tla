---------------------------- MODULE RequestsProofs ----------------------------
(***************************************************************************)
(* Proofs about Requests (RQ of Parts), for any callers, ids and batches:  *)
(* no handler is called for a refused request, and a request whose caller  *)
(* waits is in one place.                                                  *)
(*                                                                         *)
(* First what authorize() leaves of a batch: the loop that takes the       *)
(* refused requests out of it and corrects its index skips none.  Then     *)
(* RqInv.  A request goes from place to place (queue, sockets, batches,    *)
(* handlers, answers, renewal, lost), so most steps only move one          *)
(* (TheyMove); a promise is settled when its request leaves (OneSettles),  *)
(* and a call, or a retry after renewToken(), puts a new id in place of    *)
(* the old one (OneComes).                                                 *)
(***************************************************************************)
EXTENDS Parts, RecursionFacts, SequenceTheorems, FiniteSetTheorems

-----------------------------------------------------------------------------
(***************************************************************************)
(* A batch is split.                                                       *)
(***************************************************************************)

\* What TakeOut() has made of a batch when it has looked at i requests.
Taken(batch, refused, i) ==
    {a \in [rest : Seq(RQ!Ids), out : Seq(RQ!Ids)] :
        \E m \in 0..i :
            /\ Len(a.out) = m /\ Len(a.rest) = Len(batch) - m
            /\ \A k \in 1..(i - m) : a.rest[k] \in RQ!ToSet(batch) \ refused
            /\ \A k \in (i + 1)..Len(batch) : a.rest[k - m] = batch[k]
            /\ \A k \in 1..m : a.out[k] \in RQ!ToSet(batch) \cap refused
        /\ RQ!ToSet(batch) \subseteq RQ!ToSet(a.rest) \cup RQ!ToSet(a.out)}

\* The elements of a sequence.
LEMMA ElementsOf ==
    ASSUME NEW T, NEW s \in Seq(T), NEW n, Len(s) = n
    PROVE  RQ!ToSet(s) = {s[j] : j \in 1..n}
BY DEF RQ!ToSet

\* RemoveAt closes the gap: what stands before it stays, what stands after it
\* moves down by one.
LEMMA RemoveAtIs ==
    ASSUME NEW T, NEW s \in Seq(T), NEW k \in 1..Len(s)
    PROVE  /\ RQ!RemoveAt(s, k) \in Seq(T)
           /\ Len(RQ!RemoveAt(s, k)) = Len(s) - 1
           /\ \A j \in 1..(k - 1) : RQ!RemoveAt(s, k)[j] = s[j]
           /\ \A j \in k..(Len(s) - 1) : RQ!RemoveAt(s, k)[j] = s[j + 1]
<1> DEFINE f == SubSeq(s, 1, k - 1)
           g == SubSeq(s, k + 1, Len(s))
           n == Len(s)
<1>0. n \in Nat /\ k \in 1..n
  OBVIOUS
<1>1. /\ f \in Seq(T) /\ Len(f) = k - 1
      /\ \A j \in 1..(k - 1) : f[j] = s[j]
  OBVIOUS
<1>2. /\ g \in Seq(T) /\ Len(g) = n - k
      /\ \A j \in 1..(n - k) : g[j] = s[k + j]
  OBVIOUS
<1>3. RQ!RemoveAt(s, k) = f \o g
  BY DEF RQ!RemoveAt
<1> HIDE DEF f, g, n
<1>4. f \o g \in Seq(T) /\ Len(f \o g) = n - 1
  <2>1. f \o g \in Seq(T) /\ Len(f \o g) = Len(f) + Len(g)
    BY <1>1, <1>2, ConcatProperties
  <2>2. QED
    BY <1>0, <1>1, <1>2, <2>1
<1>5. ASSUME NEW j \in 1..(k - 1) PROVE (f \o g)[j] = s[j]
  BY <1>0, <1>1, <1>2
<1>6. ASSUME NEW j \in k..(n - 1) PROVE (f \o g)[j] = s[j + 1]
  <2>1. /\ j - (k - 1) \in 1..(n - k) /\ k + (j - (k - 1)) = j + 1
        /\ j \in 1..((k - 1) + (n - k)) /\ ~(j <= k - 1)
    BY <1>0
  <2>2. (f \o g)[j] = g[j - (k - 1)]
    BY <1>0, <1>1, <1>2, <2>1
  <2>3. QED
    BY <1>2, <2>1, <2>2
<1>7. QED
  BY <1>0, <1>3, <1>4, <1>5, <1>6 DEF n

\* What a sequence is without its k-th element, which is added to another.
Moved(T, B, refused, r, o, L, M, k) ==
    LET r2 == RQ!RemoveAt(r, k)
        o2 == Append(o, r[k])
    IN  /\ r2 \in Seq(T) /\ Len(r2) = L - 1
        /\ o2 \in Seq(T) /\ Len(o2) = M + 1
        /\ \A j \in 1..(k - 1) : r2[j] \in B \ refused
        /\ \A j \in 1..(M + 1) : o2[j] \in B \cap refused
        /\ \A j \in k..(L - 1) : r2[j] = r[j + 1]
        /\ RQ!ToSet(r) \cup RQ!ToSet(o) \subseteq RQ!ToSet(r2) \cup RQ!ToSet(o2)

\* What is left of a sequence and what was taken out of it, one element more.
LEMMA TakenOneMore ==
    ASSUME NEW T, NEW B \in SUBSET T, NEW refused,
           NEW r \in Seq(T), NEW o \in Seq(T),
           NEW L \in Nat, NEW M \in Nat, Len(r) = L, Len(o) = M,
           NEW k \in 1..L, r[k] \in B \cap refused,
           \A j \in 1..(k - 1) : r[j] \in B \ refused,
           \A j \in 1..M : o[j] \in B \cap refused
    PROVE  Moved(T, B, refused, r, o, L, M, k)
<1> DEFINE r2 == RQ!RemoveAt(r, k)
           o2 == Append(o, r[k])
<1>1. k \in Nat /\ 1 <= k /\ k <= L
  OBVIOUS
<1>2. /\ r2 \in Seq(T) /\ Len(r2) = L - 1
      /\ \A j \in 1..(k - 1) : r2[j] = r[j]
      /\ \A j \in k..(L - 1) : r2[j] = r[j + 1]
  BY RemoveAtIs
<1>3. /\ o2 \in Seq(T) /\ Len(o2) = M + 1 /\ o2[M + 1] = r[k]
      /\ \A j \in 1..M : o2[j] = o[j]
  OBVIOUS
<1>5. /\ \A j \in 1..M : o[j] \in B \cap refused
      /\ r \in Seq(T) /\ o \in Seq(T) /\ RQ!ToSet(r) = {r[j] : j \in 1..L}
      /\ RQ!ToSet(o) = {o[j] : j \in 1..M}
  BY DEF RQ!ToSet
<1> HIDE DEF r2, o2
<1>6. RQ!ToSet(r2) = {r2[j] : j \in 1..(L - 1)} /\ RQ!ToSet(o2) = {o2[j] : j \in 1..(M + 1)}
  <2>1. RQ!ToSet(r2) = {r2[j] : j \in 1..(L - 1)}
    <3>1. r2 \in Seq(T) /\ Len(r2) = L - 1
      BY <1>2
    <3>2. QED
      BY <3>1, ElementsOf, Zenon
  <2>2. RQ!ToSet(o2) = {o2[j] : j \in 1..(M + 1)}
    BY <1>3, ElementsOf, Zenon
  <2>3. QED
    BY <2>1, <2>2
<1>7. \A j \in 1..(k - 1) : r2[j] \in B \ refused
  BY <1>2
<1>8. ASSUME NEW j \in 1..(M + 1) PROVE o2[j] \in B \cap refused
  <2>1. j \in 1..M \/ j = M + 1
    BY <1>1
  <2>2. QED
    BY <1>3, <1>5, <2>1
<1>10. ASSUME NEW j \in 1..L PROVE r[j] \in RQ!ToSet(r2) \cup RQ!ToSet(o2)
  <2>1. CASE j < k
    <3>1. j \in 1..(k - 1) /\ j \in 1..(L - 1)
      BY <1>1, <2>1
    <3>2. QED
      BY <1>2, <1>6, <3>1
  <2>2. CASE j = k
    <3>1. M + 1 \in 1..(M + 1)
      BY <1>1
    <3>2. QED
      BY <1>3, <1>6, <2>2, <3>1
  <2>3. CASE j > k
    <3>1. j - 1 \in k..(L - 1) /\ j - 1 \in 1..(L - 1) /\ (j - 1) + 1 = j
      BY <1>1, <2>3
    <3>2. r2[j - 1] = r[j]
      BY <1>2, <3>1
    <3>3. QED
      BY <1>6, <3>1, <3>2
  <2>4. j < k \/ j = k \/ j > k
    BY <1>1
  <2>5. QED
    BY <2>1, <2>2, <2>3, <2>4
<1>11. ASSUME NEW j \in 1..M PROVE o[j] \in RQ!ToSet(o2)
  <2>1. j \in 1..(M + 1)
    BY <1>1
  <2>2. QED
    BY <1>3, <1>6, <2>1
<1>12. RQ!ToSet(r) \cup RQ!ToSet(o) \subseteq RQ!ToSet(r2) \cup RQ!ToSet(o2)
  BY <1>5, <1>10, <1>11
<1>13. QED
  BY <1>2, <1>3, <1>7, <1>8, <1>12 DEF r2, o2, Moved

\* One turn of the loop: the request is passed over or taken out, and the index
\* of the next one is right in both cases.
LEMMA TakeOutTakes ==
    ASSUME NEW batch \in Seq(RQ!Ids), NEW refused, NEW n \in Nat, Len(batch) = n,
           NEW i \in 1..n, NEW a \in Taken(batch, refused, i - 1)
    PROVE  RQ!TakeOut(a, batch, refused, i) \in Taken(batch, refused, i)
<1> DEFINE B == RQ!ToSet(batch)
<1>1. PICK M \in 0..(i - 1) :
          /\ a \in [rest : Seq(RQ!Ids), out : Seq(RQ!Ids)]
          /\ Len(a.out) = M /\ Len(a.rest) = n - M
          /\ \A j \in 1..(i - 1 - M) : a.rest[j] \in B \ refused
          /\ \A j \in i..n : a.rest[j - M] = batch[j]
          /\ \A j \in 1..M : a.out[j] \in B \cap refused
          /\ B \subseteq RQ!ToSet(a.rest) \cup RQ!ToSet(a.out)
  BY DEF Taken
<1>2. batch[i] \in B /\ B \in SUBSET RQ!Ids
  BY DEF RQ!ToSet
<1>3. /\ i - M \in 1..(n - M) /\ n - M \in Nat /\ M \in Nat /\ i - 1 - M = (i - M) - 1
      /\ i \in i..n /\ M \in 0..i
  BY <1>1
<1>4. a.rest[i - M] = batch[i] /\ i - Len(a.out) = i - M
  BY <1>1, <1>3
<1> HIDE DEF B
<1>5. CASE batch[i] \notin refused
  <2>1. RQ!TakeOut(a, batch, refused, i) = a
    BY <1>5 DEF RQ!TakeOut
  <2>2. ASSUME NEW j \in 1..(i - M) PROVE a.rest[j] \in B \ refused
    <3>1. j \in 1..(i - 1 - M) \/ j = i - M
      BY <1>3
    <3>2. QED
      BY <1>1, <1>2, <1>4, <1>5, <3>1
  <2>3. \A j \in (i + 1)..n : a.rest[j - M] = batch[j]
    BY <1>1
  <2>4. a \in Taken(batch, refused, i)
    BY <1>1, <1>3, <2>2, <2>3 DEF Taken, B
  <2>5. QED
    BY <2>1, <2>4
<1>6. CASE batch[i] \in refused
  <2> DEFINE k == i - M
             r2 == RQ!RemoveAt(a.rest, k)
             o2 == Append(a.out, a.rest[k])
  <2>1. RQ!TakeOut(a, batch, refused, i) = [rest |-> r2, out |-> o2]
    BY <1>4, <1>6 DEF RQ!TakeOut
  <2>2. /\ r2 \in Seq(RQ!Ids) /\ Len(r2) = (n - M) - 1
        /\ o2 \in Seq(RQ!Ids) /\ Len(o2) = M + 1
        /\ \A j \in 1..(k - 1) : r2[j] \in B \ refused
        /\ \A j \in 1..(M + 1) : o2[j] \in B \cap refused
        /\ \A j \in k..((n - M) - 1) : r2[j] = a.rest[j + 1]
        /\ RQ!ToSet(a.rest) \cup RQ!ToSet(a.out) \subseteq RQ!ToSet(r2) \cup RQ!ToSet(o2)
    <3>1. a.rest \in Seq(RQ!Ids) /\ a.out \in Seq(RQ!Ids)
      BY <1>1
    <3>2. k \in 1..(n - M) /\ a.rest[k] \in B \cap refused
      BY <1>2, <1>3, <1>4, <1>6
    <3>3. \A j \in 1..(k - 1) : a.rest[j] \in B \ refused
      BY <1>1, <1>3
    <3>4. \A j \in 1..M : a.out[j] \in B \cap refused
      BY <1>1
    <3>5. Len(a.rest) = n - M /\ Len(a.out) = M /\ n - M \in Nat /\ M \in Nat
      BY <1>1, <1>3
    <3> DEFINE r == a.rest
               o == a.out
               L == n - M
    <3> HIDE DEF k, r, o, L
    <3>6. /\ r \in Seq(RQ!Ids) /\ o \in Seq(RQ!Ids) /\ L \in Nat
          /\ k \in 1..L /\ r[k] \in B \cap refused
          /\ \A j \in 1..(k - 1) : r[j] \in B \ refused
          /\ \A j \in 1..M : o[j] \in B \cap refused
          /\ Len(r) = L /\ Len(o) = M
      BY <3>1, <3>2, <3>3, <3>4, <3>5 DEF r, o, L
    <3>7. Moved(RQ!Ids, B, refused, r, o, L, M, k)
      BY <1>2, <1>3, <3>6, TakenOneMore, Zenon
    <3>8. QED
      BY <3>7 DEF Moved, r, o, L
  <2> HIDE DEF r2, o2
  <2>3. ASSUME NEW j \in (i + 1)..n PROVE r2[j - (M + 1)] = batch[j]
    <3>1. /\ j - (M + 1) \in k..((n - M) - 1) /\ (j - (M + 1)) + 1 = j - M
          /\ j \in i..n
      BY <1>1
    <3>2. QED
      BY <1>1, <2>2, <3>1
  <2>4. M + 1 \in 0..i /\ (n - M) - 1 = n - (M + 1) /\ i - (M + 1) = k - 1
    BY <1>1
  <2>5. [rest |-> r2, out |-> o2] \in Taken(batch, refused, i)
    BY <1>1, <2>2, <2>3, <2>4 DEF Taken, B
  <2>6. QED
    BY <2>1, <2>5
<1>7. QED
  BY <1>5, <1>6

\* Of a batch that is split the granted requests are left, the refused ones are
\* out, and none is gone.
LEMMA SplitIs ==
    ASSUME NEW batch \in Seq(RQ!Ids), NEW refused
    PROVE  LET split == RQ!Split(batch, refused)
           IN  /\ RQ!ToSet(split.rest) = RQ!ToSet(batch) \ refused
               /\ RQ!ToSet(split.out) = RQ!ToSet(batch) \cap refused
<1> DEFINE n == Len(batch)
           I == [i \in 0..n |-> Taken(batch, refused, i)]
           G == [i \in 1..n |-> [a \in I[i - 1] |-> RQ!TakeOut(a, batch, refused, i)]]
           b == [rest |-> batch, out |-> <<>>]
           E(f) == f = [i \in 0..n |-> IF i = 0 THEN b
                                       ELSE RQ!TakeOut(f[i - 1], batch, refused, i)]
           after == CHOOSE f : E(f)
<1>1. n \in Nat
  OBVIOUS
<1>2. RQ!Split(batch, refused) = after[n]
  BY DEF RQ!Split
<1>3. b \in Taken(batch, refused, 0)
  BY DEF Taken, RQ!ToSet
<1> HIDE DEF n
<1>4. ASSUME NEW f, E(f)
      PROVE  \A i \in 0..n : f[i] \in Taken(batch, refused, i)
  <2>1. f[0] = b
    BY <1>1, <1>4
  <2>2. ASSUME NEW i \in 1..n, f[i - 1] \in Taken(batch, refused, i - 1)
        PROVE  f[i] \in Taken(batch, refused, i)
    <3>1. i \in 0..n /\ i # 0
      BY <1>1
    <3>2. f[i] = RQ!TakeOut(f[i - 1], batch, refused, i)
      BY <1>4, <3>1, Zenon
    <3>3. QED
      BY <1>1, <2>2, <3>2, TakeOutTakes, Zenon DEF n
  <2>3. \A i \in 0..n : I[i] = Taken(batch, refused, i)
    OBVIOUS
  <2> HIDE DEF I, b, E
  <2>4. f[0] \in I[0] /\ 0 \in 0..n
    BY <1>1, <1>3, <2>1, <2>3
  <2>5. \A i \in 1..n : i \in 0..n /\ i - 1 \in 0..n
    BY <1>1
  <2>6. \A i \in 1..n : f[i - 1] \in I[i - 1] => f[i] \in I[i]
    BY <2>2, <2>3, <2>5, Zenon
  <2>7. \A i \in 0..n : f[i] \in I[i]
    BY <1>1, <2>4, <2>6, KeptByEveryStep, Zenon
  <2>8. QED
    BY <2>3, <2>7
<1>5. \E f : E(f)
  <2>1. PICK h : Recursion(h, G, b, n)
    <3> HIDE DEF b, G
    <3>1. QED
      BY <1>1, RecursionExists, Zenon
  <2> HIDE DEF b
  <2>2. /\ h = [i \in 0..n |-> IF i = 0 THEN b ELSE G[i][h[i - 1]]]
        /\ h[0] = b
    <3> HIDE DEF G
    <3>1. h = [i \in 0..n |-> IF i = 0 THEN b ELSE G[i][h[i - 1]]]
      BY <2>1 DEF Recursion
    <3>2. 0 \in 0..n
      BY <1>1
    <3>3. QED
      BY <3>1, <3>2, Zenon
  <2>3. ASSUME NEW i \in 1..n PROVE h[i] = G[i][h[i - 1]]
    <3>1. i \in 0..n /\ i # 0
      BY <1>1
    <3> HIDE DEF G
    <3>2. QED
      BY <2>2, <3>1, Zenon
  <2>4. \A i \in 0..n : I[i] = Taken(batch, refused, i)
    OBVIOUS
  <2>5. \A i \in 1..n : i \in 0..n /\ i - 1 \in 0..n
    BY <1>1
  <2> HIDE DEF I
  <2>6. ASSUME NEW i \in 1..n, h[i - 1] \in I[i - 1]
        PROVE  h[i] = RQ!TakeOut(h[i - 1], batch, refused, i)
    BY <2>3, <2>6
  <2> HIDE DEF G
  <2>7. ASSUME NEW i \in 1..n, h[i - 1] \in I[i - 1] PROVE h[i] \in I[i]
    <3>1. h[i - 1] \in Taken(batch, refused, i - 1)
      BY <2>4, <2>5, <2>7, Zenon
    <3>2. h[i] \in Taken(batch, refused, i)
      BY <1>1, <2>6, <2>7, <3>1, TakeOutTakes, Zenon DEF n
    <3>3. QED
      BY <2>4, <2>5, <3>2, Zenon
  <2>8. h[0] \in I[0]
    BY <1>1, <1>3, <2>2, <2>4
  <2>9. \A i \in 0..n : h[i] \in I[i]
    BY <1>1, <2>7, <2>8, KeptByEveryStep, Zenon
  <2>10. ASSUME NEW i \in 0..n
         PROVE  h[i] = IF i = 0 THEN b ELSE RQ!TakeOut(h[i - 1], batch, refused, i)
    <3>1. CASE i = 0
      BY <2>2, <3>1
    <3>2. CASE i # 0
      <4>1. i \in 1..n /\ i - 1 \in 0..n
        BY <1>1, <3>2
      <4>2. QED
        BY <2>6, <2>9, <3>2, <4>1, Zenon
    <3>3. QED
      BY <3>1, <3>2
  <2>11. E(h)
    BY <2>2, <2>10, Zenon
  <2>12. QED
    BY <2>11, Zenon
<1>6. E(after)
  BY <1>5, Zenon
<1> HIDE DEF E, after
<1>7. n \in 0..n
  BY <1>1
<1>8. after[n] \in Taken(batch, refused, n)
  BY <1>4, <1>6, <1>7, Zenon
<1>9. QED
  <2> DEFINE a == after[n]
  <2> HIDE DEF a
  <2>1. PICK m \in 0..n :
          /\ Len(a.out) = m /\ Len(a.rest) = n - m
          /\ a.rest \in Seq(RQ!Ids) /\ a.out \in Seq(RQ!Ids)
          /\ \A k \in 1..(n - m) : a.rest[k] \in RQ!ToSet(batch) \ refused
          /\ \A k \in 1..m : a.out[k] \in RQ!ToSet(batch) \cap refused
          /\ RQ!ToSet(batch) \subseteq RQ!ToSet(a.rest) \cup RQ!ToSet(a.out)
    BY <1>8 DEF Taken, a, n
  <2>2. RQ!ToSet(a.rest) \subseteq RQ!ToSet(batch) \ refused
    BY <2>1 DEF RQ!ToSet
  <2>3. RQ!ToSet(a.out) \subseteq RQ!ToSet(batch) \cap refused
    BY <2>1 DEF RQ!ToSet
  <2>4. RQ!ToSet(a.rest) = RQ!ToSet(batch) \ refused /\ RQ!ToSet(a.out) = RQ!ToSet(batch) \cap refused
    BY <2>1, <2>2, <2>3
  <2>5. QED
    BY <1>2, <2>4, Zenon DEF a
-----------------------------------------------------------------------------
(***************************************************************************)
(* The inductive invariant.                                                *)
(***************************************************************************)
\* The types, of those variables that the rest depends on.
RqShape ==
    /\ owner \in [RQ!Ids -> Callers \cup {0}]
    /\ settled \in [Callers -> Nat]
    /\ callback \subseteq RQ!Ids
    /\ queue \in Seq(RQ!Ids)
    /\ up \in Seq(Seq(RQ!Ids))
    /\ judging \subseteq Seq(RQ!Ids)
    /\ working \subseteq RQ!Ids
    /\ answers \subseteq [id : RQ!Ids, is : {"settled", "expired"}]
    /\ renewing \subseteq RQ!Ids
    /\ lost \subseteq RQ!Ids

\* Ids are used in the order of their numbers.
InUse(n) == \A i \in RQ!Ids : (owner[i] # 0) <=> (i <= n)
IdsInOrder == \E n \in 0..MaxIds : InUse(n)

\* No request is in two batches, and none has two answers.
BatchesApart ==
    /\ \A j, k \in 1..Len(up) : \A i \in RQ!Ids :
           i \in RQ!ToSet(up[j]) /\ i \in RQ!ToSet(up[k]) => j = k
    /\ \A b, d \in judging : \A i \in RQ!Ids :
           i \in RQ!ToSet(b) /\ i \in RQ!ToSet(d) => b = d
OneAnswer == \A a, b \in answers : a.id = b.id => a = b

\* No request is in two places.
Apart(Q, S, J, W, A, R, L) ==
    \A i \in RQ!Ids :
          /\ i \in Q => i \notin S \cup J \cup W \cup A \cup R \cup L
          /\ i \in S => i \notin J \cup W \cup A \cup R \cup L
          /\ i \in J => i \notin W \cup A \cup R \cup L
          /\ i \in W => i \notin A \cup R \cup L
          /\ i \in A => i \notin R \cup L
          /\ i \in R => i \notin L
PlacesApart == Apart(RQ!Queued, RQ!Sent, RQ!Judged, working, RQ!Answering, renewing, lost)

Placed == RQ!Queued \cup RQ!Sent \cup RQ!Judged \cup working \cup RQ!Answering
          \cup renewing \cup lost

\* What is in a place is waited for, and its caller has nothing else there.
PlacedWaits ==
    \A i \in Placed :
        /\ i \in RQ!Ids /\ owner[i] # 0 /\ i \in callback
        /\ settled[owner[i]] = 0
        /\ \A j \in Placed : owner[j] = owner[i] => j = i

\* Who waits has a request in a place.
WaitingIsPlaced ==
    \A i \in RQ!Ids : owner[i] # 0 /\ ~RQ!Settled(i) /\ ~RQ!Repeated(i) => i \in Placed

\* A promise is settled once, and only that of one who asked.
SettledOnce ==
    \A c \in Callers : /\ settled[c] <= 1
                       /\ settled[c] # 0 => \E i \in RQ!Ids : owner[i] = c

RqInv == /\ RqShape /\ IdsInOrder /\ BatchesApart /\ OneAnswer /\ PlacesApart
         /\ PlacedWaits /\ WaitingIsPlaced /\ SettledOnce /\ RQ!OnlyGrantedHandled
-----------------------------------------------------------------------------
(***************************************************************************)
(* Where the requests are.                                                 *)
(***************************************************************************)
\* A step of Spec is one of the part or leaves it as it is.
LEMMA RequestsPart == (Init => RQ!Init) /\ ([Next]_vars => [RQ!Next]_(RQ!vars))
BY DEF Init, Next, In, Others, vars, RQ!vars

LEMMA AppendedElements ==
    ASSUME NEW T, NEW s \in Seq(T), NEW e \in T
    PROVE  RQ!ToSet(Append(s, e)) = RQ!ToSet(s) \cup {e}
<1> DEFINE n == Len(s)
           t == Append(s, e)
<1>1. /\ n \in Nat /\ t \in Seq(T) /\ Len(t) = n + 1
      /\ t[n + 1] = e /\ \A j \in 1..n : t[j] = s[j]
  OBVIOUS
<1>2. RQ!ToSet(s) = {s[j] : j \in 1..n}
  BY ElementsOf
<1> HIDE DEF n, t
<1>3. RQ!ToSet(t) = {t[j] : j \in 1..(n + 1)}
  BY <1>1, ElementsOf, Zenon
<1>4. \A j : j \in 1..(n + 1) <=> j \in 1..n \/ j = n + 1
  BY <1>1
<1>5. RQ!ToSet(t) = RQ!ToSet(s) \cup {e}
  BY <1>1, <1>2, <1>3, <1>4
<1>6. QED
  BY <1>5 DEF t

\* What is in a sequence is its head or in the rest.
LEMMA HeadAndRest ==
    ASSUME NEW T, NEW s \in Seq(T), s # <<>>
    PROVE  /\ Head(s) \in T /\ Tail(s) \in Seq(T)
           /\ RQ!ToSet(s) = RQ!ToSet(Tail(s)) \cup {Head(s)}
           /\ Len(s) \in Nat /\ Len(s) >= 1 /\ Len(Tail(s)) = Len(s) - 1
           /\ Head(s) = s[1] /\ \A j \in 1..(Len(s) - 1) : Tail(s)[j] = s[j + 1]
<1> DEFINE n == Len(s)
           t == Tail(s)
<1>1. /\ n \in Nat /\ n >= 1 /\ t \in Seq(T) /\ Len(t) = n - 1
      /\ Head(s) \in T /\ Head(s) = s[1]
  OBVIOUS
<1>2. \A j \in 1..(n - 1) : t[j] = s[j + 1]
  OBVIOUS
<1>3. RQ!ToSet(s) = {s[j] : j \in 1..n}
  BY ElementsOf
<1> HIDE DEF n, t
<1>4. RQ!ToSet(t) = {t[j] : j \in 1..(n - 1)}
  BY <1>1, ElementsOf, Zenon
<1>5. \A j : j \in 1..n <=> j = 1 \/ \E k \in 1..(n - 1) : j = k + 1
  <2> SUFFICES ASSUME NEW j \in 1..n, j # 1 PROVE \E k \in 1..(n - 1) : j = k + 1
    BY <1>1
  <2>1. j - 1 \in 1..(n - 1) /\ j = (j - 1) + 1
    BY <1>1
  <2>2. QED
    BY <2>1
<1>6. RQ!ToSet(s) = RQ!ToSet(t) \cup {Head(s)}
  <2>1. {s[j] : j \in 1..n} = {s[k + 1] : k \in 1..(n - 1)} \cup {s[1]}
    BY <1>5
  <2>2. {t[j] : j \in 1..(n - 1)} = {s[k + 1] : k \in 1..(n - 1)}
    BY <1>2 DEF t
  <2>3. QED
    BY <1>1, <1>3, <1>4, <2>1, <2>2
<1>7. QED
  BY <1>1, <1>2, <1>6 DEF n, t

LEMMA NoElements == RQ!ToSet(<<>>) = {}
BY DEF RQ!ToSet

LEMMA ElementsAreIds ==
    ASSUME NEW T, NEW s \in Seq(T) PROVE RQ!ToSet(s) \subseteq T
BY DEF RQ!ToSet

\* The next id is free, and the ids stay in order when it is used.
LEMMA NextIdIs ==
    ASSUME RqShape, IdsInOrder
    PROVE  \E n \in 0..MaxIds : InUse(n) /\ RQ!NextId = n + 1
<1>1. PICK n \in 0..MaxIds : InUse(n)
  BY DEF IdsInOrder
<1>2. {i \in RQ!Ids : owner[i] # 0} = 1..n
  BY <1>1, BoundsAreNumbers DEF InUse, RQ!Ids
<1>3. n \in Nat
  BY <1>1, BoundsAreNumbers
<1>4. Cardinality(1..n) = n
  BY <1>3, FS_Interval
<1>5. RQ!Cardinality(1..n) = Cardinality(1..n)
  BY Zenon DEF RQ!Cardinality, Cardinality
<1>6. RQ!NextId = n + 1
  BY <1>2, <1>4, <1>5, Zenon DEF RQ!NextId
<1>7. QED
  BY <1>1, <1>6
-----------------------------------------------------------------------------
(***************************************************************************)
(* What becomes of who waits when requests change their places.            *)
(***************************************************************************)
\* They only move.
LEMMA TheyMove ==
    ASSUME RqInv, Placed' = Placed, owner' = owner, callback' = callback, settled' = settled
    PROVE  IdsInOrder' /\ PlacedWaits' /\ WaitingIsPlaced' /\ SettledOnce'
<1>1. IdsInOrder'
  BY DEF RqInv, IdsInOrder, InUse, RQ!Ids
<1>2. PlacedWaits'
  BY DEF RqInv, PlacedWaits, RQ!Ids
<1>3. WaitingIsPlaced'
  BY DEF RqInv, WaitingIsPlaced, RQ!Ids, RQ!Settled, RQ!Repeated
<1>4. SettledOnce'
  BY DEF RqInv, SettledOnce, RQ!Ids
<1>5. QED
  BY <1>1, <1>2, <1>3, <1>4

\* One leaves, and its promise is settled.
LEMMA OneSettles ==
    ASSUME RqInv, NEW i \in Placed, Placed' = Placed \ {i}, owner' = owner,
           callback' \subseteq callback, callback \ {i} \subseteq callback', RQ!Settle(i)
    PROVE  /\ IdsInOrder' /\ PlacedWaits' /\ WaitingIsPlaced' /\ SettledOnce'
           /\ settled' \in [Callers -> Nat]
<1>1. /\ owner \in [RQ!Ids -> Callers \cup {0}] /\ settled \in [Callers -> Nat]
      /\ i \in RQ!Ids /\ owner[i] # 0 /\ settled[owner[i]] = 0
      /\ \A j \in Placed : /\ j \in RQ!Ids /\ owner[j] # 0 /\ j \in callback
                            /\ settled[owner[j]] = 0
                            /\ \A k \in Placed : owner[k] = owner[j] => k = j
  BY DEF RqInv, RqShape, PlacedWaits
<1>2. settled' = [settled EXCEPT ![owner[i]] = @ + 1] /\ owner[i] \in Callers
  BY <1>1 DEF RQ!Settle
<1>3. /\ settled' \in [Callers -> Nat]
      /\ settled'[owner[i]] = 1
      /\ \A c \in Callers : c # owner[i] => settled'[c] = settled[c]
  BY <1>1, <1>2
<1>4. IdsInOrder'
  BY DEF RqInv, IdsInOrder, InUse, RQ!Ids
<1>5. PlacedWaits'
  <2> SUFFICES ASSUME NEW j \in Placed, j # i
               PROVE  /\ j \in RQ!Ids /\ owner[j] # 0 /\ j \in callback'
                      /\ settled'[owner[j]] = 0
                      /\ \A k \in Placed : owner[k] = owner[j] => k = j
    BY DEF PlacedWaits, RQ!Ids
  <2>1. owner[j] # owner[i] /\ owner[j] \in Callers
    BY <1>1
  <2>2. QED
    BY <1>1, <1>3, <2>1
<1>6. WaitingIsPlaced'
  <2> SUFFICES ASSUME NEW j \in RQ!Ids, owner[j] # 0, settled'[owner[j]] = 0,
                      ~\E k \in RQ!Ids : k > j /\ owner[k] = owner[j]
               PROVE  j \in Placed \ {i}
    BY DEF WaitingIsPlaced, RQ!Ids, RQ!Settled, RQ!Repeated
  <2>1. owner[j] \in Callers /\ owner[j] # owner[i]
    BY <1>1, <1>3
  <2>2. settled[owner[j]] = 0
    BY <1>3, <2>1
  <2>3. j \in Placed
    BY <2>2 DEF RqInv, WaitingIsPlaced, RQ!Settled, RQ!Repeated
  <2>4. QED
    BY <2>1, <2>3
<1>7. SettledOnce'
  <2> SUFFICES ASSUME NEW c \in Callers
               PROVE  /\ settled'[c] <= 1
                      /\ settled'[c] # 0 => \E j \in RQ!Ids : owner[j] = c
    BY DEF SettledOnce, RQ!Ids
  <2>1. CASE c = owner[i]
    BY <1>1, <1>3, <2>1
  <2>2. CASE c # owner[i]
    <3>1. settled'[c] = settled[c]
      BY <1>3, <2>2
    <3>2. QED
      BY <3>1 DEF RqInv, SettledOnce
  <2>3. QED
    BY <2>1, <2>2
<1>8. QED
  BY <1>3, <1>4, <1>5, <1>6, <1>7

\* A caller without a request in a place makes one, for the first time or
\* instead of those in G, which leave.
LEMMA OneComes ==
    ASSUME RqInv, NEW c \in Callers, NEW G, RQ!NextId \in RQ!Ids,
           settled[c] = 0,
           \A j \in Placed \ G : owner[j] # c,
           \A j \in G : owner[j] = c,
           Placed' = (Placed \ G) \cup {RQ!NextId},
           owner' = [owner EXCEPT ![RQ!NextId] = c],
           callback' = callback \cup {RQ!NextId}, settled' = settled
    PROVE  /\ IdsInOrder' /\ PlacedWaits' /\ WaitingIsPlaced' /\ SettledOnce'
           /\ owner' \in [RQ!Ids -> Callers \cup {0}]
           /\ callback' \subseteq RQ!Ids
<1>1. PICK n \in 0..MaxIds : InUse(n) /\ RQ!NextId = n + 1
  BY NextIdIs DEF RqInv
<1> DEFINE N == RQ!NextId
<1>2. /\ owner \in [RQ!Ids -> Callers \cup {0}] /\ settled \in [Callers -> Nat]
      /\ callback \subseteq RQ!Ids
      /\ \A j \in Placed : /\ j \in RQ!Ids /\ owner[j] # 0 /\ j \in callback
                            /\ settled[owner[j]] = 0
                            /\ \A k \in Placed : owner[k] = owner[j] => k = j
  BY DEF RqInv, RqShape, PlacedWaits
<1>3. N \in RQ!Ids /\ N = n + 1 /\ n \in Nat /\ N \in 0..MaxIds /\ RQ!Ids \subseteq Nat
  BY <1>1, BoundsAreNumbers DEF RQ!Ids
<1>4. owner[N] = 0 /\ \A j \in RQ!Ids : (owner[j] # 0) <=> (j <= n)
  BY <1>1, <1>3 DEF InUse
<1> HIDE DEF N
<1>5. /\ owner' \in [RQ!Ids -> Callers \cup {0}] /\ owner'[N] = c
      /\ \A j \in RQ!Ids : j # N => owner'[j] = owner[j]
      /\ callback' = callback \cup {N} /\ Placed' = (Placed \ G) \cup {N}
  BY <1>2, <1>3 DEF N
<1>6. c # 0 /\ N \notin Placed
  BY <1>2, <1>4, ZeroIsNoCaller
<1>7. IdsInOrder'
  <2>1. \A j \in RQ!Ids : (owner'[j] # 0) <=> (j <= N)
    BY <1>3, <1>4, <1>5, <1>6
  <2>2. QED
    BY <1>3, <2>1 DEF IdsInOrder, InUse, RQ!Ids
<1>8. PlacedWaits'
  <2> SUFFICES ASSUME NEW j \in Placed'
               PROVE  /\ j \in RQ!Ids /\ owner'[j] # 0 /\ j \in callback'
                      /\ settled[owner'[j]] = 0
                      /\ \A k \in Placed' : owner'[k] = owner'[j] => k = j
    BY DEF PlacedWaits, RQ!Ids
  <2>1. CASE j = N
    BY <1>2, <1>3, <1>5, <1>6, <2>1
  <2>2. CASE j # N
    BY <1>2, <1>3, <1>5, <1>6, <2>2
  <2>3. QED
    BY <2>1, <2>2
<1>9. WaitingIsPlaced'
  <2> SUFFICES ASSUME NEW j \in RQ!Ids, owner'[j] # 0, settled[owner'[j]] = 0,
                      ~\E k \in RQ!Ids : k > j /\ owner'[k] = owner'[j]
               PROVE  j \in (Placed \ G) \cup {N}
    BY <1>5 DEF WaitingIsPlaced, RQ!Ids, RQ!Settled, RQ!Repeated
  <2> SUFFICES ASSUME j # N PROVE j \in Placed \ G
    OBVIOUS
  <2>1. owner'[j] = owner[j] /\ j < N
    BY <1>3, <1>4, <1>5
  <2>2. owner[j] # c
    BY <1>3, <1>5, <2>1
  <2>3. ~\E k \in RQ!Ids : k > j /\ owner[k] = owner[j]
    BY <1>4, <1>5, <2>1
  <2>4. j \in Placed
    BY <2>1, <2>3 DEF RqInv, WaitingIsPlaced, RQ!Settled, RQ!Repeated
  <2>5. QED
    BY <2>2, <2>4
<1>10. SettledOnce'
  <2> SUFFICES ASSUME NEW d \in Callers
               PROVE  /\ settled[d] <= 1
                      /\ settled[d] # 0 => \E j \in RQ!Ids : owner'[j] = d
    BY DEF SettledOnce, RQ!Ids
  <2>1. /\ settled[d] <= 1
        /\ settled[d] # 0 => \E j \in RQ!Ids : owner[j] = d
    BY DEF RqInv, SettledOnce
  <2>2. \A j \in RQ!Ids : owner[j] = d => j # N
    BY <1>4, ZeroIsNoCaller
  <2>3. QED
    BY <1>5, <2>1, <2>2
<1>11. QED
  BY <1>2, <1>3, <1>5, <1>7, <1>8, <1>9, <1>10
-----------------------------------------------------------------------------
(***************************************************************************)
(* The actions, one by one.                                                *)
(***************************************************************************)
\* What is in a sequence of batches.
InBatches(u) == UNION {RQ!ToSet(b) : b \in RQ!ToSet(u)}

\* What a batch holds is in the batches.
LEMMA BatchesHold ==
    ASSUME NEW u \in Seq(Seq(RQ!Ids))
    PROVE  \A i : i \in InBatches(u) <=> \E j \in 1..Len(u) : i \in RQ!ToSet(u[j])
<1>1. RQ!ToSet(u) = {u[j] : j \in 1..Len(u)}
  BY ElementsOf
<1>2. QED
  BY <1>1, Zenon DEF InBatches

\* The queue becomes a batch on its way up ...
LEMMA DrainOK == RqInv /\ RQ!Drain => RqInv'
<1> SUFFICES ASSUME RqInv, RQ!Drain PROVE RqInv'
  OBVIOUS
<1>1. /\ owner' = owner /\ callback' = callback /\ settled' = settled
      /\ judging' = judging /\ working' = working /\ answers' = answers
      /\ renewing' = renewing /\ lost' = lost
      /\ granted' = granted /\ handled' = handled /\ queue' = <<>>
      /\ up' = IF queue = <<>> THEN up ELSE Append(up, queue)
  BY DEF RQ!Drain, RQ!server, RQ!renewal
<1>2. RqShape
  BY DEF RqInv
<1>3. RqShape'
  <2>1. up' \in Seq(Seq(RQ!Ids)) /\ <<>> \in Seq(RQ!Ids)
    BY <1>1, <1>2 DEF RqShape
  <2>2. QED
    BY <1>1, <1>2, <2>1 DEF RqShape, RQ!Ids
<1>4. RQ!Queued' = {} /\ RQ!Judged' = RQ!Judged /\ RQ!Answering' = RQ!Answering
  BY <1>1, NoElements DEF RQ!Queued, RQ!Judged, RQ!Answering
<1>5. RQ!Sent' = RQ!Sent \cup RQ!Queued
  <2>1. CASE queue = <<>>
    BY <1>1, <2>1, NoElements DEF RQ!Sent, RQ!Queued
  <2>2. CASE queue # <<>>
    <3>1. RQ!ToSet(up') = RQ!ToSet(up) \cup {queue}
      BY <1>1, <1>2, <2>2, AppendedElements DEF RqShape
    <3>2. QED
      BY <3>1 DEF RQ!Sent, RQ!Queued
  <2>3. QED
    BY <2>1, <2>2
<1>6. PlacesApart'
  BY <1>1, <1>4, <1>5 DEF RqInv, PlacesApart, Apart, RQ!Ids
<1>7. Placed' = Placed
  BY <1>1, <1>4, <1>5 DEF Placed
<1>8. BatchesApart'
  <2>1. CASE queue = <<>>
    BY <1>1, <2>1 DEF RqInv, BatchesApart, RQ!Ids
  <2>2. CASE queue # <<>>
    <3> DEFINE n == Len(up)
    <3>1. /\ n \in Nat /\ Len(up') = n + 1 /\ up'[n + 1] = queue
          /\ \A j \in 1..n : up'[j] = up[j]
      BY <1>1, <1>2, <2>2 DEF RqShape
    <3>2. \A j \in 1..n : \A i \in RQ!ToSet(up[j]) : i \in RQ!Sent
      BY <1>2, BatchesHold DEF RqShape, RQ!Sent, InBatches
    <3>3. \A i \in RQ!Ids : i \in RQ!Queued => i \notin RQ!Sent
      BY DEF RqInv, PlacesApart, Apart
    <3>4. \A j, k \in 1..n : \A i \in RQ!Ids :
              i \in RQ!ToSet(up[j]) /\ i \in RQ!ToSet(up[k]) => j = k
      BY DEF RqInv, BatchesApart
    <3> HIDE DEF n
    <3>5. ASSUME NEW j \in 1..(n + 1), NEW k \in 1..(n + 1), NEW i \in RQ!Ids,
                 i \in RQ!ToSet(up'[j]), i \in RQ!ToSet(up'[k])
          PROVE  j = k
      <4>1. (j \in 1..n \/ j = n + 1) /\ (k \in 1..n \/ k = n + 1)
        BY <3>1
      <4>2. QED
        BY <3>1, <3>2, <3>3, <3>4, <3>5, <4>1 DEF RQ!Queued
    <3>6. QED
      BY <1>1, <3>1, <3>5 DEF RqInv, BatchesApart, RQ!Ids
  <2>3. QED
    BY <2>1, <2>2
<1>9. OneAnswer' /\ RQ!OnlyGrantedHandled'
  BY <1>1 DEF RqInv, OneAnswer, RQ!OnlyGrantedHandled
<1>10. QED
  BY <1>1, <1>3, <1>6, <1>7, <1>8, <1>9, TheyMove DEF RqInv

\* ... which is authorized at the server ...
LEMMA ReceiveOK == RqInv /\ RQ!Receive => RqInv'
<1> SUFFICES ASSUME RqInv, RQ!Receive PROVE RqInv'
  OBVIOUS
<1>1. /\ owner' = owner /\ callback' = callback /\ settled' = settled
      /\ queue' = queue /\ working' = working /\ answers' = answers
      /\ renewing' = renewing /\ lost' = lost
      /\ granted' = granted /\ handled' = handled
      /\ up # <<>> /\ up' = Tail(up) /\ judging' = judging \cup {Head(up)}
  BY DEF RQ!Receive, RQ!renewal
<1>2. RqShape
  BY DEF RqInv
<1> DEFINE n == Len(up)
           b == Head(up)
<1>3. /\ b \in Seq(RQ!Ids) /\ up' \in Seq(Seq(RQ!Ids))
      /\ RQ!ToSet(up) = RQ!ToSet(up') \cup {b}
      /\ n \in Nat /\ n >= 1 /\ Len(up') = n - 1
      /\ b = up[1] /\ \A j \in 1..(n - 1) : up'[j] = up[j + 1]
  BY <1>1, <1>2, HeadAndRest DEF RqShape
<1>4. RqShape'
  BY <1>1, <1>2, <1>3 DEF RqShape, RQ!Ids
<1>5. RQ!Queued' = RQ!Queued /\ RQ!Answering' = RQ!Answering
  BY <1>1 DEF RQ!Queued, RQ!Answering
<1> HIDE DEF n, b
<1>6. RQ!Judged' = RQ!Judged \cup RQ!ToSet(b)
  BY <1>1 DEF RQ!Judged, b
<1>7. RQ!Sent = RQ!Sent' \cup RQ!ToSet(b)
  BY <1>3 DEF RQ!Sent
<1>8. \A j, k \in 1..n : \A i \in RQ!Ids :
          i \in RQ!ToSet(up[j]) /\ i \in RQ!ToSet(up[k]) => j = k
  BY DEF RqInv, BatchesApart, n
<1>9. \A i \in RQ!Ids : i \in RQ!ToSet(b) => i \notin RQ!Sent'
  <2> SUFFICES ASSUME NEW i \in RQ!Ids, i \in RQ!ToSet(b), i \in RQ!Sent' PROVE FALSE
    OBVIOUS
  <2>1. PICK j \in 1..(n - 1) : i \in RQ!ToSet(up'[j])
    BY <1>3, BatchesHold DEF RQ!Sent, InBatches
  <2>2. j + 1 \in 1..n /\ 1 \in 1..n /\ j + 1 # 1
    BY <1>3
  <2>3. QED
    BY <1>3, <1>8, <2>1, <2>2
<1>10. PlacesApart'
  BY <1>1, <1>5, <1>6, <1>7, <1>9 DEF RqInv, PlacesApart, Apart, RQ!Ids
<1>11. Placed' = Placed
  BY <1>1, <1>5, <1>6, <1>7 DEF Placed
<1>12. BatchesApart'
  <2>1. ASSUME NEW j \in 1..(n - 1), NEW k \in 1..(n - 1), NEW i \in RQ!Ids,
               i \in RQ!ToSet(up'[j]), i \in RQ!ToSet(up'[k])
        PROVE  j = k
    <3>1. j + 1 \in 1..n /\ k + 1 \in 1..n /\ (j + 1 = k + 1 => j = k)
      BY <1>3
    <3>2. QED
      BY <1>3, <1>8, <2>1, <3>1
  <2>2. ASSUME NEW d \in judging, NEW i \in RQ!Ids, i \in RQ!ToSet(d) PROVE i \notin RQ!ToSet(b)
    <3>1. i \in RQ!Judged
      BY <2>2 DEF RQ!Judged
    <3>2. QED
      BY <1>7, <3>1 DEF RqInv, PlacesApart, Apart
  <2>3. \A d, e \in judging : \A i \in RQ!Ids :
            i \in RQ!ToSet(d) /\ i \in RQ!ToSet(e) => d = e
    BY DEF RqInv, BatchesApart
  <2>4. judging' = judging \cup {b}
    BY <1>1 DEF b
  <2>5. \A d, e \in judging' : \A i \in RQ!Ids :
            i \in RQ!ToSet(d) /\ i \in RQ!ToSet(e) => d = e
    BY <2>2, <2>3, <2>4
  <2>6. QED
    BY <1>3, <2>1, <2>5 DEF BatchesApart, RQ!Ids
<1>13. OneAnswer' /\ RQ!OnlyGrantedHandled'
  BY <1>1 DEF RqInv, OneAnswer, RQ!OnlyGrantedHandled
<1>14. QED
  BY <1>1, <1>4, <1>10, <1>11, <1>12, <1>13, TheyMove DEF RqInv

\* No request moves.
LEMMA StillOK == RqInv /\ (RQ!Reconnect \/ RQ!TokenReply \/ UNCHANGED RQ!vars) => RqInv'
<1> SUFFICES ASSUME RqInv, RQ!Reconnect \/ RQ!TokenReply \/ UNCHANGED RQ!vars PROVE RqInv'
  OBVIOUS
<1>1. /\ owner' = owner /\ callback' = callback /\ settled' = settled
      /\ queue' = queue /\ up' = up /\ judging' = judging
      /\ working' = working /\ answers' = answers
      /\ renewing' = renewing /\ lost' = lost
      /\ granted' = granted /\ handled' = handled
  BY DEF RQ!Reconnect, RQ!TokenReply, RQ!vars, RQ!server, RQ!renewal
<1>2. RqShape' /\ BatchesApart' /\ OneAnswer' /\ RQ!OnlyGrantedHandled'
  BY <1>1 DEF RqInv, RqShape, BatchesApart, OneAnswer, RQ!OnlyGrantedHandled, RQ!Ids
<1>3. /\ RQ!Queued' = RQ!Queued /\ RQ!Sent' = RQ!Sent
      /\ RQ!Judged' = RQ!Judged /\ RQ!Answering' = RQ!Answering
  BY <1>1 DEF RQ!Queued, RQ!Sent, RQ!Judged, RQ!Answering
<1>4. PlacesApart' /\ Placed' = Placed
  BY <1>1, <1>3 DEF RqInv, PlacesApart, Apart, Placed, RQ!Ids
<1>5. QED
  BY <1>1, <1>2, <1>4, TheyMove DEF RqInv

\* What was on its way is lost; the queue stays.
LEMMA DisconnectOK ==
    ASSUME RqInv, NEW renewals \in SUBSET renewing, RQ!Disconnect(renewals)
    PROVE  RqInv'
<1>1. /\ owner' = owner /\ callback' = callback /\ settled' = settled
      /\ queue' = queue /\ up' = <<>> /\ judging' = {} /\ working' = {} /\ answers' = {}
      /\ renewing' = renewing \ renewals
      /\ granted' = granted /\ handled' = handled
  BY DEF RQ!Disconnect
<1>2. lost' = lost \cup working \cup RQ!Judged \cup RQ!Sent \cup RQ!Answering \cup renewals
  <2> DEFINE batches == UNION {RQ!ToSet(b) : b \in judging \cup RQ!ToSet(up)}
  <2>1. batches = RQ!Judged \cup RQ!Sent
    BY DEF RQ!Judged, RQ!Sent
  <2>2. lost' = lost \cup working \cup RQ!Answering \cup renewals \cup batches
    BY Zenon DEF RQ!Disconnect, RQ!Answering
  <2> HIDE DEF batches
  <2>3. QED
    BY <2>1, <2>2
<1>3. RQ!Queued' = RQ!Queued /\ RQ!Sent' = {} /\ RQ!Judged' = {} /\ RQ!Answering' = {}
  BY <1>1, NoElements DEF RQ!Queued, RQ!Sent, RQ!Judged, RQ!Answering
<1>4. Placed' = Placed
  BY <1>1, <1>2, <1>3 DEF Placed
<1>5. lost' \subseteq RQ!Ids
  <2>1. lost' \subseteq Placed
    BY <1>2 DEF Placed
  <2>2. QED
    BY <2>1 DEF RqInv, PlacedWaits
<1>6. RqShape'
  <2>1. <<>> \in Seq(Seq(RQ!Ids))
    OBVIOUS
  <2>2. QED
    BY <1>1, <1>5, <2>1 DEF RqInv, RqShape, RQ!Ids
<1>7. PlacesApart'
  BY <1>1, <1>2, <1>3 DEF RqInv, PlacesApart, Apart, RQ!Ids
<1>8. BatchesApart' /\ OneAnswer' /\ RQ!OnlyGrantedHandled'
  <2>1. Len(<<>>) = 0
    OBVIOUS
  <2>2. QED
    BY <1>1, <2>1 DEF RqInv, BatchesApart, OneAnswer, RQ!OnlyGrantedHandled
<1>9. QED
  BY <1>1, <1>4, <1>6, <1>7, <1>8, TheyMove DEF RqInv

\* ... and split: the granted requests are handled, the refused ones answered.
LEMMA JudgeOK ==
    ASSUME RqInv, NEW batch \in judging, NEW why \in {"settled", "expired"},
           NEW refused \in SUBSET RQ!ToSet(batch), RQ!Judge(batch, refused, why)
    PROVE  RqInv'
<1> DEFINE B == RQ!ToSet(batch)
           split == RQ!Split(batch, refused)
           told == {i \in RQ!ToSet(split.out) : kind[i].told}
           untold == RQ!ToSet(split.out) \ told
           throws == {i \in RQ!ToSet(split.rest) : kind[i].throws}
           quiet == {i \in RQ!ToSet(split.rest) : ~kind[i].throws}
<1>1. /\ owner' = owner /\ callback' = callback /\ settled' = settled
      /\ queue' = queue /\ up' = up /\ renewing' = renewing
      /\ judging' = judging \ {batch}
      /\ granted' = granted \cup (B \ refused)
      /\ handled' = handled \cup RQ!ToSet(split.rest)
      /\ working' = working \cup quiet
      /\ answers' = answers \cup {[id |-> i, is |-> why] : i \in told}
      /\ lost' = lost \cup untold \cup throws
  BY DEF RQ!Judge, RQ!renewal
<1>2. RqShape /\ batch \in Seq(RQ!Ids) /\ B \subseteq RQ!Ids
  BY ElementsAreIds DEF RqInv, RqShape
<1>3. RQ!ToSet(split.rest) = B \ refused /\ RQ!ToSet(split.out) = B \cap refused
  BY <1>2, SplitIs
<1> HIDE DEF B, split
<1>4. /\ B = told \cup untold \cup throws \cup quiet
      /\ told \cap untold = {} /\ told \cap throws = {} /\ told \cap quiet = {}
      /\ untold \cap throws = {} /\ untold \cap quiet = {} /\ throws \cap quiet = {}
  BY <1>3 DEF B
<1> HIDE DEF told, untold, throws, quiet
<1>5. /\ RQ!Queued' = RQ!Queued /\ RQ!Sent' = RQ!Sent
      /\ RQ!Answering' = RQ!Answering \cup told
  <2>1. RQ!Queued' = RQ!Queued /\ RQ!Sent' = RQ!Sent
    BY <1>1 DEF RQ!Queued, RQ!Sent
  <2>2. \A i : i \in RQ!Answering <=> \E a \in answers : i = a.id
    BY DEF RQ!Answering
  <2>3. \A i : i \in RQ!Answering' <=> \E a \in answers' : i = a.id
    BY DEF RQ!Answering
  <2>4. \A i : i \in told <=> \E a \in {[id |-> j, is |-> why] : j \in told} : i = a.id
    <3>1. \A j : [id |-> j, is |-> why].id = j
      OBVIOUS
    <3>2. QED
      BY <3>1, Zenon
  <2>5. \A i : i \in RQ!Answering' <=> i \in RQ!Answering \/ i \in told
    BY <1>1, <2>2, <2>3, <2>4, Zenon
  <2>6. QED
    BY <2>1, <2>5
<1>6. \A d \in judging : \A i \in RQ!Ids : i \in RQ!ToSet(d) /\ i \in B => d = batch
  BY DEF RqInv, BatchesApart, B
<1>7. B \subseteq RQ!Judged
  BY DEF B, RQ!Judged
<1>8. RQ!Judged' = RQ!Judged \ B
  <2>1. \A i : i \in RQ!Judged <=> \E d \in judging : i \in RQ!ToSet(d)
    BY DEF RQ!Judged
  <2>2. \A i : i \in RQ!Judged' <=> \E d \in judging \ {batch} : i \in RQ!ToSet(d)
    BY <1>1 DEF RQ!Judged
  <2>3. \A i : i \in B <=> i \in RQ!ToSet(batch)
    BY DEF B
  <2>4. QED
    BY <1>2, <1>6, <2>1, <2>2, <2>3
<1>9. RqShape'
  <2>1. working' \subseteq RQ!Ids /\ lost' \subseteq RQ!Ids
    BY <1>1, <1>2, <1>4 DEF RqShape
  <2>2. answers' \subseteq [id : RQ!Ids, is : {"settled", "expired"}]
    BY <1>1, <1>2, <1>4 DEF RqShape
  <2>3. QED
    BY <1>1, <1>2, <2>1, <2>2 DEF RqShape, RQ!Ids
<1>10. PlacesApart'
  BY <1>1, <1>2, <1>4, <1>5, <1>7, <1>8 DEF RqInv, PlacesApart, Apart, RQ!Ids
<1>11. Placed' = Placed
  BY <1>1, <1>4, <1>5, <1>7, <1>8 DEF Placed
<1>12. BatchesApart'
  BY <1>1 DEF RqInv, BatchesApart, RQ!Ids
<1>13. OneAnswer'
  <2>1. \A a \in answers : a.id \in RQ!Answering /\ a.id \in RQ!Ids
    BY <1>2 DEF RQ!Answering, RqShape
  <2>2. \A i \in told : i \in RQ!Judged /\ i \in RQ!Ids
    BY <1>2, <1>4, <1>7
  <2>3. \A a \in answers : a.id \notin told
    BY <2>1, <2>2 DEF RqInv, PlacesApart, Apart
  <2>4. QED
    BY <1>1, <2>3 DEF RqInv, OneAnswer
<1>14. RQ!OnlyGrantedHandled'
  BY <1>1, <1>3 DEF RqInv, RQ!OnlyGrantedHandled
<1>15. QED
  BY <1>1, <1>9, <1>10, <1>11, <1>12, <1>13, <1>14, TheyMove DEF RqInv

\* A handler ends with an answer.
LEMMA HandledOK == ASSUME RqInv, NEW i \in RQ!Ids, RQ!Handled(i) PROVE RqInv'
<1> DEFINE new == [id |-> i, is |-> "settled"]
<1>1. /\ owner' = owner /\ callback' = callback /\ settled' = settled
      /\ queue' = queue /\ up' = up /\ renewing' = renewing /\ lost' = lost
      /\ judging' = judging /\ granted' = granted /\ handled' = handled
      /\ i \in working /\ working' = working \ {i}
      /\ answers' = answers \cup {new}
  BY DEF RQ!Handled, RQ!renewal
<1>2. new.id = i /\ new \in [id : RQ!Ids, is : {"settled", "expired"}]
  OBVIOUS
<1> HIDE DEF new
<1>3. /\ RQ!Queued' = RQ!Queued /\ RQ!Sent' = RQ!Sent /\ RQ!Judged' = RQ!Judged
      /\ RQ!Answering' = RQ!Answering \cup {i}
  BY <1>1, <1>2 DEF RQ!Queued, RQ!Sent, RQ!Judged, RQ!Answering
<1>4. RqShape'
  BY <1>1, <1>2 DEF RqInv, RqShape, RQ!Ids
<1>5. PlacesApart'
  BY <1>1, <1>3 DEF RqInv, PlacesApart, Apart, RQ!Ids
<1>6. Placed' = Placed
  BY <1>1, <1>3 DEF Placed
<1>7. OneAnswer'
  <2>1. \A a \in answers : a.id # i
    BY <1>1 DEF RqInv, PlacesApart, Apart, RQ!Answering
  <2>2. QED
    BY <1>1, <1>2, <2>1 DEF RqInv, OneAnswer
<1>8. BatchesApart' /\ RQ!OnlyGrantedHandled'
  BY <1>1 DEF RqInv, BatchesApart, RQ!OnlyGrantedHandled, RQ!Ids
<1>9. QED
  BY <1>1, <1>4, <1>5, <1>6, <1>7, <1>8, TheyMove DEF RqInv

\* An answer settles the promise, or has the token renewed first.
LEMMA AnsweredOK == ASSUME RqInv, NEW a \in answers, RQ!Answered(a) PROVE RqInv'
<1> DEFINE i == a.id
           again == a.is = "expired" /\ ~retrying
<1>1. /\ owner' = owner /\ queue' = queue /\ up' = up /\ lost' = lost
      /\ judging' = judging /\ granted' = granted /\ handled' = handled
      /\ working' = working /\ answers' = answers \ {a}
      /\ again => /\ renewing' = renewing \cup {i}
                  /\ callback' = callback /\ settled' = settled
      /\ ~again => /\ callback' = callback \ {i}
                   /\ IF i \in callback THEN RQ!Settle(i) ELSE settled' = settled
                   /\ renewing' = renewing
  BY DEF RQ!Answered, RQ!server, RQ!renewal
<1>2. RqShape /\ i \in RQ!Ids
  BY DEF RqInv, RqShape
<1> HIDE DEF i, again
<1>3. i \in RQ!Answering /\ i \in Placed
  BY DEF RQ!Answering, Placed, i
<1>4. i \in callback
  BY <1>3 DEF RqInv, PlacedWaits
<1>5. RQ!Queued' = RQ!Queued /\ RQ!Sent' = RQ!Sent /\ RQ!Judged' = RQ!Judged
  BY <1>1 DEF RQ!Queued, RQ!Sent, RQ!Judged
<1>6. RQ!Answering' = RQ!Answering \ {i}
  <2>1. \A j : j \in RQ!Answering <=> \E b \in answers : j = b.id
    BY DEF RQ!Answering
  <2>2. \A j : j \in RQ!Answering' <=> \E b \in answers \ {a} : j = b.id
    BY <1>1 DEF RQ!Answering
  <2>3. \A b \in answers : b.id = i => b = a
    BY DEF RqInv, OneAnswer, i
  <2>4. i = a.id
    BY DEF i
  <2>5. QED
    BY <2>1, <2>2, <2>3, <2>4
<1>7. BatchesApart' /\ OneAnswer' /\ RQ!OnlyGrantedHandled'
  BY <1>1 DEF RqInv, BatchesApart, OneAnswer, RQ!OnlyGrantedHandled, RQ!Ids
<1>8. PlacesApart'
  BY <1>1, <1>2, <1>3, <1>5, <1>6 DEF RqInv, PlacesApart, Apart, RQ!Ids
<1>9. CASE again
  <2>1. Placed' = Placed
    BY <1>1, <1>3, <1>5, <1>6, <1>9 DEF Placed
  <2>2. RqShape'
    BY <1>1, <1>2, <1>9 DEF RqShape, RQ!Ids
  <2>3. QED
    BY <1>1, <1>7, <1>8, <1>9, <2>1, <2>2, TheyMove DEF RqInv
<1>10. CASE ~again
  <2>1. i \notin RQ!Queued \cup RQ!Sent \cup RQ!Judged \cup working \cup renewing \cup lost
    BY <1>2, <1>3 DEF RqInv, PlacesApart, Apart
  <2>2. Placed' = Placed \ {i}
    BY <1>1, <1>5, <1>6, <1>10, <2>1 DEF Placed
  <2>3. /\ IdsInOrder' /\ PlacedWaits' /\ WaitingIsPlaced' /\ SettledOnce'
        /\ settled' \in [Callers -> Nat]
    BY <1>1, <1>3, <1>4, <1>10, <2>2, OneSettles
  <2>4. RqShape'
    BY <1>1, <1>2, <1>10, <2>3 DEF RqShape, RQ!Ids
  <2>5. QED
    BY <1>7, <1>8, <2>3, <2>4 DEF RqInv
<1>11. QED
  BY <1>9, <1>10

\* Without a new token the promise is rejected.
LEMMA NotRenewedOK == ASSUME RqInv, NEW i \in RQ!Ids, RQ!NotRenewed(i) PROVE RqInv'
<1>1. /\ owner' = owner /\ queue' = queue /\ up' = up /\ lost' = lost
      /\ judging' = judging /\ granted' = granted /\ handled' = handled
      /\ working' = working /\ answers' = answers /\ callback' = callback
      /\ i \in renewing /\ renewing' = renewing \ {i}
      /\ IF i \in callback THEN RQ!Settle(i) ELSE settled' = settled
  BY DEF RQ!NotRenewed, RQ!server
<1>2. i \in Placed /\ i \in callback
  BY <1>1 DEF RqInv, Placed, PlacedWaits
<1>3. /\ RQ!Queued' = RQ!Queued /\ RQ!Sent' = RQ!Sent /\ RQ!Judged' = RQ!Judged
      /\ RQ!Answering' = RQ!Answering
  BY <1>1 DEF RQ!Queued, RQ!Sent, RQ!Judged, RQ!Answering
<1>4. i \notin RQ!Queued \cup RQ!Sent \cup RQ!Judged \cup working \cup RQ!Answering \cup lost
  BY <1>1 DEF RqInv, PlacesApart, Apart
<1>5. Placed' = Placed \ {i}
  BY <1>1, <1>3, <1>4 DEF Placed
<1>6. PlacesApart'
  BY <1>1, <1>3 DEF RqInv, PlacesApart, Apart, RQ!Ids
<1>7. BatchesApart' /\ OneAnswer' /\ RQ!OnlyGrantedHandled'
  BY <1>1 DEF RqInv, BatchesApart, OneAnswer, RQ!OnlyGrantedHandled, RQ!Ids
<1>8. /\ IdsInOrder' /\ PlacedWaits' /\ WaitingIsPlaced' /\ SettledOnce'
      /\ settled' \in [Callers -> Nat]
  BY <1>1, <1>2, <1>5, OneSettles
<1>9. RqShape'
  BY <1>1, <1>8 DEF RqInv, RqShape, RQ!Ids
<1>10. QED
  BY <1>6, <1>7, <1>8, <1>9 DEF RqInv

\* A request that is made goes into the queue under the next id.
LEMMA AddedOK ==
    ASSUME RqInv, NEW c \in Callers, NEW k, RQ!AddRequest(c, k), NEW G,
           G \subseteq renewing, renewing' = renewing \ G,
           settled[c] = 0, settled' = settled,
           \A j \in Placed \ G : owner[j] # c,
           \A j \in G : owner[j] = c,
           UNCHANGED <<RQ!server, up, answers, lost>>
    PROVE  RqInv'
<1> DEFINE N == RQ!NextId
<1>1. /\ N \in RQ!Ids /\ owner' = [owner EXCEPT ![N] = c]
      /\ callback' = callback \cup {N} /\ queue' = Append(queue, N)
      /\ up' = up /\ lost' = lost /\ judging' = judging /\ granted' = granted
      /\ handled' = handled /\ working' = working /\ answers' = answers
  BY DEF RQ!AddRequest, RQ!server
<1>2. N \notin Placed
  <2>1. PICK n \in 0..MaxIds : InUse(n) /\ N = n + 1
    BY NextIdIs DEF RqInv
  <2>2. owner[N] = 0
    BY <1>1, <2>1, BoundsAreNumbers DEF InUse
  <2>3. QED
    BY <2>2 DEF RqInv, PlacedWaits
<1> HIDE DEF N
<1>3. /\ RQ!Sent' = RQ!Sent /\ RQ!Judged' = RQ!Judged /\ RQ!Answering' = RQ!Answering
  BY <1>1 DEF RQ!Sent, RQ!Judged, RQ!Answering
<1>4. RQ!Queued' = RQ!Queued \cup {N}
  <2>1. queue \in Seq(RQ!Ids)
    BY DEF RqInv, RqShape
  <2>2. QED
    BY <1>1, <2>1, AppendedElements DEF RQ!Queued
<1>5. PlacesApart'
  BY <1>1, <1>2, <1>3, <1>4 DEF RqInv, PlacesApart, Apart, Placed, RQ!Ids
<1>6. Placed' = (Placed \ G) \cup {N}
  <2>1. \A i \in G : i \in RQ!Ids /\ i \in renewing
    BY DEF RqInv, RqShape
  <2>2. \A i \in G : i \notin RQ!Queued \cup RQ!Sent \cup RQ!Judged \cup working
                          \cup RQ!Answering \cup lost
    BY <2>1 DEF RqInv, PlacesApart, Apart
  <2>3. QED
    BY <1>1, <1>3, <1>4, <2>1, <2>2 DEF Placed
<1>7. BatchesApart' /\ OneAnswer' /\ RQ!OnlyGrantedHandled'
  BY <1>1 DEF RqInv, BatchesApart, OneAnswer, RQ!OnlyGrantedHandled, RQ!Ids
<1>8. /\ IdsInOrder' /\ PlacedWaits' /\ WaitingIsPlaced' /\ SettledOnce'
      /\ owner' \in [RQ!Ids -> Callers \cup {0}]
      /\ callback' \subseteq RQ!Ids
  BY <1>1, <1>6, OneComes DEF N
<1>9. RqShape'
  <2>1. queue' \in Seq(RQ!Ids)
    BY <1>1 DEF RqInv, RqShape
  <2>2. QED
    BY <1>1, <1>8, <2>1 DEF RqInv, RqShape, RQ!Ids
<1>10. QED
  BY <1>5, <1>7, <1>8, <1>9 DEF RqInv

\* A caller asks for the first time.
LEMMA CallOK == ASSUME RqInv, NEW c \in Callers, NEW k, RQ!Call(c, k) PROVE RqInv'
<1> DEFINE none == {}
<1>1. /\ \A i \in RQ!Ids : owner[i] # c
      /\ RQ!AddRequest(c, k) /\ settled' = settled
      /\ renewing' = renewing \ none
      /\ UNCHANGED <<RQ!server, up, answers, lost>>
  BY DEF RQ!Call, RQ!renewal
<1>2. settled[c] = 0
  BY <1>1 DEF RqInv, SettledOnce
<1>3. \A j \in Placed \ none : owner[j] # c
  BY <1>1 DEF RqInv, PlacedWaits
<1>4. none \subseteq renewing /\ \A j \in none : owner[j] = c
  OBVIOUS
<1> HIDE DEF none
<1>5. QED
  BY <1>1, <1>2, <1>3, <1>4, AddedOK

\* The request is made again with the new token.
LEMMA RenewedOK == ASSUME RqInv, NEW i \in RQ!Ids, RQ!Renewed(i) PROVE RqInv'
<1> DEFINE c == owner[i]
<1>1. /\ i \in renewing /\ renewing' = renewing \ {i}
      /\ RQ!AddRequest(c, kind[i]) /\ settled' = settled
      /\ UNCHANGED <<RQ!server, up, answers, lost>>
  BY DEF RQ!Renewed
<1>2. i \in Placed
  BY <1>1 DEF Placed
<1>3. /\ c \in Callers /\ settled[c] = 0
      /\ \A j \in Placed : owner[j] = c => j = i
  BY <1>2 DEF RqInv, PlacedWaits, RqShape
<1>4. /\ {i} \subseteq renewing /\ \A j \in {i} : owner[j] = c
      /\ \A j \in Placed \ {i} : owner[j] # c
  BY <1>1, <1>3
<1> HIDE DEF c
<1>5. QED
  BY <1>1, <1>3, <1>4, AddedOK

\* All steps together.
LEMMA RqInvHolds == Spec => []RqInv
<1>1. RQ!Init => RqInv
  <2> SUFFICES ASSUME RQ!Init PROVE RqInv
    OBVIOUS
  <2>1. /\ owner = [i \in RQ!Ids |-> 0] /\ callback = {} /\ queue = <<>> /\ up = <<>>
        /\ judging = {} /\ handled = {} /\ working = {} /\ answers = {}
        /\ renewing = {} /\ lost = {} /\ settled = [c \in Callers |-> 0]
    BY DEF RQ!Init
  <2>2. RqShape
    <3>1. <<>> \in Seq(RQ!Ids) /\ <<>> \in Seq(Seq(RQ!Ids))
      OBVIOUS
    <3>2. QED
      BY <2>1, <3>1 DEF RqShape
  <2>3. /\ RQ!Queued = {} /\ RQ!Sent = {} /\ RQ!Judged = {} /\ RQ!Answering = {}
    BY <2>1, NoElements DEF RQ!Queued, RQ!Sent, RQ!Judged, RQ!Answering
  <2>4. Placed = {}
    BY <2>1, <2>3 DEF Placed
  <2>5. PlacesApart
    BY <2>1, <2>3 DEF PlacesApart, Apart
  <2>6. BatchesApart
    <3>1. Len(<<>>) = 0
      OBVIOUS
    <3>2. QED
      BY <2>1, <3>1 DEF BatchesApart
  <2>7. \A i \in RQ!Ids : owner[i] = 0
    BY <2>1
  <2>8. IdsInOrder
    <3>1. 0 \in 0..MaxIds /\ \A i \in RQ!Ids : ~(i <= 0)
      BY BoundsAreNumbers DEF RQ!Ids
    <3>2. QED
      BY <2>7, <3>1 DEF IdsInOrder, InUse
  <2>9. OneAnswer /\ PlacedWaits /\ WaitingIsPlaced /\ SettledOnce /\ RQ!OnlyGrantedHandled
    BY <2>1, <2>4, <2>7
       DEF OneAnswer, PlacedWaits, WaitingIsPlaced, SettledOnce, RQ!OnlyGrantedHandled
  <2>10. QED
    BY <2>2, <2>5, <2>6, <2>8, <2>9 DEF RqInv
<1>2. RqInv /\ [RQ!Next]_(RQ!vars) => RqInv'
  <2> SUFFICES ASSUME RqInv, [RQ!Next]_(RQ!vars) PROVE RqInv'
    OBVIOUS
  <2>1. CASE RQ!SomeJudged
    <3>1. PICK b \in judging, why \in {"settled", "expired"} :
              \E refused \in SUBSET RQ!ToSet(b) : RQ!Judge(b, refused, why)
      BY <2>1, Zenon DEF RQ!SomeJudged
    <3>2. PICK refused \in SUBSET RQ!ToSet(b) : RQ!Judge(b, refused, why)
      BY <3>1, Zenon
    <3>3. QED
      BY <3>2, JudgeOK
  <2>2. CASE \E renewals \in SUBSET renewing : RQ!Disconnect(renewals)
    BY <2>2, DisconnectOK
  <2>3. CASE \E c \in Callers, k \in RQ!Kinds : RQ!Call(c, k)
    BY <2>3, CallOK
  <2>4. CASE RQ!SomeHandled \/ RQ!SomeAnswered \/ RQ!SomeRenewed
    BY <2>4, HandledOK, AnsweredOK, RenewedOK, NotRenewedOK
       DEF RQ!SomeHandled, RQ!SomeAnswered, RQ!SomeRenewed
  <2>5. QED
    BY <2>1, <2>2, <2>3, <2>4, DrainOK, ReceiveOK, StillOK DEF RQ!Next
<1>3. QED
  BY <1>1, <1>2, RequestsPart, PTL DEF Spec

\* No handler is called for a refused request, however many of a batch are
\* refused: authorize() takes each out by its place, corrected for those that
\* went before, and what is left are the granted ones (authorize.ts, for
\* batches of any length).
THEOREM RefusedAreNotHandled == Spec => []OnlyGrantedHandled
<1>1. RqInv => OnlyGrantedHandled
  BY DEF RqInv, OnlyGrantedHandled
<1>2. QED
  BY <1>1, RqInvHolds, PTL

\* For any number of callers, whatever is refused, lost with a connection or
\* made again under another id for a new token: a request whose caller waits
\* is in one place, and no promise is settled twice (request.ts, Client.onData).
THEOREM RequestsStayAccounted == Spec => []RequestAccounted
<1> SUFFICES RqInv => RequestAccounted
  BY RqInvHolds, PTL
<1> SUFFICES ASSUME RqInv PROVE RequestAccounted
  OBVIOUS
<1> DEFINE P == RQ!Places
<1>1. /\ DOMAIN P = 1..7
      /\ P[1] = RQ!Queued /\ P[2] = RQ!Sent /\ P[3] = RQ!Judged /\ P[4] = working
      /\ P[5] = RQ!Answering /\ P[6] = renewing /\ P[7] = lost
  BY DEF RQ!Places
<1> HIDE DEF P
<1>2. \A q \in 1..7 : q = 1 \/ q = 2 \/ q = 3 \/ q = 4 \/ q = 5 \/ q = 6 \/ q = 7
  OBVIOUS
<1>3. \A i : i \in Placed => \E q \in DOMAIN P : i \in P[q]
  <2>1. \A q \in {1, 2, 3, 4, 5, 6, 7} : q \in DOMAIN P
    BY <1>1
  <2>2. QED
    BY <1>1, <2>1 DEF Placed
<1>4. ASSUME NEW i \in RQ!Ids, NEW p \in DOMAIN P, NEW q \in DOMAIN P, i \in P[p] \cap P[q]
      PROVE  p = q
  <2>1. Apart(P[1], P[2], P[3], P[4], P[5], P[6], P[7])
    BY <1>1, Zenon DEF RqInv, PlacesApart
  <2>2. p \in 1..7 /\ q \in 1..7
    BY <1>1
  <2>3. QED
    BY <1>2, <1>4, <2>1, <2>2 DEF Apart
<1>5. QED
  BY <1>3, <1>4 DEF RqInv, WaitingIsPlaced, SettledOnce, RequestAccounted, RQ!RequestAccounted, P
===============================================================================
