------------------------- MODULE DigestContentProofs -------------------------
(***************************************************************************)
(* Proofs about DigestContent, for any chats, rows, limits and answers.    *)
(*                                                                         *)
(* A recursive function over a sequence is followed position by position:  *)
(* what holds at 0 and goes on to the next position holds at all of them   *)
(* (Induction), and such a function has the values its equation says       *)
(* (Walk).  From it come the positions a selection takes, the keys of a    *)
(* dict, sums, limits and chunks.                                          *)
(*                                                                         *)
(* The content: a part refers to messages of its own chats only, whoever   *)
(* made it; each function of the pipeline then keeps or completes what is  *)
(* whole already (SectionIsWhole, Routed).                                 *)
(*                                                                         *)
(* The counts: what is observed of an answer adds up, the parts keep it,   *)
(* and so do their sums.                                                   *)
(*                                                                         *)
(* The loss: a chat is in one part only, which has one item of it unless   *)
(* it fell back on a renamed chat; so only this can make line 661 raise.   *)
(***************************************************************************)
EXTENDS DigestContent, FiniteSetTheorems, WellFoundedInduction, TLAPS

------------------------------------------------------------------------------
\* Walking along a sequence.

\* A set of positions that holds 0 and with each position the next one holds all of them.
LEMMA Induction ==
    ASSUME NEW n \in Nat, NEW S, 0 \in S, \A i \in 1..n : i - 1 \in S => i \in S
    PROVE  0..n \subseteq S
  <1> SUFFICES ASSUME (0..n) \ S # {} PROVE FALSE
    OBVIOUS
  <1> DEFINE T == (0..n) \ S
  <1>1. T \subseteq Nat /\ T # {}
    OBVIOUS
  <1>2. PICK i \in T : \A j \in T : ~(<<j, i>> \in OpToRel(<, Nat))
    <2> HIDE DEF T
    <2> QED
      BY <1>1, NatLessThanWellFounded, WFMin
  <1>3. \A j \in T : ~(j < i)
    BY <1>1, <1>2 DEF OpToRel
  <1>4. i \in 1..n /\ i \notin S
    <2>1. i \in 0..n /\ i \notin S
      OBVIOUS
    <2>2. i # 0
      BY <2>1
    <2>3. QED
      BY <2>1, <2>2
  <1>5. i - 1 \in S
    <2>1. i - 1 \in 0..n /\ i - 1 < i
      BY <1>4
    <2>2. QED
      BY <1>3, <2>1
  <1>6. QED
    BY <1>4, <1>5

\* A value that is carried along a sequence, one step for each element.
Walked(f, n, T, e, nxt) ==
    f \in [0..n -> T] /\ f[0] = e /\ \A i \in 1..n : f[i] = nxt[i][f[i - 1]]

LEMMA Walk ==
    ASSUME NEW n \in Nat, NEW T, NEW e \in T, NEW nxt \in [1..n -> [T -> T]]
    PROVE  \E f : Walked(f, n, T, e, nxt)
  <1> DEFINE S == {m \in 0..n : \E f \in [0..m -> T] :
                     f[0] = e /\ \A i \in 1..m : f[i] = nxt[i][f[i - 1]]}
  <1>1. 0 \in S
    <2>1. [i \in 0..0 |-> e] \in [0..0 -> T]
      OBVIOUS
    <2>2. \E f \in [0..0 -> T] : f[0] = e /\ \A i \in 1..0 : f[i] = nxt[i][f[i - 1]]
      <3> WITNESS [i \in 0..0 |-> e] \in [0..0 -> T]
      <3> QED
        OBVIOUS
    <2>3. QED
      BY <2>2
  <1>2. ASSUME NEW m \in 1..n, m - 1 \in S PROVE m \in S
    <2>1. PICK f \in [0..(m - 1) -> T] :
            f[0] = e /\ \A i \in 1..(m - 1) : f[i] = nxt[i][f[i - 1]]
      BY <1>2
    <2> DEFINE g == [i \in 0..m |-> IF i < m THEN f[i] ELSE nxt[m][f[m - 1]]]
    <2>2. f[m - 1] \in T /\ nxt[m][f[m - 1]] \in T
      BY <2>1
    <2>3. g \in [0..m -> T]
      BY <2>1, <2>2
    <2>4. g[0] = e
      BY <2>1
    <2>5. ASSUME NEW i \in 1..m PROVE g[i] = nxt[i][g[i - 1]]
      <3>1. i \in 0..m /\ i - 1 \in 0..m /\ i - 1 < m
        OBVIOUS
      <3>2. g[i - 1] = f[i - 1]
        BY <3>1
      <3>3. CASE i < m
        BY <3>1, <3>2, <3>3, <2>1
      <3>4. CASE i = m
        BY <3>1, <3>2, <3>4
      <3>5. QED
        BY <3>3, <3>4
    <2>6. \E h \in [0..m -> T] : h[0] = e /\ \A i \in 1..m : h[i] = nxt[i][h[i - 1]]
      <3> HIDE DEF g
      <3> QED
        BY <2>3, <2>4, <2>5
    <2>7. m \in 0..n
      OBVIOUS
    <2>8. QED
      BY <2>6, <2>7
  <1>3. 0..n \subseteq S
    <2> HIDE DEF S
    <2> QED
      BY <1>1, <1>2, Induction
  <1>4. n \in S
    <2> HIDE DEF S
    <2> QED
      BY <1>3
  <1>5. QED
    BY <1>4 DEF Walked

\* What At has taken when it is at each position.
TakesAt(got, X, s, I) ==
    /\ got \in [0..Len(s) -> Seq(X)]
    /\ got[0] = <<>>
    /\ \A i \in 1..Len(s) : got[i] = IF i \in I THEN Append(got[i - 1], s[i]) ELSE got[i - 1]
    /\ At(s, I) = got[Len(s)]

LEMMA AtWalk ==
    ASSUME NEW X, NEW s \in Seq(X), NEW I
    PROVE  \E got : TakesAt(got, X, s, I)
  <1> DEFINE P(g) == g = [i \in 0..Len(s) |->
                IF i = 0 THEN <<>> ELSE IF i \in I THEN Append(g[i - 1], s[i]) ELSE g[i - 1]]
             nxt == [i \in 1..Len(s) |-> [acc \in Seq(X) |->
                        IF i \in I THEN Append(acc, s[i]) ELSE acc]]
             got == CHOOSE g : P(g)
  <1>1. nxt \in [1..Len(s) -> [Seq(X) -> Seq(X)]]
    OBVIOUS
  <1>2. PICK f \in [0..Len(s) -> Seq(X)] :
          f[0] = <<>> /\ \A i \in 1..Len(s) : f[i] = nxt[i][f[i - 1]]
    <2> DEFINE n == Len(s)
               T == Seq(X)
               e == <<>>
    <2>1. n \in Nat /\ e \in T /\ nxt \in [1..n -> [T -> T]]
      BY <1>1
    <2>2. \E f : Walked(f, n, T, e, nxt)
      <3> HIDE DEF nxt, P, got, n, T, e
      <3> QED
        BY <2>1, Walk
    <2>3. QED
      BY <2>2 DEF Walked
  <1>3. ASSUME NEW i \in 1..Len(s)
        PROVE  f[i] = IF i \in I THEN Append(f[i - 1], s[i]) ELSE f[i - 1]
    <2>1. i - 1 \in 0..Len(s)
      OBVIOUS
    <2>2. f[i - 1] \in Seq(X)
      BY <2>1
    <2> HIDE DEF P, got
    <2> QED
      BY <1>2, <2>2
  <1>4. P(f)
    <2> HIDE DEF nxt, got
    <2>1. ASSUME NEW i \in 0..Len(s)
          PROVE  f[i] =
            IF i = 0 THEN <<>> ELSE IF i \in I THEN Append(f[i - 1], s[i]) ELSE f[i - 1]
      <3>1. CASE i = 0
        BY <1>2, <3>1
      <3>2. CASE i # 0
        <4>1. i \in 1..Len(s)
          BY <3>2
        <4>2. QED
          BY <1>3, <3>2, <4>1
      <3>3. QED
        BY <3>1, <3>2
    <2>2. f = [i \in 0..Len(s) |-> f[i]]
      OBVIOUS
    <2>3. QED
      BY <2>1, <2>2
  <1>5. P(got)
    <2> HIDE DEF P, nxt
    <2> QED
      BY <1>4 DEF got
  <1>6. At(s, I) = got[Len(s)]
    BY DEF At
  <1> HIDE DEF got
  <1>7. \A i \in 0..Len(s) : got[i] =
          IF i = 0 THEN <<>> ELSE IF i \in I THEN Append(got[i - 1], s[i]) ELSE got[i - 1]
    BY <1>5
  <1> HIDE DEF P, nxt
  <1> DEFINE S == {i \in 0..Len(s) : got[i] = f[i]}
  <1>8. 0..Len(s) \subseteq S
    <2>1. 0 \in S
      BY <1>2, <1>7
    <2>2. ASSUME NEW i \in 1..Len(s), i - 1 \in S PROVE i \in S
      BY <1>3, <1>7, <2>2
    <2>3. Len(s) \in Nat
      OBVIOUS
    <2> HIDE DEF S
    <2> QED
      BY <2>1, <2>2, <2>3, Induction
  <1>9. At(s, I) = f[Len(s)]
    BY <1>6, <1>8
  <1>10. QED
    BY <1>2, <1>3, <1>9 DEF TakesAt

\* The position in s of each element of t.
Origins(h, t, s, I) ==
    /\ h \in [1..Len(t) -> I \cap 1..Len(s)]
    /\ \A j, k \in 1..Len(t) : j < k => h[j] < h[k]
    /\ \A i \in I \cap 1..Len(s) : \E k \in 1..Len(t) : h[k] = i
    /\ \A k \in 1..Len(t) : t[k] = s[h[k]]

\* At takes the elements at the positions of I, each once and in their order.
LEMMA AtPlaces ==
    ASSUME NEW X, NEW s \in Seq(X), NEW I
    PROVE  /\ At(s, I) \in Seq(X)
           /\ \E h : Origins(h, At(s, I), s, I)
  <1>1. PICK got : TakesAt(got, X, s, I)
    BY AtWalk
  <1> USE DEF TakesAt
  <1> DEFINE Good(m, h) ==
               /\ \A j, k \in 1..Len(got[m]) : j < k => h[j] < h[k]
               /\ \A i \in I \cap 1..m : \E k \in 1..Len(got[m]) : h[k] = i
               /\ \A k \in 1..Len(got[m]) : got[m][k] = s[h[k]]
             S == {m \in 0..Len(s) : \E h \in [1..Len(got[m]) -> I \cap 1..m] : Good(m, h)}
  <1>2. 0 \in S
    <2>1. Len(got[0]) = 0
      BY <1>1
    <2> DEFINE h == [k \in 1..Len(got[0]) |-> 0]
    <2>2. h \in [1..Len(got[0]) -> I \cap 1..0]
      BY <2>1
    <2>3. Good(0, h)
      BY <2>1
    <2>4. QED
      BY <2>2, <2>3
  <1>3. ASSUME NEW m \in 1..Len(s), m - 1 \in S PROVE m \in S
    <2>1. PICK h \in [1..Len(got[m - 1]) -> I \cap 1..(m - 1)] : Good(m - 1, h)
      BY <1>3
    <2>2. m - 1 \in 0..Len(s) /\ m \in 0..Len(s) /\ got[m - 1] \in Seq(X)
      BY <1>1
    <2>3. CASE m \notin I
      <3>1. got[m] = got[m - 1] /\ I \cap 1..m = I \cap 1..(m - 1)
        BY <1>1, <2>3
      <3>2. h \in [1..Len(got[m]) -> I \cap 1..m] /\ Good(m, h)
        BY <2>1, <3>1
      <3>3. QED
        BY <2>2, <3>2
    <2>4. CASE m \in I
      <3> DEFINE l == Len(got[m - 1])
                 g == [k \in 1..(l + 1) |-> IF k = l + 1 THEN m ELSE h[k]]
      <3>1. l \in Nat /\ s[m] \in X
        BY <2>2
      <3>2. got[m] = Append(got[m - 1], s[m])
        BY <1>1, <2>4
      <3>3. /\ Len(got[m]) = l + 1 /\ got[m][l + 1] = s[m]
            /\ \A k \in 1..l : got[m][k] = got[m - 1][k]
        BY <3>1, <3>2, <2>2
      <3>4. \A k \in 1..l : h[k] \in I \cap 1..(m - 1) /\ g[k] = h[k] /\ k \in 1..(l + 1)
        BY <3>1
      <3>5. l + 1 \in 1..(l + 1) /\ g[l + 1] = m
        BY <3>1
      <3>6. \A k \in 1..(l + 1) : k = l + 1 \/ k \in 1..l
        BY <3>1
      <3> HIDE DEF g, l
      <3>7. \A k \in 1..(l + 1) : g[k] \in I \cap 1..m
        BY <2>4, <3>4, <3>5, <3>6
      <3>8. g \in [1..Len(got[m]) -> I \cap 1..m]
        <4>1. g = [k \in 1..(l + 1) |-> g[k]]
          BY DEF g
        <4>2. QED
          BY <3>3, <3>7, <4>1
      <3>9. \A j, k \in 1..Len(got[m]) : j < k => g[j] < g[k]
        <4> SUFFICES ASSUME NEW j \in 1..(l + 1), NEW k \in 1..(l + 1), j < k
                     PROVE  g[j] < g[k]
          BY <3>3
        <4>1. j \in 1..l
          BY <3>1
        <4>2. CASE k = l + 1
          BY <4>1, <4>2, <3>4, <3>5
        <4>3. CASE k \in 1..l
          BY <4>1, <4>3, <3>4, <2>1 DEF l
        <4>4. QED
          BY <3>6, <4>2, <4>3
      <3>10. \A i \in I \cap 1..m : \E k \in 1..Len(got[m]) : g[k] = i
        <4> SUFFICES ASSUME NEW i \in I \cap 1..m PROVE \E k \in 1..(l + 1) : g[k] = i
          BY <3>3
        <4>1. CASE i = m
          BY <4>1, <3>5
        <4>2. CASE i \in I \cap 1..(m - 1)
          <5>1. PICK k \in 1..l : h[k] = i
            BY <4>2, <2>1 DEF l
          <5>2. QED
            BY <5>1, <3>4
        <4>3. QED
          BY <4>1, <4>2
      <3>11. \A k \in 1..Len(got[m]) : got[m][k] = s[g[k]]
        <4> SUFFICES ASSUME NEW k \in 1..(l + 1) PROVE got[m][k] = s[g[k]]
          BY <3>3
        <4>1. CASE k = l + 1
          BY <4>1, <3>3, <3>5
        <4>2. CASE k \in 1..l
          BY <4>2, <3>3, <3>4, <2>1 DEF l
        <4>3. QED
          BY <3>6, <4>1, <4>2
      <3>12. Good(m, g)
        BY <3>9, <3>10, <3>11
      <3>13. QED
        BY <2>2, <3>8, <3>12
    <2>5. QED
      BY <2>3, <2>4
  <1>4. Len(s) \in S
    <2>1. Len(s) \in Nat
      OBVIOUS
    <2>2. 0..Len(s) \subseteq S
      <3> HIDE DEF S
      <3> QED
        BY <1>2, <1>3, <2>1, Induction
    <2>3. QED
      <3> HIDE DEF S
      <3> QED
        BY <2>1, <2>2
  <1>5. PICK h \in [1..Len(got[Len(s)]) -> I \cap 1..Len(s)] : Good(Len(s), h)
    BY <1>4
  <1>6. got[Len(s)] \in Seq(X)
    BY <1>1
  <1>7. Origins(h, got[Len(s)], s, I)
    BY <1>5 DEF Origins
  <1>8. QED
    BY <1>1, <1>6, <1>7

------------------------------------------------------------------------------
\* What the operators on sequences select.

\* At selects the elements at the positions of I.
LEMMA AtElements ==
    ASSUME NEW X, NEW s \in Seq(X), NEW I
    PROVE  /\ At(s, I) \in Seq(X)
           /\ ToSet(At(s, I)) = {s[i] : i \in I \cap DOMAIN s}
  <1>1. PICK h : Origins(h, At(s, I), s, I)
    BY AtPlaces
  <1>2. At(s, I) \in Seq(X)
    BY AtPlaces
  <1>3. DOMAIN s = 1..Len(s) /\ DOMAIN At(s, I) = 1..Len(At(s, I))
    BY <1>2
  <1>4. \A k \in DOMAIN At(s, I) : h[k] \in I \cap DOMAIN s /\ At(s, I)[k] = s[h[k]]
    BY <1>1, <1>3 DEF Origins
  <1>5. \A i \in I \cap DOMAIN s : \E k \in DOMAIN At(s, I) : At(s, I)[k] = s[i]
    BY <1>1, <1>3 DEF Origins
  <1>6. ToSet(At(s, I)) = {At(s, I)[k] : k \in DOMAIN At(s, I)}
    BY DEF ToSet
  <1>7. QED
    BY <1>2, <1>4, <1>5, <1>6

\* At repeats no element if s has none twice at the positions of I.
LEMMA AtDistinct ==
    ASSUME NEW X, NEW s \in Seq(X), NEW I,
           \A i, j \in I \cap DOMAIN s : s[i] = s[j] => i = j
    PROVE  \A j, k \in DOMAIN At(s, I) : At(s, I)[j] = At(s, I)[k] => j = k
  <1>1. PICK h : Origins(h, At(s, I), s, I)
    BY AtPlaces
  <1>2. DOMAIN s = 1..Len(s) /\ DOMAIN At(s, I) = 1..Len(At(s, I))
    BY AtPlaces
  <1>3. \A k \in DOMAIN At(s, I) : h[k] \in I \cap DOMAIN s /\ At(s, I)[k] = s[h[k]]
    BY <1>1, <1>2 DEF Origins
  <1>4. ASSUME NEW j \in DOMAIN At(s, I), NEW k \in DOMAIN At(s, I), h[j] = h[k]
        PROVE  j = k
    <2>1. j \in 1..Len(At(s, I)) /\ k \in 1..Len(At(s, I)) /\ j \in Int /\ k \in Int
      BY <1>2
    <2>2. h[j] \in Int /\ h[k] \in Int /\ ~(h[j] < h[k]) /\ ~(h[k] < h[j])
      BY <1>2, <1>3, <1>4
    <2>3. ~(j < k) /\ ~(k < j)
      BY <1>1, <2>1, <2>2 DEF Origins
    <2>4. QED
      BY <2>1, <2>3
  <1>5. QED
    BY <1>3, <1>4

\* Every element of a sequence stands somewhere for the first time.
LEMMA FirstsCover ==
    ASSUME NEW X, NEW s \in Seq(X)
    PROVE  \A i \in DOMAIN s : \E j \in Firsts(s) : s[j] = s[i]
  <1> DEFINE S == {m \in 0..Len(s) : \A i \in 1..m : \E j \in Firsts(s) : s[j] = s[i]}
  <1>1. DOMAIN s = 1..Len(s) /\ Len(s) \in Nat
    OBVIOUS
  <1>2. 0 \in S
    BY <1>1
  <1>3. ASSUME NEW m \in 1..Len(s), m - 1 \in S PROVE m \in S
    <2>1. \A i \in 1..(m - 1) : \E j \in Firsts(s) : s[j] = s[i]
      BY <1>3
    <2>2. \E j \in Firsts(s) : s[j] = s[m]
      <3>1. CASE m \in Firsts(s)
        BY <3>1
      <3>2. CASE m \notin Firsts(s)
        <4>1. PICK i \in 1..(m - 1) : s[i] = s[m]
          BY <3>2, <1>1 DEF Firsts
        <4>2. QED
          BY <2>1, <4>1
      <3>3. QED
        BY <3>1, <3>2
    <2>3. \A i \in 1..m : i = m \/ i \in 1..(m - 1)
      OBVIOUS
    <2>4. QED
      BY <1>1, <2>1, <2>2, <2>3
  <1>4. 0..Len(s) \subseteq S
    <2> HIDE DEF S
    <2> QED
      BY <1>1, <1>2, <1>3, Induction
  <1>5. Len(s) \in S
    <2> HIDE DEF S
    <2> QED
      BY <1>1, <1>4
  <1>6. QED
    BY <1>1, <1>5

\* The keys of a dict are the elements of the sequence, each once.
LEMMA KeysElements ==
    ASSUME NEW X, NEW s \in Seq(X)
    PROVE  /\ Keys(s) \in Seq(X)
           /\ ToSet(Keys(s)) = ToSet(s)
           /\ \A j, k \in DOMAIN Keys(s) : Keys(s)[j] = Keys(s)[k] => j = k
  <1>1. Firsts(s) \subseteq DOMAIN s
    BY DEF Firsts
  <1>2. Keys(s) \in Seq(X) /\ ToSet(Keys(s)) = {s[i] : i \in Firsts(s) \cap DOMAIN s}
    BY AtElements DEF Keys
  <1>3. ToSet(Keys(s)) = ToSet(s)
    BY <1>1, <1>2, FirstsCover DEF ToSet
  <1>4. \A i, j \in Firsts(s) \cap DOMAIN s : s[i] = s[j] => i = j
    <2> SUFFICES ASSUME NEW i \in Firsts(s), NEW j \in Firsts(s), s[i] = s[j] PROVE i = j
      OBVIOUS
    <2>1. i \in 1..Len(s) /\ j \in 1..Len(s)
      BY <1>1
    <2>2. i \notin 1..(j - 1) /\ j \notin 1..(i - 1)
      BY DEF Firsts
    <2>3. QED
      BY <2>1, <2>2
  <1>5. QED
    BY <1>2, <1>3, <1>4, AtDistinct DEF Keys

\* The rows of a run: messages with ids of their own.
Row ==
    [id : Nat, chat : Chats, title : Nat, size : Nat, media : BOOLEAN, urgent : BOOLEAN,
     wanted : BOOLEAN]

Rows(s) == s \in Seq(Row) /\ \A i, j \in DOMAIN s : s[i].id = s[j].id => i = j

LEMMA IdsOf ==
    ASSUME NEW s
    PROVE  Ids(s) = {r.id : r \in ToSet(s)}
  BY DEF Ids, ToSet

LEMMA OfElements ==
    ASSUME NEW X, NEW s \in Seq(X), NEW c
    PROVE  Of(s, c) \in Seq(X) /\ ToSet(Of(s, c)) = {r \in ToSet(s) : r.chat = c}
  <1> DEFINE I == {i \in DOMAIN s : s[i].chat = c}
  <1>1. Of(s, c) = At(s, I)
    BY DEF Of
  <1>2. At(s, I) \in Seq(X) /\ ToSet(At(s, I)) = {s[i] : i \in I \cap DOMAIN s}
    <2> HIDE DEF I
    <2> QED
      BY AtElements
  <1>3. QED
    BY <1>1, <1>2 DEF ToSet

LEMMA TitledElements ==
    ASSUME NEW X, NEW s \in Seq(X), NEW g
    PROVE  /\ Titled(s, g) \in Seq(X)
           /\ ToSet(Titled(s, g)) = {r \in ToSet(s) : <<r.chat, r.title>> = g}
  <1> DEFINE I == {i \in DOMAIN s : <<s[i].chat, s[i].title>> = g}
  <1>1. Titled(s, g) = At(s, I)
    BY DEF Titled
  <1>2. At(s, I) \in Seq(X) /\ ToSet(At(s, I)) = {s[i] : i \in I \cap DOMAIN s}
    <2> HIDE DEF I
    <2> QED
      BY AtElements
  <1>3. QED
    BY <1>1, <1>2 DEF ToSet

LEMMA MediaElements ==
    ASSUME NEW X, NEW s \in Seq(X)
    PROVE  Media(s) \in Seq(X) /\ ToSet(Media(s)) = {r \in ToSet(s) : r.media}
  <1> DEFINE I == {i \in DOMAIN s : s[i].media}
  <1>1. Media(s) = At(s, I)
    BY DEF Media
  <1>2. At(s, I) \in Seq(X) /\ ToSet(At(s, I)) = {s[i] : i \in I \cap DOMAIN s}
    <2> HIDE DEF I
    <2> QED
      BY AtElements
  <1>3. QED
    BY <1>1, <1>2 DEF ToSet

LEMMA UrgentElements ==
    ASSUME NEW X, NEW s \in Seq(X)
    PROVE  Urgent(s) \in Seq(X) /\ ToSet(Urgent(s)) = {r \in ToSet(s) : r.urgent}
  <1> DEFINE I == {i \in DOMAIN s : s[i].urgent}
  <1>1. Urgent(s) = At(s, I)
    BY DEF Urgent
  <1>2. At(s, I) \in Seq(X) /\ ToSet(At(s, I)) = {s[i] : i \in I \cap DOMAIN s}
    <2> HIDE DEF I
    <2> QED
      BY AtElements
  <1>3. QED
    BY <1>1, <1>2 DEF ToSet

\* The chats of a sequence of records, each once.
LEMMA ChatsOfElements ==
    ASSUME NEW X, NEW s \in Seq(X), NEW Y, \A r \in X : r.chat \in Y
    PROVE  /\ ChatsOf(s) \in Seq(Y)
           /\ ToSet(ChatsOf(s)) = {r.chat : r \in ToSet(s)}
           /\ \A j, k \in DOMAIN ChatsOf(s) : ChatsOf(s)[j] = ChatsOf(s)[k] => j = k
  <1>1. ChatSeq(s) \in Seq(Y)
    BY DEF ChatSeq
  <1>2. ToSet(ChatSeq(s)) = {r.chat : r \in ToSet(s)}
    BY DEF ChatSeq, ToSet
  <1>3. QED
    BY <1>1, <1>2, KeysElements DEF ChatsOf

\* The titles of a sequence of rows, each once.
LEMMA TitlesOfElements ==
    ASSUME NEW s \in Seq(Row)
    PROVE  /\ TitlesOf(s) \in Seq(Chats \X Nat)
           /\ ToSet(TitlesOf(s)) = {<<r.chat, r.title>> : r \in ToSet(s)}
           /\ \A j, k \in DOMAIN TitlesOf(s) : TitlesOf(s)[j] = TitlesOf(s)[k] => j = k
  <1> DEFINE g == [i \in DOMAIN s |-> <<s[i].chat, s[i].title>>]
  <1>1. g \in Seq(Chats \X Nat)
    <2>1. \A i \in DOMAIN s : s[i] \in Row
      OBVIOUS
    <2>2. \A i \in DOMAIN s : g[i] \in Chats \X Nat
      BY <2>1 DEF Row
    <2>3. DOMAIN g = 1..Len(s) /\ Len(s) \in Nat
      OBVIOUS
    <2>4. QED
      BY <2>2, <2>3
  <1>2. ToSet(g) = {<<r.chat, r.title>> : r \in ToSet(s)}
    BY DEF ToSet
  <1>3. TitlesOf(s) = Keys(g)
    BY DEF TitlesOf
  <1>4. QED
    <2> HIDE DEF g
    <2> QED
      BY <1>1, <1>2, <1>3, KeysElements

\* What At leaves of the rows of a run are the rows of a run.
LEMMA RowsAt ==
    ASSUME NEW s, Rows(s), NEW I
    PROVE  Rows(At(s, I))
  <1>1. s \in Seq(Row)
    BY DEF Rows
  <1>2. At(s, I) \in Seq(Row)
    BY <1>1, AtElements
  <1>3. PICK h : Origins(h, At(s, I), s, I)
    BY <1>1, AtPlaces
  <1>4. \A i, j \in I \cap DOMAIN s : s[i] = s[j] => i = j
    BY DEF Rows
  <1>5. ASSUME NEW j \in DOMAIN At(s, I), NEW k \in DOMAIN At(s, I),
               At(s, I)[j].id = At(s, I)[k].id
        PROVE  j = k
    <2>1. /\ h[j] \in DOMAIN s /\ h[k] \in DOMAIN s
          /\ At(s, I)[j] = s[h[j]] /\ At(s, I)[k] = s[h[k]]
      BY <1>1, <1>2, <1>3 DEF Origins
    <2>2. At(s, I)[j] = At(s, I)[k]
      BY <1>5, <2>1 DEF Rows
    <2>3. QED
      BY <1>1, <1>4, <2>2, AtDistinct
  <1>6. QED
    BY <1>2, <1>5 DEF Rows

\* As many ids as rows.
LEMMA CountedRows ==
    ASSUME NEW s, Rows(s)
    PROVE  Cardinality(Ids(s)) = Len(s) /\ Len(s) \in Nat
  <1> DEFINE f == [i \in 1..Len(s) |-> s[i].id]
  <1>1. s \in Seq(Row) /\ DOMAIN s = 1..Len(s) /\ Len(s) \in Nat
    BY DEF Rows
  <1>2. f \in Bijection(1..Len(s), Ids(s))
    <2>1. f \in [1..Len(s) -> Ids(s)]
      BY <1>1 DEF Ids
    <2>2. \A i, j \in 1..Len(s) : f[i] = f[j] => i = j
      BY <1>1 DEF Rows
    <2>3. \A d \in Ids(s) : \E i \in 1..Len(s) : f[i] = d
      BY <1>1 DEF Ids
    <2>4. QED
      BY <2>1, <2>2, <2>3 DEF Bijection, Injection, Surjection, IsInjective
  <1>3. IsFiniteSet(1..Len(s)) /\ Cardinality(1..Len(s)) = Len(s)
    BY <1>1, FS_Interval
  <1>4. ExistsBijection(1..Len(s), Ids(s))
    BY <1>2 DEF ExistsBijection
  <1>5. QED
    BY <1>1, <1>3, <1>4, FS_Bijection

------------------------------------------------------------------------------
\* The items of a section while it is put together.

ChatsIn(s, x) == {c \in Chats : type[c] = x /\ \E r \in ToSet(s) : r.chat = c}

\* An item of a section is about a chat of that type that has a message, and refers to
\* messages of that chat only.
ItemsIn(s, x) ==
    {item \in [chat : Chats, refs : SUBSET Ids(s), count : Nat, analyzed : {None},
               media : SUBSET Ids(s), by : {"local", "model"}] :
       item.chat \in ChatsIn(s, x) /\ item.refs \subseteq Ids(Of(s, item.chat))}

LEMMA IdsOfChat ==
    ASSUME NEW s, s \in Seq(Row), NEW c
    PROVE  /\ Ids(Of(s, c)) \subseteq Ids(s)
           /\ Ids(Of(s, c)) = {r.id : r \in {q \in ToSet(s) : q.chat = c}}
  BY OfElements, IdsOf

LEMMA MadeItem ==
    ASSUME NEW s, s \in Seq(Row), NEW x, NEW c \in ChatsIn(s, x), NEW n \in Nat,
           NEW refs, refs \subseteq Ids(Of(s, c)), NEW by \in {"local", "model"}
    PROVE  Item(c, refs, n, by) \in ItemsIn(s, x)
  <1>1. c \in Chats /\ refs \subseteq Ids(s)
    BY IdsOfChat DEF ChatsIn
  <1>2. QED
    BY <1>1 DEF Item, ItemsIn

Referring(item, refs) == [item EXCEPT !.refs = refs]
Showing(item, media) == [item EXCEPT !.media = media]

LEMMA ReferringItem ==
    ASSUME NEW s, s \in Seq(Row), NEW x, NEW item \in ItemsIn(s, x),
           NEW refs, refs \subseteq Ids(Of(s, item.chat))
    PROVE  /\ Referring(item, refs) \in ItemsIn(s, x)
           /\ Referring(item, refs).chat = item.chat
           /\ Referring(item, refs).refs = refs
  <1>1. refs \subseteq Ids(s)
    BY IdsOfChat DEF ItemsIn
  <1>2. QED
    BY <1>1 DEF ItemsIn, Referring

LEMMA IllustratedItem ==
    ASSUME NEW s, NEW x, NEW item \in ItemsIn(s, x), NEW media, media \subseteq Ids(s)
    PROVE  /\ Showing(item, media) \in ItemsIn(s, x)
           /\ Showing(item, media).chat = item.chat
           /\ Showing(item, media).refs = item.refs
           /\ Showing(item, media).media = media
  BY DEF ItemsIn, Showing

\* The media of a chat.
LEMMA MediaOfChat ==
    ASSUME NEW s, s \in Seq(Row), NEW c
    PROVE  /\ Of(Media(s), c) \in Seq(Row)
           /\ ToSet(Of(Media(s), c)) = {r \in ToSet(s) : r.media /\ r.chat = c}
  BY MediaElements, OfElements

LEMMA MediaIds ==
    ASSUME NEW s, s \in Seq(Row), NEW c, NEW g
    PROVE  Ids(Titled(Of(Media(s), c), g)) \subseteq Ids(s)
  <1>1. ToSet(Titled(Of(Media(s), c), g)) \subseteq ToSet(s)
    BY MediaOfChat, TitledElements
  <1>2. QED
    BY <1>1, IdsOf

\* Media under one title are all the media of the chat.
LEMMA MediaOfOneTitle ==
    ASSUME NEW own, own \in Seq(Row), Len(TitlesOf(own)) = 1
    PROVE  /\ own # <<>> /\ Ids(own) # {}
           /\ Ids(Titled(own, Last(TitlesOf(own)))) = Ids(own)
  <1> DEFINE g == TitlesOf(own)[1]
  <1>1. Last(TitlesOf(own)) = g
    BY DEF Last
  <1>2. ToSet(TitlesOf(own)) = {g}
    <2>1. DOMAIN TitlesOf(own) = 1..1
      BY TitlesOfElements
    <2>2. QED
      BY <2>1 DEF ToSet
  <1>3. {<<r.chat, r.title>> : r \in ToSet(own)} = {g}
    BY <1>2, TitlesOfElements
  <1>4. \A r \in ToSet(own) : <<r.chat, r.title>> = g
    BY <1>3
  <1>5. ToSet(Titled(own, g)) = ToSet(own)
    <2> HIDE DEF g
    <2>1. ToSet(Titled(own, g)) = {r \in ToSet(own) : <<r.chat, r.title>> = g}
      BY TitledElements
    <2>2. QED
      BY <1>4, <2>1
  <1>6. ToSet(own) # {}
    BY <1>3
  <1>7. own # <<>>
    BY <1>6 DEF ToSet
  <1>8. QED
    BY <1>1, <1>5, <1>6, <1>7, IdsOf

\* What an item says of the media of its chat.
Illustrated(item, s) ==
    LET own == Of(Media(s), item.chat)
    IN Len(TitlesOf(own)) = 1 => item.media = Ids(own) /\ item.media # {}

\* Attach leaves the chats and the references alone.
LEMMA Attached ==
    ASSUME NEW s, s \in Seq(Row), NEW x, NEW items \in Seq(ItemsIn(s, x))
    PROVE  /\ Attach(items, s) \in Seq(ItemsIn(s, x))
           /\ DOMAIN Attach(items, s) = DOMAIN items
           /\ \A i \in DOMAIN items :
                /\ Attach(items, s)[i].chat = items[i].chat
                /\ Attach(items, s)[i].refs = items[i].refs
                /\ Illustrated(Attach(items, s)[i], s)
  <1> DEFINE own(i) == Of(Media(s), items[i].chat)
             t == Attach(items, s)
  <1>1. t = [i \in DOMAIN items |->
               IF own(i) = <<>> THEN items[i]
               ELSE [items[i] EXCEPT !.media = Ids(Titled(own(i), Last(TitlesOf(own(i)))))]]
    BY DEF Attach
  <1>2. ASSUME NEW i \in DOMAIN items
        PROVE  /\ t[i] \in ItemsIn(s, x)
               /\ t[i].chat = items[i].chat /\ t[i].refs = items[i].refs
               /\ Illustrated(t[i], s)
    <2>1. items[i] \in ItemsIn(s, x)
      OBVIOUS
    <2>2. own(i) \in Seq(Row)
      BY MediaOfChat
    <2>3. CASE own(i) = <<>>
      <3>1. t[i] = items[i]
        BY <1>1, <2>3
      <3>2. Len(TitlesOf(own(i))) # 1
        BY <2>2, <2>3, MediaOfOneTitle
      <3>3. QED
        BY <2>1, <3>1, <3>2 DEF Illustrated
    <2>4. CASE own(i) # <<>>
      <3> DEFINE m == Ids(Titled(own(i), Last(TitlesOf(own(i)))))
      <3>1. m \subseteq Ids(s)
        BY MediaIds
      <3>2. t[i] = [items[i] EXCEPT !.media = m]
        BY <1>1, <2>4
      <3>3. /\ t[i] \in ItemsIn(s, x) /\ t[i].chat = items[i].chat
            /\ t[i].refs = items[i].refs /\ t[i].media = m
        <4>1. t[i] = Showing(items[i], m)
          BY <3>2 DEF Showing
        <4> HIDE DEF m, t
        <4>2. QED
          BY <2>1, <3>1, <4>1, IllustratedItem
      <3>4. Len(TitlesOf(own(i))) = 1 => m = Ids(own(i)) /\ m # {}
        BY <2>2, MediaOfOneTitle
      <3>5. QED
        <4> HIDE DEF m, t
        <4> QED
          BY <3>3, <3>4 DEF Illustrated
    <2>5. QED
      BY <2>3, <2>4
  <1>3. DOMAIN t = DOMAIN items
    BY <1>1
  <1>4. t \in Seq(ItemsIn(s, x))
    <2>1. DOMAIN items = 1..Len(items) /\ Len(items) \in Nat
      OBVIOUS
    <2>2. t = [i \in 1..Len(items) |-> t[i]]
      BY <1>1, <2>1
    <2>3. QED
      <3> HIDE DEF t
      <3> QED
        BY <1>2, <2>1, <2>2
  <1>5. QED
    BY <1>2, <1>3, <1>4

\* Sequences put one after the other, up to each of them.
Flattens(f, T, ss) ==
    /\ f \in [0..Len(ss) -> Seq(T)]
    /\ f[0] = <<>>
    /\ \A i \in 1..Len(ss) : f[i] = f[i - 1] \o ss[i]
    /\ FlattenSeq(ss) = f[Len(ss)]

LEMMA FlattenWalk ==
    ASSUME NEW T, NEW ss \in Seq(Seq(T))
    PROVE  \E f : Flattens(f, T, ss)
  <1> DEFINE n == Len(ss)
             Q == Seq(T)
             e == <<>>
             P(g) == g = [i \in 1..n |-> IF i = 1 THEN ss[i] ELSE g[i - 1] \o ss[i]]
             got == CHOOSE g : P(g)
             nxt == [i \in 1..n |-> [v \in Q |-> v \o ss[i]]]
  <1>1. n \in Nat /\ e \in Q /\ \A i \in 1..n : ss[i] \in Q
    OBVIOUS
  <1>2. nxt \in [1..n -> [Q -> Q]]
    <2>1. \A v \in Q : \A w \in Q : v \o w \in Q
      OBVIOUS
    <2> HIDE DEF n, P, got, Q, e
    <2> QED
      BY <1>1, <2>1
  <1>3. PICK f : Walked(f, n, Q, e, nxt)
    <2> HIDE DEF n, P, got, Q, e, nxt
    <2> QED
      BY <1>1, <1>2, Walk
  <1>4. ASSUME NEW i \in 1..n
        PROVE  f[i - 1] \in Q /\ f[i] = f[i - 1] \o ss[i]
    <2>1. i - 1 \in 0..n
      BY <1>1
    <2>2. f[i - 1] \in Q /\ f[i] = nxt[i][f[i - 1]]
      BY <1>3, <2>1 DEF Walked
    <2> HIDE DEF P, got, n, Q
    <2>3. QED
      BY <2>2
  <1>5. ASSUME n # 0 PROVE FlattenSeq(ss) = f[n]
    <2>1. ASSUME NEW i \in 1..n PROVE f[i] = IF i = 1 THEN ss[i] ELSE f[i - 1] \o ss[i]
      <3>1. CASE i = 1
        <4>1. ss[i] \in Seq(T)
          OBVIOUS
        <4>2. <<>> \o ss[i] = ss[i]
          BY <4>1
        <4>3. f[i] = f[i - 1] \o ss[i] /\ i - 1 = 0
          <5>1. f[i] = f[i - 1] \o ss[i]
            BY <1>4, Zenon
          <5>2. i - 1 = 0
            BY <3>1
          <5>3. QED
            BY <5>1, <5>2, Zenon
        <4>4. f[0] = <<>>
          BY <1>3 DEF Walked
        <4>5. f[i - 1] = <<>>
          BY <4>3, <4>4, Zenon
        <4>6. QED
          BY <3>1, <4>2, <4>3, <4>5
      <3>2. CASE i # 1
        BY <1>4, <3>2
      <3>3. QED
        BY <3>1, <3>2
    <2>2. P([i \in 1..n |-> f[i]])
      <3> DEFINE g == [i \in 1..n |-> f[i]]
      <3>1. ASSUME NEW i \in 1..n
            PROVE  g[i] = IF i = 1 THEN ss[i] ELSE g[i - 1] \o ss[i]
        <4>1. CASE i = 1
          BY <2>1, <4>1
        <4>2. CASE i # 1
          <5>1. i - 1 \in 1..n
            BY <4>2
          <5>2. g[i - 1] = f[i - 1] /\ g[i] = f[i]
            BY <5>1
          <5> HIDE DEF g, n, P, got, nxt
          <5>3. QED
            BY <2>1, <4>2, <5>2
        <4>3. QED
          BY <4>1, <4>2
      <3>2. g = [i \in 1..n |-> g[i]]
        OBVIOUS
      <3>3. g = [i \in 1..n |-> IF i = 1 THEN ss[i] ELSE g[i - 1] \o ss[i]]
        <4> HIDE DEF g, n, P, got, nxt
        <4> QED
          BY <3>1, <3>2
      <3>4. QED
        BY <3>3
    <2>3. P(got)
      <3> HIDE DEF P, nxt
      <3> QED
        BY <2>2 DEF got
    <2>4. FlattenSeq(ss) = got[n]
      BY <1>5 DEF FlattenSeq
    <2> HIDE DEF got
    <2>5. \A i \in 1..n : got[i] = IF i = 1 THEN ss[i] ELSE got[i - 1] \o ss[i]
      BY <2>3
    <2> HIDE DEF P, nxt
    <2> DEFINE S == {i \in 0..n : i = 0 \/ got[i] = f[i]}
    <2>6. 0..n \subseteq S
      <3>1. 0 \in S
        BY <1>1
      <3>2. ASSUME NEW i \in 1..n, i - 1 \in S PROVE i \in S
        <4>1. i \in 0..n
          OBVIOUS
        <4>2. CASE i = 1
          BY <2>1, <2>5, <4>1, <4>2
        <4>3. CASE i # 1
          <5>1. got[i - 1] = f[i - 1]
            BY <3>2, <4>3
          <5>2. QED
            BY <2>1, <2>5, <4>1, <4>3, <5>1
        <4>4. QED
          BY <4>2, <4>3
      <3> HIDE DEF S, n
      <3> QED
        BY <1>1, <3>1, <3>2, Induction
    <2>7. QED
      BY <1>1, <1>5, <2>4, <2>6
  <1>6. ASSUME n = 0 PROVE FlattenSeq(ss) = f[n]
    <2>1. ss = <<>> /\ f[n] = <<>>
      BY <1>3, <1>6 DEF Walked
    <2>2. FlattenSeq(ss) = ss
      BY <1>6 DEF FlattenSeq
    <2>3. QED
      BY <2>1, <2>2, Zenon
  <1>7. FlattenSeq(ss) = f[n]
    BY <1>5, <1>6
  <1>8. Flattens(f, T, ss)
    <2>1. f \in [0..n -> Q] /\ f[0] = e
      BY <1>3 DEF Walked
    <2>2. QED
      BY <1>4, <1>7, <2>1 DEF Flattens
  <1>9. QED
    BY <1>8

\* Sequences of T put one after the other are a sequence of T.
LEMMA FlattenedType ==
    ASSUME NEW T, NEW ss \in Seq(Seq(T))
    PROVE  FlattenSeq(ss) \in Seq(T)
  <1>1. PICK f : Flattens(f, T, ss)
    BY FlattenWalk
  <1>2. Len(ss) \in 0..Len(ss)
    OBVIOUS
  <1>3. QED
    BY <1>1, <1>2 DEF Flattens

\* The chats of a section.
LEMMA SectionChats ==
    ASSUME type \in [Chats -> Sections], NEW s, s \in Seq(Row), NEW x
    PROVE  /\ InSection(ChatsOf(s), x) \in Seq(ChatsIn(s, x))
           /\ ToSet(InSection(ChatsOf(s), x)) = ChatsIn(s, x)
  <1> DEFINE cs == ChatsOf(s)
             I == {i \in DOMAIN cs : type[cs[i]] = x}
  <1>1. cs \in Seq(Chats) /\ ToSet(cs) = {r.chat : r \in ToSet(s)}
    <2>1. \A r \in Row : r.chat \in Chats
      BY DEF Row
    <2>2. QED
      BY <2>1, ChatsOfElements
  <1>2. InSection(cs, x) = At(cs, I)
    BY DEF InSection
  <1>3. At(cs, I) \in Seq(Chats) /\ ToSet(At(cs, I)) = {cs[i] : i \in I \cap DOMAIN cs}
    <2> HIDE DEF cs, I
    <2> QED
      BY <1>1, AtElements
  <1>4. {cs[i] : i \in I \cap DOMAIN cs} = {c \in ToSet(cs) : type[c] = x}
    <2> HIDE DEF cs
    <2> QED
      BY DEF ToSet
  <1>5. {c \in ToSet(cs) : type[c] = x} = ChatsIn(s, x)
    <2>1. ToSet(cs) \subseteq Chats
      <3> HIDE DEF cs
      <3> QED
        BY <1>1 DEF ToSet
    <2> HIDE DEF cs
    <2> QED
      BY <1>1, <2>1 DEF ChatsIn
  <1>6. ToSet(At(cs, I)) = ChatsIn(s, x)
    BY <1>3, <1>4, <1>5
  <1> HIDE DEF cs, I
  <1>7. At(cs, I) \in Seq(ChatsIn(s, x))
    BY <1>3, <1>6 DEF ToSet
  <1>8. QED
    BY <1>2, <1>6, <1>7 DEF cs

\* Every chat of the section has an item that refers to all its messages.
Complete(items, s, x) ==
    \A c \in ChatsIn(s, x) : \E i \in DOMAIN items :
      items[i].chat = c /\ items[i].refs = Ids(Of(s, c))

\* The chats without an item.
LEMMA MissingChats ==
    ASSUME NEW X, NEW items \in Seq(X), NEW Y, NEW cs \in Seq(Y)
    PROVE  /\ Missing(items, cs) \in Seq(Y)
           /\ ToSet(Missing(items, cs)) =
                {c \in ToSet(cs) : \A j \in DOMAIN items : items[j].chat # c}
  <1> DEFINE I == {i \in DOMAIN cs : \A j \in DOMAIN items : items[j].chat # cs[i]}
  <1>1. Missing(items, cs) = At(cs, I)
    BY DEF Missing
  <1>2. At(cs, I) \in Seq(Y) /\ ToSet(At(cs, I)) = {cs[i] : i \in I \cap DOMAIN cs}
    <2> HIDE DEF I
    <2> QED
      BY AtElements
  <1>3. QED
    BY <1>1, <1>2 DEF ToSet

\* The first items of their chats get all messages, the chats without one get an item.
LEMMA Ensured ==
    ASSUME type \in [Chats -> Sections], NEW s, s \in Seq(Row), NEW x,
           NEW items \in Seq(ItemsIn(s, x))
    PROVE  /\ Ensure(items, s, x) \in Seq(ItemsIn(s, x))
           /\ Complete(Ensure(items, s, x), s, x)
  <1> DEFINE all(c) == Ids(Of(s, c))
             missing == Missing(items, InSection(ChatsOf(s), x))
             left == [i \in DOMAIN items |->
                        IF i \in Firsts(ChatSeq(items))
                          THEN [items[i] EXCEPT !.refs = @ \cup all(items[i].chat)]
                          ELSE items[i]]
             right == [i \in DOMAIN missing |-> Item(missing[i], all(missing[i]), 0, "local")]
  <1>1. Ensure(items, s, x) = left \o right
    BY DEF Ensure
  <1>2. /\ missing \in Seq(ChatsIn(s, x))
        /\ ToSet(missing) = {c \in ChatsIn(s, x) : \A j \in DOMAIN items : items[j].chat # c}
    <2> DEFINE cs == InSection(ChatsOf(s), x)
    <2>1. cs \in Seq(ChatsIn(s, x)) /\ ToSet(cs) = ChatsIn(s, x)
      BY SectionChats
    <2> HIDE DEF cs
    <2>2. /\ Missing(items, cs) \in Seq(ChatsIn(s, x))
          /\ ToSet(Missing(items, cs)) =
               {c \in ToSet(cs) : \A j \in DOMAIN items : items[j].chat # c}
      BY <2>1, MissingChats
    <2>3. QED
      BY <2>1, <2>2 DEF cs
  <1>3. ASSUME NEW i \in DOMAIN items
        PROVE  /\ items[i] \in ItemsIn(s, x)
               /\ items[i].chat \in ChatsIn(s, x)
               /\ items[i].refs \subseteq all(items[i].chat)
    BY DEF ItemsIn
  <1>4. ASSUME NEW i \in DOMAIN items
        PROVE  /\ left[i] \in ItemsIn(s, x) /\ left[i].chat = items[i].chat
               /\ i \in Firsts(ChatSeq(items)) => left[i].refs = all(items[i].chat)
    <2>1. CASE i \in Firsts(ChatSeq(items))
      <3>1. left[i] = Referring(items[i], items[i].refs \cup all(items[i].chat))
        BY <2>1 DEF Referring
      <3>2. items[i].refs \cup all(items[i].chat) = all(items[i].chat)
        BY <1>3
      <3>3. left[i] = Referring(items[i], all(items[i].chat))
        BY <3>1, <3>2
      <3> HIDE DEF left
      <3>4. QED
        BY <1>3, <3>3, ReferringItem
    <2>2. CASE i \notin Firsts(ChatSeq(items))
      BY <1>3, <2>2
    <2>3. QED
      BY <2>1, <2>2
  <1>5. left \in Seq(ItemsIn(s, x)) /\ Len(left) = Len(items) /\ DOMAIN left = DOMAIN items
    <2>1. DOMAIN items = 1..Len(items) /\ Len(items) \in Nat /\ DOMAIN left = DOMAIN items
      OBVIOUS
    <2>2. left = [i \in 1..Len(items) |-> left[i]]
      BY <2>1
    <2>3. QED
      <3> HIDE DEF left
      <3> QED
        BY <1>4, <2>1, <2>2
  <1>6. ASSUME NEW k \in DOMAIN missing
        PROVE  /\ right[k] \in ItemsIn(s, x)
               /\ right[k].chat = missing[k] /\ right[k].refs = all(missing[k])
    <2>1. missing[k] \in ChatsIn(s, x)
      BY <1>2
    <2>2. right[k] = Item(missing[k], all(missing[k]), 0, "local")
      OBVIOUS
    <2>3. right[k] \in ItemsIn(s, x)
      <3> DEFINE c == missing[k]
      <3> HIDE DEF c, missing, right
      <3>1. Item(c, all(c), 0, "local") \in ItemsIn(s, x)
        BY <2>1, MadeItem DEF c
      <3>2. QED
        BY <2>2, <3>1 DEF c
    <2>4. QED
      <3> HIDE DEF missing, right
      <3> QED
        BY <2>2, <2>3 DEF Item
  <1>7. right \in Seq(ItemsIn(s, x)) /\ Len(right) = Len(missing) /\ DOMAIN right = DOMAIN missing
    <2>1. DOMAIN missing = 1..Len(missing) /\ Len(missing) \in Nat /\ DOMAIN right = DOMAIN missing
      BY <1>2
    <2>2. right = [i \in 1..Len(missing) |-> right[i]]
      BY <2>1
    <2>3. QED
      <3> HIDE DEF right, missing
      <3> QED
        BY <1>6, <2>1, <2>2
  <1> HIDE DEF left, right, missing
  <1>8. left \o right \in Seq(ItemsIn(s, x))
    BY <1>5, <1>7
  <1>9. ASSUME NEW c \in ChatsIn(s, x)
        PROVE  \E i \in DOMAIN (left \o right) :
                 (left \o right)[i].chat = c /\ (left \o right)[i].refs = all(c)
    <2>1. CASE \E j \in DOMAIN items : items[j].chat = c
      <3>1. PICK j \in DOMAIN items : items[j].chat = c
        BY <2>1
      <3>2. ChatSeq(items) \in Seq(Chats) /\ DOMAIN ChatSeq(items) = DOMAIN items
        <4>1. \A i \in DOMAIN items : items[i].chat \in Chats
          BY DEF ItemsIn
        <4>2. QED
          BY <4>1 DEF ChatSeq
      <3>3. PICK i \in Firsts(ChatSeq(items)) : ChatSeq(items)[i] = ChatSeq(items)[j]
        BY <3>2, FirstsCover
      <3>4. i \in DOMAIN items
        BY <3>2 DEF Firsts
      <3>5. items[i].chat = c
        BY <3>1, <3>3, <3>4 DEF ChatSeq
      <3>6. left[i].chat = c /\ left[i].refs = all(c)
        BY <1>4, <3>3, <3>4, <3>5
      <3>7. i \in DOMAIN (left \o right) /\ (left \o right)[i] = left[i]
        BY <1>5, <1>7, <3>4
      <3>8. QED
        BY <3>6, <3>7
    <2>2. CASE \A j \in DOMAIN items : items[j].chat # c
      <3>1. PICK k \in DOMAIN missing : missing[k] = c
        BY <1>2, <2>2 DEF ToSet
      <3>2. right[k].chat = c /\ right[k].refs = all(c)
        BY <1>6, <3>1
      <3>3. k \in 1..Len(right) /\ Len(left) \in Nat
        BY <1>5, <1>7, <3>1
      <3>4. /\ Len(left) + k \in DOMAIN (left \o right)
            /\ (left \o right)[Len(left) + k] = right[k]
        BY <1>5, <1>7, <3>3
      <3>5. QED
        BY <3>2, <3>4
    <2>3. QED
      BY <2>1, <2>2
  <1>10. QED
    BY <1>1, <1>8, <1>9 DEF Complete

\* The items of a chat become one item with all they refer to.
LEMMA JoinedItem ==
    ASSUME NEW s, s \in Seq(Row), NEW x, NEW own \in Seq(ItemsIn(s, x)), NEW c,
           \A i \in DOMAIN own : own[i].chat = c /\ Illustrated(own[i], s),
           \E i \in DOMAIN own : own[i].refs = Ids(Of(s, c))
    PROVE  /\ Joined(own) \in ItemsIn(s, x)
           /\ Joined(own).chat = c /\ Joined(own).refs = Ids(Of(s, c))
           /\ Illustrated(Joined(own), s)
  <1> DEFINE I == {i \in DOMAIN own : own[i].media # {}}
             w == At(own, I)
             refs == UNION {own[i].refs : i \in DOMAIN own}
             m == IF w = <<>> THEN {} ELSE w[1].media
  <1>1. \A i \in DOMAIN own : own[i] \in ItemsIn(s, x) /\ own[i].refs \subseteq Ids(Of(s, c))
    BY DEF ItemsIn
  <1>2. refs = Ids(Of(s, c))
    BY <1>1
  <1>3. w \in Seq(ItemsIn(s, x)) /\ ToSet(w) = {own[i] : i \in I \cap DOMAIN own}
    <2> HIDE DEF I
    <2> QED
      BY AtElements
  <1>4. 1 \in DOMAIN own /\ own[1] \in ItemsIn(s, x)
    BY <1>1
  <1>5. w # <<>> => \E i \in DOMAIN own : w[1] = own[i]
    <2>1. w # <<>> => w[1] \in ToSet(w)
      <3> HIDE DEF w
      <3> QED
        BY <1>3 DEF ToSet
    <2> HIDE DEF w
    <2> QED
      BY <1>3, <2>1
  <1>6. m \subseteq Ids(s)
    <2>1. \A i \in DOMAIN own : own[i].media \subseteq Ids(s)
      BY <1>1 DEF ItemsIn
    <2> HIDE DEF w
    <2> QED
      BY <1>5, <2>1
  <1>7. Joined(own) = Showing(Referring(own[1], refs), m)
    <2>1. Joined(own) = [own[1] EXCEPT !.refs = refs, !.media = m]
      BY DEF Joined
    <2> HIDE DEF refs, m
    <2>2. QED
      BY <2>1 DEF Showing, Referring
  <1>8. /\ Referring(own[1], refs) \in ItemsIn(s, x)
        /\ Referring(own[1], refs).chat = c
        /\ Referring(own[1], refs).refs = refs
    <2> HIDE DEF refs
    <2> QED
      BY <1>2, <1>4, ReferringItem
  <1>9. /\ Joined(own) \in ItemsIn(s, x)
        /\ Joined(own).chat = c /\ Joined(own).refs = refs /\ Joined(own).media = m
    <2> HIDE DEF refs, m
    <2> QED
      BY <1>6, <1>7, <1>8, IllustratedItem
  <1>10. Illustrated(Joined(own), s)
    <2> DEFINE o == Of(Media(s), c)
    <2> SUFFICES ASSUME Len(TitlesOf(o)) = 1 PROVE m = Ids(o) /\ m # {}
      BY <1>9 DEF Illustrated
    <2>1. \A i \in DOMAIN own : own[i].media = Ids(o) /\ own[i].media # {}
      BY DEF Illustrated
    <2>2. w # <<>>
      <3>1. ToSet(w) # {}
        <4>1. 1 \in I \cap DOMAIN own
          BY <1>4, <2>1
        <4> HIDE DEF w, I
        <4>2. QED
          BY <1>3, <4>1
      <3> HIDE DEF w
      <3>2. QED
        BY <3>1 DEF ToSet
    <2> HIDE DEF w, o
    <2>3. QED
      BY <1>5, <2>1, <2>2
  <1>11. QED
    BY <1>2, <1>9, <1>10

\* One item for each chat of the section.
OnePerChat(items, s, x) ==
    /\ \A c \in ChatsIn(s, x) : \E i \in DOMAIN items : items[i].chat = c
    /\ \A i, j \in DOMAIN items : items[i].chat = items[j].chat => i = j

LEMMA MergedByChat ==
    ASSUME type \in [Chats -> Sections], NEW s, s \in Seq(Row), NEW x,
           NEW items \in Seq(ItemsIn(s, x)), Complete(items, s, x),
           \A i \in DOMAIN items : Illustrated(items[i], s)
    PROVE  /\ MergeByChat(items) \in Seq(ItemsIn(s, x))
           /\ OnePerChat(MergeByChat(items), s, x)
           /\ \A i \in DOMAIN MergeByChat(items) :
                LET item == MergeByChat(items)[i]
                IN item.refs = Ids(Of(s, item.chat)) /\ Illustrated(item, s)
  <1> DEFINE cs == ChatsOf(items)
             t == MergeByChat(items)
  <1>1. \A item \in ItemsIn(s, x) : item.chat \in ChatsIn(s, x)
    BY DEF ItemsIn
  <1>2. /\ cs \in Seq(ChatsIn(s, x))
        /\ ToSet(cs) = {item.chat : item \in ToSet(items)}
        /\ \A j, k \in DOMAIN cs : cs[j] = cs[k] => j = k
    BY <1>1, ChatsOfElements
  <1>3. t = [i \in DOMAIN cs |-> Joined(Of(items, cs[i]))]
    BY DEF MergeByChat
  <1>4. ASSUME NEW c \in ChatsIn(s, x)
        PROVE  /\ Joined(Of(items, c)) \in ItemsIn(s, x)
               /\ Joined(Of(items, c)).chat = c
               /\ Joined(Of(items, c)).refs = Ids(Of(s, c))
               /\ Illustrated(Joined(Of(items, c)), s)
    <2> DEFINE own == Of(items, c)
    <2>1. own \in Seq(ItemsIn(s, x)) /\ ToSet(own) = {item \in ToSet(items) : item.chat = c}
      BY OfElements
    <2>2. \A item \in ToSet(items) : Illustrated(item, s)
      BY DEF ToSet
    <2>3. \A i \in DOMAIN own : own[i] \in ToSet(own)
      BY DEF ToSet
    <2>4. \A i \in DOMAIN own : own[i].chat = c /\ Illustrated(own[i], s)
      <3> HIDE DEF own
      <3> QED
        BY <2>1, <2>2, <2>3
    <2>5. PICK j \in DOMAIN items : items[j].chat = c /\ items[j].refs = Ids(Of(s, c))
      BY DEF Complete
    <2>6. items[j] \in ToSet(own)
      <3> HIDE DEF own
      <3> QED
        BY <2>1, <2>5 DEF ToSet
    <2>7. \E i \in DOMAIN own : own[i].refs = Ids(Of(s, c))
      <3> HIDE DEF own
      <3> QED
        BY <2>5, <2>6 DEF ToSet
    <2> HIDE DEF own
    <2>8. QED
      <3>1. /\ Joined(own) \in ItemsIn(s, x)
            /\ Joined(own).chat = c /\ Joined(own).refs = Ids(Of(s, c))
            /\ Illustrated(Joined(own), s)
        BY <2>1, <2>4, <2>7, JoinedItem
      <3>2. QED
        BY <3>1 DEF own
  <1> HIDE DEF cs, t
  <1>5. ASSUME NEW i \in DOMAIN cs
        PROVE  /\ t[i] \in ItemsIn(s, x) /\ t[i].chat = cs[i]
               /\ t[i].refs = Ids(Of(s, t[i].chat)) /\ Illustrated(t[i], s)
    <2>1. cs[i] \in ChatsIn(s, x) /\ t[i] = Joined(Of(items, cs[i]))
      BY <1>2, <1>3
    <2>2. QED
      BY <1>4, <2>1
  <1>6. DOMAIN t = DOMAIN cs
    BY <1>3
  <1>7. t \in Seq(ItemsIn(s, x))
    <2>1. DOMAIN cs = 1..Len(cs) /\ Len(cs) \in Nat
      BY <1>2
    <2>2. t = [i \in 1..Len(cs) |-> t[i]]
      BY <1>3, <2>1
    <2>3. QED
      BY <1>5, <2>1, <2>2
  <1>8. OnePerChat(t, s, x)
    <2>1. ASSUME NEW c \in ChatsIn(s, x) PROVE \E i \in DOMAIN t : t[i].chat = c
      <3>1. PICK j \in DOMAIN items : items[j].chat = c
        BY DEF Complete
      <3>2. c \in ToSet(cs)
        BY <1>2, <3>1 DEF ToSet
      <3>3. PICK i \in DOMAIN cs : cs[i] = c
        BY <3>2 DEF ToSet
      <3>4. QED
        BY <1>5, <1>6, <3>3
    <2>2. \A i, j \in DOMAIN t : t[i].chat = t[j].chat => i = j
      BY <1>2, <1>5, <1>6
    <2>3. QED
      BY <2>1, <2>2 DEF OnePerChat
  <1>9. QED
    BY <1>5, <1>6, <1>7, <1>8 DEF t

------------------------------------------------------------------------------
\* What the model gets of a chat.

\* A sum up to each position.
SumsUp(sum, s) ==
    /\ sum \in [0..Len(s) -> Nat]
    /\ sum[0] = 0
    /\ \A i \in 1..Len(s) : sum[i] = sum[i - 1] + s[i]
    /\ Total(s) = sum[Len(s)]

LEMMA TotalWalk ==
    ASSUME NEW s \in Seq(Nat)
    PROVE  \E sum : SumsUp(sum, s)
  <1> DEFINE n == Len(s)
             P(g) == g = [i \in 0..n |-> IF i = 0 THEN 0 ELSE g[i - 1] + s[i]]
             sum == CHOOSE g : P(g)
             nxt == [i \in 1..n |-> [v \in Nat |-> v + s[i]]]
  <1>1. n \in Nat /\ \A i \in 1..n : s[i] \in Nat
    OBVIOUS
  <1>2. nxt \in [1..n -> [Nat -> Nat]]
    <2> HIDE DEF n
    <2> QED
      BY <1>1
  <1>3. PICK f : Walked(f, n, Nat, 0, nxt)
    <2> HIDE DEF n, P, sum, nxt
    <2> QED
      BY <1>1, <1>2, Walk
  <1>4. ASSUME NEW i \in 1..n
        PROVE  f[i - 1] \in Nat /\ f[i] = f[i - 1] + s[i]
    <2>1. i - 1 \in 0..n
      BY <1>1
    <2>2. f[i - 1] \in Nat /\ f[i] = nxt[i][f[i - 1]]
      BY <1>3, <2>1 DEF Walked
    <2> HIDE DEF P, sum
    <2>3. QED
      BY <2>2
  <1>5. P(f)
    <2> HIDE DEF sum, nxt
    <2>1. ASSUME NEW i \in 0..n PROVE f[i] = IF i = 0 THEN 0 ELSE f[i - 1] + s[i]
      <3>1. CASE i = 0
        BY <1>3, <3>1 DEF Walked
      <3>2. CASE i # 0
        <4>1. i \in 1..n
          BY <3>2
        <4>2. QED
          BY <1>4, <3>2, <4>1
      <3>3. QED
        BY <3>1, <3>2
    <2>2. f = [i \in 0..n |-> f[i]]
      BY <1>3 DEF Walked
    <2>3. QED
      BY <2>1, <2>2
  <1>6. P(sum)
    <2> HIDE DEF P, nxt
    <2> QED
      BY <1>5 DEF sum
  <1>7. Total(s) = sum[n]
    BY DEF Total
  <1> HIDE DEF sum
  <1>8. \A i \in 0..n : sum[i] = IF i = 0 THEN 0 ELSE sum[i - 1] + s[i]
    BY <1>6
  <1>9. DOMAIN sum = 0..n /\ sum = [i \in 0..n |-> sum[i]]
    BY <1>6
  <1> HIDE DEF P, nxt
  <1> DEFINE S == {i \in 0..n : sum[i] = f[i]}
  <1>10. 0..n \subseteq S
    <2>1. 0 \in S
      BY <1>1, <1>3, <1>8 DEF Walked
    <2>2. ASSUME NEW i \in 1..n, i - 1 \in S PROVE i \in S
      BY <1>4, <1>8, <2>2
    <2> HIDE DEF S, n
    <2> QED
      BY <1>1, <2>1, <2>2, Induction
  <1>11. SumsUp(f, s)
    <2>1. Total(s) = f[n]
      BY <1>1, <1>7, <1>10
    <2>2. QED
      BY <1>3, <1>4, <2>1 DEF SumsUp, Walked
  <1>12. QED
    BY <1>11

\* What has been taken of the messages of a chat at each position.
TakesAnalyzed(got, X, s) ==
    /\ got \in [0..Len(s) -> Seq(X)]
    /\ got[0] = <<>>
    /\ \A i \in 1..Len(s) :
         got[i] = IF Len(got[i - 1]) >= MaxPerChat \/ Chars(got[i - 1]) + s[i].size > MaxChars
                  THEN got[i - 1] ELSE Append(got[i - 1], s[i])
    /\ Analyzed(s) = got[Len(s)]

LEMMA AnalyzedWalk ==
    ASSUME NEW X, NEW s \in Seq(X)
    PROVE  \E got : TakesAnalyzed(got, X, s)
  <1> DEFINE n == Len(s)
             T == Seq(X)
             e == <<>>
             Over(acc, i) == Len(acc) >= MaxPerChat \/ Chars(acc) + s[i].size > MaxChars
             P(g) == g = [i \in 0..n |-> IF i = 0 THEN e ELSE
                       IF Over(g[i - 1], i) THEN g[i - 1] ELSE Append(g[i - 1], s[i])]
             got == CHOOSE g : P(g)
             nxt == [i \in 1..n |-> [acc \in T |->
                       IF Over(acc, i) THEN acc ELSE Append(acc, s[i])]]
  <1>1. n \in Nat /\ e \in T
    OBVIOUS
  <1>2. nxt \in [1..n -> [T -> T]]
    <2>1. \A i \in 1..n : \A acc \in T : Append(acc, s[i]) \in T
      OBVIOUS
    <2> HIDE DEF n, T, Over, P, got
    <2> QED
      BY <2>1
  <1>3. PICK f : Walked(f, n, T, e, nxt)
    <2> HIDE DEF n, T, e, P, got, nxt
    <2> QED
      BY <1>1, <1>2, Walk
  <1>4. ASSUME NEW i \in 1..n
        PROVE  f[i] = IF Over(f[i - 1], i) THEN f[i - 1] ELSE Append(f[i - 1], s[i])
    <2>1. i - 1 \in 0..n
      BY <1>1
    <2>2. f[i - 1] \in T /\ f[i] = nxt[i][f[i - 1]]
      BY <1>3, <2>1 DEF Walked
    <2> HIDE DEF P, got, T, Over, n
    <2>3. QED
      BY <2>2
  <1>5. P(f)
    <2> HIDE DEF got, nxt, Over
    <2>1. ASSUME NEW i \in 0..n
          PROVE  f[i] = IF i = 0 THEN e ELSE
                          IF Over(f[i - 1], i) THEN f[i - 1] ELSE Append(f[i - 1], s[i])
      <3>1. CASE i = 0
        BY <1>3, <3>1 DEF Walked
      <3>2. CASE i # 0
        <4>1. i \in 1..n
          BY <3>2
        <4>2. QED
          BY <1>4, <3>2, <4>1
      <3>3. QED
        BY <3>1, <3>2
    <2>2. f = [i \in 0..n |-> f[i]]
      BY <1>3 DEF Walked
    <2> HIDE DEF e, n
    <2>3. QED
      BY <2>1, <2>2
  <1>6. P(got)
    <2> HIDE DEF P, nxt
    <2> QED
      BY <1>5 DEF got
  <1>7. Analyzed(s) = got[n]
    BY DEF Analyzed
  <1> HIDE DEF got, Over
  <1>8. \A i \in 0..n : got[i] = IF i = 0 THEN e ELSE
          IF Over(got[i - 1], i) THEN got[i - 1] ELSE Append(got[i - 1], s[i])
    BY <1>6
  <1> HIDE DEF P, nxt
  <1> DEFINE S == {i \in 0..n : got[i] = f[i]}
  <1>9. 0..n \subseteq S
    <2>1. 0 \in S
      BY <1>1, <1>3, <1>8 DEF Walked
    <2>2. ASSUME NEW i \in 1..n, i - 1 \in S PROVE i \in S
      BY <1>4, <1>8, <2>2
    <2> HIDE DEF S, n
    <2> QED
      BY <1>1, <2>1, <2>2, Induction
  <1>10. TakesAnalyzed(f, X, s)
    <2>1. Analyzed(s) = f[n]
      BY <1>1, <1>7, <1>9
    <2>2. f \in [0..n -> T] /\ f[0] = e
      BY <1>3 DEF Walked
    <2>3. QED
      BY <1>4, <2>1, <2>2 DEF TakesAnalyzed, Over
  <1>11. QED
    BY <1>10

\* One element more.
LEMMA LongerPrefix ==
    ASSUME NEW X, NEW p \in Seq(X), NEW i \in 1..Len(p)
    PROVE  SubSeq(p, 1, i) = Append(SubSeq(p, 1, i - 1), p[i])
  <1>1. Len(p) \in Nat /\ i \in Nat /\ i >= 1 /\ i <= Len(p)
    OBVIOUS
  <1> DEFINE u == SubSeq(p, 1, i)
             w == SubSeq(p, 1, i - 1)
             t == Append(w, p[i])
  <1>2. u \in Seq(X) /\ Len(u) = i /\ \A j \in 1..i : u[j] = p[j]
    BY <1>1
  <1>3. w \in Seq(X) /\ Len(w) = i - 1 /\ \A j \in 1..(i - 1) : w[j] = p[j]
    BY <1>1
  <1>4. p[i] \in X
    OBVIOUS
  <1> HIDE DEF u, w
  <1>5. /\ t \in Seq(X) /\ Len(t) = i /\ t[i] = p[i]
        /\ \A j \in 1..(i - 1) : t[j] = w[j]
    BY <1>1, <1>3, <1>4
  <1> HIDE DEF t
  <1>6. \A j \in 1..i : t[j] = u[j]
    BY <1>1, <1>2, <1>3, <1>5
  <1>7. u = t
    BY <1>1, <1>2, <1>5, <1>6
  <1>8. QED
    BY <1>7 DEF u, w, t

LEMMA TotalAppended ==
    ASSUME NEW s \in Seq(Nat), NEW r \in Nat
    PROVE  Total(Append(s, r)) = Total(s) + r /\ Total(s) \in Nat
  <1> DEFINE t == Append(s, r)
             n == Len(s)
  <1>1. /\ t \in Seq(Nat) /\ Len(t) = n + 1 /\ n \in Nat /\ t[n + 1] = r
        /\ \A i \in 1..n : t[i] = s[i]
    OBVIOUS
  <1>2. PICK p : SumsUp(p, s)
    BY TotalWalk
  <1>3. PICK q : SumsUp(q, t)
    <2> HIDE DEF t
    <2> QED
      BY <1>1, TotalWalk
  <1> DEFINE S == {i \in 0..n : p[i] = q[i]}
  <1>4. 0..n \subseteq S
    <2>1. 0 \in S
      BY <1>1, <1>2, <1>3 DEF SumsUp
    <2>2. ASSUME NEW i \in 1..n, i - 1 \in S PROVE i \in S
      <3>1. i \in 1..Len(t) /\ t[i] = s[i]
        BY <1>1
      <3>2. p[i] = p[i - 1] + s[i]
        BY <1>2 DEF SumsUp
      <3> HIDE DEF t
      <3>3. q[i] = q[i - 1] + t[i]
        BY <1>3, <3>1 DEF SumsUp
      <3>4. QED
        BY <2>2, <3>1, <3>2, <3>3
    <2> HIDE DEF S, n
    <2>3. QED
      BY <1>1, <2>1, <2>2, Induction
  <1> HIDE DEF t
  <1>5. q[n + 1] = q[n] + r
    <2>1. n + 1 \in 1..Len(t) /\ (n + 1) - 1 = n
      BY <1>1
    <2>2. QED
      BY <1>1, <1>3, <2>1 DEF SumsUp
  <1>6. p[n] = q[n] /\ p[n] \in Nat
    BY <1>1, <1>2, <1>4 DEF SumsUp
  <1>7. Total(s) = p[n] /\ Total(t) = q[n + 1]
    BY <1>1, <1>2, <1>3 DEF SumsUp
  <1>8. QED
    BY <1>5, <1>6, <1>7 DEF t

LEMMA TotalOfNone == Total(<<>>) = 0
  <1> DEFINE e == <<>>
  <1>1. e \in Seq(Nat) /\ Len(e) = 0
    OBVIOUS
  <1>2. \E sum : SumsUp(sum, e)
    <2> HIDE DEF e
    <2> QED
      BY <1>1, TotalWalk
  <1>3. QED
    BY <1>1, <1>2 DEF SumsUp

LEMMA TotalOfPrefix ==
    ASSUME NEW s \in Seq(Nat), NEW i \in 0..Len(s)
    PROVE  Total(SubSeq(s, 1, i)) <= Total(s)
  <1> DEFINE n == Len(s)
             c(j) == Total(SubSeq(s, 1, j))
             S == {j \in 0..n : c(n - j) <= Total(s)}
  <1>1. n \in Nat /\ SubSeq(s, 1, n) = s
    OBVIOUS
  <1>2. \A j \in 1..n : SubSeq(s, 1, j - 1) \in Seq(Nat) /\ s[j] \in Nat
    BY <1>1
  <1>3. ASSUME NEW j \in 1..n PROVE c(j - 1) <= c(j) /\ c(j - 1) \in Nat /\ c(j) \in Nat
    <2> DEFINE u == SubSeq(s, 1, j - 1)
    <2>1. SubSeq(s, 1, j) = Append(u, s[j])
      BY LongerPrefix
    <2>2. u \in Seq(Nat) /\ s[j] \in Nat
      BY <1>2
    <2> HIDE DEF u
    <2>3. /\ Total(Append(u, s[j])) = Total(u) + s[j]
          /\ Total(u) \in Nat
      BY <2>2, TotalAppended
    <2>4. c(j - 1) = Total(u) /\ c(j) = Total(Append(u, s[j]))
      BY <2>1, Zenon DEF u
    <2> HIDE DEF c
    <2>5. QED
      BY <2>3, <2>4
  <1>4. Total(s) \in Nat
    <2>1. CASE n = 0
      <3>1. s = <<>>
        BY <2>1
      <3>2. QED
        BY <3>1, TotalOfNone
    <2>2. CASE n # 0
      <3>1. n \in 1..n
        BY <1>1, <2>2
      <3> HIDE DEF n
      <3>2. QED
        BY <1>1, <1>3, <3>1
    <2>3. QED
      BY <2>1, <2>2
  <1> HIDE DEF n
  <1>5. 0 \in S
    <2>1. n - 0 = n /\ 0 \in 0..n
      BY <1>1
    <2>2. c(n) = Total(s)
      BY <1>1
    <2>3. QED
      BY <1>4, <2>1, <2>2
  <1> HIDE DEF c
  <1>6. ASSUME NEW j \in 1..n, j - 1 \in S PROVE j \in S
    <2> DEFINE k == n - (j - 1)
    <2>1. k \in 1..n /\ k - 1 = n - j /\ j \in 0..n
      BY <1>1
    <2>2. c(k) <= Total(s)
      BY <1>6
    <2>3. c(k - 1) <= c(k) /\ c(k - 1) \in Nat /\ c(k) \in Nat
      BY <1>3, <2>1
    <2> HIDE DEF k
    <2>4. c(k - 1) <= Total(s)
      BY <1>4, <2>2, <2>3
    <2>5. QED
      BY <2>1, <2>4
  <1>7. 0..n \subseteq S
    <2> HIDE DEF S
    <2> QED
      BY <1>1, <1>5, <1>6, Induction
  <1>8. n - i \in 0..n /\ n - (n - i) = i
    BY <1>1 DEF n
  <1>9. c(n - (n - i)) <= Total(s)
    BY <1>7, <1>8
  <1>10. QED
    BY <1>8, <1>9 DEF c

LEMMA TotalType ==
    ASSUME NEW s \in Seq(Nat)
    PROVE  Total(s) \in Nat
  <1>1. PICK sum : SumsUp(sum, s)
    BY TotalWalk
  <1>2. Len(s) \in 0..Len(s)
    OBVIOUS
  <1>3. QED
    BY <1>1, <1>2 DEF SumsUp

LEMMA SameSequence ==
    ASSUME NEW X, NEW u \in Seq(X), NEW v \in Seq(X), Len(u) = Len(v),
           \A i \in 1..Len(u) : u[i] = v[i]
    PROVE  u = v
  OBVIOUS

\* The characters of messages.
Sizes(s) == [i \in DOMAIN s |-> s[i].size]

LEMMA SizesType ==
    ASSUME NEW s \in Seq(Row)
    PROVE  /\ Sizes(s) \in Seq(Nat) /\ Len(Sizes(s)) = Len(s)
           /\ \A i \in 1..Len(s) : Sizes(s)[i] = s[i].size
           /\ Chars(s) = Total(Sizes(s)) /\ Chars(s) \in Nat
  <1>1. DOMAIN s = 1..Len(s) /\ Len(s) \in Nat /\ \A i \in 1..Len(s) : s[i] \in Row
    OBVIOUS
  <1>2. \A r \in Row : r.size \in Nat
    BY DEF Row
  <1>3. Sizes(s) = [i \in 1..Len(s) |-> s[i].size]
    BY <1>1 DEF Sizes
  <1>4. \A i \in 1..Len(s) : Sizes(s)[i] = s[i].size /\ Sizes(s)[i] \in Nat
    BY <1>1, <1>2, <1>3
  <1>5. Sizes(s) \in Seq(Nat) /\ Len(Sizes(s)) = Len(s)
    BY <1>1, <1>2, <1>3
  <1>6. Chars(s) = Total(Sizes(s))
    BY DEF Chars, Sizes
  <1>7. QED
    BY <1>4, <1>5, <1>6, TotalType

\* One more message has its characters more.
LEMMA CharsAppended ==
    ASSUME NEW s \in Seq(Row), NEW r \in Row
    PROVE  Chars(Append(s, r)) = Chars(s) + r.size /\ Chars(s) \in Nat /\ r.size \in Nat
  <1> DEFINE t == Append(s, r)
             n == Len(s)
             f == Sizes(s)
             g == Sizes(t)
             h == Append(f, r.size)
  <1>1. /\ t \in Seq(Row) /\ Len(t) = n + 1 /\ n \in Nat /\ t[n + 1] = r
        /\ \A i \in 1..n : t[i] = s[i]
    OBVIOUS
  <1> HIDE DEF t
  <1>2. r.size \in Nat
    BY DEF Row
  <1>3. /\ f \in Seq(Nat) /\ Len(f) = n /\ \A i \in 1..n : f[i] = s[i].size
        /\ Chars(s) = Total(f)
    BY SizesType
  <1>4. /\ g \in Seq(Nat) /\ Len(g) = n + 1 /\ \A i \in 1..(n + 1) : g[i] = t[i].size
        /\ Chars(t) = Total(g)
    BY <1>1, SizesType
  <1> HIDE DEF f, g
  <1>5. /\ h \in Seq(Nat) /\ Len(h) = n + 1 /\ h[n + 1] = r.size
        /\ \A i \in 1..n : h[i] = f[i]
    BY <1>2, <1>3
  <1> HIDE DEF h
  <1>6. \A i \in 1..(n + 1) : g[i] = h[i]
    BY <1>1, <1>3, <1>4, <1>5
  <1>7. g = h
    BY <1>4, <1>5, <1>6, SameSequence
  <1>8. Total(h) = Total(f) + r.size /\ Total(f) \in Nat
    BY <1>2, <1>3, TotalAppended DEF h
  <1>9. QED
    BY <1>2, <1>3, <1>4, <1>7, <1>8 DEF t

LEMMA CharsOfNone == Chars(<<>>) = 0
  <1> DEFINE e == <<>>
             f == [i \in DOMAIN e |-> e[i].size]
  <1>1. f = <<>>
    OBVIOUS
  <1>2. Chars(e) = Total(f)
    BY DEF Chars
  <1> HIDE DEF f
  <1>3. QED
    BY <1>1, <1>2, TotalOfNone

\* The model gets messages of the chat.
LEMMA AnalyzedElements ==
    ASSUME NEW X, NEW s \in Seq(X)
    PROVE  Analyzed(s) \in Seq(X) /\ ToSet(Analyzed(s)) \subseteq ToSet(s)
  <1>1. ASSUME NEW Y, s \in Seq(Y) PROVE Analyzed(s) \in Seq(Y)
    <2>1. PICK got : TakesAnalyzed(got, Y, s)
      BY <1>1, AnalyzedWalk
    <2>2. Len(s) \in 0..Len(s)
      OBVIOUS
    <2>3. QED
      BY <2>1, <2>2 DEF TakesAnalyzed
  <1>2. s \in Seq(ToSet(s))
    BY DEF ToSet
  <1>3. Analyzed(s) \in Seq(ToSet(s))
    BY <1>1, <1>2
  <1>4. ToSet(Analyzed(s)) \subseteq ToSet(s)
    BY <1>3 DEF ToSet
  <1>5. QED
    BY <1>1, <1>4

\* Whatever the messages of a chat, those the model gets keep to both limits: no more
\* than MAX_MESSAGES_PER_CHAT of them, no more than MAX_CHARS_PER_GROUP characters
\* (services/digest.py _build_llm_payload).
THEOREM AnalyzedWithinLimits ==
    ASSUME NEW s \in Seq(Row)
    PROVE  Len(Analyzed(s)) <= MaxPerChat /\ Chars(Analyzed(s)) <= MaxChars
  <1>1. PICK got : TakesAnalyzed(got, Row, s)
    BY AnalyzedWalk
  <1>2. MaxPerChat \in Nat /\ MaxPerChat > 0 /\ MaxChars \in Nat
    BY ConstantsAssumption
  <1> DEFINE S == {i \in 0..Len(s) : Len(got[i]) <= MaxPerChat /\ Chars(got[i]) <= MaxChars}
  <1>3. 0 \in S
    BY <1>1, <1>2, CharsOfNone DEF TakesAnalyzed
  <1>4. ASSUME NEW i \in 1..Len(s), i - 1 \in S PROVE i \in S
    <2> DEFINE acc == got[i - 1]
    <2>1. i \in 0..Len(s) /\ i - 1 \in 0..Len(s)
      OBVIOUS
    <2>2. acc \in Seq(Row) /\ s[i] \in Row /\ Len(acc) \in Nat
      BY <1>1, <2>1 DEF TakesAnalyzed
    <2>3. Len(acc) <= MaxPerChat /\ Chars(acc) <= MaxChars
      BY <1>4
    <2>4. got[i] = IF Len(acc) >= MaxPerChat \/ Chars(acc) + s[i].size > MaxChars
                   THEN acc ELSE Append(acc, s[i])
      BY <1>1 DEF TakesAnalyzed
    <2> HIDE DEF acc
    <2>5. Len(Append(acc, s[i])) = Len(acc) + 1
      BY <2>2
    <2>6. /\ Chars(Append(acc, s[i])) = Chars(acc) + s[i].size
          /\ Chars(acc) \in Nat /\ s[i].size \in Nat
      BY <2>2, CharsAppended
    <2>7. Len(got[i]) <= MaxPerChat /\ Chars(got[i]) <= MaxChars
      <3>1. CASE Len(acc) >= MaxPerChat \/ Chars(acc) + s[i].size > MaxChars
        BY <2>3, <2>4, <3>1
      <3>2. CASE ~(Len(acc) >= MaxPerChat \/ Chars(acc) + s[i].size > MaxChars)
        <4>1. got[i] = Append(acc, s[i])
          BY <2>4, <3>2
        <4>2. QED
          BY <1>2, <2>2, <2>5, <2>6, <3>2, <4>1
      <3>3. QED
        BY <3>1, <3>2
    <2>8. QED
      BY <2>1, <2>7
  <1>5. Len(s) \in S
    <2>1. Len(s) \in Nat /\ Len(s) \in 0..Len(s)
      OBVIOUS
    <2> HIDE DEF S
    <2>2. QED
      BY <1>3, <1>4, <2>1, Induction
  <1>6. QED
    BY <1>1, <1>5 DEF TakesAnalyzed

------------------------------------------------------------------------------
\* The items of a section when it is put together.

\* An item that refers to all messages of its chat, counts them and tells how many of them
\* the model got if those are fewer.
Whole(item, s) ==
    LET own == Of(s, item.chat)
        given == Len(Analyzed(own))
    IN /\ item.refs = Ids(own)
       /\ item.count = Len(own)
       /\ item.analyzed = IF given < Len(own) THEN given ELSE None
       /\ Illustrated(item, s)

WholeItems(s, x) ==
    {item \in [chat : Chats, refs : SUBSET Ids(s), count : Nat, analyzed : Nat \cup {None},
               media : SUBSET Ids(s), by : {"local", "model"}] :
       item.chat \in ChatsIn(s, x) /\ Whole(item, s)}

LEMMA Enriched ==
    ASSUME NEW s, Rows(s), NEW x, NEW items \in Seq(ItemsIn(s, x)), OnePerChat(items, s, x),
           \A i \in DOMAIN items :
             items[i].refs = Ids(Of(s, items[i].chat)) /\ Illustrated(items[i], s)
    PROVE  /\ Enrich(items, s) \in Seq(WholeItems(s, x))
           /\ OnePerChat(Enrich(items, s), s, x)
  <1> DEFINE own(i) == Of(s, items[i].chat)
             given(i) == Len(Analyzed(own(i)))
             a(i) == IF given(i) < Len(own(i)) THEN given(i) ELSE None
             t == Enrich(items, s)
  <1>1. t = [i \in DOMAIN items |->
               [items[i] EXCEPT !.count = Cardinality(items[i].refs),
                                !.analyzed = IF given(i) < Len(own(i)) THEN given(i) ELSE @]]
    BY DEF Enrich
  <1>2. ASSUME NEW i \in DOMAIN items
        PROVE  t[i] \in WholeItems(s, x) /\ t[i].chat = items[i].chat
    <2> DEFINE n == Cardinality(items[i].refs)
    <2>1. items[i] \in ItemsIn(s, x) /\ items[i].analyzed = None
      BY DEF ItemsIn
    <2>2. t[i] = [items[i] EXCEPT !.count = n, !.analyzed = a(i)]
      BY <1>1, <2>1
    <2>3. s \in Seq(Row) /\ own(i) \in Seq(Row) /\ Rows(own(i))
      BY OfElements, RowsAt DEF Rows, Of
    <2>4. n = Len(own(i)) /\ n \in Nat
      BY <2>3, CountedRows
    <2>5. a(i) \in Nat \cup {None}
      <3>1. Analyzed(own(i)) \in Seq(Row)
        BY <2>3, AnalyzedElements
      <3>2. given(i) \in Nat
        BY <3>1
      <3>3. QED
        BY <3>2
    <2> HIDE DEF t, own, given, a, n
    <2>6. /\ t[i] \in [chat : Chats, refs : SUBSET Ids(s), count : Nat,
                       analyzed : Nat \cup {None}, media : SUBSET Ids(s),
                       by : {"local", "model"}]
          /\ t[i].chat = items[i].chat /\ t[i].refs = items[i].refs
          /\ t[i].media = items[i].media /\ t[i].count = n /\ t[i].analyzed = a(i)
          /\ items[i].chat \in ChatsIn(s, x)
      BY <2>1, <2>2, <2>4, <2>5 DEF ItemsIn
    <2>7. Illustrated(t[i], s)
      BY <2>6 DEF Illustrated
    <2>8. Whole(t[i], s)
      BY <2>4, <2>6, <2>7 DEF Whole, own, a, given
    <2>9. QED
      BY <2>6, <2>8 DEF WholeItems
  <1>3. DOMAIN t = DOMAIN items
    BY <1>1
  <1>4. t \in Seq(WholeItems(s, x))
    <2>1. DOMAIN items = 1..Len(items) /\ Len(items) \in Nat
      OBVIOUS
    <2>2. t = [i \in 1..Len(items) |-> t[i]]
      BY <1>1, <2>1
    <2> HIDE DEF t
    <2>3. QED
      BY <1>2, <2>1, <2>2
  <1>5. OnePerChat(t, s, x)
    <2> HIDE DEF t
    <2> QED
      BY <1>2, <1>3 DEF OnePerChat
  <1>6. QED
    BY <1>4, <1>5

\* What the parts say of a section.
PartsOf(ds, s) ==
    DOMAIN ds \in {1..n : n \in Nat} /\ \A i \in DOMAIN ds : \A x \in Sections :
      ds[i][x] \in Seq(ItemsIn(s, x))

LEMMA MergedItems ==
    ASSUME NEW s, NEW ds, PartsOf(ds, s), NEW x \in Sections
    PROVE  /\ [i \in DOMAIN ds |-> ds[i][x]] \in Seq(Seq(ItemsIn(s, x)))
           /\ Merged(ds, x) = FlattenSeq([i \in DOMAIN ds |-> ds[i][x]])
           /\ Merged(ds, x) \in Seq(ItemsIn(s, x))
  <1> DEFINE I == ItemsIn(s, x)
             ss == [i \in DOMAIN ds |-> ds[i][x]]
  <1>1. PICK n \in Nat : DOMAIN ds = 1..n
    BY DEF PartsOf
  <1>2. \A i \in 1..n : ds[i][x] \in Seq(I)
    BY <1>1 DEF PartsOf
  <1>3. ss \in Seq(Seq(I))
    <2> HIDE DEF I
    <2> QED
      BY <1>1, <1>2
  <1>4. Merged(ds, x) = FlattenSeq(ss)
    BY DEF Merged
  <1>5. FlattenSeq(ss) \in Seq(I)
    <2> HIDE DEF ss, I
    <2> QED
      BY <1>3, FlattenedType
  <1>6. QED
    BY <1>3, <1>4, <1>5

\* A section has one item for each of its chats, and each is whole.
LEMMA SectionIsWhole ==
    ASSUME type \in [Chats -> Sections], NEW s, Rows(s), NEW ds, PartsOf(ds, s),
           NEW x \in Sections
    PROVE  /\ Section(ds, s, x) \in Seq(WholeItems(s, x))
           /\ OnePerChat(Section(ds, s, x), s, x)
  <1> DEFINE merged == Merged(ds, x)
             dropped == Drop(merged)
             ensured == Ensure(dropped, s, x)
             attached == Attach(ensured, s)
             joined == MergeByChat(attached)
             I == ItemsIn(s, x)
  <1>1. s \in Seq(Row)
    BY DEF Rows
  <1>2. merged \in Seq(I)
    BY MergedItems
  <1>3. dropped \in Seq(I)
    <2> HIDE DEF merged, I
    <2> QED
      BY <1>2, AtElements DEF Drop
  <1>4. ensured \in Seq(I) /\ Complete(ensured, s, x)
    <2> HIDE DEF dropped
    <2> QED
      BY <1>1, <1>3, Ensured
  <1>5. /\ attached \in Seq(I) /\ Complete(attached, s, x)
        /\ \A i \in DOMAIN attached : Illustrated(attached[i], s)
    <2> HIDE DEF ensured
    <2>1. /\ attached \in Seq(I) /\ DOMAIN attached = DOMAIN ensured
          /\ \A i \in DOMAIN ensured :
               /\ attached[i].chat = ensured[i].chat /\ attached[i].refs = ensured[i].refs
               /\ Illustrated(attached[i], s)
      BY <1>1, <1>4, Attached
    <2> HIDE DEF attached
    <2>2. QED
      BY <1>4, <2>1 DEF Complete
  <1>6. /\ joined \in Seq(I) /\ OnePerChat(joined, s, x)
        /\ \A i \in DOMAIN joined :
             joined[i].refs = Ids(Of(s, joined[i].chat)) /\ Illustrated(joined[i], s)
    <2> HIDE DEF attached
    <2> QED
      BY <1>1, <1>5, MergedByChat
  <1>7. Section(ds, s, x) = Enrich(joined, s)
    BY DEF Section, Gathered
  <1>8. QED
    <2> HIDE DEF joined
    <2> QED
      BY <1>6, <1>7, Enriched

------------------------------------------------------------------------------
\* The sections and the alerts.

\* The positions of the items of a chat, of which a list has at most one.
LEMMA PlacesOfChat ==
    ASSUME NEW items, NEW c,
           \A i, j \in DOMAIN items : items[i].chat = items[j].chat => i = j
    PROVE  Cardinality(Places(items, c)) =
             IF \E i \in DOMAIN items : items[i].chat = c THEN 1 ELSE 0
  <1>1. CASE \E i \in DOMAIN items : items[i].chat = c
    <2>1. PICK i \in DOMAIN items : items[i].chat = c
      BY <1>1
    <2>2. Places(items, c) = {i}
      BY <2>1 DEF Places
    <2>3. QED
      BY <1>1, <2>2, FS_Singleton
  <1>2. CASE ~ \E i \in DOMAIN items : items[i].chat = c
    <2>1. Places(items, c) = {}
      BY <1>2 DEF Places
    <2>2. QED
      BY <1>2, <2>1, FS_EmptySet
  <1>3. QED
    BY <1>1, <1>2

\* What is left of a section.
LEMMA WithoutItems ==
    ASSUME NEW X, NEW items \in Seq(X), NEW cs,
           \A i, j \in DOMAIN items : items[i].chat = items[j].chat => i = j
    PROVE  /\ ToSet(Without(items, cs)) = {item \in ToSet(items) : item.chat \notin ToSet(cs)}
           /\ \A i, j \in DOMAIN Without(items, cs) :
                Without(items, cs)[i].chat = Without(items, cs)[j].chat => i = j
  <1> DEFINE I == {i \in DOMAIN items : items[i].chat \notin ToSet(cs)}
             t == At(items, I)
  <1>1. Without(items, cs) = t
    BY DEF Without
  <1>2. ToSet(t) = {items[i] : i \in I \cap DOMAIN items}
    <2> HIDE DEF I
    <2> QED
      BY AtElements
  <1>3. \A j, k \in DOMAIN t : t[j] = t[k] => j = k
    <2> HIDE DEF I
    <2> QED
      BY AtDistinct
  <1>4. ToSet(t) = {item \in ToSet(items) : item.chat \notin ToSet(cs)}
    <2>1. {items[i] : i \in I \cap DOMAIN items}
            = {item \in {items[i] : i \in DOMAIN items} : item.chat \notin ToSet(cs)}
      OBVIOUS
    <2> HIDE DEF t
    <2>2. ToSet(items) = {items[i] : i \in DOMAIN items}
      BY DEF ToSet
    <2>3. QED
      BY <1>2, <2>1, <2>2
  <1>5. ASSUME NEW j \in DOMAIN t, NEW k \in DOMAIN t, t[j].chat = t[k].chat
        PROVE  j = k
    <2>1. t[j] \in ToSet(t) /\ t[k] \in ToSet(t)
      BY DEF ToSet
    <2> HIDE DEF t, I
    <2>2. PICK a \in DOMAIN items : t[j] = items[a]
      BY <1>2, <2>1
    <2>3. PICK b \in DOMAIN items : t[k] = items[b]
      BY <1>2, <2>1
    <2>4. t[j] = t[k]
      BY <1>5, <2>2, <2>3
    <2>5. QED
      BY <1>3, <2>4
  <1> HIDE DEF t
  <1>6. QED
    BY <1>1, <1>4, <1>5

\* The urgent messages of a chat.
UrgentOf(s, c) == {r.id : r \in {q \in ToSet(Of(s, c)) : q.urgent}}

LEMMA UrgentChats ==
    ASSUME NEW s, s \in Seq(Row)
    PROVE  /\ ChatsOf(Urgent(s)) \in Seq(Chats)
           /\ \A j, k \in DOMAIN ChatsOf(Urgent(s)) :
                ChatsOf(Urgent(s))[j] = ChatsOf(Urgent(s))[k] => j = k
           /\ \A c : c \in ToSet(ChatsOf(Urgent(s))) <=> UrgentOf(s, c) # {}
           /\ \A c : Ids(Of(Urgent(s), c)) = UrgentOf(s, c)
  <1> DEFINE u == Urgent(s)
  <1>1. u \in Seq(Row) /\ ToSet(u) = {r \in ToSet(s) : r.urgent}
    BY UrgentElements
  <1>2. \A r \in Row : r.chat \in Chats
    BY DEF Row
  <1>3. /\ ChatsOf(u) \in Seq(Chats)
        /\ ToSet(ChatsOf(u)) = {r.chat : r \in ToSet(u)}
        /\ \A j, k \in DOMAIN ChatsOf(u) : ChatsOf(u)[j] = ChatsOf(u)[k] => j = k
    <2> HIDE DEF u
    <2> QED
      BY <1>1, <1>2, ChatsOfElements
  <1>4. ASSUME NEW c
        PROVE  /\ Ids(Of(u, c)) = UrgentOf(s, c)
               /\ c \in ToSet(ChatsOf(u)) <=> UrgentOf(s, c) # {}
    <2>1. ToSet(Of(u, c)) = {r \in ToSet(u) : r.chat = c}
      <3> HIDE DEF u
      <3> QED
        BY <1>1, OfElements
    <2>2. ToSet(Of(s, c)) = {r \in ToSet(s) : r.chat = c}
      BY OfElements
    <2> HIDE DEF u
    <2>3. ToSet(Of(u, c)) = {q \in ToSet(Of(s, c)) : q.urgent}
      BY <1>1, <2>1, <2>2
    <2>4. Ids(Of(u, c)) = UrgentOf(s, c)
      BY <2>3, IdsOf DEF UrgentOf
    <2>5. c \in ToSet(ChatsOf(u)) <=> ToSet(Of(u, c)) # {}
      BY <1>3, <2>1
    <2>6. QED
      BY <2>3, <2>4, <2>5 DEF UrgentOf
  <1> HIDE DEF u
  <1>5. QED
    BY <1>3, <1>4 DEF u

\* What a digest of the rows s must be (EachChatInItsPlace, CountsAreWhole and
\* NothingIsLost, of any content).
InItsPlace(content, s) ==
    \A c \in Chats \cup {Stranger} :
      LET place == IF UrgentOf(s, c) # {} THEN "alerts" ELSE
                   IF c \in ToSet(ChatsOf(s)) THEN type[c] ELSE "nowhere"
      IN /\ Cardinality(Places(content.alerts, c)) = IF place = "alerts" THEN 1 ELSE 0
         /\ \A x \in Sections :
              Cardinality(Places(content.sections[x], c)) = IF place = x THEN 1 ELSE 0

Counted(content, s) ==
    \A item \in ItemsOf(content.sections) \cup ToSet(content.alerts) :
      LET own == Of(s, item.chat)
          given == Len(Analyzed(own))
          media == Of(Media(s), item.chat)
      IN /\ item.count = Len(own)
         /\ item.analyzed = IF given < Len(own) THEN given ELSE None
         /\ item \in ItemsOf(content.sections) /\ Len(TitlesOf(media)) = 1
              => item.media = Ids(media)

Referred(content, s) ==
    /\ \A item \in ItemsOf(content.sections) : item.refs = Ids(Of(s, item.chat))
    /\ \A item \in ToSet(content.alerts) : item.refs = UrgentOf(s, item.chat)

\* Sections with one whole item for each of their chats.
WholeSections(d, s) ==
    \A x \in Sections : d[x] \in Seq(WholeItems(s, x)) /\ OnePerChat(d[x], s, x)

\* The alert of a chat is made of the chat's item.
Alert(d, c, refs) ==
    [(CHOOSE i \in ItemsOf(d) : i.chat = c) EXCEPT !.refs = refs, !.media = {}, !.by = "local"]

LEMMA AlertOfChat ==
    ASSUME type \in [Chats -> Sections], NEW s, s \in Seq(Row), NEW d, WholeSections(d, s),
           NEW c, UrgentOf(s, c) # {},
           NEW refs
    PROVE  /\ Alert(d, c, refs).chat = c /\ Alert(d, c, refs).refs = refs
           /\ Alert(d, c, refs).count = Len(Of(s, c))
           /\ Alert(d, c, refs).analyzed = IF Len(Analyzed(Of(s, c))) < Len(Of(s, c))
                               THEN Len(Analyzed(Of(s, c))) ELSE None
  <1>1. \E r \in ToSet(s) : r.chat = c /\ r \in Row
    <2>1. ToSet(Of(s, c)) # {}
      BY DEF UrgentOf
    <2>2. ToSet(Of(s, c)) = {r \in ToSet(s) : r.chat = c}
      BY OfElements
    <2>3. ToSet(s) \subseteq Row
      BY DEF ToSet
    <2>4. QED
      BY <2>1, <2>2, <2>3
  <1>2. c \in Chats /\ type[c] \in Sections /\ c \in ChatsIn(s, type[c])
    BY <1>1 DEF ChatsIn, Row
  <1>3. \E i \in ItemsOf(d) : i.chat = c
    <2>1. PICK j \in DOMAIN d[type[c]] : d[type[c]][j].chat = c
      BY <1>2 DEF WholeSections, OnePerChat
    <2>2. d[type[c]][j] \in ItemsOf(d)
      BY <1>2 DEF ItemsOf, ToSet
    <2>3. QED
      BY <2>1, <2>2
  <1> DEFINE item == CHOOSE i \in ItemsOf(d) : i.chat = c
             alert == Alert(d, c, refs)
  <1>4. item \in ItemsOf(d) /\ item.chat = c
    BY <1>3
  <1>5. PICK x \in Sections : item \in WholeItems(s, x)
    <2> HIDE DEF item
    <2>1. PICK x \in Sections : item \in ToSet(d[x])
      BY <1>4 DEF ItemsOf
    <2>2. item \in WholeItems(s, x)
      BY <2>1 DEF WholeSections, ToSet
    <2>3. QED
      BY <2>2
  <1>6. alert = [item EXCEPT !.refs = refs, !.media = {}, !.by = "local"]
    BY DEF Alert
  <1> HIDE DEF item, alert
  <1>7. /\ alert.chat = item.chat /\ alert.refs = refs
        /\ alert.count = item.count /\ alert.analyzed = item.analyzed
    BY <1>5, <1>6 DEF WholeItems
  <1>8. QED
    BY <1>4, <1>5, <1>7 DEF WholeItems, Whole, alert

\* What Route makes of whole sections is what a digest must be.
LEMMA Routed ==
    ASSUME type \in [Chats -> Sections], NEW s, s \in Seq(Row), NEW d, WholeSections(d, s)
    PROVE  /\ InItsPlace(Route(d, s), s)
           /\ Counted(Route(d, s), s)
           /\ Referred(Route(d, s), s)
  <1> DEFINE cs == ChatsOf(Urgent(s))
             u(c) == UrgentOf(s, c)
             secs == [x \in Sections |-> Without(d[x], cs)]
             alert(c) == [(CHOOSE i \in ItemsOf(d) : i.chat = c) EXCEPT
                            !.refs = Ids(Of(Urgent(s), c)), !.media = {}, !.by = "local"]
             alerts == [i \in DOMAIN cs |-> alert(cs[i])]
             content == Route(d, s)
  <1>1. content = [sections |-> secs, alerts |-> alerts]
    BY DEF Route
  <1>2. content.sections = secs /\ content.alerts = alerts
    <2> HIDE DEF secs, alerts, content
    <2> QED
      BY <1>1
  <1>3. /\ cs \in Seq(Chats)
        /\ \A j, k \in DOMAIN cs : cs[j] = cs[k] => j = k
        /\ \A c : c \in ToSet(cs) <=> u(c) # {}
        /\ \A c : Ids(Of(Urgent(s), c)) = u(c)
    BY UrgentChats
  <1>4. ASSUME NEW i \in DOMAIN cs
        PROVE  /\ u(cs[i]) # {}
               /\ alerts[i].chat = cs[i] /\ alerts[i].refs = u(cs[i])
               /\ alerts[i].count = Len(Of(s, cs[i]))
               /\ alerts[i].analyzed = IF Len(Analyzed(Of(s, cs[i]))) < Len(Of(s, cs[i]))
                                       THEN Len(Analyzed(Of(s, cs[i]))) ELSE None
    <2>1. cs[i] \in ToSet(cs)
      BY DEF ToSet
    <2>2. u(cs[i]) # {} /\ Ids(Of(Urgent(s), cs[i])) = u(cs[i])
      <3> HIDE DEF u, cs
      <3> QED
        BY <1>3, <2>1
    <2>3. alerts[i] = alert(cs[i])
      OBVIOUS
    <2> DEFINE c == cs[i]
               a == alerts[i]
    <2>4. a = Alert(d, c, Ids(Of(Urgent(s), c)))
      BY <2>3 DEF Alert
    <2>5. UrgentOf(s, c) # {}
      BY <2>2
    <2> HIDE DEF c, a
    <2>6. /\ a.chat = c /\ a.refs = Ids(Of(Urgent(s), c)) /\ a.count = Len(Of(s, c))
          /\ a.analyzed = IF Len(Analyzed(Of(s, c))) < Len(Of(s, c))
                          THEN Len(Analyzed(Of(s, c))) ELSE None
      BY <2>4, <2>5, AlertOfChat
    <2>7. QED
      BY <2>2, <2>6 DEF a, c
  <1>5. ASSUME NEW x \in Sections
        PROVE  /\ ToSet(secs[x]) = {item \in ToSet(d[x]) : u(item.chat) = {}}
               /\ \A i, j \in DOMAIN secs[x] : secs[x][i].chat = secs[x][j].chat => i = j
    <2>1. /\ d[x] \in Seq(WholeItems(s, x))
          /\ \A i, j \in DOMAIN d[x] : d[x][i].chat = d[x][j].chat => i = j
      BY DEF WholeSections, OnePerChat
    <2> HIDE DEF cs
    <2>2. /\ ToSet(Without(d[x], cs)) = {item \in ToSet(d[x]) : item.chat \notin ToSet(cs)}
          /\ \A i, j \in DOMAIN Without(d[x], cs) :
               Without(d[x], cs)[i].chat = Without(d[x], cs)[j].chat => i = j
      BY <2>1, WithoutItems
    <2>3. secs[x] = Without(d[x], cs)
      OBVIOUS
    <2> HIDE DEF secs, u
    <2>4. QED
      BY <1>3, <2>2, <2>3
  <1>6. ASSUME NEW x \in Sections, NEW item \in ToSet(secs[x])
        PROVE  item.chat \in ChatsIn(s, x) /\ Whole(item, s) /\ u(item.chat) = {}
    <2> HIDE DEF secs, u
    <2>1. item \in ToSet(d[x]) /\ u(item.chat) = {}
      BY <1>5
    <2>2. item \in WholeItems(s, x)
      BY <2>1 DEF WholeSections, ToSet
    <2>3. QED
      BY <2>1, <2>2 DEF WholeItems
  <1>7. DOMAIN alerts = DOMAIN cs
    OBVIOUS
  <1>8. ASSUME NEW item \in ToSet(alerts)
        PROVE  /\ item.refs = UrgentOf(s, item.chat)
               /\ item.count = Len(Of(s, item.chat))
               /\ item.analyzed = IF Len(Analyzed(Of(s, item.chat))) < Len(Of(s, item.chat))
                                  THEN Len(Analyzed(Of(s, item.chat))) ELSE None
    <2>1. PICK i \in DOMAIN cs : item = alerts[i]
      <3> HIDE DEF alerts, cs
      <3> QED
        BY <1>7 DEF ToSet
    <2> HIDE DEF alerts, cs
    <2>2. QED
      BY <1>4, <2>1
  <1>9. \A item \in ItemsOf(secs) : \E x \in Sections : item \in ToSet(secs[x])
    BY DEF ItemsOf
  <1> HIDE DEF content, secs, alerts
  <1>10. Referred(content, s)
    <2>1. \A item \in ItemsOf(secs) : item.refs = Ids(Of(s, item.chat))
      BY <1>6, <1>9 DEF Whole
    <2>2. QED
      BY <1>2, <1>8, <2>1 DEF Referred
  <1>11. Counted(content, s)
    <2> SUFFICES ASSUME NEW item \in ItemsOf(secs) \cup ToSet(alerts)
                 PROVE  LET own == Of(s, item.chat)
                            given == Len(Analyzed(own))
                            media == Of(Media(s), item.chat)
                        IN /\ item.count = Len(own)
                           /\ item.analyzed = IF given < Len(own) THEN given ELSE None
                           /\ item \in ItemsOf(secs) /\ Len(TitlesOf(media)) = 1
                                => item.media = Ids(media)
      BY <1>2 DEF Counted
    <2>1. CASE item \in ItemsOf(secs)
      <3>1. Whole(item, s)
        BY <1>6, <1>9, <2>1
      <3>2. QED
        BY <3>1 DEF Whole, Illustrated
    <2>2. CASE item \notin ItemsOf(secs)
      BY <1>8, <2>2
    <2>3. QED
      BY <2>1, <2>2
  <1>12. InItsPlace(content, s)
    <2> SUFFICES ASSUME NEW c \in Chats \cup {Stranger}
                 PROVE  LET place == IF u(c) # {} THEN "alerts" ELSE
                                     IF c \in ToSet(ChatsOf(s)) THEN type[c] ELSE "nowhere"
                        IN /\ Cardinality(Places(alerts, c)) = IF place = "alerts" THEN 1 ELSE 0
                           /\ \A x \in Sections :
                                Cardinality(Places(secs[x], c)) = IF place = x THEN 1 ELSE 0
      BY <1>2 DEF InItsPlace
    <2>1. Cardinality(Places(alerts, c)) = IF u(c) # {} THEN 1 ELSE 0
      <3>1. \A i, j \in DOMAIN alerts : alerts[i].chat = alerts[j].chat => i = j
        <4> HIDE DEF cs, u
        <4> QED
          BY <1>3, <1>4, <1>7
      <3>2. (\E i \in DOMAIN alerts : alerts[i].chat = c) <=> u(c) # {}
        <4>1. c \in ToSet(cs) <=> \E i \in DOMAIN cs : cs[i] = c
          BY DEF ToSet
        <4> HIDE DEF cs, u
        <4>2. QED
          BY <1>3, <1>4, <1>7, <4>1
      <3> HIDE DEF u
      <3>3. QED
        BY <3>1, <3>2, PlacesOfChat
    <2>2. ASSUME NEW x \in Sections
          PROVE  Cardinality(Places(secs[x], c)) =
                   IF u(c) = {} /\ c \in ChatsIn(s, x) THEN 1 ELSE 0
      <3>1. (\E i \in DOMAIN secs[x] : secs[x][i].chat = c) <=> \E item \in ToSet(secs[x]) : item.chat = c
        BY DEF ToSet
      <3>2. c \in ChatsIn(s, x) => \E item \in ToSet(d[x]) : item.chat = c
        BY DEF WholeSections, OnePerChat, ToSet
      <3>3. (\E item \in ToSet(secs[x]) : item.chat = c) <=> u(c) = {} /\ c \in ChatsIn(s, x)
        <4> HIDE DEF u
        <4> QED
          BY <1>5, <1>6, <3>2
      <3> HIDE DEF u
      <3>4. QED
        BY <1>5, <3>1, <3>3, PlacesOfChat
    <2>3. ToSet(ChatsOf(s)) = {r.chat : r \in ToSet(s)} /\ ToSet(s) \subseteq Row
      <3>1. \A r \in Row : r.chat \in Chats
        BY DEF Row
      <3>2. ToSet(ChatsOf(s)) = {r.chat : r \in ToSet(s)}
        BY <3>1, ChatsOfElements
      <3>3. QED
        BY <3>2 DEF ToSet
    <2>4. c \in ToSet(ChatsOf(s)) => c \in Chats /\ type[c] \in Sections
      BY <2>3 DEF Row
    <2>5. \A x : c \in ChatsIn(s, x) <=> c \in ToSet(ChatsOf(s)) /\ type[c] = x
      BY <2>3, <2>4 DEF ChatsIn
    <2>6. "alerts" \notin Sections /\ "nowhere" \notin Sections
      BY DEF Sections
    <2> HIDE DEF u
    <2>7. QED
      BY <2>1, <2>2, <2>4, <2>5, <2>6
  <1>13. QED
    BY <1>10, <1>11, <1>12 DEF content

------------------------------------------------------------------------------
\* The payloads the model is asked about.

\* What has been cut of a payload at each position.
Cuts(cut, T, p) ==
    /\ cut \in [0..Len(p) -> Seq(Seq(T))]
    /\ cut[0] = <<>>
    /\ \A i \in 1..Len(p) :
         cut[i] = IF cut[i - 1] # <<>>
                     /\ Weight(Append(cut[i - 1][Len(cut[i - 1])], p[i])) <= MaxTokens
                  THEN [cut[i - 1] EXCEPT ![Len(cut[i - 1])] = Append(@, p[i])]
                  ELSE Append(cut[i - 1], <<p[i]>>)
    /\ Chunks(p) = cut[Len(p)]

LEMMA ChunksWalk ==
    ASSUME NEW X, NEW p \in Seq(X)
    PROVE  \E cut : Cuts(cut, X, p)
  <1> DEFINE n == Len(p)
             T == Seq(Seq(X))
             e == <<>>
             More(acc, i) == acc # <<>> /\ Weight(Append(acc[Len(acc)], p[i])) <= MaxTokens
             Then(acc, i) == IF More(acc, i) THEN [acc EXCEPT ![Len(acc)] = Append(@, p[i])]
                             ELSE Append(acc, <<p[i]>>)
             P(g) == g = [i \in 0..n |-> IF i = 0 THEN e ELSE Then(g[i - 1], i)]
             got == CHOOSE g : P(g)
             nxt == [i \in 1..n |-> [acc \in T |-> Then(acc, i)]]
  <1>1. n \in Nat /\ e \in T
    OBVIOUS
  <1>2. nxt \in [1..n -> [T -> T]]
    <2>1. ASSUME NEW i \in 1..n, NEW acc \in T PROVE Then(acc, i) \in T
      <3>1. CASE More(acc, i)
        <4>1. acc # <<>>
          BY <3>1
        <4>2. Len(acc) \in 1..Len(acc) /\ acc[Len(acc)] \in Seq(X) /\ p[i] \in X
          BY <4>1
        <4>3. Append(acc[Len(acc)], p[i]) \in Seq(X)
          BY <4>2
        <4>4. [acc EXCEPT ![Len(acc)] = Append(@, p[i])] \in T
          BY <4>2, <4>3
        <4> HIDE DEF More, T
        <4>5. QED
          BY <3>1, <4>4
      <3>2. CASE ~More(acc, i)
        <4>1. Append(acc, <<p[i]>>) \in T
          OBVIOUS
        <4> HIDE DEF More, T
        <4>2. QED
          BY <3>2, <4>1
      <3>3. QED
        BY <3>1, <3>2
    <2> HIDE DEF n, T, Then, P, got
    <2> QED
      BY <2>1
  <1>3. PICK f : Walked(f, n, T, e, nxt)
    <2> HIDE DEF n, T, e, P, got, nxt
    <2> QED
      BY <1>1, <1>2, Walk
  <1>4. ASSUME NEW i \in 1..n
        PROVE  f[i] = Then(f[i - 1], i)
    <2>1. i - 1 \in 0..n
      BY <1>1
    <2>2. f[i - 1] \in T /\ f[i] = nxt[i][f[i - 1]]
      BY <1>3, <2>1 DEF Walked
    <2> HIDE DEF P, got, T, Then, n
    <2>3. QED
      BY <2>2
  <1>5. P(f)
    <2> HIDE DEF got, nxt, Then
    <2>1. ASSUME NEW i \in 0..n
          PROVE  f[i] = IF i = 0 THEN e ELSE Then(f[i - 1], i)
      <3>1. CASE i = 0
        BY <1>3, <3>1 DEF Walked
      <3>2. CASE i # 0
        <4>1. i \in 1..n
          BY <3>2
        <4>2. QED
          BY <1>4, <3>2, <4>1
      <3>3. QED
        BY <3>1, <3>2
    <2>2. f = [i \in 0..n |-> f[i]]
      BY <1>3 DEF Walked
    <2> HIDE DEF e, n
    <2>3. QED
      BY <2>1, <2>2
  <1>6. P(got)
    <2> HIDE DEF P, nxt
    <2> QED
      BY <1>5 DEF got
  <1>7. Chunks(p) = got[n]
    BY DEF Chunks
  <1> HIDE DEF got
  <1>8. \A i \in 0..n : got[i] = IF i = 0 THEN e ELSE Then(got[i - 1], i)
    <2> HIDE DEF Then
    <2> QED
      BY <1>6
  <1> HIDE DEF P, nxt
  <1> DEFINE S == {i \in 0..n : got[i] = f[i]}
  <1>9. 0..n \subseteq S
    <2> HIDE DEF Then
    <2>1. 0 \in S
      BY <1>1, <1>3, <1>8 DEF Walked
    <2>2. ASSUME NEW i \in 1..n, i - 1 \in S PROVE i \in S
      BY <1>4, <1>8, <2>2
    <2> HIDE DEF S, n
    <2> QED
      BY <1>1, <2>1, <2>2, Induction
  <1>10. Cuts(f, X, p)
    <2>1. Chunks(p) = f[n]
      BY <1>1, <1>7, <1>9
    <2>2. f \in [0..n -> T] /\ f[0] = e
      BY <1>3 DEF Walked
    <2>3. QED
      BY <1>4, <2>1, <2>2 DEF Cuts
  <1>11. QED
    BY <1>10

LEMMA ChunksType ==
    ASSUME NEW X, NEW p \in Seq(X)
    PROVE  Chunks(p) \in Seq(Seq(X))
  <1>1. PICK cut : Cuts(cut, X, p)
    BY ChunksWalk
  <1>2. Len(p) \in 0..Len(p)
    OBVIOUS
  <1>3. QED
    BY <1>1, <1>2 DEF Cuts

\* The entries of the chats that have messages.
Asked(s) == {Entry(s, c) : c \in {r.chat : r \in ToSet(s)}}

LEMMA PayloadType ==
    ASSUME NEW s, s \in Seq(Row)
    PROVE  Payload(s) \in Seq(Asked(s))
  <1> DEFINE cs == ChatsOf(s)
  <1>1. \A r \in Row : r.chat \in Chats
    BY DEF Row
  <1>2. cs \in Seq(Chats) /\ ToSet(cs) = {r.chat : r \in ToSet(s)}
    BY <1>1, ChatsOfElements
  <1>3. Payload(s) = [i \in DOMAIN cs |-> Entry(s, cs[i])]
    BY DEF Payload
  <1> HIDE DEF cs
  <1>4. \A i \in DOMAIN cs : Entry(s, cs[i]) \in Asked(s)
    BY <1>2 DEF Asked, ToSet
  <1>5. DOMAIN cs = 1..Len(cs) /\ Len(cs) \in Nat
    BY <1>2
  <1>6. QED
    BY <1>3, <1>4, <1>5

\* Sequences that agree up to a place are the same up to it when put together.
LEMMA FlattenPrefix ==
    ASSUME NEW T, NEW ss \in Seq(Seq(T)), NEW tt \in Seq(Seq(T)), NEW n \in Nat,
           n <= Len(ss), n <= Len(tt), \A i \in 1..n : ss[i] = tt[i],
           NEW f, Flattens(f, T, ss), NEW g, Flattens(g, T, tt)
    PROVE  f[n] = g[n]
  <1> DEFINE S == {i \in 0..n : f[i] = g[i]}
  <1>1. Len(ss) \in Nat /\ Len(tt) \in Nat
    OBVIOUS
  <1>2. 0..n \subseteq S
    <2>1. 0 \in S
      BY DEF Flattens
    <2>2. ASSUME NEW i \in 1..n, i - 1 \in S PROVE i \in S
      <3>1. i \in 1..Len(ss) /\ i \in 1..Len(tt) /\ ss[i] = tt[i] /\ i \in 0..n
        BY <1>1
      <3>2. f[i] = f[i - 1] \o ss[i]
        BY <3>1 DEF Flattens
      <3>3. g[i] = g[i - 1] \o tt[i]
        BY <3>1 DEF Flattens
      <3>4. f[i] = g[i]
        <4>1. f[i - 1] = g[i - 1]
          BY <2>2
        <4>2. QED
          BY <3>1, <3>2, <3>3, <4>1, Zenon
      <3>5. QED
        BY <3>1, <3>4
    <2> HIDE DEF S
    <2>3. QED
      BY <2>1, <2>2, Induction
  <1>3. QED
    BY <1>2

LEMMA FlattenedNone == FlattenSeq(<<>>) = <<>>
  <1> DEFINE e == <<>>
  <1>1. e \in Seq(Seq({})) /\ Len(e) = 0
    OBVIOUS
  <1>2. \E f : Flattens(f, {}, e)
    <2> HIDE DEF e
    <2> QED
      BY <1>1, FlattenWalk
  <1>3. QED
    BY <1>1, <1>2 DEF Flattens

LEMMA FlattenedAppended ==
    ASSUME NEW T, NEW ss \in Seq(Seq(T)), NEW t \in Seq(T)
    PROVE  FlattenSeq(Append(ss, t)) = FlattenSeq(ss) \o t
  <1> DEFINE n == Len(ss)
             Q == Seq(T)
             tt == Append(ss, t)
  <1>1. /\ tt \in Seq(Q) /\ Len(tt) = n + 1 /\ n \in Nat /\ tt[n + 1] = t
        /\ \A i \in 1..n : ss[i] = tt[i]
    <2>1. ss \in Seq(Q) /\ t \in Q
      OBVIOUS
    <2> HIDE DEF Q
    <2>2. QED
      BY <2>1
  <1> HIDE DEF tt
  <1>2. PICK f : Flattens(f, T, ss)
    BY FlattenWalk
  <1>3. PICK g : Flattens(g, T, tt)
    BY <1>1, FlattenWalk
  <1>4. n <= Len(ss) /\ n <= Len(tt)
    BY <1>1
  <1>5. f[n] = g[n]
    <2> HIDE DEF n
    <2> QED
      BY <1>1, <1>2, <1>3, <1>4, FlattenPrefix DEF Q
  <1>6. g[n + 1] = g[n] \o t
    <2>1. n + 1 \in 1..Len(tt) /\ (n + 1) - 1 = n
      BY <1>1
    <2>2. g[n + 1] = g[(n + 1) - 1] \o tt[n + 1]
      BY <1>3, <2>1 DEF Flattens
    <2>3. QED
      BY <1>1, <2>1, <2>2, Zenon
  <1>7. FlattenSeq(ss) = f[n] /\ FlattenSeq(tt) = g[n + 1]
    BY <1>1, <1>2, <1>3 DEF Flattens
  <1>8. QED
    BY <1>5, <1>6, <1>7, Zenon DEF tt

LEMMA FlattenedExtended ==
    ASSUME NEW T, NEW ss \in Seq(Seq(T)), ss # <<>>, NEW v \in T
    PROVE  FlattenSeq([ss EXCEPT ![Len(ss)] = Append(@, v)]) = Append(FlattenSeq(ss), v)
  <1> DEFINE n == Len(ss)
             Q == Seq(T)
             own == ss[n]
             tt == [ss EXCEPT ![n] = Append(@, v)]
  <1>1. n \in Nat /\ n # 0 /\ n \in 1..n /\ own \in Q
    OBVIOUS
  <1>2. /\ tt \in Seq(Q) /\ Len(tt) = n /\ tt[n] = Append(own, v)
        /\ \A i \in 1..(n - 1) : ss[i] = tt[i]
    <2>1. Append(own, v) \in Q
      BY <1>1
    <2>2. ss \in Seq(Q)
      OBVIOUS
    <2>3. tt = [ss EXCEPT ![n] = Append(own, v)]
      OBVIOUS
    <2> DEFINE w == Append(own, v)
    <2> HIDE DEF Q, own, w, tt
    <2>4. w \in Q /\ tt = [ss EXCEPT ![n] = w]
      BY <2>1, <2>3 DEF w
    <2>5. tt \in Seq(Q) /\ Len(tt) = n /\ tt[n] = w
      BY <1>1, <2>2, <2>4
    <2>6. \A i \in 1..(n - 1) : ss[i] = tt[i]
      BY <1>1, <2>2, <2>4
    <2>7. QED
      BY <2>5, <2>6 DEF w
  <1>3. PICK f : Flattens(f, T, ss)
    BY FlattenWalk
  <1> HIDE DEF tt
  <1>4. PICK g : Flattens(g, T, tt)
    BY <1>2, FlattenWalk
  <1>5. f[n - 1] = g[n - 1] /\ f[n - 1] \in Seq(T)
    <2> DEFINE m == n - 1
    <2>1. m \in Nat /\ m <= Len(ss) /\ m <= Len(tt) /\ m \in 0..Len(ss)
      BY <1>1, <1>2
    <2>2. \A i \in 1..m : ss[i] = tt[i]
      BY <1>2
    <2> HIDE DEF m, n, own
    <2>3. f[m] = g[m]
      <3>1. tt \in Seq(Seq(T))
        BY <1>2 DEF Q
      <3> HIDE DEF Q
      <3>2. QED
        BY <1>3, <1>4, <2>1, <2>2, <3>1, FlattenPrefix
    <2>4. f[m] \in Seq(T)
      BY <1>3, <2>1 DEF Flattens
    <2>5. QED
      BY <2>3, <2>4 DEF m
  <1>6. f[n] = f[n - 1] \o own
    BY <1>1, <1>3 DEF Flattens
  <1>7. g[n] = g[n - 1] \o Append(own, v)
    <2>1. g[n] = g[n - 1] \o tt[n]
      BY <1>1, <1>2, <1>4 DEF Flattens
    <2>2. QED
      BY <1>2, <2>1, Zenon
  <1>8. FlattenSeq(ss) = f[n] /\ FlattenSeq(tt) = g[n]
    BY <1>2, <1>3, <1>4 DEF Flattens
  <1>9. ASSUME NEW u \in Seq(T)
        PROVE  u \o Append(own, v) = Append(u \o own, v)
    <2>1. own \in Seq(T)
      BY <1>1
    <2> HIDE DEF own
    <2>2. QED
      BY <2>1
  <1> HIDE DEF own, n, Q
  <1>10. g[n] = Append(f[n], v)
    BY <1>5, <1>6, <1>7, <1>9
  <1>11. QED
    BY <1>8, <1>10, Zenon DEF tt, n

\* A chunk is not empty and is within the limit unless it is one entry, which cannot be
\* cut.
FitChunk(chunk) == chunk # <<>> /\ (Len(chunk) = 1 \/ Weight(chunk) <= MaxTokens)

\* The chunks are the payload, every entry once and in its order, and each fits unless it
\* is a single entry (services/digest.py:255-267).
THEOREM ChunksAreThePayload ==
    ASSUME NEW X, NEW p \in Seq(X)
    PROVE  /\ FlattenSeq(Chunks(p)) = p
           /\ \A i \in DOMAIN Chunks(p) : FitChunk(Chunks(p)[i])
  <1>1. PICK cut : Cuts(cut, X, p)
    BY ChunksWalk
  <1> DEFINE n == Len(p)
             C == Seq(X)
             S == {i \in 0..n : /\ FlattenSeq(cut[i]) = SubSeq(p, 1, i)
                                /\ \A k \in DOMAIN cut[i] : FitChunk(cut[i][k])}
  <1>2. n \in Nat /\ \A i \in 1..n : p[i] \in X
    OBVIOUS
  <1>3. 0 \in S
    <2>1. cut[0] = <<>>
      BY <1>1 DEF Cuts
    <2>2. SubSeq(p, 1, 0) = <<>>
      OBVIOUS
    <2>3. FlattenSeq(cut[0]) = <<>>
      BY <2>1, FlattenedNone
    <2>4. DOMAIN cut[0] = {}
      BY <2>1
    <2>5. 0 \in 0..n
      BY <1>2
    <2>6. FlattenSeq(cut[0]) = SubSeq(p, 1, 0)
      BY <2>2, <2>3, Zenon
    <2>7. \A k \in DOMAIN cut[0] : FitChunk(cut[0][k])
      BY <2>4
    <2> HIDE DEF n
    <2>8. QED
      BY <2>5, <2>6, <2>7
  <1>4. ASSUME NEW i \in 1..n, i - 1 \in S PROVE i \in S
    <2> DEFINE acc == cut[i - 1]
               m == Len(acc)
               one == <<p[i]>>
               More == acc # <<>> /\ Weight(Append(acc[m], p[i])) <= MaxTokens
    <2>1. i \in 0..n /\ i - 1 \in 0..n
      BY <1>2
    <2>2. cut[i] = IF More THEN [acc EXCEPT ![m] = Append(@, p[i])] ELSE Append(acc, one)
      BY <1>1 DEF Cuts
    <2>3. acc \in Seq(C)
      BY <1>1, <2>1 DEF Cuts
    <2>4. /\ FlattenSeq(acc) = SubSeq(p, 1, i - 1)
          /\ \A k \in DOMAIN acc : FitChunk(acc[k])
      BY <1>4
    <2>5. SubSeq(p, 1, i) = Append(FlattenSeq(acc), p[i])
      BY <2>4, LongerPrefix
    <2>6. p[i] \in X /\ one \in C
      BY <1>2
    <2>7. FlattenSeq(acc) \in Seq(X)
      BY <2>3, FlattenedType DEF C
    <2> HIDE DEF acc
    <2>8. CASE More
      <3> DEFINE w == Append(acc[m], p[i])
                 t == [acc EXCEPT ![m] = w]
      <3>1. cut[i] = t
        <4> HIDE DEF w
        <4>1. cut[i] = [acc EXCEPT ![m] = Append(@, p[i])]
          BY <2>2, <2>8
        <4>2. QED
          BY <4>1 DEF w
      <3>2. acc # <<>> /\ Weight(w) <= MaxTokens
        BY <2>8
      <3>3. m \in 1..m /\ acc[m] \in C /\ DOMAIN acc = 1..m
        <4> HIDE DEF C, w
        <4> QED
          BY <2>3, <3>2
      <3>4. w # <<>>
        BY <2>6, <3>3
      <3>5. FitChunk(w)
        BY <3>2, <3>4 DEF FitChunk
      <3>6. FlattenSeq([acc EXCEPT ![m] = Append(@, p[i])]) = Append(FlattenSeq(acc), p[i])
        BY <2>3, <2>6, <3>2, FlattenedExtended
      <3>7. FlattenSeq(cut[i]) = SubSeq(p, 1, i)
        BY <2>2, <2>5, <2>8, <3>6
      <3> HIDE DEF w, m
      <3>8. DOMAIN t = 1..m /\ \A k \in 1..m : t[k] = IF k = m THEN w ELSE acc[k]
        BY <3>3
      <3> HIDE DEF t
      <3>9. \A k \in DOMAIN cut[i] : FitChunk(cut[i][k])
        BY <2>4, <3>1, <3>3, <3>5, <3>8
      <3>10. QED
        BY <2>1, <3>7, <3>9
    <2>9. CASE ~More
      <3> DEFINE t == Append(acc, one)
      <3>1. cut[i] = t
        BY <2>2, <2>9
      <3>2. FitChunk(one)
        BY DEF FitChunk
      <3>3. FlattenSeq(t) = FlattenSeq(acc) \o one
        <4> HIDE DEF one
        <4> QED
          BY <2>3, <2>6, FlattenedAppended DEF C
      <3>4. FlattenSeq(acc) \o one = Append(FlattenSeq(acc), p[i])
        <4> DEFINE u == FlattenSeq(acc)
        <4>1. u \in Seq(X) /\ p[i] \in X
          BY <2>6, <2>7
        <4> HIDE DEF u
        <4>2. u \o one = Append(u, p[i])
          BY <4>1
        <4>3. QED
          BY <4>2 DEF u
      <3>5. FlattenSeq(cut[i]) = SubSeq(p, 1, i)
        BY <2>5, <3>1, <3>3, <3>4
      <3> HIDE DEF one, C
      <3>6. /\ DOMAIN t = 1..(m + 1) /\ DOMAIN acc = 1..m /\ m \in Nat
            /\ \A k \in 1..(m + 1) : t[k] = IF k = m + 1 THEN one ELSE acc[k]
        BY <2>3, <2>6
      <3> HIDE DEF t, m
      <3>7. \A k \in DOMAIN cut[i] : FitChunk(cut[i][k])
        BY <2>4, <3>1, <3>2, <3>6
      <3>8. QED
        BY <2>1, <3>5, <3>7
    <2>10. QED
      BY <2>8, <2>9
  <1>5. n \in S
    <2> HIDE DEF S, n
    <2>1. 0..n \subseteq S
      BY <1>2, <1>3, <1>4, Induction
    <2>2. QED
      BY <1>2, <2>1
  <1>6. Chunks(p) = cut[n] /\ SubSeq(p, 1, n) = p
    BY <1>1 DEF Cuts
  <1>7. QED
    BY <1>5, <1>6

\* Entries that are about different chats.
DistinctChats(chunk) ==
    \A j, k \in DOMAIN chunk : chunk[j].chat = chunk[k].chat => j = k

LEMMA PayloadDistinct ==
    ASSUME NEW s, s \in Seq(Row)
    PROVE  DistinctChats(Payload(s))
  <1> DEFINE cs == ChatsOf(s)
  <1>1. \A r \in Row : r.chat \in Chats
    BY DEF Row
  <1>2. \A j, k \in DOMAIN cs : cs[j] = cs[k] => j = k
    BY <1>1, ChatsOfElements
  <1>3. Payload(s) = [i \in DOMAIN cs |-> Entry(s, cs[i])]
    BY DEF Payload
  <1> HIDE DEF cs
  <1>4. \A i \in DOMAIN cs : Entry(s, cs[i]).chat = cs[i]
    BY DEF Entry
  <1>5. QED
    BY <1>2, <1>3, <1>4 DEF DistinctChats

LEMMA ChunksDistinct ==
    ASSUME NEW X, NEW p \in Seq(X), DistinctChats(p)
    PROVE  \A i \in DOMAIN Chunks(p) : DistinctChats(Chunks(p)[i])
  <1>1. PICK cut : Cuts(cut, X, p)
    BY ChunksWalk
  <1> DEFINE n == Len(p)
             C == Seq(X)
             Drawn(chunk, i) ==
               \A j \in DOMAIN chunk : \E l \in 1..i : chunk[j] = p[l]
             Good(chunk, i) == DistinctChats(chunk) /\ Drawn(chunk, i)
             S == {i \in 0..n : \A k \in DOMAIN cut[i] : Good(cut[i][k], i)}
  <1>2. n \in Nat /\ DOMAIN p = 1..n /\ \A i \in 1..n : p[i] \in X
    OBVIOUS
  <1>3. 0 \in S
    BY <1>1, <1>2 DEF Cuts
  <1>4. ASSUME NEW i \in 1..n, i - 1 \in S PROVE i \in S
    <2> DEFINE acc == cut[i - 1]
               m == Len(acc)
               one == <<p[i]>>
               More == acc # <<>> /\ Weight(Append(acc[m], p[i])) <= MaxTokens
    <2>1. i \in 0..n /\ i - 1 \in 0..n
      BY <1>2
    <2>2. cut[i] = IF More THEN [acc EXCEPT ![m] = Append(@, p[i])] ELSE Append(acc, one)
      BY <1>1 DEF Cuts
    <2>3. acc \in Seq(C)
      BY <1>1, <2>1 DEF Cuts
    <2>4. \A k \in DOMAIN acc : Good(acc[k], i - 1)
      BY <1>4
    <2>5. \A chunk : Good(chunk, i - 1) => Good(chunk, i)
      BY <1>2
    <2>6. p[i] \in X /\ one \in C
      BY <1>2
    <2> HIDE DEF acc
    <2>7. CASE More
      <3> DEFINE own == acc[m]
                 w == Append(own, p[i])
                 t == [acc EXCEPT ![m] = w]
      <3>1. cut[i] = t
        <4> HIDE DEF w
        <4>1. cut[i] = [acc EXCEPT ![m] = Append(@, p[i])]
          BY <2>2, <2>7
        <4>2. QED
          BY <4>1 DEF w
      <3>2. m \in DOMAIN acc /\ own \in C /\ DOMAIN acc = 1..m
        <4>1. acc # <<>>
          BY <2>7
        <4> HIDE DEF C
        <4>2. QED
          BY <2>3, <4>1
      <3>3. Good(w, i)
        <4> DEFINE z == Len(own)
        <4>1. DistinctChats(own) /\ \A j \in DOMAIN own : \E l \in 1..(i - 1) : own[j] = p[l]
          BY <2>4, <3>2
        <4>2. z \in Nat /\ DOMAIN own = 1..z
          BY <3>2
        <4>3. DOMAIN w = 1..(z + 1) /\ w[z + 1] = p[i] /\ \A j \in 1..z : w[j] = own[j]
          <5> HIDE DEF own
          <5> QED
            BY <2>6, <3>2
        <4> HIDE DEF own, w, z
        <4>4. \A l \in 1..(i - 1) : p[l].chat # p[i].chat
          BY <1>2 DEF DistinctChats
        <4>5. \A j \in 1..z : own[j].chat # p[i].chat
          BY <4>1, <4>2, <4>4
        <4>6. DistinctChats(w)
          <5> SUFFICES ASSUME NEW j \in 1..(z + 1), NEW k \in 1..(z + 1),
                              w[j].chat = w[k].chat
                       PROVE  j = k
            BY <4>3 DEF DistinctChats
          <5>1. CASE j \in 1..z /\ k \in 1..z
            BY <4>1, <4>2, <4>3, <5>1 DEF DistinctChats
          <5>2. CASE j = z + 1 /\ k = z + 1
            BY <5>2
          <5>3. CASE j \in 1..z /\ k = z + 1
            BY <4>3, <4>5, <5>3
          <5>4. CASE j = z + 1 /\ k \in 1..z
            BY <4>3, <4>5, <5>4
          <5>5. QED
            BY <4>2, <5>1, <5>2, <5>3, <5>4
        <4>7. ASSUME NEW j \in 1..(z + 1) PROVE \E l \in 1..i : w[j] = p[l]
          <5>1. CASE j \in 1..z
            BY <1>2, <4>1, <4>2, <4>3, <5>1
          <5>2. CASE j = z + 1
            BY <1>2, <4>3, <5>2
          <5>3. QED
            BY <4>2, <5>1, <5>2
        <4>8. QED
          BY <4>3, <4>6, <4>7
      <3> HIDE DEF w, m, Good
      <3>4. DOMAIN t = 1..m /\ \A k \in 1..m : t[k] = IF k = m THEN w ELSE acc[k]
        BY <3>2
      <3> HIDE DEF t
      <3>5. \A k \in DOMAIN cut[i] : Good(cut[i][k], i)
        BY <2>4, <2>5, <3>1, <3>2, <3>3, <3>4
      <3>6. QED
        BY <2>1, <3>5
    <2>8. CASE ~More
      <3> DEFINE t == Append(acc, one)
      <3>1. cut[i] = t
        BY <2>2, <2>8
      <3>2. Good(one, i)
        <4>1. DOMAIN one = {1} /\ one[1] = p[i]
          OBVIOUS
        <4> HIDE DEF one
        <4>2. QED
          BY <1>2, <4>1 DEF DistinctChats
      <3> HIDE DEF one, C, Good
      <3>3. /\ DOMAIN t = 1..(m + 1) /\ DOMAIN acc = 1..m /\ m \in Nat
            /\ \A k \in 1..(m + 1) : t[k] = IF k = m + 1 THEN one ELSE acc[k]
        BY <2>3, <2>6
      <3> HIDE DEF t, m
      <3>4. \A k \in DOMAIN cut[i] : Good(cut[i][k], i)
        BY <2>4, <2>5, <3>1, <3>2, <3>3
      <3>5. QED
        BY <2>1, <3>4
    <2>9. QED
      BY <2>7, <2>8
  <1>5. n \in S
    <2> HIDE DEF S, n
    <2>1. 0..n \subseteq S
      BY <1>2, <1>3, <1>4, Induction
    <2>2. QED
      BY <1>2, <2>1
  <1>6. Chunks(p) = cut[n]
    BY <1>1 DEF Cuts
  <1>7. QED
    BY <1>5, <1>6

\* A beginning of the messages has no more characters than all of them.
LEMMA CharsOfPrefix ==
    ASSUME NEW s \in Seq(Row), NEW i \in 0..Len(s)
    PROVE  Chars(SubSeq(s, 1, i)) <= Chars(s)
  <1> DEFINE t == SubSeq(s, 1, i)
             f == Sizes(s)
             g == Sizes(t)
             h == SubSeq(f, 1, i)
  <1>1. /\ t \in Seq(Row) /\ Len(t) = i /\ i \in Nat /\ i <= Len(s)
        /\ \A j \in 1..i : t[j] = s[j]
    OBVIOUS
  <1> HIDE DEF t
  <1>2. /\ f \in Seq(Nat) /\ Len(f) = Len(s) /\ \A j \in 1..Len(s) : f[j] = s[j].size
        /\ Chars(s) = Total(f)
    BY SizesType
  <1>3. /\ g \in Seq(Nat) /\ Len(g) = i /\ \A j \in 1..i : g[j] = t[j].size
        /\ Chars(t) = Total(g)
    BY <1>1, SizesType
  <1> HIDE DEF f, g
  <1>4. h \in Seq(Nat) /\ Len(h) = i /\ \A j \in 1..i : h[j] = f[j]
    BY <1>1, <1>2
  <1> HIDE DEF h
  <1>5. ASSUME NEW j \in 1..i PROVE g[j] = h[j]
    <2>1. j \in 1..Len(s)
      BY <1>1
    <2>2. g[j] = t[j].size /\ t[j] = s[j]
      BY <1>1, <1>3
    <2>3. h[j] = f[j] /\ f[j] = s[j].size
      BY <1>2, <1>4, <2>1
    <2>4. QED
      BY <2>2, <2>3
  <1>6. g = h
    BY <1>3, <1>4, <1>5, SameSequence
  <1>7. Total(h) <= Total(f)
    BY <1>2, TotalOfPrefix DEF h
  <1>8. QED
    BY <1>2, <1>3, <1>6, <1>7 DEF t

\* The model gets all messages of a chat that is within both limits: what is left out is
\* left out for a limit (services/digest.py:144-161).
THEOREM AnalyzedIsAllWithinLimits ==
    ASSUME NEW s \in Seq(Row), Len(s) <= MaxPerChat, Chars(s) <= MaxChars
    PROVE  Analyzed(s) = s
  <1>1. PICK got : TakesAnalyzed(got, Row, s)
    BY AnalyzedWalk
  <1> DEFINE n == Len(s)
             S == {i \in 0..n : got[i] = SubSeq(s, 1, i)}
  <1>2. n \in Nat /\ MaxPerChat \in Nat /\ MaxChars \in Nat
    BY ConstantsAssumption
  <1>3. 0 \in S
    <2>1. SubSeq(s, 1, 0) = <<>>
      OBVIOUS
    <2>2. QED
      BY <1>1, <1>2, <2>1 DEF TakesAnalyzed
  <1>4. ASSUME NEW i \in 1..n, i - 1 \in S PROVE i \in S
    <2> DEFINE acc == SubSeq(s, 1, i - 1)
    <2>1. i \in 0..n /\ got[i - 1] = acc
      BY <1>4
    <2>2. acc \in Seq(Row) /\ Len(acc) = i - 1 /\ s[i] \in Row
      BY <1>2
    <2>3. SubSeq(s, 1, i) = Append(acc, s[i])
      BY LongerPrefix
    <2>4. Chars(SubSeq(s, 1, i)) <= Chars(s)
      BY <2>1, CharsOfPrefix
    <2>5. got[i] = IF Len(got[i - 1]) >= MaxPerChat
                      \/ Chars(got[i - 1]) + s[i].size > MaxChars
                   THEN got[i - 1] ELSE Append(got[i - 1], s[i])
      BY <1>1 DEF TakesAnalyzed
    <2> HIDE DEF acc
    <2>6. /\ Chars(Append(acc, s[i])) = Chars(acc) + s[i].size
          /\ Chars(acc) \in Nat /\ s[i].size \in Nat
      BY <2>2, CharsAppended
    <2>7. Chars(s) \in Int
      BY SizesType
    <2>8. ~(Len(acc) >= MaxPerChat) /\ ~(Chars(acc) + s[i].size > MaxChars)
      <3> DEFINE a == Chars(acc)
                 z == s[i].size
                 w == Chars(s)
      <3>1. a + z <= w
        BY <2>3, <2>4, <2>6, Zenon
      <3>2. a \in Nat /\ z \in Nat /\ w \in Int /\ w <= MaxChars
        BY <2>6, <2>7
      <3>3. Len(acc) < MaxPerChat
        BY <1>2, <2>2
      <3> HIDE DEF a, z, w
      <3>4. ~(a + z > MaxChars)
        BY <1>2, <3>1, <3>2
      <3>5. ~(Len(acc) >= MaxPerChat)
        BY <1>2, <2>2, <3>3
      <3>6. QED
        BY <3>4, <3>5 DEF a, z
    <2>9. got[i] = Append(acc, s[i])
      BY <2>1, <2>5, <2>8
    <2>10. QED
      BY <2>1, <2>3, <2>9
  <1>5. n \in S
    <2>1. n \in 0..n
      BY <1>2
    <2> HIDE DEF S, n
    <2>2. QED
      BY <1>2, <1>3, <1>4, <2>1, Induction
  <1>6. SubSeq(s, 1, n) = s
    OBVIOUS
  <1>7. QED
    BY <1>1, <1>5, <1>6 DEF TakesAnalyzed

\* The weights of the entries of a payload.
Entries == [chat : Chats, messages : Seq(Row)]

Weights(p) == [i \in DOMAIN p |-> 1 + Chars(p[i].messages)]

LEMMA WeightsType ==
    ASSUME NEW p \in Seq(Entries)
    PROVE  /\ Weights(p) \in Seq(Nat) /\ Len(Weights(p)) = Len(p)
           /\ \A i \in 1..Len(p) : Weights(p)[i] = 1 + Chars(p[i].messages)
           /\ Weight(p) = Total(Weights(p)) /\ Weight(p) \in Nat
  <1>1. DOMAIN p = 1..Len(p) /\ Len(p) \in Nat /\ \A i \in 1..Len(p) : p[i] \in Entries
    OBVIOUS
  <1>2. \A e \in Entries : 1 + Chars(e.messages) \in Nat
    <2> SUFFICES ASSUME NEW e \in Entries PROVE 1 + Chars(e.messages) \in Nat
      OBVIOUS
    <2> DEFINE c == Chars(e.messages)
    <2>1. e.messages \in Seq(Row)
      BY DEF Entries
    <2>2. c \in Nat
      BY <2>1, SizesType
    <2> HIDE DEF c
    <2>3. 1 + c \in Nat
      BY <2>2
    <2>4. QED
      BY <2>3 DEF c
  <1>3. Weights(p) = [i \in 1..Len(p) |-> 1 + Chars(p[i].messages)]
    BY <1>1 DEF Weights
  <1>4. \A i \in 1..Len(p) : /\ Weights(p)[i] = 1 + Chars(p[i].messages)
                             /\ Weights(p)[i] \in Nat
    BY <1>1, <1>2, <1>3
  <1>5. Weights(p) \in Seq(Nat) /\ Len(Weights(p)) = Len(p)
    BY <1>1, <1>2, <1>3
  <1>6. Weight(p) = Total(Weights(p))
    BY DEF Weight, Weights
  <1>7. QED
    BY <1>4, <1>5, <1>6, TotalType

LEMMA WeightOfPrefix ==
    ASSUME NEW p \in Seq(Entries), NEW i \in 0..Len(p)
    PROVE  Weight(SubSeq(p, 1, i)) <= Weight(p)
  <1> DEFINE t == SubSeq(p, 1, i)
             f == Weights(p)
             g == Weights(t)
             h == SubSeq(f, 1, i)
  <1>1. /\ t \in Seq(Entries) /\ Len(t) = i /\ i \in Nat /\ i <= Len(p)
        /\ \A j \in 1..i : t[j] = p[j]
    OBVIOUS
  <1> HIDE DEF t
  <1>2. /\ f \in Seq(Nat) /\ Len(f) = Len(p)
        /\ \A j \in 1..Len(p) : f[j] = 1 + Chars(p[j].messages)
        /\ Weight(p) = Total(f)
    BY WeightsType
  <1>3. /\ g \in Seq(Nat) /\ Len(g) = i /\ \A j \in 1..i : g[j] = 1 + Chars(t[j].messages)
        /\ Weight(t) = Total(g)
    BY <1>1, WeightsType
  <1> HIDE DEF f, g
  <1>4. h \in Seq(Nat) /\ Len(h) = i /\ \A j \in 1..i : h[j] = f[j]
    BY <1>1, <1>2
  <1> HIDE DEF h
  <1>5. ASSUME NEW j \in 1..i PROVE g[j] = h[j]
    <2>1. j \in 1..Len(p)
      BY <1>1
    <2>2. g[j] = 1 + Chars(t[j].messages) /\ t[j] = p[j]
      BY <1>1, <1>3
    <2>3. h[j] = f[j] /\ f[j] = 1 + Chars(p[j].messages)
      BY <1>2, <1>4, <2>1
    <2>4. QED
      BY <2>2, <2>3
  <1>6. g = h
    BY <1>3, <1>4, <1>5, SameSequence
  <1>7. Total(h) <= Total(f)
    BY <1>1, <1>2, TotalOfPrefix DEF h
  <1>8. QED
    BY <1>2, <1>3, <1>6, <1>7 DEF t

\* A payload within the limit is one chunk: that Chunks cuts it all the same is what
\* generate_digest does by not cutting it (services/digest.py:931-933).
THEOREM OneChunkWithinTheLimit ==
    ASSUME NEW p \in Seq(Entries), p # <<>>, Weight(p) <= MaxTokens
    PROVE  Chunks(p) = <<p>>
  <1>1. PICK cut : Cuts(cut, Entries, p)
    BY ChunksWalk
  <1> DEFINE n == Len(p)
             S == {i \in 0..n : cut[i] = IF i = 0 THEN <<>> ELSE <<SubSeq(p, 1, i)>>}
  <1>2. n \in Nat /\ n # 0 /\ MaxTokens \in Nat
    BY ConstantsAssumption
  <1>3. 0 \in S
    BY <1>1, <1>2 DEF Cuts
  <1>4. ASSUME NEW i \in 1..n, i - 1 \in S PROVE i \in S
    <2> DEFINE acc == cut[i - 1]
               u == SubSeq(p, 1, i - 1)
               w == SubSeq(p, 1, i)
    <2>1. i \in 0..n /\ i # 0
      BY <1>2
    <2>2. cut[i] = IF acc # <<>> /\ Weight(Append(acc[Len(acc)], p[i])) <= MaxTokens
                   THEN [acc EXCEPT ![Len(acc)] = Append(@, p[i])]
                   ELSE Append(acc, <<p[i]>>)
      BY <1>1 DEF Cuts
    <2>3. w = Append(u, p[i])
      BY LongerPrefix
    <2>4. Weight(w) <= Weight(p) /\ Weight(w) \in Int /\ Weight(p) \in Int
      <3>1. w \in Seq(Entries)
        BY <1>2
      <3>2. Weight(w) <= Weight(p)
        BY <2>1, WeightOfPrefix
      <3> HIDE DEF w
      <3>3. QED
        BY <3>1, <3>2, WeightsType
    <2>5. Weight(w) <= MaxTokens
      <3> DEFINE a == Weight(w)
                 b == Weight(p)
      <3>1. a <= b /\ b <= MaxTokens /\ a \in Int /\ b \in Int
        BY <2>4
      <3> HIDE DEF a, b
      <3>2. a <= MaxTokens
        BY <1>2, <3>1
      <3>3. QED
        BY <3>2 DEF a
    <2>6. acc = IF i - 1 = 0 THEN <<>> ELSE <<u>>
      BY <1>4
    <2>7. CASE i = 1
      <3>1. acc = <<>>
        BY <2>6, <2>7
      <3>2. cut[i] = Append(acc, <<p[i]>>)
        BY <2>2, <3>1
      <3>3. u = <<>>
        BY <2>7
      <3> HIDE DEF acc, u, w
      <3>4. w = <<p[i]>>
        BY <2>3, <3>3
      <3>5. cut[i] = <<w>>
        BY <3>1, <3>2, <3>4
      <3>6. QED
        BY <2>1, <3>5 DEF w
    <2>8. CASE i # 1
      <3>1. acc = <<u>>
        BY <2>6, <2>8
      <3> HIDE DEF acc, u, w
      <3>2. acc # <<>> /\ Len(acc) = 1 /\ acc[1] = u
        BY <3>1
      <3>3. cut[i] = [acc EXCEPT ![1] = Append(@, p[i])]
        BY <2>2, <2>3, <2>5, <3>2
      <3>4. cut[i] = <<w>>
        BY <2>3, <3>1, <3>3
      <3>5. QED
        BY <2>1, <3>4 DEF w
    <2>9. QED
      BY <2>7, <2>8
  <1>5. n \in S
    <2>1. n \in 0..n
      BY <1>2
    <2> HIDE DEF S, n
    <2>2. QED
      BY <1>2, <1>3, <1>4, <2>1, Induction
  <1>6. SubSeq(p, 1, n) = p
    OBVIOUS
  <1>7. QED
    BY <1>1, <1>2, <1>5, <1>6 DEF Cuts

------------------------------------------------------------------------------
\* The parts.

\* What is an item of some of the rows is one of all of them.
LEMMA ItemsOfMore ==
    ASSUME NEW s, s \in Seq(Row), NEW q, q \in Seq(Row), ToSet(q) \subseteq ToSet(s), NEW x
    PROVE  ItemsIn(q, x) \subseteq ItemsIn(s, x)
  <1>1. Ids(q) \subseteq Ids(s)
    BY IdsOf
  <1>2. \A c : Ids(Of(q, c)) \subseteq Ids(Of(s, c))
    BY IdsOfChat
  <1>3. ChatsIn(q, x) \subseteq ChatsIn(s, x)
    BY DEF ChatsIn
  <1>4. QED
    BY <1>1, <1>2, <1>3 DEF ItemsIn

\* What a fallback makes of the titles of a section, before media are attached.
GroupsIn(s, x) ==
    At(TitlesOf(s), {i \in DOMAIN TitlesOf(s) : type[TitlesOf(s)[i][1]] = x})

Made(s, x) ==
    [i \in DOMAIN GroupsIn(s, x) |->
       Item(GroupsIn(s, x)[i][1], Ids(Titled(s, GroupsIn(s, x)[i])),
            Len(Titled(s, GroupsIn(s, x)[i])), "local")]

LEMMA MadeItems ==
    ASSUME type \in [Chats -> Sections], NEW s, s \in Seq(Row), NEW x \in Sections
    PROVE  /\ Fallback(s)[x] = Attach(Made(s, x), s) /\ DOMAIN Fallback(s) = Sections
           /\ Made(s, x) \in Seq(ItemsIn(s, x))
  <1> DEFINE titles == TitlesOf(s)
             I == {i \in DOMAIN titles : type[titles[i][1]] = x}
             gs == At(titles, I)
             made == [i \in DOMAIN gs |->
                        Item(gs[i][1], Ids(Titled(s, gs[i])), Len(Titled(s, gs[i])), "local")]
  <1>1. /\ made = Made(s, x)
        /\ Fallback(s)[x] = Attach(made, s) /\ DOMAIN Fallback(s) = Sections
    BY DEF Fallback, Made, GroupsIn
  <1>2. /\ titles \in Seq(Chats \X Nat)
        /\ ToSet(titles) = {<<r.chat, r.title>> : r \in ToSet(s)}
    BY TitlesOfElements
  <1>3. gs \in Seq(Chats \X Nat) /\ ToSet(gs) = {titles[i] : i \in I \cap DOMAIN titles}
    <2> HIDE DEF titles, I
    <2> QED
      BY <1>2, AtElements
  <1>4. ToSet(s) \subseteq Row
    BY DEF ToSet
  <1>5. \A g : /\ Titled(s, g) \in Seq(Row)
               /\ ToSet(Titled(s, g)) = {q \in ToSet(s) : <<q.chat, q.title>> = g}
    <2> HIDE DEF gs, titles, made, I
    <2> QED
      BY TitledElements
  <1>6. ASSUME NEW g \in ToSet(gs)
        PROVE  Item(g[1], Ids(Titled(s, g)), Len(Titled(s, g)), "local") \in ItemsIn(s, x)
    <2>1. g \in ToSet(titles) /\ type[g[1]] = x
      <3> HIDE DEF gs, titles
      <3> QED
        BY <1>3 DEF ToSet
    <2>2. PICK r \in ToSet(s) : g = <<r.chat, r.title>>
      <3> HIDE DEF gs, titles
      <3> QED
        BY <1>2, <2>1
    <2>3. g[1] = r.chat
      BY <2>2
    <2>4. g[1] \in ChatsIn(s, x)
      <3> HIDE DEF gs, titles
      <3>1. r.chat \in Chats
        BY <1>4 DEF Row
      <3>2. QED
        BY <2>1, <2>3, <3>1 DEF ChatsIn
    <2>5. /\ Titled(s, g) \in Seq(Row)
          /\ ToSet(Titled(s, g)) = {q \in ToSet(s) : <<q.chat, q.title>> = g}
      BY <1>5, Zenon
    <2>6. \A q : <<q.chat, q.title>> = g => q.chat = g[1]
      BY <2>2
    <2>7. ToSet(Titled(s, g)) \subseteq {q \in ToSet(s) : q.chat = g[1]}
      BY <2>5, <2>6
    <2>8. Ids(Titled(s, g)) \subseteq Ids(Of(s, g[1]))
      BY <2>7, IdsOf, IdsOfChat
    <2>9. Len(Titled(s, g)) \in Nat
      BY <2>5
    <2> HIDE DEF gs, titles
    <2>10. QED
      BY <2>4, <2>8, <2>9, MadeItem
  <1>7. made \in Seq(ItemsIn(s, x))
    <2>1. DOMAIN gs = 1..Len(gs) /\ Len(gs) \in Nat
      BY <1>3
    <2>2. \A i \in DOMAIN gs : gs[i] \in ToSet(gs)
      BY DEF ToSet
    <2> HIDE DEF gs
    <2>3. \A i \in 1..Len(gs) : made[i] \in ItemsIn(s, x)
      BY <1>6, <2>1, <2>2
    <2>4. made = [i \in 1..Len(gs) |-> made[i]]
      BY <2>1
    <2> HIDE DEF made
    <2>5. QED
      BY <2>1, <2>3, <2>4
  <1>8. QED
    <2> HIDE DEF made
    <2> QED
      BY <1>1, <1>7

\* A fallback makes items of the rows it is given.
LEMMA FallbackItems ==
    ASSUME type \in [Chats -> Sections], NEW s, s \in Seq(Row), NEW x \in Sections
    PROVE  /\ Fallback(s)[x] \in Seq(ItemsIn(s, x))
           /\ DOMAIN Fallback(s) = Sections
  BY MadeItems, Attached

\* An answer makes items of the messages the model was given.
LEMMA AnsweredItems ==
    ASSUME type \in [Chats -> Sections], NEW s, s \in Seq(Row), NEW x \in Sections,
           NEW chunk, chunk \in Seq(Asked(s)),
           NEW Y, NEW cs, cs \in Seq(Y), ToSet(cs) = ChunkChats(chunk)
    PROVE  /\ Answered(chunk, cs)[x] \in Seq(ItemsIn(s, x))
           /\ DOMAIN Answered(chunk, cs) = Sections
  <1> DEFINE I == {i \in DOMAIN cs : type[cs[i]] = x}
             own == At(cs, I)
             given(c) == CHOOSE p \in ToSet(chunk) : p.chat = c
             made == [i \in DOMAIN own |-> Item(own[i], Ids(given(own[i]).messages),
                                                Len(given(own[i]).messages), "model")]
  <1>1. Answered(chunk, cs)[x] = made /\ DOMAIN Answered(chunk, cs) = Sections
    BY DEF Answered, InSection
  <1>2. own \in Seq(Y) /\ ToSet(own) = {cs[i] : i \in I \cap DOMAIN cs}
    <2> HIDE DEF I
    <2> QED
      BY AtElements
  <1>3. ASSUME NEW c \in ToSet(own)
        PROVE  Item(c, Ids(given(c).messages), Len(given(c).messages), "model") \in ItemsIn(s, x)
    <2>1. c \in ToSet(cs) /\ type[c] = x
      <3> HIDE DEF own
      <3> QED
        BY <1>2 DEF ToSet
    <2>2. \E p \in ToSet(chunk) : p.chat = c
      BY <2>1 DEF ChunkChats, ToSet
    <2>3. given(c) \in ToSet(chunk) /\ given(c).chat = c
      BY <2>2
    <2>4. given(c) \in Asked(s)
      <3> HIDE DEF given
      <3> QED
        BY <2>3 DEF ToSet
    <2> HIDE DEF given, own
    <2>5. PICK d \in {r.chat : r \in ToSet(s)} : given(c) = Entry(s, d)
      BY <2>4 DEF Asked
    <2>6. d = c /\ given(c).messages = Analyzed(Of(s, c))
      BY <2>3, <2>5 DEF Entry
    <2>7. PICK r \in ToSet(s) : r.chat = c
      BY <2>5, <2>6
    <2>8. ToSet(s) \subseteq Row
      BY DEF ToSet
    <2>9. c \in ChatsIn(s, x)
      <3>1. c \in Chats
        BY <2>7, <2>8 DEF Row
      <3>2. QED
        BY <2>1, <2>7, <3>1 DEF ChatsIn
    <2> DEFINE ms == Analyzed(Of(s, c))
    <2>10. Of(s, c) \in Seq(Row)
      BY OfElements
    <2>11. ms \in Seq(Row) /\ ToSet(ms) \subseteq ToSet(Of(s, c))
      BY <2>10, AnalyzedElements
    <2> HIDE DEF ms
    <2>12. Ids(ms) \subseteq Ids(Of(s, c)) /\ Len(ms) \in Nat
      BY <2>11, IdsOf
    <2>13. QED
      BY <2>6, <2>9, <2>12, MadeItem DEF ms
  <1>4. made \in Seq(ItemsIn(s, x))
    <2>1. DOMAIN own = 1..Len(own) /\ Len(own) \in Nat
      BY <1>2
    <2>2. \A i \in DOMAIN own : own[i] \in ToSet(own)
      BY DEF ToSet
    <2> HIDE DEF own, given
    <2>3. \A i \in 1..Len(own) : made[i] \in ItemsIn(s, x)
      BY <1>3, <2>1, <2>2
    <2>4. made = [i \in 1..Len(own) |-> made[i]]
      BY <2>1
    <2> HIDE DEF made
    <2>5. QED
      BY <2>1, <2>3, <2>4
  <1>5. QED
    BY <1>1, <1>4

------------------------------------------------------------------------------
\* The invariant.

Asking == {"schema", "plain", "repair", "repair plain"}

Counts == [expected : Nat, returned : Nat, missing : Nat, duplicate : Nat, unknown : Nat]

\* A digest of some of the rows s, as a part is.
Digests(s) ==
    {d \in [Sections -> UNION {Seq(ItemsIn(s, x)) : x \in Sections}] :
       \A x \in Sections : d[x] \in Seq(ItemsIn(s, x))}

Parts(s) == [items : Digests(s), used : BOOLEAN, counts : Counts]

\* The types, the chunks of entries made of the rows, and the parts of items of the rows:
\* what is put together at the end.
ContentTypeInv ==
    /\ type \in [Chats -> Sections]
    /\ Rows(rows)
    /\ step \in Asking \cup {"start", "next", "done", "failed"}
    /\ chunks \in Seq(Seq(Asked(rows)))
    /\ parts \in Seq(Parts(rows))
    /\ step \in Asking => chunks # <<>> /\ seen \in Counts
    /\ step = "start" => chunks = <<>> /\ parts = <<>>

\* A digest is made once and is what it must be of the rows it was made of.
ContentInv ==
    /\ ContentTypeInv
    /\ digest # None => /\ step = "done"
                        /\ InItsPlace(digest.content, rows)
                        /\ Counted(digest.content, rows)
                        /\ Referred(digest.content, rows)

LEMMA PartsKept ==
    ASSUME UNCHANGED <<type, rows>>
    PROVE  Parts(rows)' = Parts(rows)
  BY DEF Parts, Digests, ItemsIn, ChatsIn

LEMMA AskedKept ==
    ASSUME UNCHANGED <<type, rows>>
    PROVE  Asked(rows)' = Asked(rows)
  BY DEF Asked

LEMMA RowsKept ==
    ASSUME UNCHANGED <<type, rows>>
    PROVE  Rows(rows)' <=> Rows(rows)
  BY DEF Rows

LEMMA InItsPlaceKept ==
    ASSUME UNCHANGED <<type, rows, digest>>
    PROVE  /\ InItsPlace(digest.content, rows)' <=> InItsPlace(digest.content, rows)
           /\ Counted(digest.content, rows)' <=> Counted(digest.content, rows)
           /\ Referred(digest.content, rows)' <=> Referred(digest.content, rows)
  BY DEF InItsPlace, Counted, Referred

LEMMA ContentInit == Init => ContentInv
  <1> SUFFICES ASSUME Init PROVE ContentInv
    OBVIOUS
  <1>1. PICK n \in 1..MaxRows : \E c \in [1..n -> Chats], k \in [1..n -> Kinds] :
          rows = [i \in 1..n |-> [id |-> i, chat |-> c[i], title |-> k[i].title,
                                  size |-> k[i].size, media |-> k[i].media,
                                  urgent |-> k[i].urgent, wanted |-> k[i].wanted]]
    BY DEF Init
  <1>2. PICK c \in [1..n -> Chats], k \in [1..n -> Kinds] :
          rows = [i \in 1..n |-> [id |-> i, chat |-> c[i], title |-> k[i].title,
                                  size |-> k[i].size, media |-> k[i].media,
                                  urgent |-> k[i].urgent, wanted |-> k[i].wanted]]
    BY <1>1
  <1>3. n \in Nat
    BY ConstantsAssumption
  <1>4. \A i \in 1..n : rows[i] \in Row /\ rows[i].id = i
    <2> SUFFICES ASSUME NEW i \in 1..n PROVE rows[i] \in Row /\ rows[i].id = i
      OBVIOUS
    <2>1. /\ k[i].title \in Nat /\ k[i].size \in Nat
          /\ k[i].media \in BOOLEAN /\ k[i].urgent \in BOOLEAN /\ k[i].wanted \in BOOLEAN
      BY ConstantsAssumption
    <2>2. QED
      BY <1>2, <1>3, <2>1 DEF Row
  <1>5. rows \in Seq(Row) /\ DOMAIN rows = 1..n
    <2>1. rows = [i \in 1..n |-> rows[i]]
      BY <1>2
    <2>2. QED
      BY <1>3, <1>4, <2>1
  <1>6. Rows(rows)
    BY <1>4, <1>5 DEF Rows
  <1>7. QED
    BY <1>6 DEF Init, ContentInv, ContentTypeInv, Asking

LEMMA SetOfSeq ==
    ASSUME NEW X, NEW t \in Seq(X)
    PROVE  /\ IsFiniteSet(ToSet(t))
           /\ Cardinality(ToSet(t)) \in Nat /\ Cardinality(ToSet(t)) <= Len(t)
  <1> DEFINE S == 1..Len(t)
             f == [i \in S |-> t[i]]
  <1>1. Len(t) \in Nat /\ DOMAIN t = S
    OBVIOUS
  <1>2. IsFiniteSet(S) /\ Cardinality(S) = Len(t)
    BY <1>1, FS_Interval
  <1>3. f \in Surjection(S, ToSet(t))
    BY <1>1 DEF Surjection, ToSet
  <1> HIDE DEF S, f
  <1>4. QED
    BY <1>2, <1>3, FS_Surjection, FS_CardinalityType

\* What the fallback makes of the rows of a chunk is of the rows.
LEMMA FallbackPart ==
    ASSUME ContentTypeInv, NEW chunk
    PROVE  Fallback(ChunkRows(chunk)) \in Digests(rows)
  <1> DEFINE I == {i \in DOMAIN rows : rows[i].chat \in ChunkChats(chunk)}
             q == ChunkRows(chunk)
  <1>1. rows \in Seq(Row) /\ type \in [Chats -> Sections]
    BY DEF ContentTypeInv, Rows
  <1>2. q = At(rows, I)
    BY DEF ChunkRows
  <1>3. q \in Seq(Row) /\ ToSet(q) \subseteq ToSet(rows)
    <2>1. q \in Seq(Row) /\ ToSet(q) = {rows[i] : i \in I \cap DOMAIN rows}
      <3> HIDE DEF I, q
      <3> QED
        BY <1>1, <1>2, AtElements
    <2>2. QED
      BY <2>1 DEF ToSet
  <1> HIDE DEF q
  <1>4. ASSUME NEW x \in Sections
        PROVE  Fallback(q)[x] \in Seq(ItemsIn(rows, x))
    <2> DEFINE few == ItemsIn(q, x)
               all == ItemsIn(rows, x)
               t == Fallback(q)[x]
    <2>1. t \in Seq(few)
      BY <1>1, <1>3, FallbackItems
    <2>2. few \subseteq all
      BY <1>1, <1>3, ItemsOfMore
    <2> HIDE DEF few, all, t
    <2>3. t \in Seq(all)
      BY <2>1, <2>2
    <2>4. QED
      BY <2>3 DEF all, t
  <1>5. Fallback(q) = [x \in Sections |-> Fallback(q)[x]]
    BY DEF Fallback
  <1>6. Fallback(q) \in Digests(rows)
    BY <1>4, <1>5 DEF Digests
  <1>7. QED
    BY <1>6 DEF q

LEMMA BoundedIsSeq ==
    ASSUME NEW S, NEW n \in Nat
    PROVE  BoundedSeq(S, n) \subseteq Seq(S)
  <1> SUFFICES ASSUME NEW t \in BoundedSeq(S, n) PROVE t \in Seq(S)
    OBVIOUS
  <1>1. PICK m \in 0..n : t \in [1..m -> S]
    BY DEF BoundedSeq, SeqOf
  <1>2. m \in Nat
    OBVIOUS
  <1>3. QED
    BY <1>1, <1>2

LEMMA AnswerItems ==
    ASSUME NEW a \in Answers
    PROVE  a.items \in Seq(Chats \cup {Stranger})
  <1> DEFINE Y == Chats \cup {Stranger}
             B == BoundedSeq(Y, MaxItems)
  <1>1. B \subseteq Seq(Y)
    <2> HIDE DEF Y
    <2> QED
      BY BoundedIsSeq, ConstantsAssumption
  <1>2. Answers = {[form |-> f, items |-> <<>>] : f \in {"text", "shape"}}
                  \cup {[form |-> f, items |-> cs] : f \in {"amiss", "good"}, cs \in B}
    BY DEF Answers
  <1> HIDE DEF B
  <1>3. a.items \in B \/ a.items = <<>>
    BY <1>2
  <1>4. a.items \in Seq(Y)
    <2>1. <<>> \in Seq(Y)
      OBVIOUS
    <2> HIDE DEF Y
    <2>2. QED
      BY <1>1, <1>3, <2>1
  <1>5. QED
    BY <1>4

\* What a valid answer is turned into is of the rows.
LEMMA AnsweredPart ==
    ASSUME ContentTypeInv, NEW chunk \in Seq(Asked(rows)), NEW a \in Answers, Valid(a, chunk)
    PROVE  Answered(chunk, a.items) \in Digests(rows)
  <1> DEFINE Y == Chats \cup {Stranger}
             d == Answered(chunk, a.items)
  <1>1. rows \in Seq(Row) /\ type \in [Chats -> Sections]
    BY DEF ContentTypeInv, Rows
  <1>2. a.items \in Seq(Y)
    BY AnswerItems
  <1>3. ToSet(a.items) = ChunkChats(chunk)
    BY DEF Valid
  <1> HIDE DEF Y
  <1>4. \A x \in Sections : d[x] \in Seq(ItemsIn(rows, x))
    BY <1>1, <1>2, <1>3, AnsweredItems
  <1>5. d = [x \in Sections |-> d[x]]
    BY DEF Answered
  <1> HIDE DEF d
  <1>6. d \in Digests(rows)
    BY <1>4, <1>5 DEF Digests
  <1>7. QED
    BY <1>6 DEF d

LEMMA ChunkChatsFinite ==
    ASSUME NEW X, NEW chunk \in Seq(X)
    PROVE  IsFiniteSet(ChunkChats(chunk)) /\ Cardinality(ChunkChats(chunk)) \in Nat
  <1> DEFINE t == ChatSeq(chunk)
             Z == ToSet(t)
  <1>1. t \in Seq(Z)
    <2>1. t = [i \in 1..Len(chunk) |-> chunk[i].chat] /\ Len(chunk) \in Nat
      BY DEF ChatSeq
    <2>2. DOMAIN t = 1..Len(chunk)
      BY <2>1
    <2>3. \A i \in 1..Len(chunk) : t[i] \in ToSet(t)
      BY <2>2 DEF ToSet
    <2> HIDE DEF t
    <2>4. QED
      BY <2>1, <2>2, <2>3
  <1>2. ChunkChats(chunk) = ToSet(t)
    BY DEF ChunkChats, ChatSeq, ToSet
  <1> HIDE DEF t, Z
  <1>3. IsFiniteSet(ToSet(t)) /\ Cardinality(ToSet(t)) \in Nat
    BY <1>1, SetOfSeq
  <1>4. QED
    BY <1>2, <1>3

\* Whatever is answered is counted in naturals.
LEMMA ObservedCounts ==
    ASSUME NEW X, NEW chunk \in Seq(X), NEW a \in Answers, NEW s \in Counts
    PROVE  Observed(a, chunk, s) \in Counts
  <1> DEFINE Y == Chats \cup {Stranger}
             E == ChunkChats(chunk)
             R == ToSet(a.items)
  <1>1. CASE a.form = "text"
    BY <1>1 DEF Observed
  <1>2. CASE a.form # "text"
    <2>1. a.items \in Seq(Y)
      BY AnswerItems
    <2> HIDE DEF Y
    <2>2. IsFiniteSet(R) /\ Cardinality(R) \in Nat /\ Cardinality(R) <= Len(a.items)
      BY <2>1, SetOfSeq
    <2>3. IsFiniteSet(E)
      BY ChunkChatsFinite
    <2>4. Observed(a, chunk, s) =
            [expected |-> s.expected, returned |-> Len(a.items),
             missing |-> Cardinality(E \ R), duplicate |-> Len(a.items) - Cardinality(R),
             unknown |-> Cardinality(R \ E)]
      BY <1>2 DEF Observed
    <2>5. Len(a.items) \in Nat
      BY <2>1
    <2> HIDE DEF E, R
    <2>6. Cardinality(E \ R) \in Nat /\ Cardinality(R \ E) \in Nat
      BY <2>2, <2>3, FS_Difference, FS_CardinalityType
    <2>7. QED
      BY <2>2, <2>4, <2>5, <2>6 DEF Counts
  <1>3. QED
    BY <1>1, <1>2

\* A part that is of the rows joins the others.
LEMMA Settled ==
    ASSUME ContentTypeInv, step \in Asking \cup {"next"}, chunks # <<>>,
           NEW items \in Digests(rows), NEW used \in BOOLEAN, NEW counts \in Counts,
           Settle(items, used, counts)
    PROVE  ContentTypeInv'
  <1> DEFINE part == [items |-> items, used |-> used, counts |-> counts]
             P == Parts(rows)
             C == Seq(Asked(rows))
  <1>1. UNCHANGED <<type, rows>> /\ step' = "next" /\ parts' = Append(parts, part)
        /\ chunks' = Tail(chunks)
    BY DEF Settle
  <1>2. part \in P
    BY DEF Parts
  <1>3. parts \in Seq(P) /\ chunks \in Seq(C)
    BY DEF ContentTypeInv
  <1> HIDE DEF part, P, C
  <1>4. parts' \in Seq(P)
    BY <1>1, <1>2, <1>3
  <1>5. chunks' \in Seq(C)
    BY <1>1, <1>3
  <1>6. Parts(rows)' = P /\ Seq(Asked(rows))' = C
    BY <1>1, PartsKept, AskedKept DEF P, C
  <1>7. parts' \in Seq(Parts(rows)') /\ chunks' \in Seq(Seq(Asked(rows)'))
    BY <1>4, <1>5, <1>6
  <1>8. Rows(rows)'
    BY <1>1, RowsKept DEF ContentTypeInv
  <1>9. QED
    BY <1>1, <1>7, <1>8 DEF ContentTypeInv, Asking

\* What changes neither the rows nor the chunks nor the parts.
LEMMA Unsettled ==
    ASSUME ContentTypeInv, UNCHANGED <<type, rows, chunks, parts>>,
           step' \in Asking \cup {"next", "done", "failed"},
           step' \in Asking => chunks # <<>> /\ seen' \in Counts
    PROVE  ContentTypeInv'
  <1>1. Parts(rows)' = Parts(rows) /\ Asked(rows)' = Asked(rows) /\ Rows(rows)'
    BY PartsKept, AskedKept, RowsKept DEF ContentTypeInv
  <1>2. parts' \in Seq(Parts(rows)') /\ chunks' \in Seq(Seq(Asked(rows)'))
    BY <1>1 DEF ContentTypeInv
  <1>3. QED
    BY <1>1, <1>2 DEF ContentTypeInv, Asking

\* The digest that is there stays what it must be.
LEMMA DigestKept ==
    ASSUME ContentInv, UNCHANGED <<type, rows, digest>>, ContentTypeInv',
           digest # None => step' = "done"
    PROVE  ContentInv'
  BY InItsPlaceKept DEF ContentInv

LEMMA PrepareKeeps ==
    ASSUME ContentInv, Prepare
    PROVE  ContentInv'
  <1> DEFINE I == {i \in DOMAIN rows : rows[i].wanted}
             wanted == At(rows, I)
  <1>1. step = "start" /\ rows' = wanted /\ chunks' = Chunks(Payload(wanted))
        /\ step' = "next" /\ UNCHANGED <<type, seen, parts, digest>>
    BY DEF Prepare
  <1>2. Rows(wanted)
    <2>1. Rows(rows)
      BY DEF ContentInv, ContentTypeInv
    <2> HIDE DEF I
    <2>2. QED
      BY <2>1, RowsAt
  <1> HIDE DEF wanted
  <1>3. wanted \in Seq(Row)
    BY <1>2 DEF Rows
  <1>4. Payload(wanted) \in Seq(Asked(wanted))
    BY <1>3, PayloadType
  <1>5. Chunks(Payload(wanted)) \in Seq(Seq(Asked(wanted)))
    BY <1>4, ChunksType
  <1>6. Asked(rows)' = Asked(wanted)
    BY <1>1 DEF Asked
  <1>7. chunks' \in Seq(Seq(Asked(rows)'))
    BY <1>1, <1>5, <1>6
  <1>8. parts' = <<>> /\ digest' = None
    BY <1>1 DEF ContentInv, ContentTypeInv
  <1>9. Rows(rows)'
    <2>1. Rows(rows)' <=> Rows(wanted)
      BY <1>1 DEF Rows
    <2>2. QED
      BY <1>2, <2>1
  <1>10. type' \in [Chats -> Sections]
    BY <1>1 DEF ContentInv, ContentTypeInv
  <1>11. parts' \in Seq(Parts(rows)')
    BY <1>8
  <1>12. QED
    BY <1>1, <1>7, <1>8, <1>9, <1>10, <1>11 DEF ContentInv, ContentTypeInv, Asking

LEMMA SettleKeeps ==
    ASSUME ContentInv, step \in Asking \cup {"next"}, chunks # <<>>,
           NEW items \in Digests(rows), NEW used \in BOOLEAN, NEW counts \in Counts,
           Settle(items, used, counts)
    PROVE  ContentInv'
  <1>1. ContentTypeInv'
    BY Settled DEF ContentInv
  <1>2. UNCHANGED <<type, rows, digest>>
    BY DEF Settle
  <1>3. digest = None
    BY DEF ContentInv, Asking
  <1>4. QED
    BY <1>1, <1>2, <1>3, DigestKept

LEMMA HeadChunk ==
    ASSUME ContentTypeInv, chunks # <<>>
    PROVE  Head(chunks) \in Seq(Asked(rows))
  <1> DEFINE C == Seq(Asked(rows))
  <1>1. chunks \in Seq(C)
    BY DEF ContentTypeInv
  <1> HIDE DEF C
  <1>2. Head(chunks) \in C
    BY <1>1
  <1>3. QED
    BY <1>2 DEF C

LEMMA ZeroCounts == Zero \in Counts
  BY DEF Zero, Counts

LEMMA TooLargeKeeps ==
    ASSUME ContentInv, TooLarge
    PROVE  ContentInv'
  <1>1. step = "next" /\ chunks # <<>> /\ Settle(Fallback(ChunkRows(Head(chunks))), FALSE, Zero)
    BY DEF TooLarge
  <1>2. Fallback(ChunkRows(Head(chunks))) \in Digests(rows)
    BY FallbackPart DEF ContentInv
  <1>3. QED
    BY <1>1, <1>2, ZeroCounts, SettleKeeps

LEMMA AskKeeps ==
    ASSUME ContentInv, Ask
    PROVE  ContentInv'
  <1>1. /\ step = "next" /\ chunks # <<>> /\ seen' = Fresh(Head(chunks)) /\ step' = "schema"
        /\ UNCHANGED <<type, rows, chunks, parts, digest>>
    BY DEF Ask
  <1>2. Len(Head(chunks)) \in Nat
    BY <1>1, HeadChunk DEF ContentInv
  <1>3. seen' \in Counts
    BY <1>1, <1>2 DEF Fresh, Counts
  <1>4. ContentTypeInv'
    BY <1>1, <1>3, Unsettled DEF ContentInv, Asking
  <1>5. digest = None
    BY <1>1 DEF ContentInv
  <1>6. QED
    BY <1>1, <1>4, <1>5, DigestKept

LEMMA RefuseKeeps ==
    ASSUME ContentInv, Refuse
    PROVE  ContentInv'
  <1>1. /\ step \in Asking /\ step' \in Asking
        /\ UNCHANGED <<type, rows, chunks, seen, parts, digest>>
    BY DEF Refuse, Asking
  <1>2. chunks # <<>> /\ seen' \in Counts
    BY <1>1 DEF ContentInv, ContentTypeInv
  <1>3. ContentTypeInv'
    BY <1>1, <1>2, Unsettled DEF ContentInv
  <1>4. digest = None
    BY <1>1 DEF ContentInv, Asking
  <1>5. QED
    BY <1>1, <1>3, <1>4, DigestKept

LEMMA FailKeeps ==
    ASSUME ContentInv, Fail
    PROVE  ContentInv'
  <1> DEFINE counts == IF step \in {"schema", "plain"} THEN Zero ELSE seen
             items == Fallback(ChunkRows(Head(chunks)))
  <1>1. step \in Asking /\ Settle(items, FALSE, counts)
    BY DEF Fail, Asking
  <1>2. chunks # <<>> /\ seen \in Counts
    BY <1>1 DEF ContentInv, ContentTypeInv
  <1>3. counts \in Counts
    BY <1>2, ZeroCounts
  <1>4. items \in Digests(rows)
    BY FallbackPart DEF ContentInv
  <1> HIDE DEF counts, items
  <1>5. QED
    BY <1>1, <1>2, <1>3, <1>4, SettleKeeps

LEMMA AnswerKeeps ==
    ASSUME ContentInv, NEW a \in Answers, Answer(a)
    PROVE  ContentInv'
  <1> DEFINE chunk == Head(chunks)
             now == Observed(a, chunk, seen)
  <1>1. step \in Asking
    BY DEF Answer, Asking
  <1>2. chunks # <<>> /\ seen \in Counts
    BY <1>1 DEF ContentInv, ContentTypeInv
  <1>3. chunk \in Seq(Asked(rows))
    BY <1>2, HeadChunk DEF ContentInv
  <1>4. now \in Counts
    BY <1>2, <1>3, ObservedCounts
  <1>5. CASE Valid(a, chunk) /\ Settle(Answered(chunk, a.items), TRUE, now)
    <2>1. Answered(chunk, a.items) \in Digests(rows)
      BY <1>3, <1>5, AnsweredPart DEF ContentInv
    <2> HIDE DEF chunk, now
    <2>2. QED
      BY <1>1, <1>2, <1>4, <1>5, <2>1, SettleKeeps
  <1>6. CASE /\ step' = "repair" /\ seen' = now
             /\ UNCHANGED <<type, rows, chunks, parts, digest>>
    <2> HIDE DEF chunk, now
    <2>1. ContentTypeInv'
      BY <1>2, <1>4, <1>6, Unsettled DEF ContentInv, Asking
    <2>2. digest = None
      BY <1>1 DEF ContentInv, Asking
    <2>3. QED
      BY <1>6, <2>1, <2>2, DigestKept
  <1>7. CASE Settle(Fallback(ChunkRows(chunk)), FALSE, now)
    <2>1. Fallback(ChunkRows(chunk)) \in Digests(rows)
      BY FallbackPart DEF ContentInv
    <2> HIDE DEF chunk, now
    <2>2. QED
      BY <1>1, <1>2, <1>4, <1>7, <2>1, SettleKeeps
  <1>8. QED
    BY <1>5, <1>6, <1>7 DEF Answer

LEMMA PartsAreOfRows ==
    ASSUME ContentTypeInv
    PROVE  PartsOf(PartItems, rows)
  <1>1. parts \in Seq(Parts(rows))
    BY DEF ContentTypeInv
  <1>2. DOMAIN parts = 1..Len(parts) /\ Len(parts) \in Nat
    BY <1>1
  <1>3. \A i \in DOMAIN parts : parts[i] \in Parts(rows)
    BY <1>1
  <1>4. \A i \in DOMAIN parts : \A x \in Sections : parts[i].items[x] \in Seq(ItemsIn(rows, x))
    BY <1>3 DEF Parts, Digests
  <1>5. DOMAIN PartItems \in {1..n : n \in Nat}
    BY <1>2 DEF PartItems
  <1>6. QED
    BY <1>4, <1>5 DEF PartsOf, PartItems

\* The parts are put together: every section is whole, and Route keeps it so.
LEMMA FinishKeeps ==
    ASSUME ContentInv, Finish
    PROVE  ContentInv'
  <1> DEFINE ds == PartItems
             d == [x \in Sections |-> Section(ds, rows, x)]
  <1>1. /\ step = "next" /\ step' = "done" /\ digest'.content = Assembled(ds, rows)
        /\ UNCHANGED <<type, rows, chunks, seen, parts>>
    BY DEF Finish
  <1>2. type \in [Chats -> Sections] /\ Rows(rows) /\ rows \in Seq(Row)
    BY DEF ContentInv, ContentTypeInv, Rows
  <1>3. PartsOf(ds, rows)
    BY PartsAreOfRows DEF ContentInv
  <1>4. Assembled(ds, rows) = Route(d, rows)
    BY DEF Assembled
  <1> HIDE DEF ds
  <1>5. \A x \in Sections : /\ Section(ds, rows, x) \in Seq(WholeItems(rows, x))
                            /\ OnePerChat(Section(ds, rows, x), rows, x)
    BY <1>2, <1>3, SectionIsWhole
  <1>6. WholeSections(d, rows)
    BY <1>5 DEF WholeSections
  <1> HIDE DEF d
  <1>7. /\ InItsPlace(Route(d, rows), rows)
        /\ Counted(Route(d, rows), rows)
        /\ Referred(Route(d, rows), rows)
    BY <1>2, <1>6, Routed
  <1> DEFINE content == digest'.content
  <1>8. content = Route(d, rows)
    BY <1>1, <1>4
  <1>9. /\ InItsPlace(content, rows) /\ Counted(content, rows) /\ Referred(content, rows)
    BY <1>7, <1>8
  <1>10. /\ InItsPlace(digest.content, rows)'
         /\ Counted(digest.content, rows)'
         /\ Referred(digest.content, rows)'
    <2>1. InItsPlace(digest.content, rows)' <=> InItsPlace(content, rows)
      BY <1>1 DEF InItsPlace
    <2>2. Counted(digest.content, rows)' <=> Counted(content, rows)
      BY <1>1 DEF Counted
    <2>3. Referred(digest.content, rows)' <=> Referred(content, rows)
      BY <1>1 DEF Referred
    <2>4. QED
      BY <1>9, <2>1, <2>2, <2>3
  <1>11. ContentTypeInv'
    BY <1>1, Unsettled DEF ContentInv, Asking
  <1>12. QED
    BY <1>1, <1>10, <1>11 DEF ContentInv

LEMMA RaiseKeeps ==
    ASSUME ContentInv, Raise
    PROVE  ContentInv'
  <1>1. /\ step = "next" /\ step' = "failed"
        /\ UNCHANGED <<type, rows, chunks, seen, parts, digest>>
    BY DEF Raise
  <1>2. ContentTypeInv'
    BY <1>1, Unsettled DEF ContentInv, Asking
  <1>3. digest = None
    BY <1>1 DEF ContentInv
  <1>4. QED
    BY <1>1, <1>2, <1>3, DigestKept

LEMMA NothingKeeps ==
    ASSUME ContentInv, Nothing
    PROVE  ContentInv'
  <1>1. step' = "done" /\ UNCHANGED <<type, rows, chunks, seen, parts, digest>>
    BY DEF Nothing
  <1>2. ContentTypeInv'
    BY <1>1, Unsettled DEF ContentInv, Asking
  <1>3. QED
    BY <1>1, <1>2, DigestKept

\* Every step keeps the invariant.
LEMMA ContentNext == ContentInv /\ [Next]_vars => ContentInv'
  <1> SUFFICES ASSUME ContentInv, [Next]_vars PROVE ContentInv'
    OBVIOUS
  <1>1. CASE Prepare
    BY <1>1, PrepareKeeps
  <1>2. CASE TooLarge
    BY <1>2, TooLargeKeeps
  <1>3. CASE Ask
    BY <1>3, AskKeeps
  <1>4. CASE Refuse
    BY <1>4, RefuseKeeps
  <1>5. CASE Fail
    BY <1>5, FailKeeps
  <1>6. CASE \E a \in Answers : Answer(a)
    <2>1. PICK a \in Answers : Answer(a)
      BY <1>6
    <2>2. QED
      BY <2>1, AnswerKeeps
  <1>7. CASE Finish
    BY <1>7, FinishKeeps
  <1>8. CASE Nothing
    BY <1>8, NothingKeeps
  <1>9. CASE UNCHANGED vars
    <2>1. UNCHANGED <<type, rows, step, chunks, seen, parts, digest>>
      BY <1>9 DEF vars
    <2>2. ContentTypeInv'
      BY <2>1, Unsettled, PartsKept, AskedKept, RowsKept DEF ContentInv, ContentTypeInv
    <2>3. QED
      BY <2>1, <2>2, DigestKept DEF ContentInv
  <1>10. CASE Raise
    BY <1>10, RaiseKeeps
  <1>11. QED
    BY <1>1, <1>2, <1>3, <1>4, <1>5, <1>6, <1>7, <1>8, <1>9, <1>10 DEF Next

\* The invariant holds of every reachable state.
THEOREM ContentInvariant == Spec => []ContentInv
  <1>1. Init => ContentInv
    BY ContentInit
  <1>2. ContentInv /\ [Next]_vars => ContentInv'
    BY ContentNext
  <1>3. QED
    BY <1>1, <1>2, PTL DEF Spec

\* Every chat with a message has one item, in the section of its type or, with an urgent
\* message, among the alerts, and nothing else has: whatever the model answers, refuses or
\* makes up and however the rows are cut into chunks (services/digest.py:931-954).
THEOREM EveryChatInItsPlace == Spec => []EachChatInItsPlace
  <1>1. ContentInv => EachChatInItsPlace
    BY DEF ContentInv, EachChatInItsPlace, InItsPlace, Ready, Alerts, Sectioned, UrgentIds, UrgentOf
  <1>2. QED
    BY <1>1, ContentInvariant, PTL

\* An item counts all messages of its chat and tells how many of them the model got if
\* those are fewer, an alert too, and the media of a chat that was not renamed are all
\* there (services/digest.py:716-736, 841-851).
THEOREM EveryCountIsWhole == Spec => []CountsAreWhole
  <1>1. ContentInv => CountsAreWhole
    BY DEF ContentInv, CountsAreWhole, Counted, Ready, Alerts, Sectioned
  <1>2. QED
    BY <1>1, ContentInvariant, PTL

------------------------------------------------------------------------------
\* What is counted of the answers.

\* Chats expected or made up, and those named again, are those returned or missing.
Balanced(c) == c.expected + c.duplicate + c.unknown = c.returned + c.missing

Perfect(c) == c.returned = c.expected /\ c.missing = 0 /\ c.duplicate = 0 /\ c.unknown = 0

\* What is counted of a part adds up; if the model made it, it has an item for each of its
\* chats and no other; if no chat was expected, the model was not asked.
GoodPart(part) ==
    /\ Balanced(part.counts)
    /\ part.used => Perfect(part.counts)
    /\ part.counts.expected = 0 => part.counts = Zero /\ ~part.used

\* A chunk is about different chats, one at least, and what is counted of it is counted of
\* all its chats.
CountsInv ==
    /\ \A i \in DOMAIN chunks : DistinctChats(chunks[i]) /\ chunks[i] # <<>>
    /\ step \in Asking => Balanced(seen) /\ seen.expected = Len(Head(chunks))
    /\ \A i \in DOMAIN parts : GoodPart(parts[i])
    /\ digest # None => step = "done" /\ Balanced(digest.counts)

LEMMA ExpectedChats ==
    ASSUME NEW X, NEW chunk \in Seq(X), DistinctChats(chunk)
    PROVE  Cardinality(ChunkChats(chunk)) = Len(chunk)
  <1> DEFINE S == 1..Len(chunk)
             E == ChunkChats(chunk)
             f == [i \in S |-> chunk[i].chat]
  <1>1. Len(chunk) \in Nat /\ DOMAIN chunk = S
    OBVIOUS
  <1>2. IsFiniteSet(S) /\ Cardinality(S) = Len(chunk)
    BY <1>1, FS_Interval
  <1>3. E = {chunk[i].chat : i \in S}
    BY <1>1 DEF ChunkChats
  <1>4. \A i, j \in S : chunk[i].chat = chunk[j].chat => i = j
    BY <1>1 DEF DistinctChats
  <1> HIDE DEF S, E
  <1>5. f \in Surjection(S, E)
    BY <1>3 DEF Surjection
  <1>6. f \in Injection(S, E)
    BY <1>3, <1>4 DEF Injection, IsInjective
  <1> HIDE DEF f
  <1>7. Cardinality(E) = Cardinality(S)
    BY <1>2, <1>5, <1>6, FS_Surjection
  <1>8. QED
    BY <1>2, <1>7 DEF E

\* What is observed of an answer adds up, and a valid answer names every chat of the chunk
\* once.
LEMMA ObservedBalance ==
    ASSUME NEW X, NEW chunk \in Seq(X), DistinctChats(chunk), NEW a \in Answers,
           NEW s \in Counts, Balanced(s), s.expected = Len(chunk)
    PROVE  /\ Balanced(Observed(a, chunk, s))
           /\ Observed(a, chunk, s).expected = Len(chunk)
           /\ Valid(a, chunk) => Perfect(Observed(a, chunk, s))
  <1> DEFINE E == ChunkChats(chunk)
             R == ToSet(a.items)
             o == Observed(a, chunk, s)
  <1>1. CASE a.form = "text"
    BY <1>1 DEF Observed, Valid
  <1>2. CASE a.form # "text"
    <2>1. a.items \in Seq(Chats \cup {Stranger}) /\ Len(a.items) \in Nat
      BY AnswerItems
    <2>2. IsFiniteSet(R) /\ Cardinality(R) \in Nat /\ Cardinality(R) <= Len(a.items)
      BY <2>1, SetOfSeq
    <2>3. IsFiniteSet(E) /\ Cardinality(E) = Len(chunk) /\ Cardinality(E) \in Nat
      BY ChunkChatsFinite, ExpectedChats
    <2>4. o = [expected |-> s.expected, returned |-> Len(a.items),
               missing |-> Cardinality(E \ R), duplicate |-> Len(a.items) - Cardinality(R),
               unknown |-> Cardinality(R \ E)]
      BY <1>2 DEF Observed
    <2>5. Valid(a, chunk) => Len(a.items) = Cardinality(R) /\ R = E
      BY DEF Valid
    <2> HIDE DEF E, R, o
    <2>6. /\ Cardinality(E \ R) = Cardinality(E) - Cardinality(E \cap R)
          /\ Cardinality(R \ E) = Cardinality(R) - Cardinality(R \cap E)
      BY <2>2, <2>3, FS_Difference
    <2>7. E \cap R = R \cap E
      OBVIOUS
    <2>8. Cardinality(E \cap R) \in Nat
      <3>1. IsFiniteSet(E \cap R)
        BY <2>3, FS_Subset
      <3>2. QED
        BY <3>1, FS_CardinalityType
    <2> DEFINE e == Cardinality(E)
               r == Cardinality(R)
               k == Cardinality(E \cap R)
               l == Len(a.items)
    <2>9. /\ o.expected = e /\ o.returned = l /\ o.duplicate = l - r
          /\ o.missing = e - k /\ o.unknown = r - k
      BY <2>3, <2>4, <2>6, <2>7
    <2>10. e \in Nat /\ r \in Nat /\ k \in Nat /\ l \in Nat
      BY <2>1, <2>2, <2>3, <2>8
    <2>11. Valid(a, chunk) => l = r /\ r = e /\ k = e
      <3>1. R = E => E \cap R = E
        OBVIOUS
      <3>2. QED
        BY <2>5, <3>1
    <2>12. o.expected = Len(chunk)
      BY <2>3, <2>9
    <2> HIDE DEF e, r, k, l
    <2>13. Balanced(o)
      BY <2>9, <2>10 DEF Balanced
    <2>14. ASSUME Valid(a, chunk) PROVE Perfect(o)
      BY <2>9, <2>10, <2>11, <2>14 DEF Perfect
    <2>15. QED
      BY <2>12, <2>13, <2>14 DEF o
  <1>3. QED
    BY <1>1, <1>2

LEMMA SettleCounts ==
    ASSUME ContentInv, CountsInv, step \in Asking \cup {"next"}, chunks # <<>>,
           NEW items, NEW used, NEW counts,
           Balanced(counts), used => Perfect(counts), counts.expected = 0 => counts = Zero /\ ~used,
           Settle(items, used, counts)
    PROVE  CountsInv'
  <1> DEFINE part == [items |-> items, used |-> used, counts |-> counts]
             P == Parts(rows)
             C == Seq(Asked(rows))
  <1>1. step' = "next" /\ parts' = Append(parts, part) /\ chunks' = Tail(chunks)
        /\ digest' = digest
    BY DEF Settle
  <1>2. parts \in Seq(P) /\ chunks \in Seq(C)
    BY DEF ContentInv, ContentTypeInv
  <1>3. part.used = used /\ part.counts = counts
    OBVIOUS
  <1>4. GoodPart(part)
    <2> HIDE DEF part
    <2> QED
      BY <1>3 DEF GoodPart
  <1> HIDE DEF part, P, C
  <1>5. \A i \in DOMAIN chunks' : DistinctChats(chunks'[i]) /\ chunks'[i] # <<>>
    <2>1. \A i \in DOMAIN chunks' : i + 1 \in DOMAIN chunks /\ chunks'[i] = chunks[i + 1]
      BY <1>1, <1>2
    <2>2. QED
      BY <2>1 DEF CountsInv
  <1>6. \A i \in DOMAIN parts' : parts'[i] = part \/ (i \in DOMAIN parts /\ parts'[i] = parts[i])
    BY <1>1, <1>2
  <1>7. \A i \in DOMAIN parts' : GoodPart(parts'[i])
    BY <1>4, <1>6 DEF CountsInv
  <1>8. \A i \in DOMAIN parts' : GoodPart(parts[i])'
    BY <1>7 DEF GoodPart, Balanced, Perfect, Zero
  <1>9. \A i \in DOMAIN chunks' : DistinctChats(chunks[i])' /\ chunks'[i] # <<>>
    BY <1>5 DEF DistinctChats
  <1>10. step' \notin Asking /\ digest' = None
    BY <1>1 DEF Asking, CountsInv
  <1>11. QED
    BY <1>8, <1>9, <1>10 DEF CountsInv

\* What leaves the chunks and the parts alone leaves their counts alone.
LEMMA UnsettledCounts ==
    ASSUME CountsInv, UNCHANGED <<chunks, parts>>,
           step' \in Asking => /\ Balanced(seen')
                               /\ seen'.expected = Len(Head(chunks)),
           digest' # None => step' = "done" /\ Balanced(digest'.counts)
    PROVE  CountsInv'
  <1>1. \A i \in DOMAIN chunks' : DistinctChats(chunks[i])' /\ chunks'[i] # <<>>
    BY DEF CountsInv, DistinctChats
  <1>2. \A i \in DOMAIN parts' : GoodPart(parts[i])'
    BY DEF CountsInv, GoodPart, Balanced, Perfect, Zero
  <1>3. step' \in Asking => Balanced(seen)' /\ seen'.expected = Len(Head(chunks'))
    BY DEF Balanced
  <1>4. digest' # None => step' = "done" /\ Balanced(digest.counts)'
    BY DEF Balanced
  <1>5. QED
    BY <1>1, <1>2, <1>3, <1>4 DEF CountsInv

LEMMA GoodHead ==
    ASSUME ContentInv, CountsInv, chunks # <<>>
    PROVE  DistinctChats(Head(chunks)) /\ Head(chunks) # <<>>
  <1> DEFINE C == Seq(Asked(rows))
  <1>1. chunks \in Seq(C)
    BY DEF ContentInv, ContentTypeInv
  <1> HIDE DEF C
  <1>2. Head(chunks) = chunks[1] /\ 1 \in DOMAIN chunks
    BY <1>1
  <1>3. QED
    BY <1>2 DEF CountsInv

LEMMA CountsAnswer ==
    ASSUME ContentInv, CountsInv, NEW a \in Answers, Answer(a)
    PROVE  CountsInv'
  <1> DEFINE chunk == Head(chunks)
             now == Observed(a, chunk, seen)
  <1>1. step \in Asking /\ digest = None
    BY DEF Answer, Asking, CountsInv
  <1>2. chunks # <<>> /\ seen \in Counts
    BY <1>1 DEF ContentInv, ContentTypeInv
  <1>3. chunk \in Seq(Asked(rows)) /\ DistinctChats(chunk) /\ chunk # <<>>
    BY <1>2, HeadChunk, GoodHead DEF ContentInv
  <1>4. Balanced(seen) /\ seen.expected = Len(chunk)
    BY <1>1 DEF CountsInv
  <1>5. Balanced(now) /\ now.expected = Len(chunk) /\ (Valid(a, chunk) => Perfect(now))
    <2> HIDE DEF chunk
    <2> QED
      BY <1>2, <1>3, <1>4, ObservedBalance
  <1>6. now.expected # 0
    <2>1. Len(chunk) # 0
      <3> HIDE DEF chunk
      <3> QED
        BY <1>3
    <2>2. QED
      BY <1>5, <2>1
  <1>7. CASE Valid(a, chunk) /\ Settle(Answered(chunk, a.items), TRUE, now)
    <2> HIDE DEF chunk, now
    <2> QED
      BY <1>1, <1>2, <1>5, <1>6, <1>7, SettleCounts
  <1>8. CASE /\ step' = "repair" /\ seen' = now
             /\ UNCHANGED <<type, rows, chunks, parts, digest>>
    <2> HIDE DEF now
    <2> QED
      BY <1>1, <1>5, <1>8, UnsettledCounts
  <1>9. CASE Settle(Fallback(ChunkRows(chunk)), FALSE, now)
    <2> HIDE DEF chunk, now
    <2> QED
      BY <1>1, <1>2, <1>5, <1>6, <1>9, SettleCounts
  <1>10. QED
    BY <1>7, <1>8, <1>9 DEF Answer

LEMMA CountsPrepare ==
    ASSUME ContentInv, CountsInv, Prepare
    PROVE  CountsInv'
  <1> DEFINE wanted == At(rows, {i \in DOMAIN rows : rows[i].wanted})
             p == Payload(wanted)
  <1>1. step = "start" /\ chunks' = Chunks(p) /\ step' = "next" /\ parts' = parts
        /\ digest' = digest
    BY DEF Prepare
  <1>2. wanted \in Seq(Row)
    BY AtElements DEF ContentInv, ContentTypeInv, Rows
  <1> HIDE DEF wanted
  <1>3. p \in Seq(Asked(wanted)) /\ DistinctChats(p)
    BY <1>2, PayloadType, PayloadDistinct
  <1> HIDE DEF p
  <1>4. \A i \in DOMAIN Chunks(p) : DistinctChats(Chunks(p)[i]) /\ Chunks(p)[i] # <<>>
    BY <1>3, ChunksDistinct, ChunksAreThePayload DEF FitChunk
  <1>5. \A i \in DOMAIN chunks' : DistinctChats(chunks'[i]) /\ chunks'[i] # <<>>
    BY <1>1, <1>4
  <1>6. \A i \in DOMAIN chunks' : DistinctChats(chunks[i])' /\ chunks'[i] # <<>>
    BY <1>5 DEF DistinctChats
  <1>7. DOMAIN parts' = {}
    BY <1>1 DEF ContentInv, ContentTypeInv
  <1>8. step' \notin Asking /\ digest' = None
    BY <1>1 DEF Asking, CountsInv
  <1>9. QED
    BY <1>6, <1>7, <1>8 DEF CountsInv

\* One step of a sum.
LEMMA SumStep ==
    ASSUME NEW n \in Nat, NEW s \in Seq(Nat), Len(s) = n, NEW sum, SumsUp(sum, s), NEW i \in 1..n
    PROVE  /\ i - 1 \in 0..n /\ i \in 0..n
           /\ sum[i - 1] \in Nat /\ sum[i] \in Nat /\ s[i] \in Nat
           /\ sum[i] = sum[i - 1] + s[i]
  <1>1. sum \in [0..n -> Nat] /\ sum[i] = sum[i - 1] + s[i]
    BY DEF SumsUp
  <1>2. i - 1 \in 0..n /\ i \in 0..n
    OBVIOUS
  <1>3. s[i] \in Nat
    OBVIOUS
  <1>4. QED
    BY <1>1, <1>2, <1>3

LEMMA SumEnds ==
    ASSUME NEW n \in Nat, NEW s \in Seq(Nat), Len(s) = n, NEW sum, SumsUp(sum, s)
    PROVE  sum[0] = 0 /\ Total(s) = sum[n]
  BY DEF SumsUp

\* What a sum goes through, place by place.
LEMMA SumSteps ==
    ASSUME NEW n \in Nat, NEW s \in Seq(Nat), Len(s) = n
    PROVE  \E sum : /\ sum[0] = 0 /\ Total(s) = sum[n]
                    /\ \A i \in 1..n : /\ sum[i - 1] \in Nat /\ s[i] \in Nat
                                       /\ sum[i] = sum[i - 1] + s[i]
  <1>1. PICK sum : SumsUp(sum, s)
    BY TotalWalk
  <1>2. \A i \in 1..n : sum[i - 1] \in Nat /\ s[i] \in Nat /\ sum[i] = sum[i - 1] + s[i]
    BY <1>1, SumStep
  <1>3. sum[0] = 0 /\ Total(s) = sum[n]
    BY <1>1, SumEnds
  <1>4. QED
    BY <1>2, <1>3

\* The sum of sums is the sum of the sums.
LEMMA TotalOfSums ==
    ASSUME NEW n \in Nat, NEW s \in Seq(Nat), NEW t \in Seq(Nat), Len(s) = n, Len(t) = n
    PROVE  LET both == [i \in 1..n |-> s[i] + t[i]]
           IN both \in Seq(Nat) /\ Len(both) = n /\ Total(both) = Total(s) + Total(t)
  <1> DEFINE both == [i \in 1..n |-> s[i] + t[i]]
  <1>1. \A i \in 1..n : s[i] \in Nat /\ t[i] \in Nat /\ both[i] = s[i] + t[i] /\ both[i] \in Nat
    OBVIOUS
  <1>2. both \in Seq(Nat) /\ Len(both) = n
    BY <1>1
  <1> HIDE DEF both
  <1>3. PICK a : /\ a[0] = 0 /\ Total(s) = a[n]
                 /\ \A i \in 1..n : a[i - 1] \in Nat /\ s[i] \in Nat /\ a[i] = a[i - 1] + s[i]
    BY SumSteps
  <1>4. PICK b : /\ b[0] = 0 /\ Total(t) = b[n]
                 /\ \A i \in 1..n : b[i - 1] \in Nat /\ t[i] \in Nat /\ b[i] = b[i - 1] + t[i]
    BY SumSteps
  <1>5. PICK c : /\ c[0] = 0 /\ Total(both) = c[n]
                 /\ \A i \in 1..n : c[i - 1] \in Nat /\ both[i] \in Nat /\ c[i] = c[i - 1] + both[i]
    BY <1>2, SumSteps
  <1> DEFINE S == {i \in 0..n : c[i] = a[i] + b[i]}
  <1>6. 0 \in S
    BY <1>3, <1>4, <1>5
  <1>7. ASSUME NEW i \in 1..n, i - 1 \in S PROVE i \in S
    <2>1. c[i - 1] = a[i - 1] + b[i - 1] /\ i \in 0..n
      BY <1>7
    <2>2. a[i - 1] \in Nat /\ s[i] \in Nat /\ a[i] = a[i - 1] + s[i]
      BY <1>3
    <2>3. b[i - 1] \in Nat /\ t[i] \in Nat /\ b[i] = b[i - 1] + t[i]
      BY <1>4
    <2>4. c[i] = c[i - 1] + both[i] /\ both[i] = s[i] + t[i]
      BY <1>1, <1>5
    <2>5. c[i] = a[i] + b[i]
      BY <2>1, <2>2, <2>3, <2>4
    <2>6. QED
      BY <2>1, <2>5
  <1>8. 0..n \subseteq S
    <2> HIDE DEF S
    <2> QED
      BY <1>6, <1>7, Induction
  <1>9. c[n] = a[n] + b[n]
    BY <1>8
  <1>10. Total(both) = Total(s) + Total(t)
    BY <1>3, <1>4, <1>5, <1>9, Zenon
  <1>11. QED
    BY <1>2, <1>10 DEF both

\* Columns that balance in each line.
Aligned(n, e, d, u, r, m) ==
    /\ n \in Nat
    /\ e \in Seq(Nat) /\ Len(e) = n /\ d \in Seq(Nat) /\ Len(d) = n
    /\ u \in Seq(Nat) /\ Len(u) = n /\ r \in Seq(Nat) /\ Len(r) = n
    /\ m \in Seq(Nat) /\ Len(m) = n
    /\ \A i \in 1..n : e[i] + d[i] + u[i] = r[i] + m[i]

LEMMA SumsBalance ==
    ASSUME NEW n, NEW e, NEW d, NEW u, NEW r, NEW m, Aligned(n, e, d, u, r, m)
    PROVE  Total(e) + Total(d) + Total(u) = Total(r) + Total(m)
  <1> DEFINE ed == [i \in 1..n |-> e[i] + d[i]]
             edu == [i \in 1..n |-> ed[i] + u[i]]
             rm == [i \in 1..n |-> r[i] + m[i]]
  <1>1. /\ n \in Nat
        /\ e \in Seq(Nat) /\ Len(e) = n /\ d \in Seq(Nat) /\ Len(d) = n
        /\ u \in Seq(Nat) /\ Len(u) = n /\ r \in Seq(Nat) /\ Len(r) = n
        /\ m \in Seq(Nat) /\ Len(m) = n
    BY DEF Aligned
  <1>2. \A i \in 1..n : edu[i] = rm[i]
    BY DEF Aligned
  <1>3. ed \in Seq(Nat) /\ Len(ed) = n /\ Total(ed) = Total(e) + Total(d)
    BY <1>1, TotalOfSums
  <1>4. rm \in Seq(Nat) /\ Len(rm) = n /\ Total(rm) = Total(r) + Total(m)
    BY <1>1, TotalOfSums
  <1> HIDE DEF ed
  <1>5. edu \in Seq(Nat) /\ Len(edu) = n /\ Total(edu) = Total(ed) + Total(u)
    BY <1>1, <1>3, TotalOfSums
  <1> HIDE DEF edu, rm
  <1>6. edu = rm
    BY <1>1, <1>2, <1>4, <1>5, SameSequence
  <1>7. QED
    BY <1>3, <1>4, <1>5, <1>6, Zenon

\* A sum is zero if nothing is added to it, and only then.
LEMMA TotalOfZeros ==
    ASSUME NEW n \in Nat, NEW s \in Seq(Nat), Len(s) = n
    PROVE  Total(s) = 0 <=> \A i \in 1..n : s[i] = 0
  <1>1. PICK sum : SumsUp(sum, s)
    BY TotalWalk
  <1>2. ASSUME NEW i \in 1..n
        PROVE  /\ i - 1 \in 0..n /\ i \in 0..n
               /\ sum[i - 1] \in Nat /\ sum[i] \in Nat /\ s[i] \in Nat
               /\ sum[i] = sum[i - 1] + s[i]
    BY <1>1, SumStep
  <1>3. sum[0] = 0 /\ Total(s) = sum[n]
    BY <1>1, SumEnds
  <1>4. 0 \in 0..n /\ n \in 0..n /\ n - 0 = n
    OBVIOUS
  <1>5. ASSUME \A i \in 1..n : s[i] = 0 PROVE Total(s) = 0
    <2> DEFINE S == {i \in 0..n : sum[i] = 0}
    <2>1. 0 \in S
      BY <1>3, <1>4
    <2>2. ASSUME NEW i \in 1..n, i - 1 \in S PROVE i \in S
      <3>1. sum[i - 1] = 0 /\ s[i] = 0
        BY <1>5, <2>2
      <3>2. QED
        BY <1>2, <3>1
    <2>3. 0..n \subseteq S
      <3> HIDE DEF S
      <3> QED
        BY <2>1, <2>2, Induction
    <2>4. QED
      BY <1>3, <1>4, <2>3
  <1>6. ASSUME Total(s) = 0 PROVE \A i \in 1..n : s[i] = 0
    <2> DEFINE S == {j \in 0..n : sum[n - j] = 0}
    <2>1. 0 \in S
      BY <1>3, <1>4, <1>6
    <2>2. ASSUME NEW j \in 1..n, j - 1 \in S PROVE j \in S
      <3> DEFINE k == n - (j - 1)
      <3>1. k \in 1..n /\ k - 1 = n - j /\ j \in 0..n
        OBVIOUS
      <3>2. sum[k] = 0
        BY <2>2
      <3> HIDE DEF k
      <3>3. sum[k - 1] = 0
        BY <1>2, <3>1, <3>2
      <3>4. QED
        BY <3>1, <3>3
    <2>3. 0..n \subseteq S
      <3> HIDE DEF S
      <3> QED
        BY <2>1, <2>2, Induction
    <2>4. ASSUME NEW i \in 0..n PROVE sum[i] = 0
      <3>1. n - i \in 0..n /\ n - (n - i) = i
        OBVIOUS
      <3>2. sum[n - (n - i)] = 0
        BY <2>3, <3>1
      <3>3. QED
        BY <3>1, <3>2
    <2>5. ASSUME NEW i \in 1..n PROVE s[i] = 0
      <3>1. sum[i - 1] = 0 /\ sum[i] = 0
        BY <1>2, <2>4
      <3>2. QED
        BY <1>2, <3>1
    <2>6. QED
      BY <2>5
  <1>7. QED
    BY <1>5, <1>6

Column(f) == [i \in DOMAIN parts |-> parts[i].counts[f]]

LEMMA ColumnType ==
    ASSUME ContentInv, NEW f \in {"expected", "returned", "missing", "duplicate", "unknown"}
    PROVE  /\ Column(f) \in Seq(Nat) /\ Len(Column(f)) = Len(parts)
           /\ \A i \in 1..Len(parts) : Column(f)[i] = parts[i].counts[f]
  <1> DEFINE P == Parts(rows)
             n == Len(parts)
  <1>1. parts \in Seq(P)
    BY DEF ContentInv, ContentTypeInv
  <1>2. \A p \in P : p.counts \in Counts
    BY DEF Parts
  <1>3. \A c \in Counts : c[f] \in Nat
    BY DEF Counts
  <1> HIDE DEF P
  <1>4. DOMAIN parts = 1..n /\ n \in Nat /\ \A i \in 1..n : parts[i] \in P
    BY <1>1
  <1> HIDE DEF n
  <1>5. \A i \in 1..n : parts[i].counts[f] \in Nat
    BY <1>2, <1>3, <1>4
  <1>6. Column(f) = [i \in 1..n |-> parts[i].counts[f]]
    BY <1>4 DEF Column
  <1>7. Column(f) \in Seq(Nat) /\ Len(Column(f)) = n
    BY <1>4, <1>5, <1>6
  <1>8. QED
    BY <1>6, <1>7 DEF n

\* The counts of a digest add up, those of one the model was never asked about too.
LEMMA TotalsBalanced ==
    ASSUME ContentInv, CountsInv
    PROVE  Balanced(Totals)
  <1> DEFINE n == Len(parts)
             e == Column("expected")
             d == Column("duplicate")
             u == Column("unknown")
             r == Column("returned")
             m == Column("missing")
             summed == [f \in DOMAIN Zero |-> Total(Column(f))]
             expected == IF summed.expected = 0 THEN Len(ChatsOf(rows)) ELSE summed.expected
             unasked == /\ \A p \in ToSet(parts) : ~p.used
                        /\ summed.returned = 0 /\ summed.missing = 0
             missing == IF unasked THEN expected ELSE summed.missing
  <1>1. n \in Nat /\ DOMAIN parts = 1..n
    <2>1. parts \in Seq(Parts(rows))
      BY DEF ContentInv, ContentTypeInv
    <2> DEFINE P == Parts(rows)
    <2> HIDE DEF P
    <2>2. parts \in Seq(P)
      BY <2>1 DEF P
    <2>3. QED
      BY <2>2
  <1>2. /\ summed.expected = Total(e) /\ summed.duplicate = Total(d)
        /\ summed.unknown = Total(u) /\ summed.returned = Total(r)
        /\ summed.missing = Total(m)
    BY DEF Zero
  <1>3. Totals = [summed EXCEPT !.expected = expected, !.missing = missing]
    BY DEF Totals, Column
  <1>4. DOMAIN summed = {"expected", "returned", "missing", "duplicate", "unknown"}
    BY DEF Zero
  <1> HIDE DEF n
  <1>5. /\ e \in Seq(Nat) /\ Len(e) = n /\ \A i \in 1..n : e[i] = parts[i].counts.expected
        /\ d \in Seq(Nat) /\ Len(d) = n /\ \A i \in 1..n : d[i] = parts[i].counts.duplicate
        /\ u \in Seq(Nat) /\ Len(u) = n /\ \A i \in 1..n : u[i] = parts[i].counts.unknown
        /\ r \in Seq(Nat) /\ Len(r) = n /\ \A i \in 1..n : r[i] = parts[i].counts.returned
        /\ m \in Seq(Nat) /\ Len(m) = n /\ \A i \in 1..n : m[i] = parts[i].counts.missing
    BY ColumnType DEF n
  <1>6. \A i \in 1..n : GoodPart(parts[i])
    BY <1>1 DEF CountsInv
  <1>7. Len(ChatsOf(rows)) \in Nat
    <2>1. rows \in Seq(Row)
      BY DEF ContentInv, ContentTypeInv, Rows
    <2>2. \A x \in Row : x.chat \in Chats
      BY DEF Row
    <2>3. ChatsOf(rows) \in Seq(Chats)
      BY <2>1, <2>2, ChatsOfElements
    <2>4. QED
      BY <2>3
  <1>8. /\ Totals.expected = expected /\ Totals.missing = missing
        /\ Totals.duplicate = summed.duplicate /\ Totals.unknown = summed.unknown
        /\ Totals.returned = summed.returned
    <2> HIDE DEF summed, expected, missing
    <2> QED
      BY <1>3, <1>4
  <1> HIDE DEF e, d, u, r, m, summed
  <1>9. \A i \in 1..n : e[i] + d[i] + u[i] = r[i] + m[i]
    BY <1>5, <1>6 DEF GoodPart, Balanced
  <1>10. Total(e) + Total(d) + Total(u) = Total(r) + Total(m)
    <2>1. Aligned(n, e, d, u, r, m)
      BY <1>1, <1>5, <1>9 DEF Aligned
    <2>2. QED
      BY <2>1, SumsBalance
  <1>11. /\ Total(e) \in Nat /\ Total(d) \in Nat /\ Total(u) \in Nat
         /\ Total(r) \in Nat /\ Total(m) \in Nat
    BY <1>5, TotalType
  <1>12. CASE Total(e) # 0
    <2>1. expected = Total(e)
      BY <1>2, <1>12
    <2>2. ~unasked
      <3> DEFINE te == Total(e)
                 td == Total(d)
                 tu == Total(u)
                 tr == Total(r)
                 tm == Total(m)
      <3>1. unasked => tr = 0 /\ tm = 0
        BY <1>2
      <3>2. te + td + tu = tr + tm
        BY <1>10
      <3>3. te \in Nat /\ td \in Nat /\ tu \in Nat /\ te # 0
        BY <1>11, <1>12
      <3> HIDE DEF te, td, tu, tr, tm, unasked
      <3>4. QED
        BY <3>1, <3>2, <3>3
    <2>3. missing = Total(m)
      BY <1>2, <2>2
    <2> HIDE DEF expected, missing, unasked
    <2>4. QED
      BY <1>2, <1>8, <1>10, <2>1, <2>3 DEF Balanced
  <1>13. CASE Total(e) = 0
    <2>1. \A i \in 1..n : e[i] = 0
      BY <1>1, <1>5, <1>13, TotalOfZeros
    <2>2. \A i \in 1..n : parts[i].counts = Zero /\ ~parts[i].used
      BY <1>5, <1>6, <2>1 DEF GoodPart
    <2>3. \A i \in 1..n : d[i] = 0 /\ u[i] = 0 /\ r[i] = 0 /\ m[i] = 0
      <3>1. /\ Zero.expected = 0 /\ Zero.duplicate = 0 /\ Zero.unknown = 0
            /\ Zero.returned = 0 /\ Zero.missing = 0
        BY DEF Zero
      <3>2. ASSUME NEW i \in 1..n PROVE d[i] = 0 /\ u[i] = 0 /\ r[i] = 0 /\ m[i] = 0
        <4>1. parts[i].counts = Zero
          BY <2>2
        <4>2. /\ d[i] = parts[i].counts.duplicate /\ u[i] = parts[i].counts.unknown
              /\ r[i] = parts[i].counts.returned /\ m[i] = parts[i].counts.missing
          BY <1>5
        <4>3. QED
          BY <3>1, <4>1, <4>2
      <3>3. QED
        BY <3>2
    <2>4. Total(d) = 0 /\ Total(u) = 0 /\ Total(r) = 0 /\ Total(m) = 0
      BY <1>1, <1>5, <2>3, TotalOfZeros
    <2>5. \A p \in ToSet(parts) : ~p.used
      BY <1>1, <2>2 DEF ToSet
    <2>6. expected = Len(ChatsOf(rows)) /\ missing = expected
      BY <1>2, <1>13, <2>4, <2>5
    <2> HIDE DEF expected, missing, unasked
    <2>7. QED
      BY <1>2, <1>7, <1>8, <2>4, <2>6 DEF Balanced
  <1>14. QED
    BY <1>12, <1>13

LEMMA CountsNext == ContentInv /\ CountsInv /\ [Next]_vars => CountsInv'
  <1> SUFFICES ASSUME ContentInv, CountsInv, [Next]_vars PROVE CountsInv'
    OBVIOUS
  <1>1. Balanced(Zero)
    BY DEF Balanced, Zero
  <1>2. CASE Prepare
    BY <1>2, CountsPrepare
  <1>3. CASE TooLarge
    <2>1. /\ step = "next" /\ chunks # <<>>
          /\ Settle(Fallback(ChunkRows(Head(chunks))), FALSE, Zero)
      BY <1>3 DEF TooLarge
    <2>2. QED
      BY <1>1, <2>1, SettleCounts
  <1>4. CASE Ask
    <2>1. /\ step = "next" /\ chunks # <<>> /\ seen' = Fresh(Head(chunks))
          /\ UNCHANGED <<chunks, parts, digest>>
      BY <1>4 DEF Ask
    <2>2. Len(Head(chunks)) \in Nat
      BY <2>1, HeadChunk DEF ContentInv
    <2>3. Balanced(seen') /\ seen'.expected = Len(Head(chunks))
      <3> DEFINE n == Len(Head(chunks))
      <3>1. seen' = [expected |-> n, returned |-> 0, missing |-> n, duplicate |-> 0,
                     unknown |-> 0]
        BY <2>1 DEF Fresh
      <3>2. n \in Nat
        BY <2>2
      <3> HIDE DEF n
      <3>3. seen'.expected = n /\ Balanced(seen')
        BY <3>1, <3>2 DEF Balanced
      <3>4. QED
        BY <3>3 DEF n
    <2>4. digest' = None
      BY <2>1 DEF CountsInv
    <2>5. QED
      BY <2>1, <2>3, <2>4, UnsettledCounts
  <1>5. CASE Refuse
    <2>1. step \in Asking /\ UNCHANGED <<chunks, seen, parts, digest>>
      BY <1>5 DEF Refuse, Asking
    <2>2. Balanced(seen) /\ seen.expected = Len(Head(chunks)) /\ digest = None
      BY <2>1 DEF CountsInv, Asking
    <2>3. Balanced(seen') /\ seen'.expected = Len(Head(chunks)) /\ digest' = None
      BY <2>1, <2>2 DEF Balanced
    <2>4. QED
      BY <2>1, <2>3, UnsettledCounts
  <1>6. CASE Fail
    <2> DEFINE counts == IF step \in {"schema", "plain"} THEN Zero ELSE seen
    <2>1. step \in Asking /\ Settle(Fallback(ChunkRows(Head(chunks))), FALSE, counts)
      BY <1>6 DEF Fail, Asking
    <2>2. chunks # <<>>
      BY <2>1 DEF ContentInv, ContentTypeInv
    <2>3. Balanced(seen) /\ seen.expected = Len(Head(chunks))
      BY <2>1 DEF CountsInv
    <2>4. Len(Head(chunks)) # 0
      <3> DEFINE chunk == Head(chunks)
      <3>1. chunk \in Seq(Asked(rows)) /\ chunk # <<>>
        BY <2>2, HeadChunk, GoodHead DEF ContentInv
      <3> HIDE DEF chunk
      <3>2. Len(chunk) # 0
        BY <3>1
      <3>3. QED
        BY <3>2 DEF chunk
    <2>5. Balanced(counts) /\ (counts.expected = 0 => counts = Zero)
      BY <1>1, <2>3, <2>4
    <2> HIDE DEF counts
    <2>6. QED
      BY <2>1, <2>2, <2>5, SettleCounts
  <1>7. CASE \E a \in Answers : Answer(a)
    <2>1. PICK a \in Answers : Answer(a)
      BY <1>7
    <2>2. QED
      BY <2>1, CountsAnswer
  <1>8. CASE Finish
    <2>1. UNCHANGED <<chunks, parts>> /\ step' = "done" /\ digest'.counts = Totals
      BY <1>8 DEF Finish
    <2>2. Balanced(digest'.counts)
      <3>1. Balanced(Totals)
        BY TotalsBalanced
      <3>2. QED
        BY <2>1, <3>1, Zenon
    <2>3. step' \notin Asking
      BY <2>1 DEF Asking
    <2>4. QED
      BY <2>1, <2>2, <2>3, UnsettledCounts
  <1>9. CASE Nothing
    <2>1. UNCHANGED <<chunks, parts, digest>> /\ step = "next" /\ step' = "done"
      BY <1>9 DEF Nothing
    <2>2. step' \notin Asking /\ digest' = None
      BY <2>1 DEF Asking, CountsInv
    <2>3. QED
      BY <2>1, <2>2, UnsettledCounts
  <1>10. CASE UNCHANGED vars
    <2>1. UNCHANGED <<chunks, parts, seen, step, digest>>
      BY <1>10 DEF vars
    <2>2. QED
      BY <2>1, UnsettledCounts DEF CountsInv, Balanced
  <1>11. CASE Raise
    <2>1. UNCHANGED <<chunks, parts, digest>> /\ step = "next" /\ step' = "failed"
      BY <1>11 DEF Raise
    <2>2. step' \notin Asking /\ digest' = None
      BY <2>1 DEF Asking, CountsInv
    <2>3. QED
      BY <2>1, <2>2, UnsettledCounts
  <1>12. QED
    BY <1>2, <1>3, <1>4, <1>5, <1>6, <1>7, <1>8, <1>9, <1>10, <1>11 DEF Next

\* What a run counts of the answers of the model adds up in every chunk, in every part and
\* in the digest: the chats expected, those made up and those named again are those
\* returned and those missing.  A part that is the model's own was valid: it names every
\* chat of its chunk, none twice and none made up.  A digest the model had no part in
\* misses all its chats, and adds up too (llm/client.py:549-590, services/digest.py:191-252,
\* 959-966).
THEOREM CountsAddUp == Spec => []CountsInv
  <1>1. Init => CountsInv
    BY DEF Init, CountsInv, Asking
  <1>2. QED
    BY <1>1, ContentInvariant, CountsNext, PTL DEF Spec

------------------------------------------------------------------------------
\* Why a window has no digest.

\* A sequence has a chat, and has it at one place only.
Has(t, c) == \E i \in DOMAIN t : t[i].chat = c
Once(t, c) == \A i, j \in DOMAIN t : t[i].chat = c /\ t[j].chat = c => i = j

LEMMA OnceAt ==
    ASSUME NEW X, NEW s \in Seq(X), NEW I, NEW c, Once(s, c)
    PROVE  Once(At(s, I), c)
  <1> DEFINE t == At(s, I)
  <1>1. PICK h : Origins(h, t, s, I)
    BY AtPlaces
  <1>2. DOMAIN s = 1..Len(s) /\ DOMAIN t = 1..Len(t)
    BY AtPlaces
  <1> HIDE DEF t
  <1>3. \A k \in DOMAIN t : h[k] \in DOMAIN s /\ t[k] = s[h[k]]
    BY <1>1, <1>2 DEF Origins
  <1>4. ASSUME NEW j \in DOMAIN t, NEW k \in DOMAIN t, h[j] = h[k]
        PROVE  j = k
    <2>1. j \in 1..Len(t) /\ k \in 1..Len(t) /\ j \in Int /\ k \in Int
      BY <1>2
    <2>2. h[j] \in Int /\ h[k] \in Int /\ ~(h[j] < h[k]) /\ ~(h[k] < h[j])
      BY <1>2, <1>3, <1>4
    <2>3. ~(j < k) /\ ~(k < j)
      BY <1>1, <2>1, <2>2 DEF Origins
    <2>4. QED
      BY <2>1, <2>3
  <1>5. Once(t, c)
    BY <1>3, <1>4 DEF Once
  <1>6. QED
    BY <1>5 DEF t

LEMMA Concatenated ==
    ASSUME NEW X, NEW u \in Seq(X), NEW v \in Seq(X), NEW c
    PROVE  /\ Has(u \o v, c) <=> Has(u, c) \/ Has(v, c)
           /\ Once(u \o v, c) <=> Once(u, c) /\ Once(v, c) /\ ~(Has(u, c) /\ Has(v, c))
  <1> DEFINE w == u \o v
             m == Len(u)
             n == Len(v)
  <1>1. m \in Nat /\ n \in Nat /\ DOMAIN u = 1..m /\ DOMAIN v = 1..n /\ DOMAIN w = 1..(m + n)
    OBVIOUS
  <1>2. \A i \in 1..m : i \in 1..(m + n) /\ w[i] = u[i]
    OBVIOUS
  <1>3. \A i \in 1..n : m + i \in 1..(m + n) /\ w[m + i] = v[i]
    OBVIOUS
  <1>4. \A i \in 1..(m + n) : i \in 1..m \/ (i - m \in 1..n /\ m + (i - m) = i)
    BY <1>1
  <1> HIDE DEF w, m, n
  <1>5. Has(w, c) <=> Has(u, c) \/ Has(v, c)
    <2>1. ASSUME Has(w, c) PROVE Has(u, c) \/ Has(v, c)
      <3>1. PICK i \in 1..(m + n) : w[i].chat = c
        BY <1>1, <2>1 DEF Has
      <3>2. CASE i \in 1..m
        BY <1>1, <1>2, <3>1, <3>2 DEF Has
      <3>3. CASE i - m \in 1..n /\ m + (i - m) = i
        BY <1>1, <1>3, <3>1, <3>3 DEF Has
      <3>4. QED
        BY <1>4, <3>2, <3>3
    <2>2. ASSUME Has(u, c) PROVE Has(w, c)
      BY <1>1, <1>2, <2>2 DEF Has
    <2>3. ASSUME Has(v, c) PROVE Has(w, c)
      BY <1>1, <1>3, <2>3 DEF Has
    <2>4. QED
      BY <2>1, <2>2, <2>3
  <1>6. ASSUME Once(w, c) PROVE Once(u, c) /\ Once(v, c) /\ ~(Has(u, c) /\ Has(v, c))
    <2>1. \A i, j \in 1..(m + n) : w[i].chat = c /\ w[j].chat = c => i = j
      BY <1>1, <1>6 DEF Once
    <2>2. Once(u, c)
      BY <1>1, <1>2, <2>1 DEF Once
    <2>3. ASSUME NEW i \in 1..n, NEW j \in 1..n, v[i].chat = c, v[j].chat = c PROVE i = j
      <3>1. m + i = m + j
        BY <1>3, <2>1, <2>3
      <3>2. QED
        BY <1>1, <3>1
    <2>4. ASSUME NEW i \in 1..m, NEW j \in 1..n, u[i].chat = c, v[j].chat = c PROVE FALSE
      <3>1. i = m + j
        BY <1>2, <1>3, <2>1, <2>4
      <3>2. QED
        BY <1>1, <3>1
    <2>5. QED
      BY <1>1, <2>2, <2>3, <2>4 DEF Once, Has
  <1>7. ASSUME Once(u, c), Once(v, c), ~(Has(u, c) /\ Has(v, c)) PROVE Once(w, c)
    <2> SUFFICES ASSUME NEW i \in 1..(m + n), NEW j \in 1..(m + n), w[i].chat = c, w[j].chat = c
                 PROVE  i = j
      BY <1>1 DEF Once
    <2>1. CASE i \in 1..m /\ j \in 1..m
      BY <1>1, <1>2, <1>7, <2>1 DEF Once
    <2>2. CASE i - m \in 1..n /\ j - m \in 1..n
      <3>1. v[i - m].chat = c /\ v[j - m].chat = c
        BY <1>3, <1>4, <2>2, <1>1
      <3>2. i - m = j - m
        BY <1>1, <1>7, <2>2, <3>1 DEF Once
      <3>3. QED
        BY <1>1, <3>2
    <2>3. CASE i \in 1..m /\ j - m \in 1..n
      <3>1. u[i].chat = c /\ v[j - m].chat = c
        BY <1>1, <1>2, <1>3, <2>3
      <3>2. QED
        BY <1>1, <1>7, <2>3, <3>1 DEF Has
    <2>4. CASE i - m \in 1..n /\ j \in 1..m
      <3>1. u[j].chat = c /\ v[i - m].chat = c
        BY <1>1, <1>2, <1>3, <2>4
      <3>2. QED
        BY <1>1, <1>7, <2>4, <3>1 DEF Has
    <2>5. QED
      BY <1>4, <2>1, <2>2, <2>3, <2>4
  <1>8. QED
    BY <1>5, <1>6, <1>7 DEF w

\* Two of the sequences have a chat.
Shared(ss, n, c) == \E i, j \in 1..n : i < j /\ Has(ss[i], c) /\ Has(ss[j], c)

LEMMA FlattenedOnce ==
    ASSUME NEW T, NEW ss \in Seq(Seq(T)), NEW c
    PROVE  Once(FlattenSeq(ss), c) <=>
             (\A i \in 1..Len(ss) : Once(ss[i], c)) /\ ~Shared(ss, Len(ss), c)
  <1> DEFINE n == Len(ss)
             Q == Seq(T)
  <1>1. PICK f : Flattens(f, T, ss)
    BY FlattenWalk
  <1>2. /\ n \in Nat /\ f \in [0..n -> Q] /\ f[0] = <<>> /\ FlattenSeq(ss) = f[n]
        /\ \A i \in 1..n : f[i] = f[i - 1] \o ss[i] /\ ss[i] \in Q
    <2>1. n \in Nat /\ \A i \in 1..n : ss[i] \in Q
      <3>1. ss \in Seq(Q)
        OBVIOUS
      <3> HIDE DEF Q
      <3>2. QED
        BY <3>1
    <2>2. QED
      BY <1>1, <2>1 DEF Flattens
  <1> DEFINE Good(m) ==
               /\ Has(f[m], c) <=> \E i \in 1..m : Has(ss[i], c)
               /\ Once(f[m], c) <=> (\A i \in 1..m : Once(ss[i], c)) /\ ~Shared(ss, m, c)
             S == {m \in 0..n : Good(m)}
  <1>3. 0 \in S
    <2>1. DOMAIN f[0] = {}
      BY <1>2
    <2>2. 1..0 = {} /\ 0 \in 0..n
      BY <1>2
    <2>3. ~Has(f[0], c) /\ Once(f[0], c) /\ ~Shared(ss, 0, c)
      BY <2>1, <2>2 DEF Has, Once, Shared
    <2>4. QED
      BY <2>2, <2>3
  <1>4. ASSUME NEW m \in 1..n, m - 1 \in S PROVE m \in S
    <2>1. m \in 0..n /\ m - 1 \in 0..n /\ m \in 1..m /\ m - 1 < m
      BY <1>2
    <2>2. f[m - 1] \in Q /\ ss[m] \in Q /\ f[m] = f[m - 1] \o ss[m]
      BY <1>2, <2>1
    <2>3. /\ Has(f[m], c) <=> Has(f[m - 1], c) \/ Has(ss[m], c)
          /\ Once(f[m], c) <=> /\ Once(f[m - 1], c) /\ Once(ss[m], c)
                               /\ ~(Has(f[m - 1], c) /\ Has(ss[m], c))
      BY <2>2, Concatenated
    <2>4. /\ Has(f[m - 1], c) <=> \E i \in 1..(m - 1) : Has(ss[i], c)
          /\ Once(f[m - 1], c) <=>
               (\A i \in 1..(m - 1) : Once(ss[i], c)) /\ ~Shared(ss, m - 1, c)
      BY <1>4
    <2>5. \A i \in 1..m : i = m \/ i \in 1..(m - 1)
      BY <1>2
    <2>6. \A i \in 1..(m - 1) : i \in 1..m /\ i < m
      BY <1>2
    <2>7. Shared(ss, m, c) <=>
            Shared(ss, m - 1, c) \/ (Has(ss[m], c) /\ \E i \in 1..(m - 1) : Has(ss[i], c))
      <3>1. ASSUME NEW i \in 1..m, NEW j \in 1..m, i < j PROVE i \in 1..(m - 1)
        BY <1>2, <3>1
      <3>2. QED
        BY <2>1, <2>5, <2>6, <3>1 DEF Shared
    <2> HIDE DEF S, n, Q
    <2>8. (\E i \in 1..m : Has(ss[i], c)) <=> Has(ss[m], c) \/ \E i \in 1..(m - 1) : Has(ss[i], c)
      BY <2>1, <2>5, <2>6
    <2>9. (\A i \in 1..m : Once(ss[i], c)) <=> Once(ss[m], c) /\ \A i \in 1..(m - 1) : Once(ss[i], c)
      BY <2>1, <2>5, <2>6
    <2>10. Good(m)
      BY <2>3, <2>4, <2>7, <2>8, <2>9
    <2>11. QED
      BY <2>1, <2>10 DEF S
  <1>5. n \in S
    <2> HIDE DEF S, n
    <2>1. 0..n \subseteq S
      BY <1>2, <1>3, <1>4, Induction
    <2>2. QED
      BY <1>2, <2>1
  <1>6. QED
    BY <1>2, <1>5

LEMMA SameChats ==
    ASSUME NEW t, NEW u, DOMAIN t = DOMAIN u, \A i \in DOMAIN u : t[i].chat = u[i].chat, NEW c
    PROVE  (Has(t, c) <=> Has(u, c)) /\ (Once(t, c) <=> Once(u, c))
  BY DEF Has, Once

LEMMA SeqOfMembers ==
    ASSUME NEW X, NEW n \in Nat, NEW t, t = [i \in 1..n |-> t[i]], \A i \in 1..n : t[i] \in X
    PROVE  t \in Seq(X) /\ DOMAIN t = 1..n
  OBVIOUS

\* The chats that get an item have none yet, and are different.
LEMMA EnsuredOnce ==
    ASSUME type \in [Chats -> Sections], NEW s, s \in Seq(Row), NEW x,
           NEW items \in Seq(ItemsIn(s, x)), NEW c, Once(items, c)
    PROVE  Once(Ensure(items, s, x), c)
  <1> DEFINE all(d) == Ids(Of(s, d))
             cs == ChatsOf(s)
             J == {i \in DOMAIN cs : type[cs[i]] = x}
             own == InSection(cs, x)
             I == {i \in DOMAIN own : \A j \in DOMAIN items : items[j].chat # own[i]}
             missing == Missing(items, own)
             left == [i \in DOMAIN items |->
                        IF i \in Firsts(ChatSeq(items))
                          THEN [items[i] EXCEPT !.refs = @ \cup all(items[i].chat)]
                          ELSE items[i]]
             right == [i \in DOMAIN missing |-> Item(missing[i], all(missing[i]), 0, "local")]
  <1>1. Ensure(items, s, x) = left \o right
    BY DEF Ensure
  <1>2. own \in Seq(ChatsIn(s, x)) /\ \A j, k \in DOMAIN own : own[j] = own[k] => j = k
    <2>1. own \in Seq(ChatsIn(s, x)) /\ own = At(cs, J)
      BY SectionChats DEF InSection
    <2>2. cs \in Seq(Chats) /\ \A j, k \in DOMAIN cs : cs[j] = cs[k] => j = k
      <3>1. \A r \in Row : r.chat \in Chats
        BY DEF Row
      <3>2. QED
        BY <3>1, ChatsOfElements
    <2> HIDE DEF cs, J, own
    <2>3. \A j, k \in DOMAIN At(cs, J) : At(cs, J)[j] = At(cs, J)[k] => j = k
      BY <2>2, AtDistinct
    <2>4. QED
      BY <2>1, <2>3
  <1>3. /\ missing \in Seq(ChatsIn(s, x))
        /\ \A j, k \in DOMAIN missing : missing[j] = missing[k] => j = k
        /\ \A k \in DOMAIN missing : \A j \in DOMAIN items : items[j].chat # missing[k]
    <2>1. missing = At(own, I)
      BY DEF Missing
    <2> HIDE DEF own, cs
    <2>2. missing \in Seq(ChatsIn(s, x)) /\ ToSet(missing) =
            {d \in ToSet(own) : \A j \in DOMAIN items : items[j].chat # d}
      BY <1>2, MissingChats
    <2>3. \A j, k \in DOMAIN At(own, I) : At(own, I)[j] = At(own, I)[k] => j = k
      <3> HIDE DEF I
      <3> QED
        BY <1>2, AtDistinct
    <2> HIDE DEF missing, I
    <2>4. \A j, k \in DOMAIN missing : missing[j] = missing[k] => j = k
      BY <2>1, <2>3
    <2>5. \A k \in DOMAIN missing : missing[k] \in ToSet(missing)
      BY DEF ToSet
    <2>6. \A k \in DOMAIN missing : \A j \in DOMAIN items : items[j].chat # missing[k]
      BY <2>2, <2>5
    <2>7. QED
      BY <2>2, <2>4, <2>6
  <1> HIDE DEF own, cs, missing, I, J
  <1>4. DOMAIN left = DOMAIN items /\ \A i \in DOMAIN items : left[i].chat = items[i].chat
    <2>1. ASSUME NEW i \in DOMAIN items PROVE left[i].chat = items[i].chat
      <3>1. items[i] \in ItemsIn(s, x)
        OBVIOUS
      <3>2. left[i] = items[i] \/ left[i] = [items[i] EXCEPT !.refs = @ \cup all(items[i].chat)]
        OBVIOUS
      <3> HIDE DEF left
      <3>3. QED
        BY <3>1, <3>2 DEF ItemsIn
    <2>2. QED
      BY <2>1
  <1>5. DOMAIN right = DOMAIN missing /\ \A k \in DOMAIN missing : right[k].chat = missing[k]
    BY DEF Item
  <1>6. PICK X : left \in Seq(X) /\ right \in Seq(X)
    <2> DEFINE m == Len(items)
               n == Len(missing)
               X == {left[i] : i \in 1..m} \cup {right[i] : i \in 1..n}
    <2>1. m \in Nat /\ DOMAIN items = 1..m /\ n \in Nat /\ DOMAIN missing = 1..n
      BY <1>3
    <2>2. left = [i \in 1..m |-> left[i]] /\ right = [i \in 1..n |-> right[i]]
      BY <2>1
    <2> HIDE DEF left, right, m, n
    <2>3. (\A i \in 1..m : left[i] \in X) /\ (\A i \in 1..n : right[i] \in X)
      OBVIOUS
    <2> HIDE DEF X
    <2>4. left \in Seq(X) /\ right \in Seq(X)
      BY <2>1, <2>2, <2>3, SeqOfMembers
    <2>5. QED
      BY <2>4
  <1> HIDE DEF left, right
  <1>7. Once(left, c)
    BY <1>4, SameChats
  <1>8. Once(right, c) /\ ~(Has(left, c) /\ Has(right, c))
    BY <1>3, <1>4, <1>5 DEF Once, Has
  <1>9. Once(left \o right, c)
    BY <1>6, <1>7, <1>8, Concatenated
  <1>10. QED
    BY <1>1, <1>9

\* What the parts have one item of, the section has one item of before items are joined.
LEMMA GatheredOnce ==
    ASSUME type \in [Chats -> Sections], NEW s, Rows(s), NEW ds, PartsOf(ds, s),
           NEW x \in Sections, NEW c, Once(Merged(ds, x), c)
    PROVE  /\ Gathered(ds, s, x) \in Seq(ItemsIn(s, x))
           /\ Once(Gathered(ds, s, x), c)
  <1> DEFINE merged == Merged(ds, x)
             dropped == Drop(merged)
             ensured == Ensure(dropped, s, x)
             attached == Attach(ensured, s)
             I == ItemsIn(s, x)
  <1>1. s \in Seq(Row)
    BY DEF Rows
  <1>2. merged \in Seq(I)
    BY MergedItems
  <1>3. dropped \in Seq(I) /\ Once(dropped, c)
    <2> HIDE DEF merged, I
    <2>1. Once(merged, c)
      BY DEF merged
    <2>2. QED
      BY <1>2, <2>1, AtElements, OnceAt DEF Drop
  <1>4. ensured \in Seq(I) /\ Once(ensured, c)
    <2> HIDE DEF dropped
    <2> QED
      BY <1>1, <1>3, Ensured, EnsuredOnce
  <1>5. attached \in Seq(I) /\ Once(attached, c)
    <2> HIDE DEF ensured
    <2>1. /\ attached \in Seq(I) /\ DOMAIN attached = DOMAIN ensured
          /\ \A i \in DOMAIN ensured : attached[i].chat = ensured[i].chat
      BY <1>1, <1>4, Attached
    <2> HIDE DEF attached
    <2>2. QED
      BY <1>4, <2>1, SameChats
  <1>6. QED
    BY <1>5 DEF Gathered


LEMMA RenamedChat ==
    ASSUME rows \in Seq(Row), NEW c, NEW g \in ToSet(TitlesOf(rows)),
           NEW h \in ToSet(TitlesOf(rows)), g[1] = c, h[1] = c, g # h
    PROVE  Renamed(c)
  <1> DEFINE own == Of(rows, c)
             ts == TitlesOf(own)
  <1>1. own \in Seq(Row) /\ ToSet(own) = {r \in ToSet(rows) : r.chat = c}
    BY OfElements
  <1>2. ToSet(TitlesOf(rows)) = {<<r.chat, r.title>> : r \in ToSet(rows)}
    BY TitlesOfElements
  <1>3. ts \in Seq(Chats \X Nat) /\ ToSet(ts) = {<<r.chat, r.title>> : r \in ToSet(own)}
    <2> HIDE DEF own
    <2> QED
      BY <1>1, TitlesOfElements
  <1>4. PICK r \in ToSet(rows) : g = <<r.chat, r.title>>
    BY <1>2
  <1>5. PICK q \in ToSet(rows) : h = <<q.chat, q.title>>
    BY <1>2
  <1>6. r.chat = c /\ q.chat = c
    BY <1>4, <1>5
  <1> HIDE DEF own, ts
  <1>7. g \in ToSet(ts) /\ h \in ToSet(ts)
    BY <1>1, <1>3, <1>4, <1>5, <1>6
  <1>8. PICK i \in DOMAIN ts, j \in DOMAIN ts : ts[i] = g /\ ts[j] = h
    BY <1>7 DEF ToSet
  <1>9. Len(ts) > 1
    <2>1. i # j
      BY <1>8
    <2>2. DOMAIN ts = 1..Len(ts) /\ Len(ts) \in Nat
      BY <1>3
    <2>3. QED
      BY <2>1, <2>2
  <1>10. QED
    BY <1>9 DEF Renamed, ts, own

\* A fallback makes two items of a chat of its chunk only if the chat was renamed.
LEMMA FallbackOnce ==
    ASSUME type \in [Chats -> Sections], rows \in Seq(Row), NEW chunk, NEW x \in Sections, NEW c
    PROVE  LET t == Fallback(ChunkRows(chunk))[x]
           IN /\ Once(t, c) \/ Renamed(c)
              /\ Has(t, c) => c \in ChunkChats(chunk)
  <1> DEFINE K == {i \in DOMAIN rows : rows[i].chat \in ChunkChats(chunk)}
             s == ChunkRows(chunk)
             titles == TitlesOf(s)
             I == {i \in DOMAIN titles : type[titles[i][1]] = x}
             gs == GroupsIn(s, x)
             made == Made(s, x)
  <1>2. s \in Seq(Row) /\ ToSet(s) = {r \in ToSet(rows) : r.chat \in ChunkChats(chunk)}
    <2>1. s = At(rows, K)
      BY DEF ChunkRows
    <2>2. At(rows, K) \in Seq(Row) /\ ToSet(At(rows, K)) = {rows[i] : i \in K \cap DOMAIN rows}
      <3> HIDE DEF K
      <3> QED
        BY AtElements
    <2> HIDE DEF s
    <2>3. QED
      BY <2>1, <2>2 DEF ToSet
  <1> HIDE DEF s
  <1>3. /\ titles \in Seq(Chats \X Nat)
        /\ ToSet(titles) = {<<r.chat, r.title>> : r \in ToSet(s)}
        /\ \A j, k \in DOMAIN titles : titles[j] = titles[k] => j = k
    BY <1>2, TitlesOfElements
  <1>4. /\ gs \in Seq(Chats \X Nat) /\ ToSet(gs) \subseteq ToSet(titles)
        /\ \A j, k \in DOMAIN gs : gs[j] = gs[k] => j = k
    <2> HIDE DEF titles, I
    <2>1. At(titles, I) \in Seq(Chats \X Nat)
          /\ ToSet(At(titles, I)) = {titles[i] : i \in I \cap DOMAIN titles}
      BY <1>3, AtElements
    <2>2. \A j, k \in DOMAIN At(titles, I) : At(titles, I)[j] = At(titles, I)[k] => j = k
      BY <1>3, AtDistinct
    <2>3. gs = At(titles, I)
      BY DEF GroupsIn, titles, I
    <2>4. ToSet(At(titles, I)) \subseteq ToSet(titles)
      BY <2>1 DEF ToSet
    <2> HIDE DEF gs
    <2>5. QED
      BY <2>1, <2>2, <2>3, <2>4
  <1>5. DOMAIN made = DOMAIN gs /\ \A i \in DOMAIN gs : made[i].chat = gs[i][1]
    BY DEF Made, Item
  <1>6. Fallback(s)[x] = Attach(made, s) /\ made \in Seq(ItemsIn(s, x))
    BY <1>2, MadeItems
  <1> HIDE DEF titles, I, gs, made
  <1>7. (Has(Fallback(s)[x], c) <=> Has(made, c)) /\ (Once(Fallback(s)[x], c) <=> Once(made, c))
    <2> DEFINE t == Attach(made, s)
    <2>1. DOMAIN t = DOMAIN made /\ \A i \in DOMAIN made : t[i].chat = made[i].chat
      BY <1>2, <1>6, Attached
    <2> HIDE DEF t
    <2>2. (Has(t, c) <=> Has(made, c)) /\ (Once(t, c) <=> Once(made, c))
      BY <2>1, SameChats
    <2>3. QED
      BY <1>6, <2>2 DEF t
  <1>8. \A i \in DOMAIN gs : \E r \in ToSet(s) : gs[i] = <<r.chat, r.title>>
    BY <1>3, <1>4 DEF ToSet
  <1>9. ASSUME Has(made, c) PROVE c \in ChunkChats(chunk)
    <2>1. PICK i \in DOMAIN gs : gs[i][1] = c
      BY <1>5, <1>9 DEF Has
    <2>2. PICK r \in ToSet(s) : gs[i] = <<r.chat, r.title>>
      BY <1>8
    <2>3. r.chat = c
      BY <2>1, <2>2
    <2>4. QED
      BY <1>2, <2>3
  <1>10. ASSUME ~Once(made, c) PROVE Renamed(c)
    <2>1. PICK i \in DOMAIN gs, j \in DOMAIN gs : gs[i][1] = c /\ gs[j][1] = c /\ i # j
      BY <1>5, <1>10 DEF Once
    <2>2. gs[i] # gs[j]
      BY <1>4, <2>1
    <2>3. ToSet(TitlesOf(rows)) = {<<r.chat, r.title>> : r \in ToSet(rows)}
      BY TitlesOfElements
    <2>4. gs[i] \in ToSet(TitlesOf(rows)) /\ gs[j] \in ToSet(TitlesOf(rows))
      BY <1>2, <1>8, <2>3
    <2>5. QED
      BY <2>1, <2>2, <2>4, RenamedChat
  <1>11. QED
    BY <1>7, <1>9, <1>10 DEF s

LEMMA NoneTwice ==
    ASSUME NEW X, NEW s \in Seq(X), Len(s) = Cardinality(ToSet(s))
    PROVE  \A i, j \in DOMAIN s : s[i] = s[j] => i = j
  <1> DEFINE S == 1..Len(s)
             E == ToSet(s)
             f == [i \in S |-> s[i]]
  <1>1. Len(s) \in Nat /\ DOMAIN s = S
    OBVIOUS
  <1>2. IsFiniteSet(S) /\ Cardinality(S) = Len(s)
    BY <1>1, FS_Interval
  <1>3. IsFiniteSet(E) /\ Cardinality(E) = Cardinality(S)
    BY <1>2, SetOfSeq
  <1>4. f \in Surjection(S, E)
    BY <1>1 DEF Surjection, ToSet
  <1> HIDE DEF S, E, f
  <1>5. f \in Injection(S, E)
    BY <1>2, <1>3, <1>4, FS_SurjSameCardinalityImpliesInj
  <1>6. \A i, j \in S : f[i] = f[j] => i = j
    BY <1>5 DEF Injection, IsInjective
  <1>7. QED
    BY <1>1, <1>6 DEF f

\* A valid answer has one item of each chat of its chunk.
LEMMA AnsweredOnce ==
    ASSUME NEW chunk, NEW a \in Answers, Valid(a, chunk), NEW x \in Sections, NEW c
    PROVE  LET t == Answered(chunk, a.items)[x]
           IN Once(t, c) /\ (Has(t, c) => c \in ChunkChats(chunk))
  <1> DEFINE Y == Chats \cup {Stranger}
             cs == a.items
             I == {i \in DOMAIN cs : type[cs[i]] = x}
             own == At(cs, I)
             given(d) == CHOOSE p \in ToSet(chunk) : p.chat = d
             made == [i \in DOMAIN own |-> Item(own[i], Ids(given(own[i]).messages),
                                                Len(given(own[i]).messages), "model")]
  <1>1. Answered(chunk, cs)[x] = made
    BY DEF Answered, InSection
  <1>2. cs \in Seq(Y)
    BY AnswerItems
  <1>3. Len(cs) = Cardinality(ToSet(cs)) /\ ToSet(cs) = ChunkChats(chunk)
    BY DEF Valid
  <1> HIDE DEF Y, cs
  <1>4. \A i, j \in DOMAIN cs : cs[i] = cs[j] => i = j
    BY <1>2, <1>3, NoneTwice
  <1>5. /\ ToSet(own) \subseteq ToSet(cs)
        /\ \A j, k \in DOMAIN own : own[j] = own[k] => j = k
    <2> HIDE DEF I
    <2>1. ToSet(At(cs, I)) = {cs[i] : i \in I \cap DOMAIN cs}
      BY <1>2, AtElements
    <2>2. \A j, k \in DOMAIN At(cs, I) : At(cs, I)[j] = At(cs, I)[k] => j = k
      BY <1>2, <1>4, AtDistinct
    <2>3. QED
      BY <2>1, <2>2 DEF ToSet
  <1> HIDE DEF own, given
  <1>6. DOMAIN made = DOMAIN own /\ \A i \in DOMAIN own : made[i].chat = own[i]
    BY DEF Item
  <1> HIDE DEF made
  <1>7. Once(made, c)
    BY <1>5, <1>6 DEF Once
  <1>8. Has(made, c) => c \in ChunkChats(chunk)
    BY <1>3, <1>5, <1>6 DEF Has, ToSet
  <1>9. QED
    BY <1>1, <1>7, <1>8 DEF cs


\* The chats of the parts that are there, then of the chunks still to be asked about.
Holds(i, c) ==
    IF i <= Len(parts) THEN \E x \in Sections : Has(parts[i].items[x], c)
    ELSE c \in ChunkChats(chunks[i - Len(parts)])

\* A chat is in one part or chunk only.  A part has one item of it, except one that fell
\* back on a chat that was renamed.
LossInv ==
    /\ \A c \in Chats : \A i, j \in 1..(Len(parts) + Len(chunks)) :
         Holds(i, c) /\ Holds(j, c) => i = j
    /\ \A i \in DOMAIN parts : \A x \in Sections : \A c \in Chats :
         Once(parts[i].items[x], c) \/ (~parts[i].used /\ Renamed(c))
    /\ step = "failed" =>
         \E c \in Chats, p \in ToSet(parts) :
           /\ type[c] # "private" /\ Renamed(c)
           /\ ~p.used /\ \E item \in ItemsOf(p.items) : item.chat = c

LEMMA LossInit == Init => LossInv
  <1> SUFFICES ASSUME Init PROVE LossInv
    OBVIOUS
  <1>1. parts = <<>> /\ chunks = <<>> /\ step = "start"
    BY DEF Init
  <1>2. 1..(Len(parts) + Len(chunks)) = {} /\ DOMAIN parts = {}
    BY <1>1
  <1>3. QED
    BY <1>1, <1>2 DEF LossInv

\* What leaves the rows, the chunks and the parts alone, if it fails for the reason.
LEMMA LossKept ==
    ASSUME LossInv, UNCHANGED <<type, rows, chunks, parts>>,
           \E c \in Chats, p \in ToSet(parts) :
             /\ type[c] # "private" /\ Renamed(c)
             /\ ~p.used /\ \E item \in ItemsOf(p.items) : item.chat = c
    PROVE  LossInv'
  <1>1. \A c \in Chats : Renamed(c)' <=> Renamed(c)
    BY DEF Renamed
  <1>2. \A i, c : Holds(i, c)' <=> Holds(i, c)
    BY DEF Holds, Has, ChunkChats
  <1>3. \A c \in Chats : \A i, j \in 1..(Len(parts') + Len(chunks')) :
          Holds(i, c)' /\ Holds(j, c)' => i = j
    BY <1>2 DEF LossInv
  <1>4. \A i \in DOMAIN parts' : \A x \in Sections : \A c \in Chats :
          Once(parts[i].items[x], c)' \/ (~parts'[i].used /\ Renamed(c)')
    BY <1>1 DEF LossInv, Once
  <1>5. \E c \in Chats, p \in ToSet(parts') :
          /\ type'[c] # "private" /\ Renamed(c)'
          /\ ~p.used /\ \E item \in ItemsOf(p.items) : item.chat = c
    BY <1>1
  <1>6. QED
    BY <1>3, <1>4, <1>5 DEF LossInv

\* What leaves the rows, the chunks and the parts alone.
LEMMA UnsettledLoss ==
    ASSUME LossInv, UNCHANGED <<type, rows, chunks, parts>>, step' # "failed" \/ step' = step
    PROVE  LossInv'
  <1>1. \A c \in Chats : Renamed(c)' <=> Renamed(c)
    BY DEF Renamed
  <1>2. \A i, c : Holds(i, c)' <=> Holds(i, c)
    BY DEF Holds, Has, ChunkChats
  <1>3. \A c \in Chats : \A i, j \in 1..(Len(parts') + Len(chunks')) :
          Holds(i, c)' /\ Holds(j, c)' => i = j
    BY <1>2 DEF LossInv
  <1>4. \A i \in DOMAIN parts' : \A x \in Sections : \A c \in Chats :
          Once(parts[i].items[x], c)' \/ (~parts'[i].used /\ Renamed(c)')
    BY <1>1 DEF LossInv, Once
  <1>5. step' = "failed" =>
          \E c \in Chats, p \in ToSet(parts') :
            /\ type'[c] # "private" /\ Renamed(c)'
            /\ ~p.used /\ \E item \in ItemsOf(p.items) : item.chat = c
    BY <1>1 DEF LossInv
  <1>6. QED
    BY <1>3, <1>4, <1>5 DEF LossInv

LEMMA PrepareLoss ==
    ASSUME ContentInv, LossInv, Prepare
    PROVE  LossInv'
  <1> DEFINE wanted == At(rows, {i \in DOMAIN rows : rows[i].wanted})
             p == Payload(wanted)
             cut == Chunks(p)
  <1>1. step = "start" /\ chunks' = cut /\ step' = "next" /\ parts' = parts
    BY DEF Prepare
  <1>2. parts' = <<>>
    BY <1>1 DEF ContentInv, ContentTypeInv
  <1>3. wanted \in Seq(Row)
    BY AtElements DEF ContentInv, ContentTypeInv, Rows
  <1> DEFINE E == Asked(wanted)
  <1>4. p \in Seq(E) /\ DistinctChats(p)
    <2> HIDE DEF wanted
    <2> QED
      BY <1>3, PayloadType, PayloadDistinct
  <1> HIDE DEF wanted, p, E
  <1>5. cut \in Seq(Seq(E)) /\ FlattenSeq(cut) = p
    BY <1>4, ChunksType, ChunksAreThePayload
  <1> HIDE DEF cut
  <1>6. \A c : Once(p, c)
    BY <1>4 DEF DistinctChats, Once
  <1>7. ASSUME NEW c \in Chats PROVE ~Shared(cut, Len(cut), c)
    BY <1>5, <1>6, FlattenedOnce
  <1>8. ASSUME NEW c \in Chats, NEW i \in 1..Len(cut), NEW j \in 1..Len(cut),
               c \in ChunkChats(cut[i]), c \in ChunkChats(cut[j])
        PROVE  i = j
    <2>1. Has(cut[i], c) /\ Has(cut[j], c)
      BY <1>8 DEF ChunkChats, Has
    <2>2. ~(i < j) /\ ~(j < i)
      BY <1>7, <2>1 DEF Shared
    <2>3. i \in Int /\ j \in Int
      OBVIOUS
    <2>4. QED
      BY <2>2, <2>3
  <1>9. Len(parts') = 0 /\ DOMAIN parts' = {} /\ Len(cut) \in Nat
    BY <1>2, <1>5
  <1>10. \A i \in 1..Len(cut) : \A c : Holds(i, c)' <=> c \in ChunkChats(cut[i])
    <2>1. ASSUME NEW i \in 1..Len(cut) PROVE ~(i <= 0) /\ i - 0 = i
      OBVIOUS
    <2>2. QED
      BY <1>1, <1>9, <2>1 DEF Holds, ChunkChats
  <1>11. 1..(Len(parts') + Len(chunks')) = 1..Len(cut)
    BY <1>1, <1>9
  <1>12. \A c \in Chats : \A i, j \in 1..(Len(parts') + Len(chunks')) :
           Holds(i, c)' /\ Holds(j, c)' => i = j
    BY <1>8, <1>10, <1>11
  <1>13. QED
    BY <1>1, <1>9, <1>12 DEF LossInv

\* A chunk becomes a part.
LEMMA SettleLoss ==
    ASSUME ContentInv, LossInv, chunks # <<>>, NEW items, NEW used, NEW counts,
           Settle(items, used, counts),
           \A x \in Sections : \A c \in Chats :
             /\ Once(items[x], c) \/ (~used /\ Renamed(c))
             /\ Has(items[x], c) => c \in ChunkChats(Head(chunks))
    PROVE  LossInv'
  <1> DEFINE part == [items |-> items, used |-> used, counts |-> counts]
             P == Parts(rows)
             C == Seq(Asked(rows))
             m == Len(parts)
             n == Len(chunks)
  <1>1. step' = "next" /\ parts' = Append(parts, part) /\ chunks' = Tail(chunks)
        /\ UNCHANGED <<type, rows>>
    BY DEF Settle
  <1>2. parts \in Seq(P) /\ chunks \in Seq(C)
    BY DEF ContentInv, ContentTypeInv
  <1>3. part.items = items /\ part.used = used
    OBVIOUS
  <1> HIDE DEF part, P, C
  <1>4. /\ m \in Nat /\ n \in Nat /\ n >= 1 /\ Len(parts') = m + 1 /\ Len(chunks') = n - 1
        /\ DOMAIN parts = 1..m /\ DOMAIN parts' = 1..(m + 1)
        /\ parts'[m + 1] = part /\ \A i \in 1..m : parts'[i] = parts[i]
        /\ Head(chunks) = chunks[1] /\ \A k \in 1..(n - 1) : chunks'[k] = chunks[k + 1]
    BY <1>1, <1>2
  <1> HIDE DEF m, n
  <1>5. \A c : Renamed(c)' <=> Renamed(c)
    BY <1>1 DEF Renamed
  <1>6. ASSUME NEW i \in 1..(m + n), NEW c \in Chats, Holds(i, c)' PROVE Holds(i, c)
    <2>1. Holds(i, c)' <=> IF i <= m + 1 THEN \E x \in Sections : Has(parts'[i].items[x], c)
                           ELSE c \in ChunkChats(chunks'[i - (m + 1)])
      BY <1>4 DEF Holds, Has, ChunkChats
    <2>2. Holds(i, c) <=> IF i <= m THEN \E x \in Sections : Has(parts[i].items[x], c)
                          ELSE c \in ChunkChats(chunks[i - m])
      BY DEF Holds, m
    <2>3. CASE i <= m
      <3>1. i \in 1..m /\ i <= m + 1
        BY <1>4, <2>3
      <3>2. QED
        BY <1>4, <1>6, <2>1, <2>2, <2>3, <3>1
    <2>4. CASE i = m + 1
      <3>1. i <= m + 1 /\ ~(i <= m) /\ i - m = 1
        BY <1>4, <2>4
      <3>2. \E x \in Sections : Has(items[x], c)
        BY <1>3, <1>4, <1>6, <2>1, <2>4, <3>1
      <3>3. c \in ChunkChats(chunks[1])
        BY <1>4, <3>2
      <3>4. QED
        BY <2>2, <3>1, <3>3
    <2>5. CASE i > m + 1
      <3>1. ~(i <= m + 1) /\ ~(i <= m) /\ i - (m + 1) \in 1..(n - 1) /\ i - (m + 1) + 1 = i - m
        <4>1. m \in Int /\ n \in Int /\ i \in Int /\ i <= m + n /\ i > m + 1
          BY <1>4, <2>5
        <4> HIDE <1>6
        <4>2. QED
          BY <4>1
      <3>2. chunks'[i - (m + 1)] = chunks[i - m]
        BY <1>4, <3>1
      <3>3. QED
        BY <1>6, <2>1, <2>2, <3>1, <3>2
    <2>6. QED
      BY <1>4, <2>3, <2>4, <2>5
  <1>7. \A c \in Chats : \A i, j \in 1..(Len(parts') + Len(chunks')) :
          Holds(i, c)' /\ Holds(j, c)' => i = j
    <2>1. Len(parts') + Len(chunks') = m + n
      BY <1>4
    <2>2. \A c \in Chats : \A i, j \in 1..(m + n) : Holds(i, c) /\ Holds(j, c) => i = j
      BY DEF LossInv, m, n
    <2>3. QED
      BY <1>6, <2>1, <2>2
  <1>8. ASSUME NEW i \in DOMAIN parts', NEW x \in Sections, NEW c \in Chats
        PROVE  Once(parts'[i].items[x], c) \/ (~parts'[i].used /\ Renamed(c))
    <2>1. CASE i = m + 1
      BY <1>3, <1>4, <2>1
    <2>2. CASE i \in 1..m
      BY <1>4, <2>2 DEF LossInv
    <2>3. QED
      BY <1>4, <2>1, <2>2
  <1>9. \A i \in DOMAIN parts' : \A x \in Sections : \A c \in Chats :
          Once(parts[i].items[x], c)' \/ (~parts'[i].used /\ Renamed(c)')
    BY <1>5, <1>8 DEF Once
  <1>10. QED
    BY <1>1, <1>7, <1>9 DEF LossInv

LEMMA FallbackLoss ==
    ASSUME ContentInv, LossInv, chunks # <<>>, NEW counts,
           Settle(Fallback(ChunkRows(Head(chunks))), FALSE, counts)
    PROVE  LossInv'
  <1> DEFINE items == Fallback(ChunkRows(Head(chunks)))
  <1>1. type \in [Chats -> Sections] /\ rows \in Seq(Row)
    BY DEF ContentInv, ContentTypeInv, Rows
  <1>2. \A x \in Sections : \A c \in Chats :
          /\ Once(items[x], c) \/ (~FALSE /\ Renamed(c))
          /\ Has(items[x], c) => c \in ChunkChats(Head(chunks))
    BY <1>1, FallbackOnce
  <1> HIDE DEF items
  <1>3. Settle(items, FALSE, counts)
    BY DEF items
  <1>4. QED
    BY <1>2, <1>3, SettleLoss

LEMMA AnswerLoss ==
    ASSUME ContentInv, LossInv, NEW a \in Answers, Answer(a)
    PROVE  LossInv'
  <1> DEFINE chunk == Head(chunks)
             now == Observed(a, chunk, seen)
  <1>1. step \in Asking
    BY DEF Answer, Asking
  <1>2. chunks # <<>>
    BY <1>1 DEF ContentInv, ContentTypeInv
  <1>3. CASE Valid(a, chunk) /\ Settle(Answered(chunk, a.items), TRUE, now)
    <2> DEFINE items == Answered(chunk, a.items)
    <2>1. \A x \in Sections : \A c \in Chats :
            /\ Once(items[x], c) \/ (~TRUE /\ Renamed(c))
            /\ Has(items[x], c) => c \in ChunkChats(Head(chunks))
      BY <1>3, AnsweredOnce
    <2>2. Settle(items, TRUE, now)
      BY <1>3
    <2> HIDE DEF items, now
    <2>3. QED
      BY <1>2, <2>1, <2>2, SettleLoss
  <1>4. CASE /\ step' = "repair" /\ seen' = now
             /\ UNCHANGED <<type, rows, chunks, parts, digest>>
    BY <1>4, UnsettledLoss
  <1>5. CASE Settle(Fallback(ChunkRows(chunk)), FALSE, now)
    <2> HIDE DEF now
    <2> QED
      BY <1>2, <1>5, FallbackLoss
  <1>6. QED
    BY <1>3, <1>4, <1>5 DEF Answer

\* Two items of a group or channel come from one part, which fell back on it.
LEMMA RaiseLoss ==
    ASSUME ContentInv, LossInv, Raise
    PROVE  LossInv'
  <1> DEFINE ds == PartItems
  <1>1. UNCHANGED <<type, rows, chunks, parts>> /\ Unjoinable(ds, rows)
    BY DEF Raise
  <1>2. type \in [Chats -> Sections] /\ Rows(rows) /\ parts \in Seq(Parts(rows))
    BY DEF ContentInv, ContentTypeInv
  <1>3. PartsOf(ds, rows)
    BY PartsAreOfRows DEF ContentInv
  <1>4. DOMAIN parts = 1..Len(parts) /\ Len(parts) \in Nat /\ Len(chunks) \in Nat
    <2> DEFINE P == Parts(rows)
               C == Seq(Asked(rows))
    <2>1. parts \in Seq(P) /\ chunks \in Seq(C)
      BY DEF ContentInv, ContentTypeInv
    <2> HIDE DEF P, C
    <2>2. QED
      BY <2>1
  <1>5. DOMAIN ds = DOMAIN parts /\ \A i \in DOMAIN parts : ds[i] = parts[i].items
    BY DEF PartItems
  <1> HIDE DEF ds
  <1>6. PICK x \in Sections \ {"private"} :
          \E i, j \in DOMAIN Gathered(ds, rows, x) :
            i # j /\ Gathered(ds, rows, x)[i].chat = Gathered(ds, rows, x)[j].chat
    BY <1>1 DEF Unjoinable
  <1> DEFINE t == Gathered(ds, rows, x)
             merged == Merged(ds, x)
             ss == [i \in DOMAIN ds |-> ds[i][x]]
             n == Len(parts)
             I == ItemsIn(rows, x)
  <1>7. PICK i \in DOMAIN t, j \in DOMAIN t : i # j /\ t[i].chat = t[j].chat
    BY <1>6
  <1> DEFINE c == t[i].chat
  <1>8. ~Once(t, c)
    BY <1>7 DEF Once
  <1>9. ~Once(merged, c)
    <2> HIDE DEF t, c
    <2>1. Once(merged, c) => Once(t, c)
      BY <1>2, <1>3, GatheredOnce DEF t
    <2>2. QED
      BY <1>8, <2>1
  <1> HIDE DEF t, c
  <1>10. ss \in Seq(Seq(I)) /\ merged = FlattenSeq(ss)
    BY <1>3, MergedItems
  <1>11. Len(ss) = n /\ \A k \in 1..n : ss[k] = parts[k].items[x] /\ ss[k] \in Seq(I)
    <2>1. DOMAIN ss = 1..n /\ n \in Nat /\ \A k \in 1..n : ss[k] = parts[k].items[x]
      BY <1>4, <1>5
    <2> DEFINE Q == Seq(I)
    <2>2. ss \in Seq(Q)
      BY <1>10
    <2> HIDE DEF Q, ss, n
    <2>3. Len(ss) = n /\ \A k \in 1..n : ss[k] \in Q
      BY <2>1, <2>2
    <2>4. QED
      BY <2>1, <2>3 DEF Q
  <1> HIDE DEF ss, merged, I
  <1>12. ~((\A k \in 1..n : Once(ss[k], c)) /\ ~Shared(ss, n, c))
    <2>1. Once(FlattenSeq(ss), c) <=>
            (\A k \in 1..Len(ss) : Once(ss[k], c)) /\ ~Shared(ss, Len(ss), c)
      BY <1>10, FlattenedOnce
    <2>2. QED
      BY <1>9, <1>10, <1>11, <2>1
  <1>13. \A k \in 1..n : \A l \in DOMAIN ss[k] : ss[k][l].chat \in ChatsIn(rows, x)
    <2>1. \A k \in 1..n : \A l \in DOMAIN ss[k] : ss[k][l] \in I
      BY <1>11
    <2>2. QED
      BY <2>1 DEF I, ItemsIn
  <1>14. c \in ChatsIn(rows, x)
    <2>1. (\E k \in 1..n : ~Once(ss[k], c)) \/ Shared(ss, n, c)
      BY <1>12
    <2>2. \E k \in 1..n : Has(ss[k], c)
      BY <2>1 DEF Shared, Once, Has
    <2>3. QED
      BY <1>13, <2>2 DEF Has
  <1>15. c \in Chats /\ type[c] = x
    BY <1>14 DEF ChatsIn
  <1>16. ~Shared(ss, n, c)
    <2> SUFFICES ASSUME NEW k \in 1..n, NEW l \in 1..n, k < l, Has(ss[k], c), Has(ss[l], c)
                 PROVE  FALSE
      BY DEF Shared
    <2>1. k <= Len(parts) /\ l <= Len(parts) /\ k # l
      BY <1>4
    <2>2. Holds(k, c) /\ Holds(l, c)
      BY <1>11, <2>1 DEF Holds
    <2>3. k \in 1..(Len(parts) + Len(chunks)) /\ l \in 1..(Len(parts) + Len(chunks))
      BY <1>4
    <2>4. QED
      BY <1>15, <2>1, <2>2, <2>3 DEF LossInv
  <1>17. PICK k \in 1..n : ~Once(ss[k], c)
    BY <1>12, <1>16
  <1>18. ~parts[k].used /\ Renamed(c)
    BY <1>4, <1>11, <1>15, <1>17 DEF LossInv
  <1>19. \E item \in ItemsOf(parts[k].items) : item.chat = c
    <2>1. PICK l \in DOMAIN ss[k] : ss[k][l].chat = c
      BY <1>17 DEF Once
    <2>2. ss[k][l] \in ToSet(parts[k].items[x])
      BY <1>11 DEF ToSet
    <2>3. ss[k][l] \in ItemsOf(parts[k].items)
      BY <2>2 DEF ItemsOf
    <2>4. QED
      BY <2>1, <2>3
  <1>20. parts[k] \in ToSet(parts) /\ type[c] # "private"
    BY <1>4, <1>6, <1>15 DEF ToSet
  <1>21. \E d \in Chats, p \in ToSet(parts) :
           /\ type[d] # "private" /\ Renamed(d)
           /\ ~p.used /\ \E item \in ItemsOf(p.items) : item.chat = d
    BY <1>15, <1>18, <1>19, <1>20
  <1>22. QED
    BY <1>1, <1>21, LossKept

\* Every step keeps it.
LEMMA LossNext == ContentInv /\ LossInv /\ [Next]_vars => LossInv'
  <1> SUFFICES ASSUME ContentInv, LossInv, [Next]_vars PROVE LossInv'
    OBVIOUS
  <1>1. CASE Prepare
    BY <1>1, PrepareLoss
  <1>2. CASE TooLarge
    BY <1>2, FallbackLoss DEF TooLarge
  <1>3. CASE Ask
    BY <1>3, UnsettledLoss DEF Ask
  <1>4. CASE Refuse
    BY <1>4, UnsettledLoss DEF Refuse
  <1>5. CASE Fail
    <2> DEFINE counts == IF step \in {"schema", "plain"} THEN Zero ELSE seen
    <2>1. step \in Asking /\ Settle(Fallback(ChunkRows(Head(chunks))), FALSE, counts)
      BY <1>5 DEF Fail, Asking
    <2>2. chunks # <<>>
      BY <2>1 DEF ContentInv, ContentTypeInv
    <2> HIDE DEF counts
    <2>3. QED
      BY <2>1, <2>2, FallbackLoss
  <1>6. CASE \E a \in Answers : Answer(a)
    BY <1>6, AnswerLoss
  <1>7. CASE Finish
    BY <1>7, UnsettledLoss DEF Finish
  <1>8. CASE Raise
    BY <1>8, RaiseLoss
  <1>9. CASE Nothing
    BY <1>9, UnsettledLoss DEF Nothing
  <1>10. CASE UNCHANGED vars
    BY <1>10, UnsettledLoss DEF vars
  <1>11. QED
    BY <1>1, <1>2, <1>3, <1>4, <1>5, <1>6, <1>7, <1>8, <1>9, <1>10 DEF Next

\* The items of a digest refer to all messages of their chats and the alerts to the urgent
\* ones (services/digest.py:563-591, 829-838).  There is no digest for a window with
\* messages only after what line 661 raises, and then a group or channel was renamed in
\* the window and a part that fell back has an item of it: neither an answer of the model
\* nor how the rows are cut nor a fallback on other chats loses a window.
THEOREM NoMessageIsLost == Spec => []NothingIsLost
  <1>1. ContentInv /\ LossInv => NothingIsLost
    BY DEF ContentInv, LossInv, NothingIsLost, Referred, Ready, Alerts, Sectioned, UrgentIds,
           UrgentOf
  <1>2. QED
    BY <1>1, ContentInvariant, LossInit, LossNext, PTL DEF Spec
=============================================================================
