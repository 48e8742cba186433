------------------------- MODULE InboxAttentionProofs -------------------------
(***************************************************************************)
(* Proofs about InboxAttention, for any number of messages, threads and    *)
(* handlers and any lifetimes.                                             *)
(*                                                                         *)
(* The argument is about one row and the messages noted for it (Good):     *)
(* what an event, the owner, a send, the library or a start does to a row  *)
(* keeps its counter exact, and no row changes with the notes of another.  *)
(***************************************************************************)
EXTENDS InboxAttention, FiniteSetTheorems, TLAPS

\* The messages noted for a thread.
Noted(t) == {i \in DOMAIN note : note[i] = t}

\* A row r that goes with the notes N; x: a send or a start made it an exception.
Good(r, N, x) ==
    /\ r \in Rows
    /\ r.seen <= r.latest
    /\ r.quarantined => r.closed
    /\ \A i \in N : i <= r.latest
    /\ ~x => /\ r.unread = Cardinality({i \in N : i > r.seen})
             /\ r.unread > 0 => ~r.opened

RowsAreGood ==
    \A t \in Threads :
        IF Exists(t) THEN Good(row[t], Noted(t), t \in extended) ELSE Noted(t) = {}

\* Manual access is of the peer-wide row, an observed event is a message, and
\* before the upgrade nothing has happened.
Apart ==
    /\ manual => sending = 0
    /\ \A o \in Observers : observed[o] # Idle => observed[o].id \in Ids
    /\ peer = "legacy" => /\ extended = {}
                          /\ \A i \in DOMAIN note : note[i] \in Threads

AttentionInv == TypeOK /\ RowsAreGood /\ Apart

------------------------------------------------------------------------------
\* Greatest and least of finite sets of numbers.

LEMMA FiniteMax ==
    ASSUME NEW S \in SUBSET Int, IsFiniteSet(S), S # {}
    PROVE  Max(S) \in S /\ \A y \in S : y <= Max(S)
  <1> DEFINE HasMax(U) == \E x \in U : \A y \in U : y <= x
             Bad == {U \in FiniteSubsetsOf(S) : U # {} /\ ~HasMax(U)}
  <1>1. CASE Bad = {}
    <2>1. HasMax(S)
      BY <1>1 DEF FiniteSubsetsOf
    <2>2. \E x \in S : \A y \in S : x >= y
      BY <2>1
    <2>3. QED
      BY <2>2 DEF Max
  <1>2. CASE Bad # {}
    <2>1. IsWellFoundedOn(StrictSubsetOrdering(S), FiniteSubsetsOf(S))
      BY FS_StrictSubsetOrderingWellFounded
    <2>2. PICK U \in Bad : \A V \in Bad : ~(<<V, U>> \in StrictSubsetOrdering(S))
      BY <1>2, <2>1, WFMin
    <2>3. PICK x \in U : TRUE
      BY <2>2
    <2> DEFINE V == U \ {x}
    <2>4. V \in FiniteSubsetsOf(S) /\ V \subseteq U /\ V # U /\ U \subseteq S
      BY <2>2, <2>3, FS_RemoveElement DEF FiniteSubsetsOf
    <2>5. V \notin Bad
      BY <2>2, <2>4 DEF StrictSubsetOrdering
    <2>6. CASE V = {}
      <3>1. \A y \in U : y <= x
        BY <2>3, <2>4, <2>6
      <3>2. QED
        BY <2>2, <2>3, <3>1
    <2>7. CASE V # {}
      <3>1. PICK z \in V : \A y \in V : y <= z
        BY <2>4, <2>5, <2>7
      <3>2. CASE z <= x
        <4>1. \A y \in U : y <= x
          BY <2>3, <2>4, <3>1, <3>2
        <4>2. QED
          BY <2>2, <2>3, <4>1
      <3>3. CASE ~(z <= x)
        <4>1. \A y \in U : y <= z
          BY <2>3, <2>4, <3>1, <3>3
        <4>2. QED
          BY <2>2, <3>1, <4>1
      <3>4. QED
        BY <3>2, <3>3
    <2>8. QED
      BY <2>6, <2>7
  <1>3. QED
    BY <1>1, <1>2

LEMMA MinOfTwo ==
    ASSUME NEW a \in Int, NEW b \in Int
    PROVE  Min({a, b}) = IF a <= b THEN a ELSE b
  BY DEF Min

LEMMA MaxOfTwo ==
    ASSUME NEW a \in Int, NEW b \in Int
    PROVE  Max({a, b}) = IF a >= b THEN a ELSE b
  BY DEF Max

LEMMA MaxOfOne ==
    ASSUME NEW a \in Int
    PROVE  Max({a}) = a
  BY DEF Max

LEMMA IdsAreFinite ==
    ASSUME NEW N \in SUBSET Ids
    PROVE  IsFiniteSet(N) /\ Cardinality(N) \in Nat
           /\ \A M \in SUBSET N : IsFiniteSet(M) /\ Cardinality(M) <= Cardinality(N)
           /\ (Cardinality(N) = 0 <=> N = {})
  <1>1. IsFiniteSet(Ids)
    BY FS_Interval, ConstantsAssumption DEF Ids
  <1>2. IsFiniteSet(N)
    BY <1>1, FS_Subset
  <1>3. QED
    BY <1>2, FS_Subset, FS_CardinalityType, FS_EmptySet

LEMMA ImageIsFinite ==
    ASSUME NEW f, IsFiniteSet(DOMAIN f)
    PROVE  IsFiniteSet({f[x] : x \in DOMAIN f})
  <1> DEFINE S == DOMAIN f
             T == {f[x] : x \in S}
             g == [x \in S |-> f[x]]
  <1>1. g \in Surjection(S, T)
    BY DEF Surjection
  <1>2. QED
    BY <1>1, FS_Surjection

------------------------------------------------------------------------------
\* One row and its notes.

\* What hides, shows, associates or extends a row does not count.
LEMMA FlagsKeep ==
    ASSUME NEW r, NEW N, NEW x, Good(r, N, x), NEW s \in Rows,
           s.seen = r.seen, s.latest = r.latest, s.unread = r.unread, s.opened = r.opened,
           s.quarantined => s.closed
    PROVE  Good(s, N, x)
  BY DEF Good

LEMMA RowFields ==
    ASSUME NEW r \in Rows
    PROVE  /\ r.opened \in BOOLEAN /\ r.closed \in BOOLEAN /\ r.quarantined \in BOOLEAN
           /\ r.left \in 0..Lifetime /\ r.left \in Int /\ r.unread \in Nat
           /\ r.latest \in 0..LastId /\ r.latest \in Int
           /\ r.seen \in 0..LastId /\ r.seen \in Int /\ r.library \in BOOLEAN
  BY ConstantsAssumption DEF Rows

LEMMA LargerOf ==
    ASSUME NEW a \in Int, NEW b \in Int
    PROVE  /\ Larger(a, b) \in {a, b} /\ Larger(a, b) >= a /\ Larger(a, b) >= b
           /\ Larger(a, b) = IF a > b THEN a ELSE b
  BY DEF Larger

LEMMA IdsAreInts == Ids \subseteq 0..LastId /\ Ids \subseteq Int
  BY DEF Ids

\* Once the newest message is seen, nothing is unread.
LEMMA AllSeen ==
    ASSUME NEW r, NEW N \in SUBSET Ids, NEW x, NEW y, Good(r, N, x), NEW s \in Rows,
           s.seen = r.latest, s.latest = r.latest, s.unread = 0,
           s.quarantined => s.closed
    PROVE  Good(s, N, y)
  <1>1. r \in Rows /\ r.latest \in Int /\ \A i \in N : i <= r.latest
    BY RowFields DEF Good
  <1>2. ASSUME NEW i \in N PROVE ~(i > s.seen) /\ i <= s.latest
    <2>1. i \in Int /\ i <= r.latest
      BY <1>1, IdsAreInts
    <2>2. QED
      BY <1>1, <2>1
  <1>3. {i \in N : i > s.seen} = {}
    BY <1>2
  <1>4. s.seen <= s.latest
    BY <1>1
  <1>5. QED
    BY <1>2, <1>3, <1>4, FS_EmptySet DEF Good

LEMMA OpenedRow ==
    ASSUME NEW r \in Rows
    PROVE  LET s == Opened(r) IN
           /\ s \in Rows /\ s.seen = r.latest /\ s.latest = r.latest /\ s.unread = 0
           /\ s.opened = TRUE /\ s.closed = r.closed /\ s.quarantined = r.quarantined
  <1> DEFINE left == IF r.opened THEN r.left ELSE Lifetime
  <1>1. Opened(r) = [r EXCEPT !.left = left, !.opened = TRUE, !.seen = r.latest,
                              !.unread = 0]
    BY Zenon DEF Opened
  <1>2. left \in 0..Lifetime /\ r.latest \in 0..LastId
    BY RowFields, ConstantsAssumption
  <1> HIDE DEF left
  <1>3. PICK a \in 0..Lifetime, b \in 0..LastId : a = left /\ b = r.latest
    BY <1>2
  <1>4. Opened(r) = [r EXCEPT !.left = a, !.opened = TRUE, !.seen = b, !.unread = 0]
    BY <1>1, <1>3, Zenon
  <1>5. Opened(r) = [opened |-> TRUE, left |-> a, closed |-> r.closed,
                     quarantined |-> r.quarantined, unread |-> 0, latest |-> r.latest,
                     seen |-> b, library |-> r.library]
    BY <1>4 DEF Rows
  <1>6. QED
    BY <1>3, <1>5, RowFields DEF Rows

LEMMA OpenedIsGood ==
    ASSUME NEW r, NEW N \in SUBSET Ids, NEW x, NEW y, Good(r, N, x)
    PROVE  Good(Opened(r), N, y)
  <1>1. r \in Rows /\ (r.quarantined => r.closed)
    BY DEF Good
  <1>2. QED
    BY <1>1, OpenedRow, AllSeen

LEMMA NewRowIsGood ==
    ASSUME NEW x
    PROVE  NewRow \in Rows /\ Good(NewRow, {}, x)
  <1>1. NewRow \in Rows
    BY ConstantsAssumption DEF NewRow, Rows
  <1>2. {i \in {} : i > NewRow.seen} = {}
    OBVIOUS
  <1>3. QED
    BY <1>1, <1>2, FS_EmptySet DEF Good, NewRow

LEMMA TouchedRow ==
    ASSUME NEW r \in Rows, NEW i \in Ids, NEW selected \in BOOLEAN
    PROVE  LET s == Touched(r, i, selected) IN
           /\ s \in Rows /\ s.seen = r.seen /\ s.unread = r.unread /\ s.opened = r.opened
           /\ s.left = r.left /\ s.closed = r.closed /\ s.quarantined = FALSE
           /\ s.latest >= r.latest /\ s.latest >= i
  <1> DEFINE n == Larger(r.latest, i)
  <1>1. Touched(r, i, selected) =
          [r EXCEPT !.library = selected, !.quarantined = FALSE, !.latest = n]
    BY Zenon DEF Touched
  <1>2. n \in 0..LastId /\ n >= r.latest /\ n >= i
    BY RowFields, LargerOf, IdsAreInts
  <1> HIDE DEF n
  <1>3. QED
    BY <1>1, <1>2 DEF Rows

\* An event that is not counted.
LEMMA TouchedIsGood ==
    ASSUME NEW r, NEW N \in SUBSET Ids, NEW x, Good(r, N, x), NEW i \in Ids,
           NEW selected \in BOOLEAN, NEW M, M = N \/ (M = N \cup {i} /\ i <= r.seen)
    PROVE  Good(Touched(r, i, selected), M, x)
  <1> DEFINE s == Touched(r, i, selected)
  <1>1. /\ r \in Rows /\ s \in Rows /\ s.seen = r.seen /\ s.unread = r.unread
        /\ s.opened = r.opened /\ s.quarantined = FALSE
        /\ s.latest >= r.latest /\ s.latest >= i
    BY TouchedRow DEF Good
  <1> HIDE DEF s
  <1>2. /\ r.seen \in Int /\ r.latest \in Int /\ s.latest \in Int
        /\ N \subseteq Int /\ i \in Int
    BY <1>1, RowFields, IdsAreInts
  <1>3. {j \in M : j > s.seen} = {j \in N : j > r.seen}
    BY <1>1, <1>2
  <1>4. ASSUME NEW j \in M PROVE j <= s.latest
    <2>1. CASE j \in N
      <3>1. j \in Int /\ j <= r.latest
        BY <1>2, <2>1 DEF Good
      <3>2. QED
        BY <1>1, <1>2, <3>1
    <2>2. CASE j = i
      BY <1>1, <2>2
    <2>3. QED
      BY <2>1, <2>2
  <1>5. s.seen <= s.latest
    <2>1. r.seen <= r.latest
      BY DEF Good
    <2>2. QED
      BY <1>1, <1>2, <2>1
  <1>6. QED
    BY <1>1, <1>3, <1>4, <1>5 DEF Good, s

LEMMA SeenAtOnce ==
    ASSUME NEW s \in Rows, NEW i \in Ids
    PROVE  LET c == [s EXCEPT !.unread = 0, !.seen = Larger(@, i), !.left = Lifetime] IN
           /\ c \in Rows /\ c.unread = 0 /\ c.seen = Larger(s.seen, i)
           /\ c.latest = s.latest /\ c.quarantined = s.quarantined
  <1> DEFINE n == Larger(s.seen, i)
  <1>1. [s EXCEPT !.unread = 0, !.seen = Larger(@, i), !.left = Lifetime] =
        [s EXCEPT !.unread = 0, !.seen = n, !.left = Lifetime]
    BY Zenon
  <1>2. n \in 0..LastId /\ Lifetime \in 0..Lifetime
    BY RowFields, LargerOf, IdsAreInts, ConstantsAssumption
  <1> HIDE DEF n
  <1>3. QED
    BY <1>1, <1>2 DEF Rows, n

LEMMA CountedOn ==
    ASSUME NEW s \in Rows
    PROVE  LET c == [s EXCEPT !.unread = @ + 1, !.opened = FALSE, !.left = 0,
                              !.closed = FALSE] IN
           /\ c \in Rows /\ c.unread = s.unread + 1 /\ c.seen = s.seen
           /\ c.latest = s.latest /\ c.quarantined = s.quarantined /\ c.opened = FALSE
  <1> DEFINE n == s.unread + 1
  <1>1. [s EXCEPT !.unread = @ + 1, !.opened = FALSE, !.left = 0, !.closed = FALSE] =
        [s EXCEPT !.unread = n, !.opened = FALSE, !.left = 0, !.closed = FALSE]
    BY Zenon
  <1>2. n \in Nat /\ 0 \in 0..Lifetime
    BY RowFields, ConstantsAssumption
  <1> HIDE DEF n
  <1>3. QED
    BY <1>1, <1>2 DEF Rows, n

\* A new message: it is counted, or seen at once.
LEMMA CountedIsGood ==
    ASSUME NEW r, NEW N \in SUBSET Ids, NEW x, Good(r, N, x), NEW i \in Ids, i \notin N,
           i > r.seen, NEW selected \in BOOLEAN, NEW foreground \in BOOLEAN
    PROVE  Good(Counted(Touched(r, i, selected), i, foreground), N \cup {i}, x)
  <1> DEFINE s == Touched(r, i, selected)
             c == Counted(s, i, foreground)
  <1>1. /\ r \in Rows /\ s \in Rows /\ s.seen = r.seen /\ s.unread = r.unread
        /\ s.opened = r.opened /\ s.quarantined = FALSE
        /\ s.latest >= r.latest /\ s.latest >= i
    BY TouchedRow DEF Good
  <1> HIDE DEF s
  <1>2. /\ r.seen \in Int /\ r.latest \in Int /\ s.latest \in Int /\ r.unread \in Nat
        /\ N \subseteq Int /\ i \in Int
    BY <1>1, RowFields, IdsAreInts
  <1>3. /\ \A j \in N \cup {i} : j <= s.latest
        /\ s.seen <= s.latest
    BY <1>1, <1>2 DEF Good
  <1>4. CASE foreground /\ s.opened /\ ~s.closed /\ s.left > 0
    <2>1. c = [s EXCEPT !.unread = 0, !.seen = Larger(@, i), !.left = Lifetime]
      BY <1>4, Zenon DEF Counted
    <2>2. Larger(s.seen, i) = i
      BY <1>1, <1>2, LargerOf
    <2> HIDE DEF c
    <2>5. /\ c \in Rows /\ c.unread = 0 /\ c.seen = i /\ c.latest = s.latest
          /\ c.quarantined = FALSE
      BY <1>1, <2>1, <2>2, SeenAtOnce
    <2>3. ~x => {j \in N \cup {i} : j > c.seen} = {}
      <3>1. ~x => Cardinality({j \in N : j > r.seen}) = 0
        BY <1>1, <1>2, <1>4 DEF Good
      <3>2. ~x => {j \in N : j > r.seen} = {}
        BY <3>1, IdsAreFinite
      <3>3. ASSUME ~x, NEW j \in N \cup {i} PROVE ~(j > c.seen)
        <4>1. j \in Int /\ (j \in N => ~(j > r.seen))
          BY <1>2, <3>2, <3>3
        <4>2. j = i => ~(j > i)
          BY <1>2
        <4>3. j # i => ~(j > i)
          BY <1>2, <4>1
        <4>4. QED
          BY <2>5, <4>2, <4>3
      <3>4. QED
        BY <3>3
    <2>4. c.seen <= c.latest
      BY <1>1, <1>2, <2>5
    <2>6. \A j \in N \cup {i} : j <= c.latest
      BY <1>3, <2>5
    <2>7. ~x => c.unread = Cardinality({j \in N \cup {i} : j > c.seen})
      BY <2>3, <2>5, FS_EmptySet
    <2>8. c.unread > 0 => ~c.opened
      BY <2>5
    <2>9. Good(c, N \cup {i}, x)
      BY <2>4, <2>5, <2>6, <2>7, <2>8 DEF Good
    <2>10. QED
      BY <2>9 DEF c, s
  <1>5. CASE ~(foreground /\ s.opened /\ ~s.closed /\ s.left > 0)
    <2>1. c = [s EXCEPT !.unread = @ + 1, !.opened = FALSE, !.left = 0, !.closed = FALSE]
      BY <1>5, Zenon DEF Counted
    <2>2. /\ c \in Rows /\ c.unread = s.unread + 1 /\ c.seen = s.seen /\ c.latest = s.latest
          /\ c.quarantined = FALSE /\ c.opened = FALSE
      BY <1>1, <2>1, CountedOn
    <2> HIDE DEF c
    <2>3. {j \in N \cup {i} : j > c.seen} = {j \in N : j > r.seen} \cup {i}
      <3>1. c.seen = r.seen
        BY <1>1, <2>2
      <3>2. QED
        BY <3>1
    <2>4. Cardinality({j \in N : j > r.seen} \cup {i})
            = Cardinality({j \in N : j > r.seen}) + 1
      <3>1. IsFiniteSet({j \in N : j > r.seen}) /\ i \notin {j \in N : j > r.seen}
        BY IdsAreFinite
      <3>2. QED
        BY <3>1, FS_AddElement
    <2>5. ~x => c.unread = Cardinality({j \in N \cup {i} : j > c.seen})
      BY <1>1, <2>2, <2>3, <2>4 DEF Good
    <2>6. c.seen <= c.latest /\ \A j \in N \cup {i} : j <= c.latest
      BY <1>3, <2>2
    <2>7. Good(c, N \cup {i}, x)
      BY <2>2, <2>5, <2>6 DEF Good
    <2>8. QED
      BY <2>7 DEF c, s
  <1>6. QED
    BY <1>4, <1>5

------------------------------------------------------------------------------
\* What a start makes of several rows.

LEMMA MaxOfImage ==
    ASSUME NEW S, IsFiniteSet(S), S # {}, NEW f \in [S -> Int]
    PROVE  LET m == Max({f[x] : x \in S}) IN
           /\ m \in Int /\ \A x \in S : f[x] <= m
           /\ \E x \in S : m = f[x]
  <1> DEFINE T == {f[x] : x \in S}
  <1>1. T \in SUBSET Int /\ T # {}
    OBVIOUS
  <1>2. IsFiniteSet(T)
    BY ImageIsFinite
  <1>3. Max(T) \in T /\ \A y \in T : y <= Max(T)
    <2> HIDE DEF T
    <2>1. QED
      BY <1>1, <1>2, FiniteMax
  <1>4. QED
    BY <1>1, <1>3

LEMMA FieldMaxima ==
    ASSUME NEW rows \in SUBSET Rows, IsFiniteSet(rows), rows # {}
    PROVE  /\ LET m == Max({r.latest : r \in rows}) IN
              /\ m \in 0..LastId /\ \A r \in rows : r.latest <= m
              /\ \E r \in rows : m = r.latest
           /\ LET m == Max({r.seen : r \in rows}) IN
              /\ m \in 0..LastId /\ \A r \in rows : r.seen <= m
              /\ \E r \in rows : m = r.seen
           /\ LET m == Max({r.left : r \in rows}) IN
              /\ m \in 0..Lifetime /\ \A r \in rows : r.left <= m
              /\ \E r \in rows : m = r.left
  <1> DEFINE latest == [r \in rows |-> r.latest]
             seen == [r \in rows |-> r.seen]
             left == [r \in rows |-> r.left]
  <1>1. latest \in [rows -> Int] /\ seen \in [rows -> Int] /\ left \in [rows -> Int]
    BY RowFields
  <1>2. /\ {r.latest : r \in rows} = {latest[r] : r \in rows}
        /\ {r.seen : r \in rows} = {seen[r] : r \in rows}
        /\ {r.left : r \in rows} = {left[r] : r \in rows}
    OBVIOUS
  <1>3. \A r \in rows : latest[r] = r.latest /\ seen[r] = r.seen /\ left[r] = r.left
    OBVIOUS
  <1> HIDE DEF latest, seen, left
  <1>4. LET m == Max({r.latest : r \in rows}) IN
          /\ m \in 0..LastId /\ \A r \in rows : r.latest <= m
          /\ \E r \in rows : m = r.latest
    <2>1. LET m == Max({latest[r] : r \in rows}) IN
            /\ m \in Int /\ \A r \in rows : latest[r] <= m
            /\ \E r \in rows : m = latest[r]
      BY <1>1, MaxOfImage
    <2>2. QED
      BY <1>2, <1>3, <2>1, RowFields
  <1>5. LET m == Max({r.seen : r \in rows}) IN
          /\ m \in 0..LastId /\ \A r \in rows : r.seen <= m
          /\ \E r \in rows : m = r.seen
    <2>1. LET m == Max({seen[r] : r \in rows}) IN
            /\ m \in Int /\ \A r \in rows : seen[r] <= m
            /\ \E r \in rows : m = seen[r]
      BY <1>1, MaxOfImage
    <2>2. QED
      BY <1>2, <1>3, <2>1, RowFields
  <1>6. LET m == Max({r.left : r \in rows}) IN
          /\ m \in 0..Lifetime /\ \A r \in rows : r.left <= m
          /\ \E r \in rows : m = r.left
    <2>1. LET m == Max({left[r] : r \in rows}) IN
            /\ m \in Int /\ \A r \in rows : left[r] <= m
            /\ \E r \in rows : m = left[r]
      BY <1>1, MaxOfImage
    <2>2. QED
      BY <1>2, <1>3, <2>1, RowFields
  <1>7. QED
    BY <1>4, <1>5, <1>6

\* An unread message that was never noted makes the counter at least one.
LEMMA CounterOfUnnoted ==
    ASSUME NEW rows \in SUBSET Rows, IsFiniteSet(rows)
    PROVE  Max({1} \cup {r.unread : r \in rows}) \in Nat \ {0}
  <1> DEFINE unread == [r \in rows |-> r.unread]
             T == {r.unread : r \in rows}
             U == {1} \cup T
  <1>1. T = {unread[r] : r \in DOMAIN unread} /\ DOMAIN unread = rows
    OBVIOUS
  <1> HIDE DEF unread
  <1>2. IsFiniteSet(T)
    BY <1>1, ImageIsFinite
  <1>3. IsFiniteSet(U)
    <2>1. U = T \cup {1}
      OBVIOUS
    <2> HIDE DEF T, U
    <2>2. QED
      BY <1>2, <2>1, FS_AddElement
  <1>4. U \in SUBSET Int /\ 1 \in U
    BY RowFields
  <1>5. Max(U) \in U /\ \A y \in U : y <= Max(U)
    <2> HIDE DEF U
    <2>1. QED
      BY <1>3, <1>4, FiniteMax
  <1>6. Max(U) \in Int /\ Max(U) >= 1
    BY <1>4, <1>5
  <1>7. QED
    BY <1>6

LEMMA WaitingRow ==
    ASSUME NEW rows \in SUBSET Rows, IsFiniteSet(rows), rows # {}, NEW ids \in SUBSET Ids
    PROVE  LET w == Waiting(rows, ids) IN
           /\ w \in Rows /\ w.seen <= w.latest
           /\ w.latest = Max({r.latest : r \in rows})
           /\ w.seen = IF w.latest <= Max({r.seen : r \in rows})
                         THEN w.latest ELSE Max({r.seen : r \in rows})
           /\ w.opened = FALSE /\ w.left = 0 /\ w.closed = FALSE
           /\ w.quarantined = (\A r \in rows : r.quarantined)
           /\ w.latest <= w.seen => w.unread = 0
           /\ w.latest > w.seen /\ (\E i \in ids : i > w.seen)
                => w.unread = Cardinality({i \in ids : i > w.seen})
           /\ w.latest > w.seen /\ ~(\E i \in ids : i > w.seen) => w.unread > 0
  <1> DEFINE latest == Max({r.latest : r \in rows})
             most == Max({r.seen : r \in rows})
             seen == Min({latest, most})
             unseen == {i \in ids : i > seen}
             lost == Max({1} \cup {r.unread : r \in rows})
             unread == IF latest <= seen THEN 0
                       ELSE IF unseen # {} THEN Cardinality(unseen) ELSE lost
             q == \A r \in rows : r.quarantined
             l == \E r \in rows : r.library
  <1>1. latest \in 0..LastId /\ most \in 0..LastId
    BY FieldMaxima
  <1>2. lost \in Nat \ {0}
    BY CounterOfUnnoted
  <1>3. Waiting(rows, ids) =
          [opened |-> FALSE, left |-> 0, closed |-> FALSE, quarantined |-> q,
           unread |-> unread, latest |-> latest, seen |-> seen, library |-> l]
    BY DEF Waiting
  <1> HIDE DEF latest, most, lost
  <1>4. /\ seen = IF latest <= most THEN latest ELSE most
        /\ seen \in 0..LastId /\ seen <= latest
    BY <1>1, MinOfTwo, ConstantsAssumption
  <1> HIDE DEF seen
  <1>5. Cardinality(unseen) \in Nat
    BY IdsAreFinite
  <1>6. unread \in Nat
    BY <1>2, <1>5
  <1>7. /\ latest <= seen => unread = 0
        /\ latest > seen /\ (\E i \in ids : i > seen)
             => unread = Cardinality({i \in ids : i > seen})
        /\ latest > seen /\ ~(\E i \in ids : i > seen) => unread > 0
    BY <1>1, <1>2, <1>4
  <1> HIDE DEF unread
  <1>8. PICK p \in BOOLEAN, k \in BOOLEAN : p = q /\ k = l
    OBVIOUS
  <1>9. Waiting(rows, ids) =
          [opened |-> FALSE, left |-> 0, closed |-> FALSE, quarantined |-> p,
           unread |-> unread, latest |-> latest, seen |-> seen, library |-> k]
    BY <1>3, <1>8
  <1> HIDE DEF q, l
  <1>10. /\ Waiting(rows, ids) \in Rows
         /\ Waiting(rows, ids).seen = seen /\ Waiting(rows, ids).latest = latest
         /\ Waiting(rows, ids).unread = unread /\ Waiting(rows, ids).quarantined = p
         /\ Waiting(rows, ids).opened = FALSE /\ Waiting(rows, ids).left = 0
         /\ Waiting(rows, ids).closed = FALSE
    BY <1>1, <1>4, <1>6, <1>9, ConstantsAssumption DEF Rows
  <1>11. PICK w : w = Waiting(rows, ids)
    OBVIOUS
  <1>12. /\ w \in Rows /\ w.seen = seen /\ w.latest = latest /\ w.unread = unread
         /\ w.quarantined = q /\ w.opened = FALSE /\ w.left = 0 /\ w.closed = FALSE
    BY <1>8, <1>10, <1>11
  <1>13. QED
    BY <1>4, <1>7, <1>11, <1>12 DEF latest, most, q

LEMMA CountingDownRow ==
    ASSUME NEW rows \in SUBSET Rows, IsFiniteSet(rows), \E r \in rows : Running(r),
           NEW ids \in SUBSET Ids
    PROVE  LET c == CountingDown(rows, ids)
               w == Waiting(rows, ids) IN
           /\ c \in Rows /\ c.seen = w.seen /\ c.latest = w.latest /\ c.unread = w.unread
           /\ c.opened = TRUE /\ c.closed = FALSE /\ c.quarantined = w.quarantined
           /\ \A r \in rows : Running(r) => r.left <= c.left
           /\ \E r \in rows : Running(r) /\ r.left = c.left
  <1> DEFINE run == {q \in rows : Running(q)}
             most == Max({r.left : r \in run})
  <1>1. run \in SUBSET Rows /\ run # {} /\ IsFiniteSet(run)
    BY FS_Subset
  <1>2. /\ most \in 0..Lifetime /\ \A r \in run : r.left <= most
        /\ \E r \in run : most = r.left
    <2> HIDE DEF run
    <2>1. QED
      BY <1>1, FieldMaxima
  <1>3. PICK w \in Rows : w = Waiting(rows, ids)
    BY WaitingRow
  <1>4. CountingDown(rows, ids) = [w EXCEPT !.opened = TRUE, !.left = most]
    BY <1>3, Zenon DEF CountingDown
  <1> HIDE DEF most
  <1>5. CountingDown(rows, ids) =
          [opened |-> TRUE, left |-> most, closed |-> w.closed,
           quarantined |-> w.quarantined, unread |-> w.unread, latest |-> w.latest,
           seen |-> w.seen, library |-> w.library]
    BY <1>4 DEF Rows
  <1>6. w.closed = FALSE
    BY <1>1, <1>3, WaitingRow
  <1>7. PICK c : c = CountingDown(rows, ids)
    OBVIOUS
  <1>8. /\ c \in Rows /\ c.seen = w.seen /\ c.latest = w.latest /\ c.unread = w.unread
        /\ c.opened = TRUE /\ c.closed = FALSE /\ c.quarantined = w.quarantined
        /\ c.left = most
    BY <1>2, <1>5, <1>6, <1>7, RowFields DEF Rows
  <1>9. QED
    BY <1>2, <1>3, <1>7, <1>8

LEMMA AllClosedRow ==
    ASSUME NEW rows \in SUBSET Rows, IsFiniteSet(rows), rows # {},
           NEW ids \in SUBSET Ids
    PROVE  LET c == AllClosed(rows, ids) IN
           /\ c \in Rows /\ c.seen = c.latest /\ c.unread = 0 /\ c.closed = TRUE
           /\ c.latest = Max({r.latest : r \in rows})
  <1> DEFINE latest == Max({r.latest : r \in rows})
             left == Max({r.left : r \in rows})
             o == \E r \in rows : r.opened
  <1>1. latest \in 0..LastId /\ left \in 0..Lifetime
    BY FieldMaxima
  <1>2. PICK w \in Rows : w = Waiting(rows, ids)
    BY WaitingRow
  <1>3. w.latest = latest
    BY <1>2, WaitingRow
  <1>4. AllClosed(rows, ids) = [w EXCEPT !.opened = o, !.left = left, !.closed = TRUE,
                                         !.unread = 0, !.seen = latest]
    BY <1>2, Zenon DEF AllClosed
  <1> HIDE DEF latest, left
  <1>5. PICK p \in BOOLEAN : p = o
    OBVIOUS
  <1>6. AllClosed(rows, ids) = [w EXCEPT !.opened = p, !.left = left, !.closed = TRUE,
                                         !.unread = 0, !.seen = latest]
    BY <1>4, <1>5, Zenon
  <1> HIDE DEF o
  <1>7. AllClosed(rows, ids) =
          [opened |-> p, left |-> left, closed |-> TRUE,
           quarantined |-> w.quarantined, unread |-> 0, latest |-> w.latest,
           seen |-> latest, library |-> w.library]
    BY <1>6 DEF Rows
  <1>8. PICK c : c = AllClosed(rows, ids)
    OBVIOUS
  <1>9. /\ c \in Rows /\ c.seen = latest /\ c.latest = latest /\ c.unread = 0
        /\ c.closed = TRUE
    BY <1>1, <1>3, <1>7, <1>8, RowFields DEF Rows
  <1>10. QED
    BY <1>8, <1>9 DEF latest

\* Why Rebase makes a row an exception.
Excepted(m, ids) == m.unread > 0 /\ (m.opened \/ \A i \in ids : i <= m.seen)

LEMMA MergedIsGood ==
    ASSUME NEW rows \in SUBSET Rows, IsFiniteSet(rows), rows # {}, NEW ids \in SUBSET Ids,
           \A r \in rows : r.quarantined => r.closed,
           \A i \in ids : \E r \in rows : i <= r.latest
    PROVE  LET m == Merged(rows, ids) IN Good(m, ids, Excepted(m, ids))
  <1> DEFINE latest == Max({r.latest : r \in rows})
             unseen(m) == {i \in ids : i > m.seen}
  <1>1. latest \in 0..LastId /\ \A r \in rows : r.latest <= latest
    BY FieldMaxima
  <1>2. \A i \in ids : i <= latest
    <2>1. TAKE i \in ids
    <2>2. PICK r \in rows : i <= r.latest
      OBVIOUS
    <2>3. i \in Int /\ r.latest \in Int /\ latest \in Int /\ r.latest <= latest
      BY <1>1, RowFields, IdsAreInts
    <2> HIDE DEF latest
    <2>4. QED
      BY <2>2, <2>3
  <1> HIDE DEF latest
  <1>3. PICK w : w = Waiting(rows, ids)
    OBVIOUS
  <1>4. /\ w \in Rows /\ w.seen <= w.latest /\ w.latest = latest
        /\ w.opened = FALSE /\ w.closed = FALSE
        /\ w.quarantined = (\A r \in rows : r.quarantined)
        /\ w.latest <= w.seen => w.unread = 0
        /\ w.latest > w.seen /\ (\E i \in ids : i > w.seen)
             => w.unread = Cardinality(unseen(w))
        /\ w.latest > w.seen /\ ~(\E i \in ids : i > w.seen) => w.unread > 0
    <2>1. /\ w \in Rows /\ w.seen <= w.latest /\ w.latest = latest
          /\ w.opened = FALSE /\ w.closed = FALSE
          /\ w.quarantined = (\A r \in rows : r.quarantined)
          /\ w.latest <= w.seen => w.unread = 0
      BY <1>3, WaitingRow DEF latest
    <2>2. w.latest > w.seen /\ (\E i \in ids : i > w.seen)
            => w.unread = Cardinality({i \in ids : i > w.seen})
      BY <1>3, WaitingRow
    <2>3. w.latest > w.seen /\ ~(\E i \in ids : i > w.seen) => w.unread > 0
      BY <1>3, WaitingRow
    <2>4. QED
      BY <2>1, <2>2, <2>3
  <1>5. w.seen \in Int /\ w.latest \in Int /\ w.unread \in Nat /\ ids \subseteq Int
    BY <1>4, RowFields, IdsAreInts
  <1>6. \/ w.unread = Cardinality(unseen(w))
        \/ w.unread > 0 /\ \A i \in ids : i <= w.seen
    <2>1. CASE w.latest <= w.seen
      <3>0. ASSUME NEW i \in ids PROVE ~(i > w.seen)
        BY <1>2, <1>4, <1>5, <2>1
      <3>1. unseen(w) = {}
        BY <3>0
      <3>2. QED
        BY <1>4, <2>1, <3>1, FS_EmptySet
    <2>2. CASE w.latest > w.seen /\ \E i \in ids : i > w.seen
      BY <1>4, <2>2
    <2>3. CASE w.latest > w.seen /\ ~(\E i \in ids : i > w.seen)
      <3>1. ASSUME NEW i \in ids PROVE i <= w.seen
        BY <1>5, <2>3
      <3>2. QED
        BY <1>4, <2>3, <3>1
    <2>4. QED
      BY <1>5, <2>1, <2>2, <2>3
  <1>7. ASSUME NEW m \in Rows, m.seen = w.seen, m.latest = w.latest, m.unread = w.unread,
               m.quarantined = FALSE
        PROVE  Good(m, ids, Excepted(m, ids))
    <2>1. unseen(m) = unseen(w)
      BY <1>7
    <2>2. m.seen <= m.latest /\ \A i \in ids : i <= m.latest
      BY <1>2, <1>4, <1>7
    <2>3. ~Excepted(m, ids) => /\ m.unread = Cardinality(unseen(m))
                               /\ m.unread > 0 => ~m.opened
      BY <1>6, <1>7, <2>1 DEF Excepted
    <2>4. QED
      BY <1>7, <2>2, <2>3 DEF Good
  <1>8. CASE \E r \in rows : Pending(r)
    <2>1. Merged(rows, ids) = w
      BY <1>3, <1>8 DEF Merged
    <2>2. w.quarantined = FALSE
      BY <1>4, <1>8 DEF Pending
    <2>3. QED
      BY <1>4, <1>7, <2>1, <2>2
  <1>9. CASE ~(\E r \in rows : Pending(r)) /\ \E r \in rows : Running(r)
    <2>1. PICK c : c = CountingDown(rows, ids)
      OBVIOUS
    <2>2. Merged(rows, ids) = c
      BY <1>9, <2>1 DEF Merged
    <2>3. w.quarantined = FALSE
      BY <1>4, <1>9 DEF Running
    <2>4. /\ c \in Rows /\ c.seen = w.seen /\ c.latest = w.latest /\ c.unread = w.unread
          /\ c.quarantined = FALSE
      BY <1>3, <1>9, <2>1, <2>3, CountingDownRow
    <2>5. QED
      BY <1>7, <2>2, <2>4
  <1>10. CASE ~(\E r \in rows : Pending(r)) /\ ~(\E r \in rows : Running(r))
    <2>1. PICK c : c = AllClosed(rows, ids)
      OBVIOUS
    <2>2. Merged(rows, ids) = c
      BY <1>10, <2>1 DEF Merged
    <2>3. /\ c \in Rows /\ c.seen = c.latest /\ c.unread = 0 /\ c.closed = TRUE
          /\ c.latest = latest
      BY <2>1, AllClosedRow DEF latest
    <2>4. c.unread = Cardinality(unseen(c))
      <3>1. ASSUME NEW i \in ids PROVE ~(i > c.seen)
        BY <1>1, <1>2, <1>5, <2>3
      <3>2. unseen(c) = {}
        BY <3>1
      <3>3. QED
        BY <2>3, <3>2, FS_EmptySet
    <2>5. c.seen <= c.latest /\ \A i \in ids : i <= c.latest
      BY <1>1, <1>2, <2>3
    <2>6. Good(c, ids, Excepted(c, ids))
      BY <2>3, <2>4, <2>5 DEF Good
    <2>7. QED
      BY <2>2, <2>6
  <1>11. QED
    BY <1>8, <1>9, <1>10

\* What a merge shows, and whether it has a countdown.
LEMMA MergedShows ==
    ASSUME NEW rows \in SUBSET Rows, IsFiniteSet(rows), rows # {}, NEW ids \in SUBSET Ids,
           \A r \in rows : r.quarantined => r.closed
    PROVE  LET m == Merged(rows, ids)
               visible == {r \in rows : Visible(r)} IN
           /\ Visible(m) <=> visible # {}
           /\ visible # {} => (m.opened <=> \A r \in visible : r.opened)
  <1>1. PICK w : w = Waiting(rows, ids)
    OBVIOUS
  <1>2. /\ w.opened = FALSE /\ w.left = 0 /\ w.closed = FALSE
        /\ w.quarantined = (\A r \in rows : r.quarantined)
    BY <1>1, WaitingRow
  <1>3. \A r \in rows : /\ Pending(r) => Visible(r)
                        /\ Visible(r) => Pending(r) \/ Running(r)
    BY RowFields DEF Pending, Running, Visible
  <1>4. CASE \E r \in rows : Pending(r)
    <2>1. Merged(rows, ids) = w
      BY <1>1, <1>4 DEF Merged
    <2>2. Visible(w)
      BY <1>2, <1>4 DEF Pending, Visible
    <2>3. PICK r \in rows : Pending(r) /\ Visible(r) /\ ~r.opened
      BY <1>3, <1>4 DEF Pending
    <2>4. QED
      BY <1>2, <2>1, <2>2, <2>3
  <1>5. CASE ~(\E r \in rows : Pending(r)) /\ \E r \in rows : Running(r)
    <2>1. PICK c : c = CountingDown(rows, ids)
      OBVIOUS
    <2>2. Merged(rows, ids) = c
      BY <1>5, <2>1 DEF Merged
    <2>3. w.quarantined = FALSE
      BY <1>2, <1>5 DEF Running
    <2>4. /\ c \in Rows /\ c.opened = TRUE /\ c.closed = FALSE /\ c.quarantined = FALSE
          /\ \A r \in rows : Running(r) => r.left <= c.left
          /\ \E r \in rows : Running(r) /\ r.left = c.left
      BY <1>1, <1>5, <2>1, <2>3, CountingDownRow
    <2>5. Visible(c) <=> c.left > 0
      BY <2>4 DEF Visible
    <2>6. ASSUME NEW r \in rows PROVE Visible(r) => r.opened /\ c.left > 0
      <3>1. r.left \in Int /\ c.left \in Int
        BY <2>4, RowFields
      <3>2. QED
        BY <1>3, <1>5, <2>4, <3>1 DEF Running, Visible
    <2>7. c.left > 0 => \E r \in rows : Visible(r)
      BY <2>4 DEF Running, Visible
    <2>8. QED
      BY <2>2, <2>4, <2>5, <2>6, <2>7
  <1>6. CASE ~(\E r \in rows : Pending(r)) /\ ~(\E r \in rows : Running(r))
    <2>1. PICK c : c = AllClosed(rows, ids)
      OBVIOUS
    <2>2. Merged(rows, ids) = c
      BY <1>6, <2>1 DEF Merged
    <2>3. c.closed = TRUE
      BY <2>1, AllClosedRow
    <2>4. ~Visible(c) /\ \A r \in rows : ~Visible(r)
      BY <1>3, <1>6, <2>3 DEF Visible
    <2>5. QED
      BY <2>2, <2>4
  <1>7. QED
    BY <1>4, <1>5, <1>6

\* A visible row that is alone does not lose unread messages.
LEMMA MergedAlone ==
    ASSUME NEW r, NEW N \in SUBSET Ids, Good(r, N, FALSE), Visible(r),
           NEW ids \in SUBSET Ids, N \subseteq ids
    PROVE  Merged({r}, ids).unread >= r.unread
  <1>1. r \in Rows /\ r.seen <= r.latest /\ r.unread = Cardinality({i \in N : i > r.seen})
        /\ \A i \in N : i <= r.latest
    BY DEF Good
  <1>2. r.seen \in Int /\ r.latest \in Int /\ r.unread \in Nat
    BY <1>1, RowFields
  <1>3. PICK w : w = Waiting({r}, ids)
    OBVIOUS
  <1>4. IsFiniteSet({r}) /\ {r} \in SUBSET Rows /\ {r} # {}
    BY <1>1, FS_Singleton
  <1>5. /\ {q.latest : q \in {r}} = {r.latest} /\ {q.seen : q \in {r}} = {r.seen}
    OBVIOUS
  <1>6. Max({q.latest : q \in {r}}) = r.latest /\ Max({q.seen : q \in {r}}) = r.seen
    BY <1>2, <1>5, MaxOfOne
  <1>7. w \in Rows /\ w.latest = r.latest /\ w.seen = r.seen
    <2>1. /\ w \in Rows /\ w.latest = Max({q.latest : q \in {r}})
          /\ w.seen = IF w.latest <= Max({q.seen : q \in {r}})
                        THEN w.latest ELSE Max({q.seen : q \in {r}})
      BY <1>3, <1>4, WaitingRow
    <2>2. QED
      BY <1>1, <1>2, <1>6, <2>1
  <1>8. w.latest > w.seen /\ (\E i \in ids : i > w.seen)
          => w.unread = Cardinality({i \in ids : i > w.seen})
    BY <1>3, <1>4, WaitingRow
  <1>9. w.unread >= r.unread
    <2> DEFINE late == {i \in N : i > r.seen}
               lateIds == {i \in ids : i > r.seen}
    <2>1. CASE late = {}
      BY <1>1, <1>2, <1>7, <2>1, RowFields, FS_EmptySet
    <2>2. CASE late # {}
      <3>1. PICK i \in N : i > r.seen
        BY <2>2
      <3>2. i \in Int /\ i <= r.latest /\ i \in ids
        BY <1>1, IdsAreInts
      <3>3. w.unread = Cardinality(lateIds)
        BY <1>2, <1>7, <1>8, <3>1, <3>2
      <3>4. late \subseteq lateIds /\ lateIds \in SUBSET Ids
        OBVIOUS
      <3> HIDE DEF late, lateIds
      <3>5. Cardinality(late) <= Cardinality(lateIds)
        BY <3>4, IdsAreFinite
      <3>6. QED
        BY <1>1, <3>3, <3>5 DEF late
    <2>3. QED
      BY <2>1, <2>2
  <1>10. CASE Pending(r)
    BY <1>3, <1>9, <1>10 DEF Merged
  <1>11. CASE ~Pending(r)
    <2>1. Running(r)
      BY <1>11 DEF Visible, Running, Pending
    <2>2. Merged({r}, ids) = CountingDown({r}, ids)
      BY <1>11, <2>1 DEF Merged
    <2>3. CountingDown({r}, ids).unread = w.unread
      BY <1>3, <1>4, <2>1, CountingDownRow
    <2>4. QED
      BY <1>9, <2>2, <2>3
  <1>12. QED
    BY <1>10, <1>11

------------------------------------------------------------------------------
\* The rows of the peer.

LEMMA NotedIds ==
    ASSUME TypeOK, NEW t
    PROVE  Noted(t) \in SUBSET Ids
  BY DEF TypeOK, Noted

\* Rows change, notes do not.
LEMMA RowsKept ==
    ASSUME TypeOK, RowsAreGood, note' = note, row' = [t \in Threads |-> row'[t]],
           \A t \in Threads :
             /\ Exists(t) => Good(row'[t], Noted(t), t \in extended')
             /\ ~Exists(t) => row'[t] = NoRow \/ Good(row'[t], {}, t \in extended')
    PROVE  RowsAreGood' /\ row' \in [Threads -> Rows \cup {NoRow}]
  <1>1. ASSUME NEW t \in Threads
        PROVE  /\ row'[t] \in Rows \cup {NoRow}
               /\ IF row'[t] # NoRow THEN Good(row'[t], Noted(t), t \in extended')
                                     ELSE Noted(t) = {}
    <2>1. CASE Exists(t)
      <3>1. Good(row'[t], Noted(t), t \in extended')
        BY <2>1
      <3>2. row'[t] \in Rows
        BY <3>1 DEF Good
      <3>3. QED
        BY <3>1, <3>2, NoRowAssumption
    <2>2. CASE ~Exists(t)
      <3>1. Noted(t) = {}
        BY <2>2 DEF RowsAreGood
      <3>2. row'[t] = NoRow \/ Good(row'[t], Noted(t), t \in extended')
        BY <2>2, <3>1
      <3>3. row'[t] \in Rows \cup {NoRow}
        BY <3>2 DEF Good
      <3>4. QED
        BY <3>1, <3>2, <3>3
    <2>3. QED
      BY <2>1, <2>2
  <1>2. row' \in [Threads -> Rows \cup {NoRow}]
    BY <1>1
  <1>3. \A t \in Threads : Noted(t)' = Noted(t)
    BY DEF Noted
  <1>4. RowsAreGood'
    BY <1>1, <1>3 DEF RowsAreGood, Exists
  <1>5. QED
    BY <1>2, <1>4

\* One row changes.
LEMMA RowKept ==
    ASSUME TypeOK, RowsAreGood, note' = note, NEW t \in Threads, NEW r,
           row' = [row EXCEPT ![t] = r], Good(r, Noted(t), t \in extended'),
           \A u \in Threads \ {t} : u \in extended' <=> u \in extended
    PROVE  RowsAreGood' /\ row' \in [Threads -> Rows \cup {NoRow}]
  <1>1. row' = [u \in Threads |-> row'[u]] /\ row'[t] = r
        /\ \A u \in Threads \ {t} : row'[u] = row[u]
    BY DEF TypeOK
  <1>2. ASSUME NEW u \in Threads
        PROVE  /\ Exists(u) => Good(row'[u], Noted(u), u \in extended')
               /\ ~Exists(u) => row'[u] = NoRow \/ Good(row'[u], {}, u \in extended')
    <2>1. CASE u = t
      <3>1. ~Exists(t) => Noted(t) = {}
        BY DEF RowsAreGood
      <3>2. QED
        BY <1>1, <2>1, <3>1
    <2>2. CASE u # t
      <3>1. row'[u] = row[u] /\ (u \in extended' <=> u \in extended)
        BY <1>1, <2>2
      <3>2. Exists(u) => Good(row[u], Noted(u), u \in extended)
        BY DEF RowsAreGood
      <3>3. Exists(u) => Good(row[u], Noted(u), u \in extended')
        BY <3>1, <3>2 DEF Good
      <3>4. QED
        BY <3>1, <3>3 DEF Exists
    <2>3. QED
      BY <2>1, <2>2
  <1>3. QED
    BY <1>1, <1>2, RowsKept

\* No row changes.
LEMMA RowsUntouched ==
    ASSUME TypeOK, RowsAreGood, UNCHANGED <<row, note, extended>>
    PROVE  RowsAreGood' /\ row' \in [Threads -> Rows \cup {NoRow}]
  <1>1. \A t \in Threads : Noted(t)' = Noted(t) /\ (Exists(t)' <=> Exists(t))
    BY DEF Noted, Exists
  <1>2. QED
    BY <1>1 DEF RowsAreGood, TypeOK

LEMMA AnExistingRow ==
    ASSUME TypeOK, RowsAreGood, NEW t \in Threads, Exists(t)
    PROVE  /\ row[t] \in Rows /\ Noted(t) \in SUBSET Ids
           /\ Good(row[t], Noted(t), t \in extended)
           /\ row[t].quarantined => row[t].closed
  BY NotedIds DEF RowsAreGood, Good

------------------------------------------------------------------------------
\* The actions, one by one.

LEMMA OpenKeeps ==
    ASSUME TypeOK, RowsAreGood, NEW t \in Threads, Open(t)
    PROVE  RowsAreGood' /\ row' \in [Threads -> Rows \cup {NoRow}]
  <1>1. /\ note' = note /\ Exists(t) /\ row' = [row EXCEPT ![t] = Opened(row[t])]
        /\ extended' = extended \ {t}
    BY DEF Open, Active
  <1>2. Good(Opened(row[t]), Noted(t), t \in extended')
    BY <1>1, AnExistingRow, OpenedIsGood
  <1>3. QED
    BY <1>1, <1>2, RowKept

LEMMA OpenLibraryKeeps ==
    ASSUME TypeOK, RowsAreGood, OpenLibrary
    PROVE  RowsAreGood' /\ row' \in [Threads -> Rows \cup {NoRow}]
  <1> DEFINE marked == {t \in Threads : Exists(t) /\ row[t].library
                                                 /\ ~row[t].quarantined}
             seenOf(t) == [row[t] EXCEPT !.seen = Larger(@, row[t].latest), !.unread = 0]
  <1>1. /\ note' = note /\ extended' = extended \ marked
        /\ row' = [t \in Threads |-> IF t \notin marked THEN row[t]
                                     ELSE IF Active(t) THEN Opened(row[t]) ELSE seenOf(t)]
    BY Zenon DEF OpenLibrary
  <1>2. ASSUME NEW t \in Threads, Exists(t)
        PROVE  Good(row'[t], Noted(t), t \in extended')
    <2>1. Good(row[t], Noted(t), t \in extended) /\ row[t] \in Rows
          /\ Noted(t) \in SUBSET Ids /\ (row[t].quarantined => row[t].closed)
      BY <1>2, AnExistingRow
    <2>2. CASE t \notin marked
      <3>1. row'[t] = row[t] /\ (t \in extended' <=> t \in extended)
        BY <1>1, <2>2
      <3>2. QED
        BY <2>1, <3>1 DEF Good
    <2>3. CASE t \in marked /\ Active(t)
      <3>1. row'[t] = Opened(row[t])
        BY <1>1, <2>3
      <3>2. QED
        BY <2>1, <3>1, OpenedIsGood
    <2>4. CASE t \in marked /\ ~Active(t)
      <3>1. row'[t] = seenOf(t)
        BY <1>1, <2>4
      <3>2. PICK s : s = row[t]
        OBVIOUS
      <3>3. s.seen <= s.latest /\ s.seen \in Int /\ s.latest \in Int /\ s \in Rows
        BY <2>1, <3>2, RowFields DEF Good
      <3>4. Larger(s.seen, s.latest) = s.latest
        BY <3>3 DEF Larger
      <3>5. row'[t] = [s EXCEPT !.seen = s.latest, !.unread = 0]
        BY <3>1, <3>2, <3>4, Zenon
      <3>6. row'[t] = [opened |-> s.opened, left |-> s.left, closed |-> s.closed,
                       quarantined |-> s.quarantined, unread |-> 0, latest |-> s.latest,
                       seen |-> s.latest, library |-> s.library]
        BY <3>3, <3>5 DEF Rows
      <3>7. PICK c : c = row'[t]
        OBVIOUS
      <3>8. c \in Rows /\ c.seen = s.latest /\ c.latest = s.latest /\ c.unread = 0
            /\ c.quarantined = s.quarantined /\ c.closed = s.closed
        BY <3>3, <3>6, <3>7, RowFields DEF Rows
      <3>9. QED
        BY <2>1, <3>2, <3>7, <3>8, AllSeen
    <2>5. QED
      BY <2>2, <2>3, <2>4
  <1>3. ASSUME NEW t \in Threads, ~Exists(t) PROVE row'[t] = NoRow
    BY <1>1, <1>3 DEF Exists
  <1>4. row' = [t \in Threads |-> row'[t]]
    BY <1>1
  <1>5. QED
    BY <1>1, <1>2, <1>3, <1>4, RowsKept

LEMMA ClosedIsGood ==
    ASSUME NEW r, NEW N, NEW x, Good(r, N, x)
    PROVE  /\ Good([r EXCEPT !.closed = TRUE], N, x)
           /\ Good([r EXCEPT !.quarantined = TRUE, !.closed = TRUE], N, x)
  <1>1. r \in Rows
    BY DEF Good
  <1>2. PICK c : c = [r EXCEPT !.closed = TRUE]
    OBVIOUS
  <1>3. /\ c \in Rows /\ c.seen = r.seen /\ c.latest = r.latest /\ c.unread = r.unread
        /\ c.opened = r.opened /\ c.closed = TRUE
    BY <1>1, <1>2 DEF Rows
  <1>4. PICK q : q = [r EXCEPT !.quarantined = TRUE, !.closed = TRUE]
    OBVIOUS
  <1>5. /\ q \in Rows /\ q.seen = r.seen /\ q.latest = r.latest /\ q.unread = r.unread
        /\ q.opened = r.opened /\ q.closed = TRUE
    BY <1>1, <1>4 DEF Rows
  <1>6. QED
    BY <1>2, <1>3, <1>4, <1>5, FlagsKeep

LEMMA CloseKeeps ==
    ASSUME TypeOK, RowsAreGood, NEW t \in Threads, Close(t)
    PROVE  RowsAreGood' /\ row' \in [Threads -> Rows \cup {NoRow}]
  <1>1. /\ note' = note /\ Exists(t) /\ extended' = extended
        /\ row' = [row EXCEPT ![t] = [row[t] EXCEPT !.closed = TRUE]]
    BY DEF Close, Active
  <1>2. Good([row[t] EXCEPT !.closed = TRUE], Noted(t), t \in extended')
    BY <1>1, AnExistingRow, ClosedIsGood
  <1>3. QED
    BY <1>1, <1>2, RowKept

LEMMA QuarantineKeeps ==
    ASSUME TypeOK, RowsAreGood, NEW t \in Threads, Quarantine(t), note' = note,
           extended' = extended
    PROVE  RowsAreGood' /\ row' \in [Threads -> Rows \cup {NoRow}]
  <1> DEFINE r == [row[t] EXCEPT !.quarantined = TRUE, !.closed = TRUE]
  <1>1. CASE Exists(t)
    <2>1. row' = [row EXCEPT ![t] = r]
      BY <1>1 DEF Quarantine
    <2>2. Good(r, Noted(t), t \in extended')
      BY <1>1, AnExistingRow, ClosedIsGood
    <2> HIDE DEF r
    <2>3. QED
      BY <2>1, <2>2, RowKept
  <1>2. CASE ~Exists(t)
    BY <1>2, RowsUntouched DEF Quarantine
  <1>3. QED
    BY <1>1, <1>2

\* The row that manual access shows: a new one begins at the newest message.
LEMMA FirstRowIsGood ==
    ASSUME NEW n \in 0..LastId, NEW x
    PROVE  Good([NewRow EXCEPT !.opened = TRUE, !.left = Lifetime,
                               !.latest = n, !.seen = n], {}, x)
  <1>1. PICK c : c = [NewRow EXCEPT !.opened = TRUE, !.left = Lifetime,
                                    !.latest = n, !.seen = n]
    OBVIOUS
  <1>2. c = [opened |-> TRUE, left |-> Lifetime, closed |-> FALSE, quarantined |-> FALSE,
             unread |-> 0, latest |-> n, seen |-> n, library |-> FALSE]
    BY <1>1 DEF NewRow
  <1>3. c \in Rows /\ c.seen = n /\ c.latest = n /\ c.unread = 0 /\ ~c.quarantined
    BY <1>2, ConstantsAssumption DEF Rows
  <1>4. {i \in {} : i > c.seen} = {} /\ n <= n
    BY ConstantsAssumption
  <1>5. Good(c, {}, x)
    BY <1>3, <1>4, FS_EmptySet DEF Good
  <1>6. QED
    BY <1>1, <1>5

LEMMA ShownIsGood ==
    ASSUME NEW r, NEW N \in SUBSET Ids, NEW x, NEW y, Good(r, N, x)
    PROVE  Good([r EXCEPT !.opened = TRUE, !.left = Lifetime, !.closed = FALSE,
                          !.quarantined = FALSE, !.seen = Larger(r.seen, r.latest),
                          !.unread = 0], N, y)
  <1>1. r \in Rows /\ r.seen <= r.latest /\ r.seen \in Int /\ r.latest \in Int
    BY RowFields DEF Good
  <1>2. Larger(r.seen, r.latest) = r.latest
    BY <1>1 DEF Larger
  <1>3. PICK c : c = [r EXCEPT !.opened = TRUE, !.left = Lifetime, !.closed = FALSE,
                               !.quarantined = FALSE, !.seen = Larger(r.seen, r.latest),
                               !.unread = 0]
    OBVIOUS
  <1>4. c = [r EXCEPT !.opened = TRUE, !.left = Lifetime, !.closed = FALSE,
                      !.quarantined = FALSE, !.seen = r.latest, !.unread = 0]
    BY <1>2, <1>3, Zenon
  <1>5. c = [opened |-> TRUE, left |-> Lifetime, closed |-> FALSE, quarantined |-> FALSE,
             unread |-> 0, latest |-> r.latest, seen |-> r.latest, library |-> r.library]
    BY <1>1, <1>4 DEF Rows
  <1>6. /\ c \in Rows /\ c.seen = r.latest /\ c.latest = r.latest /\ c.unread = 0
        /\ ~c.quarantined
    BY <1>1, <1>5, RowFields, ConstantsAssumption DEF Rows
  <1>7. Good(c, N, y)
    BY <1>6, AllSeen
  <1>8. QED
    BY <1>3, <1>7

LEMMA ManualOpenKeeps ==
    ASSUME TypeOK, RowsAreGood, NEW n \in 0..LastId, ManualOpen(n)
    PROVE  RowsAreGood' /\ row' \in [Threads -> Rows \cup {NoRow}]
  <1> DEFINE first == [NewRow EXCEPT !.opened = TRUE, !.left = Lifetime,
                                     !.latest = n, !.seen = n]
             shown == [row[0] EXCEPT !.opened = TRUE, !.left = Lifetime, !.closed = FALSE,
                                     !.quarantined = FALSE,
                                     !.seen = Larger(row[0].seen, row[0].latest),
                                     !.unread = 0]
  <1>1. note' = note /\ extended' = extended \ {0} /\ 0 \in Threads
        /\ row' = [row EXCEPT ![0] = IF row[0] = NoRow THEN first ELSE shown]
    <2>1. note' = note /\ extended' = extended \ {0}
      BY Zenon DEF ManualOpen
    <2>2. row' = [row EXCEPT ![0] = IF row[0] = NoRow THEN first ELSE shown]
      BY DEF ManualOpen
    <2>3. QED
      BY <2>1, <2>2, ConstantsAssumption
  <1>2. row[0] = NoRow => Good(first, Noted(0), 0 \in extended')
    <2>1. row[0] = NoRow => Noted(0) = {}
      BY <1>1 DEF RowsAreGood, Exists
    <2>2. QED
      BY <2>1, FirstRowIsGood
  <1>3. row[0] # NoRow => Good(shown, Noted(0), 0 \in extended')
    BY <1>1, AnExistingRow, ShownIsGood DEF Exists
  <1> HIDE DEF first, shown
  <1>4. QED
    BY <1>1, <1>2, <1>3, RowKept

LEMMA SendDoneKeeps ==
    ASSUME TypeOK, RowsAreGood, Apart, SendDone
    PROVE  RowsAreGood' /\ row' \in [Threads -> Rows \cup {NoRow}]
  <1> DEFINE t == sending
             r == row[t]
             open == Exists(t) /\ ~row[t].closed /\ ~row[t].quarantined
  <1>1. t \in Threads /\ note' = note
    BY DEF SendDone, TypeOK
  <1>2. CASE manual /\ open
    <2>1. t = 0 /\ extended' = extended
          /\ row' = [row EXCEPT ![t] = [r EXCEPT !.left = Lifetime]]
      BY <1>2 DEF SendDone, Apart
    <2>2. Good(r, Noted(t), t \in extended) /\ r \in Rows
      BY <1>1, <1>2, AnExistingRow
    <2>3. PICK c : c = [r EXCEPT !.left = Lifetime]
      OBVIOUS
    <2>4. Lifetime \in 0..Lifetime
      BY ConstantsAssumption
    <2> HIDE DEF r
    <2>5. /\ c \in Rows /\ c.seen = r.seen /\ c.latest = r.latest /\ c.unread = r.unread
          /\ c.opened = r.opened /\ c.closed = r.closed
          /\ c.quarantined = r.quarantined
      BY <2>2, <2>3, <2>4 DEF Rows
    <2>6. Good(c, Noted(t), t \in extended')
      <3>1. r.quarantined => r.closed
        BY <2>2 DEF Good
      <3>2. QED
        BY <2>1, <2>2, <2>5, <3>1, FlagsKeep
    <2>7. row' = [row EXCEPT ![t] = c]
      BY <2>1, <2>3
    <2>8. QED
      BY <1>1, <2>1, <2>6, <2>7, RowKept
  <1>3. CASE ~manual /\ open /\ ~ignored
    <2>1. /\ row' = [row EXCEPT ![t].opened = TRUE, ![t].left = Lifetime]
          /\ extended' = IF ~r.opened THEN extended \cup {t} ELSE extended
      BY <1>3, Zenon DEF SendDone
    <2>2. Good(r, Noted(t), t \in extended) /\ r \in Rows
      BY <1>1, <1>3, AnExistingRow
    <2>3. PICK c : c = [r EXCEPT !.opened = TRUE, !.left = Lifetime]
      OBVIOUS
    <2>4. row' = [row EXCEPT ![t] = c]
      BY <1>1, <2>1, <2>3 DEF TypeOK
    <2>5. Lifetime \in 0..Lifetime
      BY ConstantsAssumption
    <2> HIDE DEF r
    <2>6. /\ c \in Rows /\ c.seen = r.seen /\ c.latest = r.latest /\ c.unread = r.unread
          /\ c.opened = TRUE /\ c.closed = r.closed /\ c.quarantined = r.quarantined
      BY <2>2, <2>3, <2>5 DEF Rows
    <2>7. Good(c, Noted(t), t \in extended')
      <3>1. CASE r.opened
        <4>1. r.opened = TRUE
          BY <2>2, <3>1, RowFields
        <4>2. r.quarantined => r.closed
          BY <2>2 DEF Good
        <4>3. t \in extended' <=> t \in extended
          BY <2>1, <3>1
        <4>4. Good(c, Noted(t), t \in extended)
          BY <2>2, <2>6, <4>1, <4>2, FlagsKeep
        <4>5. QED
          BY <4>3, <4>4 DEF Good
      <3>2. CASE ~r.opened
        <4>1. t \in extended'
          BY <2>1, <3>2
        <4>2. QED
          BY <2>2, <2>6, <4>1 DEF Good
      <3>3. QED
        BY <3>1, <3>2
    <2>8. \A u \in Threads \ {t} : u \in extended' <=> u \in extended
      BY <2>1
    <2>9. QED
      BY <1>1, <2>4, <2>7, <2>8, RowKept
  <1>4. CASE ~(manual /\ open) /\ ~(~manual /\ open /\ ~ignored)
    <2>1. row' = row /\ extended' = extended
      BY <1>4, Zenon DEF SendDone
    <2>2. QED
      BY <1>1, <2>1, RowsUntouched
  <1>5. QED
    BY <1>2, <1>3, <1>4

LEMMA CloseLibraryRowsKeeps ==
    ASSUME TypeOK, RowsAreGood, CloseLibraryRows, note' = note, extended' = extended
    PROVE  RowsAreGood' /\ row' \in [Threads -> Rows \cup {NoRow}]
  <1>1. ASSUME NEW t \in Threads, Exists(t)
        PROVE  Good(row'[t], Noted(t), t \in extended')
    <2>1. row'[t] = row[t] \/ row'[t] = [row[t] EXCEPT !.closed = TRUE]
      BY DEF CloseLibraryRows
    <2>2. Good(row[t], Noted(t), t \in extended')
      BY <1>1, AnExistingRow
    <2>3. Good([row[t] EXCEPT !.closed = TRUE], Noted(t), t \in extended')
      BY <2>2, ClosedIsGood
    <2>4. QED
      BY <2>1, <2>2, <2>3
  <1>2. ASSUME NEW t \in Threads, ~Exists(t) PROVE row'[t] = NoRow
    BY <1>2 DEF CloseLibraryRows, Exists
  <1>3. row' = [t \in Threads |-> row'[t]]
    BY DEF CloseLibraryRows
  <1>4. QED
    BY <1>1, <1>2, <1>3, RowsKept

LEMMA AssociatedIsGood ==
    ASSUME NEW rows, NEW t \in Threads, NEW N, NEW x, Good(rows[t], N, x)
    PROVE  Good(Associated(rows)[t], N, x)
  <1>1. PICK r : r = rows[t]
    OBVIOUS
  <1>2. r \in Rows /\ (r.quarantined => r.closed) /\ Good(r, N, x)
    BY <1>1 DEF Good
  <1>3. PICK b \in BOOLEAN : b <=> (r.closed \/ t # 0)
    OBVIOUS
  <1>4. (r.closed \/ t # 0) = b
    BY <1>3
  <1>5. Associated(rows)[t] = [r EXCEPT !.library = TRUE, !.closed = @ \/ t # 0]
    BY <1>1, <1>2, NoRowAssumption DEF Associated
  <1>6. PICK c : c = Associated(rows)[t]
    OBVIOUS
  <1>7. c = [r EXCEPT !.library = TRUE, !.closed = b]
    BY <1>4, <1>5, <1>6
  <1>8. /\ c \in Rows /\ c.seen = r.seen /\ c.latest = r.latest /\ c.unread = r.unread
        /\ c.opened = r.opened /\ c.closed = b /\ c.quarantined = r.quarantined
    BY <1>2, <1>7 DEF Rows
  <1>9. Good(c, N, x)
    BY <1>2, <1>3, <1>8, FlagsKeep
  <1>10. QED
    BY <1>6, <1>9

LEMMA SelectKeeps ==
    ASSUME TypeOK, RowsAreGood, Select
    PROVE  RowsAreGood' /\ row' \in [Threads -> Rows \cup {NoRow}]
  <1>1. note' = note /\ extended' = extended /\ row' = Associated(row)
    BY DEF Select
  <1>2. ASSUME NEW t \in Threads, Exists(t)
        PROVE  Good(row'[t], Noted(t), t \in extended')
    <2>1. Good(row[t], Noted(t), t \in extended')
      BY <1>1, <1>2, AnExistingRow
    <2>2. QED
      BY <1>1, <2>1, AssociatedIsGood
  <1>3. ASSUME NEW t \in Threads, ~Exists(t) PROVE row'[t] = NoRow
    BY <1>1, <1>3 DEF Associated, Exists
  <1>4. row' = [t \in Threads |-> row'[t]]
    BY <1>1 DEF Associated
  <1>5. QED
    BY <1>1, <1>2, <1>3, <1>4, RowsKept

LEMMA TickKeeps ==
    ASSUME TypeOK, RowsAreGood, Tick
    PROVE  RowsAreGood' /\ row' \in [Threads -> Rows \cup {NoRow}]
  <1>1. /\ note' = note /\ extended' = extended
        /\ row' = [t \in Threads |->
                     IF Exists(t) THEN [row[t] EXCEPT !.left = Larger(@ - 1, 0)]
                     ELSE NoRow]
    BY DEF Tick
  <1>2. ASSUME NEW t \in Threads, Exists(t)
        PROVE  Good(row'[t], Noted(t), t \in extended')
    <2>1. row'[t] = [row[t] EXCEPT !.left = Larger(@ - 1, 0)]
      BY <1>1, <1>2
    <2>2. PICK r : r = row[t]
      OBVIOUS
    <2>3. r \in Rows /\ Good(r, Noted(t), t \in extended) /\ (r.quarantined => r.closed)
      BY <1>2, <2>2, AnExistingRow
    <2>4. PICK n \in 0..Lifetime : n = Larger(r.left - 1, 0)
      BY <2>3, RowFields, ConstantsAssumption DEF Larger
    <2>5. row'[t] = [r EXCEPT !.left = n]
      BY <2>1, <2>2, <2>4, Zenon
    <2>6. PICK c : c = row'[t]
      OBVIOUS
    <2>7. /\ c \in Rows /\ c.seen = r.seen /\ c.latest = r.latest /\ c.unread = r.unread
          /\ c.opened = r.opened /\ c.closed = r.closed /\ c.quarantined = r.quarantined
      BY <2>3, <2>5, <2>6 DEF Rows
    <2>8. Good(c, Noted(t), t \in extended)
      BY <2>3, <2>7, FlagsKeep
    <2>9. QED
      BY <1>1, <2>6, <2>8
  <1>3. ASSUME NEW t \in Threads, ~Exists(t) PROVE row'[t] = NoRow
    BY <1>1, <1>3
  <1>4. row' = [t \in Threads |-> row'[t]]
    BY <1>1
  <1>5. QED
    BY <1>1, <1>2, <1>3, <1>4, RowsKept

LEMMA CleanupKeeps ==
    ASSUME TypeOK, RowsAreGood, Cleanup
    PROVE  RowsAreGood' /\ row' \in [Threads -> Rows \cup {NoRow}]
  <1>1. /\ row' = [t \in Threads |-> NoRow]
        /\ note' = [i \in DOMAIN note |-> NoThread]
    BY DEF Cleanup
  <1>2. ASSUME NEW t \in Threads PROVE Noted(t)' = {}
    BY <1>1, ConstantsAssumption DEF Noted
  <1>3. RowsAreGood'
    BY <1>1, <1>2 DEF RowsAreGood, Exists
  <1>4. QED
    BY <1>1, <1>3

LEMMA ActivateKeeps ==
    ASSUME TypeOK, RowsAreGood, Apart, NEW o \in Observers, Activate(o)
    PROVE  RowsAreGood' /\ row' \in [Threads -> Rows \cup {NoRow}]
  <1>1. PICK i \in Ids, selected \in BOOLEAN :
          i = observed[o].id /\ selected = observed[o].selected
    BY DEF Activate, Apart, TypeOK
  <1>2. PICK t \in Threads : t = IF selected THEN 0 ELSE ThreadOf(i)
    BY ConstantsAssumption DEF ThreadOf
  <1>3. PICK old : old = IF Exists(t) THEN row[t] ELSE NewRow
    OBVIOUS
  <1>4. PICK foreground \in BOOLEAN : foreground <=> lease[t] > 0
    OBVIOUS
  <1>5. PICK next :
          next = IF i \notin DOMAIN note /\ i > old.seen
                   THEN Counted(Touched(old, i, selected), i, foreground)
                   ELSE Touched(old, i, selected)
    OBVIOUS
  <1>6. extended' = extended
    BY Zenon DEF Activate
  <1>7. CASE ignored \/ (~Exists(t) /\ i \in DOMAIN note)
    <2>1. row' = row /\ note' = note
      BY <1>1, <1>2, <1>7, Zenon DEF Activate
    <2>2. QED
      BY <1>6, <2>1, RowsUntouched
  <1>8. CASE ~(ignored \/ (~Exists(t) /\ i \in DOMAIN note))
    <2>1. note' = [j \in DOMAIN note \cup {i} |->
                     IF j = i /\ i \notin DOMAIN note THEN t ELSE note[j]]
      BY <1>1, <1>2, <1>8, Zenon DEF Activate
    <2>2. row' = [row EXCEPT ![t] = next]
      <3>1. (lease[t] > 0) = foreground
        BY <1>4
      <3>2. row' = [row EXCEPT ![t] =
                     IF i \notin DOMAIN note /\ i > old.seen
                       THEN Counted(Touched(old, i, selected), i, lease[t] > 0)
                       ELSE Touched(old, i, selected)]
        BY <1>1, <1>2, <1>3, <1>8, Zenon DEF Activate
      <3>3. QED
        BY <1>5, <3>1, <3>2, Zenon
    <2>3. IF i \notin DOMAIN note THEN Noted(t)' = Noted(t) \cup {i} /\ i \notin Noted(t)
                                 ELSE Noted(t)' = Noted(t)
      BY <2>1 DEF Noted
    <2>4. \A u \in Threads \ {t} : Noted(u)' = Noted(u)
      BY <2>1 DEF Noted
    <2>5. PICK N, M : N = Noted(t) /\ M = Noted(t)' /\ N \in SUBSET Ids
      BY NotedIds
    <2>6. Good(old, N, t \in extended)
      <3>1. CASE Exists(t)
        BY <1>3, <2>5, <3>1, AnExistingRow
      <3>2. CASE ~Exists(t)
        <4>1. N = {} /\ old = NewRow
          BY <1>3, <2>5, <3>2 DEF RowsAreGood
        <4>2. QED
          BY <4>1, NewRowIsGood
      <3>3. QED
        BY <3>1, <3>2
    <2>7. old.seen \in Int /\ i \in Int
      BY <2>6, RowFields, IdsAreInts DEF Good
    <2>8. Good(next, M, t \in extended)
      <3>1. CASE i \notin DOMAIN note /\ i > old.seen
        <4>1. i \notin N /\ M = N \cup {i}
          BY <2>3, <2>5, <3>1
        <4>2. Good(Counted(Touched(old, i, selected), i, foreground), N \cup {i},
                   t \in extended)
          BY <2>5, <2>6, <3>1, <4>1, CountedIsGood
        <4>3. QED
          BY <1>5, <3>1, <4>1, <4>2
      <3>2. CASE ~(i \notin DOMAIN note /\ i > old.seen)
        <4>1. M = N \/ (M = N \cup {i} /\ i <= old.seen)
          BY <2>3, <2>5, <2>7, <3>2
        <4>2. Good(Touched(old, i, selected), M, t \in extended)
          BY <2>5, <2>6, <4>1, TouchedIsGood
        <4>3. QED
          BY <1>5, <3>2, <4>2
      <3>3. QED
        BY <3>1, <3>2
    <2>9. next \in Rows
      BY <2>8 DEF Good
    <2>10. row'[t] = next /\ \A u \in Threads \ {t} : row'[u] = row[u]
      BY <2>2 DEF TypeOK
    <2>11. row' \in [Threads -> Rows \cup {NoRow}]
      BY <2>2, <2>9 DEF TypeOK
    <2>12. ASSUME NEW u \in Threads
           PROVE  IF row'[u] # NoRow THEN Good(row'[u], Noted(u)', u \in extended)
                                     ELSE Noted(u)' = {}
      <3>1. CASE u = t
        <4>1. row'[u] = next /\ Noted(u)' = M
          BY <2>5, <2>10, <3>1 DEF Noted
        <4>2. Good(next, M, u \in extended) /\ next # NoRow
          BY <2>8, <2>9, <3>1, NoRowAssumption
        <4>3. QED
          BY <4>1, <4>2
      <3>2. CASE u # t
        <4>1. row'[u] = row[u] /\ Noted(u)' = Noted(u)
          BY <2>4, <2>10, <3>2
        <4>2. QED
          BY <4>1 DEF RowsAreGood, Exists
      <3>3. QED
        BY <3>1, <3>2
    <2>13. RowsAreGood'
      BY <1>6, <2>12 DEF RowsAreGood, Exists
    <2>14. QED
      BY <2>11, <2>13
  <1>9. QED
    BY <1>7, <1>8

------------------------------------------------------------------------------
\* A start.

\* The messages of the threads whose rows become the row of t.
Of(t) == {i \in DOMAIN note : note[i] \in Group(t)}
RowsOf(t) == {row[m] : m \in Group(t)} \ {NoRow}

LEMMA GroupFacts ==
    ASSUME TypeOK, RowsAreGood, NEW t \in Threads
    PROVE  /\ RowsOf(t) \in SUBSET Rows /\ IsFiniteSet(RowsOf(t)) /\ Of(t) \in SUBSET Ids
           /\ \A r \in RowsOf(t) : r.quarantined => r.closed
           /\ \A i \in Of(t) : \E r \in RowsOf(t) : i <= r.latest
           /\ \A m \in Group(t) : m \in Threads
  <1>1. \A m \in Group(t) : m \in Threads
    BY DEF Group
  <1>2. RowsOf(t) \in SUBSET Rows
    BY <1>1 DEF RowsOf, TypeOK
  <1>3. IsFiniteSet(RowsOf(t))
    <2> DEFINE f == [m \in Group(t) |-> row[m]]
    <2>1. IsFiniteSet(Group(t))
      BY <1>1, ConstantsAssumption, FS_EmptySet, FS_Singleton DEF Group
    <2>2. IsFiniteSet({f[m] : m \in DOMAIN f})
      <3>1. DOMAIN f = Group(t)
        OBVIOUS
      <3> HIDE DEF f
      <3>2. QED
        BY <2>1, <3>1, ImageIsFinite
    <2>3. {f[m] : m \in DOMAIN f} = {row[m] : m \in Group(t)}
      OBVIOUS
    <2>4. RowsOf(t) \subseteq {row[m] : m \in Group(t)}
      BY DEF RowsOf
    <2>5. QED
      BY <2>2, <2>3, <2>4, FS_Subset
  <1>4. Of(t) \in SUBSET Ids
    BY DEF Of, TypeOK
  <1>5. ASSUME NEW m \in Group(t), row[m] # NoRow
        PROVE  /\ row[m] \in RowsOf(t) /\ (row[m].quarantined => row[m].closed)
               /\ \A i \in Noted(m) : i <= row[m].latest
    <2>1. Good(row[m], Noted(m), m \in extended)
      BY <1>1, <1>5 DEF RowsAreGood, Exists
    <2>2. row[m] \in RowsOf(t)
      BY <1>5 DEF RowsOf
    <2>3. QED
      BY <2>1, <2>2 DEF Good
  <1>6. \A r \in RowsOf(t) : r.quarantined => r.closed
    BY <1>5 DEF RowsOf
  <1>7. ASSUME NEW i \in Of(t) PROVE \E r \in RowsOf(t) : i <= r.latest
    <2>1. PICK m \in Group(t) : i \in Noted(m)
      BY DEF Of, Noted
    <2>2. row[m] # NoRow
      BY <1>1, <2>1 DEF RowsAreGood, Exists
    <2>3. QED
      BY <1>5, <2>1, <2>2
  <1>8. QED
    BY <1>1, <1>2, <1>3, <1>4, <1>6, <1>7

LEMMA RebasedIsGood ==
    ASSUME TypeOK, RowsAreGood, NEW t \in Threads
    PROVE  /\ RowsOf(t) = {} => Rebased(t) = NoRow /\ Of(t) = {}
           /\ RowsOf(t) # {} => /\ Rebased(t) = Merged(RowsOf(t), Of(t))
                               /\ Rebased(t) # NoRow
                               /\ Good(Rebased(t), Of(t), Excepted(Rebased(t), Of(t)))
  <1>1. CASE RowsOf(t) = {}
    BY <1>1, GroupFacts DEF Rebased, RowsOf
  <1>2. CASE RowsOf(t) # {}
    <2>1. Rebased(t) = Merged(RowsOf(t), Of(t))
      BY <1>2 DEF Rebased, RowsOf, Of
    <2>2. PICK m : m = Rebased(t)
      OBVIOUS
    <2>3. PICK rows, ids : rows = RowsOf(t) /\ ids = Of(t)
      OBVIOUS
    <2>4. m = Merged(rows, ids)
      BY <2>1, <2>2, <2>3
    <2>5. Good(m, ids, Excepted(m, ids))
      BY <1>2, <2>3, <2>4, GroupFacts, MergedIsGood
    <2>6. m # NoRow
      BY <2>5, NoRowAssumption DEF Good
    <2>7. QED
      BY <1>2, <2>1, <2>2, <2>3, <2>5, <2>6
  <1>3. QED
    BY <1>1, <1>2

\* Whatever a start leaves, associated or not, goes with its notes.
LEMMA RebaseKeeps ==
    ASSUME TypeOK, RowsAreGood, Apart, NEW rows, rows = [t \in Threads |-> Rebased(t)],
           Rebase(rows), row' = rows \/ row' = Associated(rows)
    PROVE  RowsAreGood' /\ row' \in [Threads -> Rows \cup {NoRow}]
  <1>1. /\ note' = [i \in DOMAIN note |-> IF peer = "legacy" THEN 0 ELSE note[i]]
        /\ extended' = {t \in Threads : rows[t] # NoRow /\ rows[t].unread > 0
                        /\ \/ rows[t].opened
                           \/ \A i \in DOMAIN note :
                                note[i] \in Group(t) => i <= rows[t].seen}
    BY DEF Rebase
  <1>2. ASSUME NEW t \in Threads PROVE Noted(t)' = Of(t)
    <2>1. CASE peer = "legacy"
      <3>1. \A i \in DOMAIN note : note'[i] = 0 /\ note[i] \in Threads
        BY <1>1, <2>1 DEF Apart
      <3>2. QED
        BY <1>1, <2>1, <3>1 DEF Noted, Of, Group
    <2>2. CASE peer # "legacy"
      <3>1. \A i \in DOMAIN note : note'[i] = note[i]
        BY <1>1, <2>2
      <3>2. QED
        BY <1>1, <2>2, <3>1 DEF Noted, Of, Group
    <2>3. QED
      BY <2>1, <2>2
  <1>3. ASSUME NEW t \in Threads, rows[t] # NoRow
        PROVE  t \in extended' <=> Excepted(rows[t], Of(t))
    <2>1. (\A i \in DOMAIN note : note[i] \in Group(t) => i <= rows[t].seen)
            <=> \A i \in Of(t) : i <= rows[t].seen
      BY DEF Of
    <2>2. QED
      BY <1>1, <1>3, <2>1 DEF Excepted
  <1>4. ASSUME NEW t \in Threads
        PROVE  IF row'[t] # NoRow THEN Good(row'[t], Noted(t)', t \in extended')
                                 ELSE Noted(t)' = {}
    <2>1. rows[t] = Rebased(t)
      OBVIOUS
    <2>2. CASE rows[t] = NoRow
      <3>1. Of(t) = {}
        BY <2>1, <2>2, RebasedIsGood
      <3>2. row'[t] = NoRow
        BY <2>2 DEF Associated
      <3>3. QED
        BY <1>2, <3>1, <3>2
    <2>3. CASE rows[t] # NoRow
      <3>1. Good(rows[t], Of(t), Excepted(rows[t], Of(t)))
        BY <2>1, <2>3, RebasedIsGood
      <3>2. Good(rows[t], Of(t), t \in extended')
        BY <1>3, <2>3, <3>1 DEF Good
      <3>3. Good(row'[t], Of(t), t \in extended')
        BY <3>2, AssociatedIsGood
      <3>4. row'[t] # NoRow
        BY <3>3, NoRowAssumption DEF Good
      <3>5. QED
        BY <1>2, <3>3, <3>4
    <2>4. QED
      BY <2>2, <2>3
  <1>5. row' = [t \in Threads |-> row'[t]]
    BY DEF Associated
  <1>6. row' \in [Threads -> Rows \cup {NoRow}]
    <2>1. ASSUME NEW t \in Threads PROVE row'[t] \in Rows \cup {NoRow}
      BY <1>4 DEF Good
    <2>2. QED
      BY <1>5, <2>1
  <1>7. RowsAreGood'
    BY <1>4 DEF RowsAreGood, Exists
  <1>8. QED
    BY <1>6, <1>7

------------------------------------------------------------------------------
\* The invariant.

LEMMA LegacyRowIsGood ==
    ASSUME NEW N \in SUBSET Ids, NEW r \in LegacyRows(N)
    PROVE  IF N = {} THEN r = NoRow ELSE Good(r, N, FALSE)
  <1>1. CASE N = {}
    BY <1>1 DEF LegacyRows
  <1>2. CASE N # {}
    <2>1. PICK max \in N : max = Max(N) /\ \A i \in N : i <= max
      BY <1>2, FiniteMax, IdsAreFinite, IdsAreInts
    <2>2. max \in 0..LastId
      BY <2>1, IdsAreInts
    <2>3. r \in {q \in [opened : BOOLEAN, left : 0..Lifetime, closed : BOOLEAN,
                       quarantined : BOOLEAN, unread : 0..LastId, latest : {max},
                       seen : 0..max, library : {FALSE}] :
                  /\ q.unread = Cardinality({i \in N : i > q.seen})
                  /\ IF q.opened THEN q.unread = 0 ELSE q.left = 0
                  /\ q.quarantined => q.closed}
      BY <1>2, <2>1 DEF LegacyRows
    <2>4. r = [opened |-> r.opened, left |-> r.left, closed |-> r.closed,
               quarantined |-> r.quarantined, unread |-> r.unread, latest |-> r.latest,
               seen |-> r.seen, library |-> r.library]
          /\ r.opened \in BOOLEAN /\ r.closed \in BOOLEAN /\ r.quarantined \in BOOLEAN
          /\ r.left \in 0..Lifetime /\ r.unread \in 0..LastId /\ r.latest = max
          /\ r.seen \in 0..max /\ r.library \in BOOLEAN
      BY <2>3
    <2>5. r.seen \in 0..LastId /\ r.seen <= r.latest /\ r.unread \in Nat
      BY <2>2, <2>4, ConstantsAssumption
    <2>6. r \in Rows
      BY <2>2, <2>4, <2>5 DEF Rows
    <2>7. /\ r.unread = Cardinality({i \in N : i > r.seen})
          /\ r.unread > 0 => ~r.opened
          /\ r.quarantined => r.closed
      BY <2>3, <2>5
    <2>8. QED
      BY <1>2, <2>1, <2>4, <2>5, <2>6, <2>7 DEF Good
  <1>3. QED
    BY <1>1, <1>2

\* What the rows do not decide.
Rest ==
    /\ peer \in {"forum", "private", "legacy"}
    /\ DOMAIN note \subseteq Ids
    /\ \A i \in DOMAIN note : note[i] \in Threads \cup {NoThread}
    /\ enabled \in BOOLEAN /\ ignored \in BOOLEAN /\ manual \in BOOLEAN
    /\ access \in 0..Lifetime
    /\ lease \in [Threads -> 0..ViewLease]
    /\ observed \in [Observers -> [id : 0..LastId, selected : BOOLEAN]]
    /\ sending \in Threads \cup {NoThread}
    /\ extended \subseteq Threads
    /\ Apart

LEMMA RestIsEnough ==
    ASSUME Rest, RowsAreGood, row \in [Threads -> Rows \cup {NoRow}]
    PROVE  AttentionInv
  BY DEF Rest, AttentionInv, TypeOK

LEMMA InitAttention ==
    Init => AttentionInv
  <1> SUFFICES ASSUME Init PROVE AttentionInv
    OBVIOUS
  <1>1. /\ enabled = FALSE /\ access = 0 /\ ignored = FALSE /\ manual = FALSE
        /\ lease = [t \in Threads |-> 0] /\ observed = [o \in Observers |-> Idle]
        /\ sending = NoThread /\ extended = {}
    BY DEF Init
  <1>2. /\ access \in 0..Lifetime /\ lease \in [Threads -> 0..ViewLease]
        /\ observed \in [Observers -> [id : 0..LastId, selected : BOOLEAN]]
        /\ \A o \in Observers : observed[o] = Idle
        /\ extended \subseteq Threads /\ sending \in Threads \cup {NoThread}
    BY <1>1, ConstantsAssumption DEF Idle
  <1>3. CASE Nothing
    <2>1. /\ peer = "forum" /\ row = [t \in Threads |-> NoRow]
          /\ note = [i \in {} |-> NoThread]
      BY <1>3 DEF Nothing
    <2>2. DOMAIN note = {} /\ row \in [Threads -> Rows \cup {NoRow}]
      BY <2>1
    <2>3. Rest
      BY <1>1, <1>2, <2>1, <2>2 DEF Rest, Apart
    <2>4. RowsAreGood
      BY <2>1 DEF RowsAreGood, Exists, Noted
    <2>5. QED
      BY <2>2, <2>3, <2>4, RestIsEnough
  <1>4. CASE Legacy
    <2>1. PICK ids \in SUBSET Ids : note \in [ids -> Threads]
      BY <1>4 DEF Legacy
    <2>2. /\ peer = "legacy" /\ DOMAIN row = Threads /\ row = [t \in Threads |-> row[t]]
          /\ \A t \in Threads : row[t] \in LegacyRows(Noted(t))
      BY <1>4 DEF Legacy, Noted
    <2>3. DOMAIN note \in SUBSET Ids /\ \A i \in DOMAIN note : note[i] \in Threads
      BY <2>1
    <2>4. ASSUME NEW t \in Threads
          PROVE  /\ row[t] \in Rows \cup {NoRow}
                 /\ IF Exists(t) THEN Good(row[t], Noted(t), t \in extended)
                                 ELSE Noted(t) = {}
      <3>1. PICK N, r : /\ N = Noted(t) /\ N \in SUBSET Ids
                         /\ r = row[t] /\ r \in LegacyRows(N)
        BY <2>2, <2>3 DEF Noted
      <3>2. IF N = {} THEN r = NoRow ELSE Good(r, N, FALSE)
        BY <3>1, LegacyRowIsGood
      <3>3. Good(r, N, FALSE) => r \in Rows /\ r # NoRow
        BY NoRowAssumption DEF Good
      <3>4. Good(r, N, FALSE) => Good(r, N, t \in extended)
        BY DEF Good
      <3>5. QED
        BY <3>1, <3>2, <3>3, <3>4 DEF Exists
    <2>5. row \in [Threads -> Rows \cup {NoRow}]
      BY <2>2, <2>4
    <2>6. RowsAreGood
      BY <2>4 DEF RowsAreGood
    <2>7. Rest
      BY <1>1, <1>2, <2>2, <2>3 DEF Rest, Apart
    <2>8. QED
      BY <2>5, <2>6, <2>7, RestIsEnough
  <1>5. QED
    BY <1>3, <1>4 DEF Init

LEMMA ServeKeepsRest ==
    ASSUME AttentionInv, peer # "legacy", Serve \/ EditIgnored \/ Tick
    PROVE  Rest'
  <1> USE DEF AttentionInv, TypeOK, Rest, Apart
  <1>1. ASSUME NEW o \in Observers, NEW i \in Ids, Observe(o, i) PROVE Rest'
    BY <1>1, IdsAreInts DEF Observe, Idle, durable
  <1>2. ASSUME NEW o \in Observers, Activate(o) PROVE Rest'
    <2>1. /\ observed' = [observed EXCEPT ![o] = Idle]
          /\ UNCHANGED <<peer, enabled, access, ignored, lease, sending, manual, extended>>
      BY <1>2, Zenon DEF Activate
    <2>2. PICK i \in Ids, t \in Threads :
            \/ note' = note
            \/ note' = [j \in DOMAIN note \cup {i} |->
                         IF j = i /\ i \notin DOMAIN note THEN t ELSE note[j]]
      <3>1. PICK i \in Ids, selected \in BOOLEAN :
              i = observed[o].id /\ selected = observed[o].selected
        BY <1>2 DEF Activate
      <3>2. PICK t \in Threads : t = IF selected THEN 0 ELSE ThreadOf(i)
        BY ConstantsAssumption DEF ThreadOf
      <3>3. \/ note' = note
            \/ note' = [j \in DOMAIN note \cup {i} |->
                         IF j = i /\ i \notin DOMAIN note THEN t ELSE note[j]]
        BY <1>2, <3>1, <3>2, Zenon DEF Activate
      <3>4. QED
        BY <3>3
    <2>3. /\ DOMAIN note' \subseteq Ids
          /\ \A j \in DOMAIN note' : note'[j] \in Threads \cup {NoThread}
      BY <2>2
    <2>4. observed' \in [Observers -> [id : 0..LastId, selected : BOOLEAN]]
      BY <2>1, ConstantsAssumption DEF Idle
    <2>5. \A u \in Observers : observed'[u] # Idle => observed'[u].id \in Ids
      BY <2>1
    <2>6. QED
      BY <2>1, <2>3, <2>4, <2>5
  <1>3. ASSUME NEW t \in Threads, Open(t) PROVE Rest'
    BY <1>3 DEF Open, memory
  <1>4. ASSUME NEW t \in Threads, Close(t) PROVE Rest'
    BY <1>4, ConstantsAssumption DEF Close
  <1>5. ASSUME NEW t \in Threads, RefreshLease(t) PROVE Rest'
    BY <1>5, ConstantsAssumption DEF RefreshLease, durable
  <1>6. ASSUME NEW t \in Threads, ReleaseLease(t) PROVE Rest'
    BY <1>6, ConstantsAssumption DEF ReleaseLease, durable
  <1>7. ASSUME NEW t \in Threads, SendStart(t) PROVE Rest'
    BY <1>7 DEF SendStart, durable
  <1>8. ASSUME NEW t \in Threads, ReadFails(t) PROVE Rest'
    BY <1>8 DEF ReadFails, memory
  <1>9. CASE OpenLibrary
    BY <1>9 DEF OpenLibrary, memory
  <1>10. ASSUME NEW n \in 0..LastId, ManualOpen(n) PROVE Rest'
    BY <1>10, ConstantsAssumption DEF ManualOpen, memory
  <1>11. CASE SendDone
    <2>1. UNCHANGED <<peer, note, enabled, ignored, lease, observed>>
      BY <1>11, Zenon DEF SendDone
    <2>2. /\ sending' = NoThread /\ manual' = FALSE /\ sending \in Threads
          /\ access' = Lifetime \/ access' = access
          /\ extended' = extended \cup {sending} \/ extended' = extended
      BY <1>11 DEF SendDone
    <2>3. access' \in 0..Lifetime
      BY <2>2, ConstantsAssumption
    <2>4. extended' \subseteq Threads
      BY <2>2
    <2>5. QED
      BY <2>1, <2>2, <2>3, <2>4
  <1>12. CASE SendFails
    BY <1>12 DEF SendFails
  <1>13. CASE Select
    BY <1>13 DEF Select, memory
  <1>14. CASE Deselect
    BY <1>14 DEF Deselect, memory
  <1>15. CASE DropDeadSource
    BY <1>15 DEF DropDeadSource, memory
  <1>16. CASE Cleanup
    BY <1>16 DEF Cleanup, memory
  <1>17. CASE EditIgnored
    BY <1>17 DEF EditIgnored, durable, memory
  <1>18. CASE Tick
    BY <1>18, ConstantsAssumption DEF Tick, Larger
  <1>19. QED
    BY <1>1, <1>2, <1>3, <1>4, <1>5, <1>6, <1>7, <1>8, <1>9, <1>10, <1>11, <1>12,
       <1>13, <1>14, <1>15, <1>16, <1>17, <1>18 DEF Serve

LEMMA StartKeepsRest ==
    ASSUME AttentionInv, Command \/ \E listed \in BOOLEAN : Restart(listed)
    PROVE  Rest'
  <1>1. PICK rows : /\ rows = [t \in Threads |-> Rebased(t)] /\ Rebase(rows)
                    /\ row' = rows \/ row' = Associated(rows)
    BY DEF Command, Restart
  <1>2. /\ UNCHANGED <<enabled, access, ignored>>
        /\ peer' = IF peer = "legacy" THEN "private" ELSE peer
        /\ note' = [i \in DOMAIN note |-> IF peer = "legacy" THEN 0 ELSE note[i]]
        /\ extended' \subseteq Threads
    BY <1>1 DEF Rebase
  <1>3. /\ lease' \in [Threads -> 0..ViewLease]
        /\ observed' \in [Observers -> [id : 0..LastId, selected : BOOLEAN]]
        /\ sending' \in Threads \cup {NoThread} /\ manual' \in BOOLEAN
        /\ manual' => sending' = 0
        /\ \A o \in Observers : observed'[o] # Idle => observed'[o].id \in Ids
    <2>1. CASE Command
      BY <2>1 DEF Command, memory, AttentionInv, TypeOK, Apart
    <2>2. CASE \E listed \in BOOLEAN : Restart(listed)
      <3>1. /\ lease' = [t \in Threads |-> 0]
            /\ observed' = [o \in Observers |-> Idle]
            /\ sending' = NoThread /\ manual' = FALSE
        BY <2>2 DEF Restart
      <3>2. lease' \in [Threads -> 0..ViewLease]
        BY <3>1, ConstantsAssumption
      <3>3. observed' \in [Observers -> [id : 0..LastId, selected : BOOLEAN]]
        BY <3>1, ConstantsAssumption DEF Idle
      <3>4. \A o \in Observers : observed'[o] = Idle
        BY <3>1
      <3>5. QED
        BY <3>1, <3>2, <3>3, <3>4
    <2>3. QED
      BY <2>1, <2>2
  <1>4. peer' \in {"forum", "private"} /\ peer' # "legacy"
    BY <1>2 DEF AttentionInv, TypeOK
  <1>5. /\ DOMAIN note' \subseteq Ids
        /\ \A i \in DOMAIN note' : note'[i] \in Threads \cup {NoThread}
    BY <1>2, ConstantsAssumption DEF AttentionInv, TypeOK
  <1>6. QED
    BY <1>2, <1>3, <1>4, <1>5 DEF Rest, Apart, AttentionInv, TypeOK

LEMMA NextKeepsAttention ==
    AttentionInv /\ [Next]_vars => AttentionInv'
  <1> SUFFICES ASSUME AttentionInv, [Next]_vars
               PROVE  AttentionInv'
    OBVIOUS
  <1> DEFINE Kept == RowsAreGood' /\ row' \in [Threads -> Rows \cup {NoRow}]
  <1>1. TypeOK /\ RowsAreGood /\ Apart
    BY DEF AttentionInv
  <1>2. CASE peer # "legacy" /\ (Serve \/ EditIgnored \/ Tick)
    <2>1. ASSUME NEW o \in Observers, NEW i \in Ids, Observe(o, i) PROVE Kept
      BY <1>1, <2>1, RowsUntouched DEF Observe, durable
    <2>2. ASSUME NEW o \in Observers, Activate(o) PROVE Kept
      BY <1>1, <2>2, ActivateKeeps
    <2>3. ASSUME NEW t \in Threads,
                 Open(t) \/ Close(t) \/ RefreshLease(t) \/ ReleaseLease(t)
                   \/ SendStart(t) \/ ReadFails(t)
          PROVE  Kept
      <3>1. CASE Open(t)
        BY <1>1, <3>1, OpenKeeps
      <3>2. CASE Close(t)
        BY <1>1, <3>2, CloseKeeps
      <3>3. CASE RefreshLease(t) \/ ReleaseLease(t) \/ SendStart(t)
        BY <1>1, <3>3, RowsUntouched DEF RefreshLease, ReleaseLease, SendStart, durable
      <3>4. CASE ReadFails(t)
        BY <1>1, <3>4, QuarantineKeeps DEF ReadFails
      <3>5. QED
        BY <2>3, <3>1, <3>2, <3>3, <3>4
    <2>4. ASSUME OpenLibrary PROVE Kept
      BY <1>1, <2>4, OpenLibraryKeeps
    <2>5. ASSUME NEW n \in 0..LastId, ManualOpen(n) PROVE Kept
      BY <1>1, <2>5, ManualOpenKeeps
    <2>6. ASSUME SendDone PROVE Kept
      BY <1>1, <2>6, SendDoneKeeps
    <2>7. ASSUME SendFails PROVE Kept
      <3>1. sending \in Threads /\ note' = note /\ extended' = extended
            /\ (Quarantine(sending) \/ row' = row)
        BY <1>1, <2>7 DEF SendFails, TypeOK
      <3>2. PICK t \in Threads : t = sending
        BY <3>1
      <3>3. Quarantine(t) \/ row' = row
        BY <3>1, <3>2
      <3>4. QED
        BY <1>1, <3>1, <3>3, QuarantineKeeps, RowsUntouched
    <2>8. ASSUME Select PROVE Kept
      BY <1>1, <2>8, SelectKeeps
    <2>9. ASSUME Deselect \/ DropDeadSource PROVE Kept
      BY <1>1, <2>9, CloseLibraryRowsKeeps DEF Deselect, DropDeadSource
    <2>10. ASSUME Cleanup PROVE Kept
      BY <1>1, <2>10, CleanupKeeps
    <2>11. ASSUME EditIgnored PROVE Kept
      BY <1>1, <2>11, RowsUntouched DEF EditIgnored, durable
    <2>12. ASSUME Tick PROVE Kept
      BY <1>1, <2>12, TickKeeps
    <2>13. Kept
      <3> HIDE DEF Kept
      <3>1. QED
        BY <1>2, <2>1, <2>2, <2>3, <2>4, <2>5, <2>6, <2>7, <2>8, <2>9, <2>10, <2>11,
           <2>12 DEF Serve
    <2>14. Rest'
      BY <1>2, ServeKeepsRest
    <2>15. QED
      BY <2>13, <2>14 DEF Rest, AttentionInv, TypeOK
  <1>3. CASE Command \/ \E listed \in BOOLEAN : Restart(listed)
    <2>1. PICK rows : /\ rows = [t \in Threads |-> Rebased(t)] /\ Rebase(rows)
                      /\ row' = rows \/ row' = Associated(rows)
      BY <1>3 DEF Command, Restart
    <2>2. Kept
      BY <1>1, <2>1, RebaseKeeps
    <2>3. Rest'
      BY <1>3, StartKeepsRest
    <2>4. QED
      BY <2>2, <2>3 DEF Rest, AttentionInv, TypeOK
  <1>4. CASE UNCHANGED vars
    <2>1. RowsAreGood'
      BY <1>1, <1>4, RowsUntouched DEF vars, durable
    <2>2. QED
      BY <1>1, <1>4, <2>1 DEF vars, durable, memory, AttentionInv, TypeOK, Apart
  <1>5. QED
    BY <1>2, <1>3, <1>4 DEF Next

\* The rows and their notes stay in step, whatever is interleaved and whenever the
\* service starts.
THEOREM Attention == Spec => []AttentionInv
  BY InitAttention, NextKeepsAttention, PTL DEF Spec

\* The rows, notes, leases and events in flight keep their types: no step writes a
\* counter, an instant or a message id out of its range (inbox/store.py).
THEOREM TypeCorrect == Spec => []TypeOK
  <1>1. AttentionInv => TypeOK
    BY DEF AttentionInv
  <1>2. QED
    BY <1>1, Attention, PTL

\* The badge and the sidebar tell the truth: activate, open, the library and the
\* merge of a start keep the unread counter of a row equal to the number of its noted
\* messages after the last one seen, in every order.
THEOREM CounterIsExact == Spec => []UnreadIsExact
  <1>1. AttentionInv => UnreadIsExact
    BY DEF AttentionInv, RowsAreGood, Good, UnreadIsExact, Exists, Noted
  <1>2. QED
    BY <1>1, Attention, PTL

\* No countdown runs over messages the owner did not open, so that cleanup's and
\* active's comparison with expires_at cannot hide them.
THEOREM NoCountdownOverUnread == Spec => []UnreadDoesNotExpire
  <1>1. AttentionInv => UnreadDoesNotExpire
    BY DEF AttentionInv, RowsAreGood, Good, UnreadDoesNotExpire, Exists
  <1>2. QED
    BY <1>1, Attention, PTL

LEMMA StartKeepsAttentionNow ==
    ASSUME AttentionInv
    PROVE  StartKeepsAttention
  <1> USE DEF AttentionInv
  <1> SUFFICES ASSUME NEW t \in Threads, RowsOf(t) # {}
               PROVE  LET visible == {r \in RowsOf(t) : Visible(r)}
                          left == Rebased(t) IN
                      /\ Visible(left) <=> visible # {}
                      /\ visible # {} => (left.opened <=> \A r \in visible : r.opened)
                      /\ RowsOf(t) = visible /\ Cardinality(RowsOf(t)) = 1
                           /\ t \notin extended
                           => \A r \in RowsOf(t) : left.unread >= r.unread
    BY DEF StartKeepsAttention, RowsOf
  <1>1. PICK rows, ids : rows = RowsOf(t) /\ ids = Of(t)
    OBVIOUS
  <1>2. /\ rows \in SUBSET Rows /\ IsFiniteSet(rows) /\ rows # {} /\ ids \in SUBSET Ids
        /\ \A r \in rows : r.quarantined => r.closed
    BY <1>1, GroupFacts
  <1>3. PICK m : m = Merged(rows, ids) /\ m = Rebased(t)
    BY <1>1, RebasedIsGood
  <1>4. /\ Visible(m) <=> {r \in rows : Visible(r)} # {}
        /\ {r \in rows : Visible(r)} # {}
             => (m.opened <=> \A r \in {q \in rows : Visible(q)} : r.opened)
    BY <1>2, <1>3, MergedShows
  <1>5. ASSUME rows = {r \in rows : Visible(r)}, Cardinality(rows) = 1, t \notin extended,
               NEW r \in rows
        PROVE  m.unread >= r.unread
    <2>1. rows = {r}
      <3>1. PICK q : rows = {q}
        BY <1>2, <1>5, FS_Singleton
      <3>2. QED
        BY <1>5, <3>1
    <2>2. PICK th \in Group(t) : row[th] = r
      BY <1>1 DEF RowsOf
    <2>3. th \in Threads /\ Exists(th)
      BY <1>1, <1>2, <2>2, GroupFacts, NoRowAssumption DEF Exists
    <2>4. th \notin extended
      BY <1>5, <2>2 DEF Group, Apart
    <2>5. Good(r, Noted(th), FALSE) /\ Noted(th) \in SUBSET Ids
      BY <2>2, <2>3, <2>4, AnExistingRow DEF Good
    <2>6. Noted(th) \subseteq ids
      BY <1>1, <2>2 DEF Noted, Of
    <2>7. QED
      BY <1>2, <1>3, <1>5, <2>1, <2>5, <2>6, MergedAlone
  <1>6. QED
    BY <1>1, <1>3, <1>4, <1>5

\* In every state in which the service may start or a command may open the database,
\* init_db's merge shows what was visible and nothing else (_merge_inbox_duplicates).
THEOREM MergeKeepsAttention == Spec => []StartKeepsAttention
  <1>1. AttentionInv => StartKeepsAttention
    BY StartKeepsAttentionNow
  <1>2. QED
    BY <1>1, Attention, PTL

\* activate finds the tombstone of an update that Telegram delivers again: no row
\* appears or disappears, and none counts, moves its cursor, opens, restarts its
\* countdown or closes.
THEOREM ReplayIsHarmless == Spec => ReplayChangesNothing
  <1>1. ASSUME AttentionInv, NEW o \in Observers, Activate(o),
               observed[o].id \in DOMAIN note, NEW t \in Threads
        PROVE  /\ Exists(t) <=> Exists(t)'
               /\ Exists(t) =>
                    /\ row'[t].unread = row[t].unread
                    /\ row'[t].seen = row[t].seen
                    /\ row'[t].opened = row[t].opened
                    /\ row'[t].left = row[t].left
                    /\ row'[t].closed = row[t].closed
    <2> USE <1>1 DEF AttentionInv
    <2>1. PICK i \in Ids, selected \in BOOLEAN :
            i = observed[o].id /\ selected = observed[o].selected
      BY DEF Activate, Apart, TypeOK
    <2>2. PICK u \in Threads : u = IF selected THEN 0 ELSE ThreadOf(i)
      BY ConstantsAssumption DEF ThreadOf
    <2>3. CASE ~Exists(u) \/ ignored
      <3>1. row' = row
        BY <2>1, <2>2, <2>3, Zenon DEF Activate
      <3>2. QED
        BY <3>1 DEF Exists
    <2>4. CASE Exists(u) /\ ~ignored
      <3>1. PICK r \in Rows : r = row[u]
        BY <2>4, AnExistingRow
      <3>2. row' = [row EXCEPT ![u] = Touched(row[u], i, selected)]
        BY <2>1, <2>2, <2>4, Zenon DEF Activate
      <3>3. PICK s : s = Touched(r, i, selected)
        OBVIOUS
      <3>4. /\ s \in Rows /\ s.seen = r.seen /\ s.unread = r.unread /\ s.opened = r.opened
            /\ s.left = r.left /\ s.closed = r.closed
        BY <3>3, TouchedRow
      <3>5. row'[u] = s /\ \A v \in Threads \ {u} : row'[v] = row[v]
        BY <3>1, <3>2, <3>3 DEF TypeOK
      <3>6. CASE t = u
        <4>1. Exists(t) /\ Exists(t)'
          BY <2>4, <3>4, <3>5, <3>6, NoRowAssumption DEF Exists
        <4>2. QED
          BY <3>1, <3>4, <3>5, <3>6, <4>1
      <3>7. CASE t # u
        BY <3>5, <3>7 DEF Exists
      <3>8. QED
        BY <3>6, <3>7
    <2>5. QED
      BY <2>3, <2>4
  <1>2. AttentionInv /\ [Next]_vars =>
          [\A o \in Observers :
             Activate(o) /\ observed[o].id \in DOMAIN note =>
               \A t \in Threads :
                 /\ Exists(t) <=> Exists(t)'
                 /\ Exists(t) =>
                      /\ row'[t].unread = row[t].unread
                      /\ row'[t].seen = row[t].seen
                      /\ row'[t].opened = row[t].opened
                      /\ row'[t].left = row[t].left
                      /\ row'[t].closed = row[t].closed]_vars
    BY <1>1
  <1>3. QED
    BY <1>2, Attention, PTL DEF Spec, ReplayChangesNothing
=============================================================================
