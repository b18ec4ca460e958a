-------------------------- MODULE NowPlayingProofs --------------------------
(***************************************************************************)
(* The screen comes to show the track and the picture that were told last, *)
(* and the proxy's cache the keys used last, for any tracks and keys, any  *)
(* capacity and any order of events, calls and requests.                   *)
(***************************************************************************)
EXTENDS NowPlaying, SequenceTheorems, TLAPS

\* The last event of its kind in a queue, and a queue without any
Newest(q, e) ==
    \E i \in 1..Len(q) : q[i] = e /\ \A j \in (i + 1)..Len(q) : q[j].evt # e.evt
Lacks(q, kind) == \A i \in 1..Len(q) : q[i].evt # kind

\* The newest state event, waiting or shown, is the one told last.
TitleInv ==
    /\ \/ \E p \in Positions : Newest(calls, StateEvent(told.track, p))
       \/ Lacks(calls, "state") /\ screen.title = told.track
    /\ screen.title # Silence => screen.container

\* So is the picture announced last, until it is shown or its transfer fails.
Underway ==
    \/ queue = <<told.art>>
    \/ queue = <<>> /\ request["knob"] # Idle /\ request["knob"].key = told.art
    \/ /\ queue = <<>> /\ request["knob"] = Idle
       /\ told.art \in missed \/ picture = told.art

PictureInv == told.art # None => Underway

\* An ETag stands for the picture shown, or for one whose transfer failed.
EtagInv == etag # None => etag = picture \/ etag \in missed

\* A key is held once.
Once(s) == \A i, j \in 1..Len(s) : s[i] = s[j] => i = j
CacheInv == CacheIsRecent /\ Once(uses)

-----------------------------------------------------------------------------
(* Queues of events *)

LEMMA ConcatTells ==
    ASSUME NEW S, NEW s \in Seq(S), NEW t \in Seq(S)
    PROVE  /\ \A e : Newest(t, e) => Newest(s \o t, e)
           /\ \A e : Newest(s, e) /\ Lacks(t, e.evt) => Newest(s \o t, e)
           /\ \A kind : Lacks(s \o t, kind) <=> Lacks(s, kind) /\ Lacks(t, kind)
<1> DEFINE m == Len(s)
           n == Len(t)
           q == s \o t
<1>1. /\ m \in Nat /\ n \in Nat /\ Len(q) = m + n
      /\ \A i \in 1..m : q[i] = s[i]
      /\ \A i \in 1..n : q[m + i] = t[i]
  BY ConcatProperties, LenProperties
<1> HIDE DEF m, n, q
<1>2. \A i \in (m + 1)..(m + n) : i - m \in 1..n /\ q[i] = t[i - m]
  <2>1. \A i \in (m + 1)..(m + n) : i - m \in 1..n /\ m + (i - m) = i
    BY <1>1
  <2>2. QED
    BY <1>1, <2>1
<1>3. 1..(m + n) = 1..m \cup (m + 1)..(m + n)
  BY <1>1
<1>4. ASSUME NEW e, Newest(t, e)
      PROVE  Newest(q, e)
  <2>1. PICK i \in 1..n : t[i] = e /\ \A j \in (i + 1)..n : t[j].evt # e.evt
    BY <1>4 DEF Newest, n
  <2>2. m + i \in 1..(m + n) /\ q[m + i] = e
    BY <1>1, <2>1
  <2>3. ASSUME NEW j \in (m + i + 1)..(m + n) PROVE q[j].evt # e.evt
    <3>1. j \in (m + 1)..(m + n) /\ j - m \in (i + 1)..n
      BY <1>1, <2>1
    <3>2. QED
      BY <1>2, <2>1, <3>1
  <2>4. QED
    BY <1>1, <2>2, <2>3 DEF Newest
<1>5. ASSUME NEW e, Newest(s, e), Lacks(t, e.evt)
      PROVE  Newest(q, e)
  <2>1. PICK i \in 1..m : s[i] = e /\ \A j \in (i + 1)..m : s[j].evt # e.evt
    BY <1>5 DEF Newest, m
  <2>2. i \in 1..(m + n) /\ q[i] = e
    BY <1>1, <2>1
  <2>3. ASSUME NEW j \in (i + 1)..(m + n) PROVE q[j].evt # e.evt
    <3>1. CASE j <= m
      BY <1>1, <2>1, <3>1
    <3>2. CASE j > m
      <4>1. j - m \in 1..n /\ q[j] = t[j - m]
        BY <1>1, <1>2, <3>2
      <4>2. QED
        BY <1>5, <4>1 DEF Lacks, n
    <3>3. QED
      BY <1>1, <3>1, <3>2
  <2>4. QED
    BY <1>1, <2>2, <2>3 DEF Newest
<1>6. ASSUME NEW kind
      PROVE  Lacks(q, kind) <=> Lacks(s, kind) /\ Lacks(t, kind)
  <2>1. Lacks(s, kind) <=> \A i \in 1..m : q[i].evt # kind
    BY <1>1 DEF Lacks, m
  <2>2. ASSUME Lacks(t, kind), NEW i \in (m + 1)..(m + n)
        PROVE  q[i].evt # kind
    BY <1>2, <2>2 DEF Lacks, n
  <2>3. ASSUME Lacks(q, kind), NEW i \in 1..n
        PROVE  t[i].evt # kind
    <3>1. m + i \in 1..(m + n)
      BY <1>1
    <3>2. QED
      BY <1>1, <2>3, <3>1 DEF Lacks
  <2>4. QED
    BY <1>1, <1>3, <2>1, <2>2, <2>3 DEF Lacks, n
<1>7. QED
  BY <1>4, <1>5, <1>6 DEF q

LEMMA TailTells ==
    ASSUME NEW S, NEW s \in Seq(S), s # <<>>
    PROVE  /\ \A e : Newest(s, e) =>
                Newest(Tail(s), e) \/ (Head(s) = e /\ Lacks(Tail(s), e.evt))
           /\ \A kind : Lacks(s, kind) => Head(s).evt # kind /\ Lacks(Tail(s), kind)
<1> DEFINE n == Len(s)
           q == Tail(s)
<1>1. /\ n \in Nat /\ n > 0 /\ Len(q) = n - 1 /\ Head(s) = s[1]
      /\ \A i \in 1..(n - 1) : q[i] = s[i + 1]
  BY HeadTailProperties, LenProperties
<1> HIDE DEF n, q
<1>2. ASSUME NEW e, Newest(s, e)
      PROVE  Newest(q, e) \/ (Head(s) = e /\ Lacks(q, e.evt))
  <2>1. PICK i \in 1..n : s[i] = e /\ \A j \in (i + 1)..n : s[j].evt # e.evt
    BY <1>2 DEF Newest, n
  <2>2. ASSUME NEW j \in i..(n - 1), j > 0 PROVE q[j].evt # e.evt
    BY <1>1, <2>1, <2>2
  <2>3. CASE i = 1
    BY <1>1, <2>1, <2>2, <2>3 DEF Lacks
  <2>4. CASE i > 1
    <3>1. i - 1 \in 1..(n - 1) /\ (i - 1) + 1 = i
      BY <1>1, <2>1, <2>4
    <3>2. q[i - 1] = e /\ \A j \in ((i - 1) + 1)..(n - 1) : q[j].evt # e.evt
      BY <1>1, <2>1, <2>2, <3>1
    <3>3. QED
      BY <1>1, <3>1, <3>2 DEF Newest
  <2>5. QED
    BY <2>3, <2>4
<1>3. ASSUME NEW kind, Lacks(s, kind)
      PROVE  Head(s).evt # kind /\ Lacks(q, kind)
  <2>1. \A i \in 1..(n - 1) : i + 1 \in 1..n
    BY <1>1
  <2>2. QED
    BY <1>1, <1>3, <2>1 DEF Lacks, n
<1>4. QED
  BY <1>2, <1>3 DEF q

LEMMA ShortQueues ==
    /\ \A e : ~Newest(<<>>, e)
    /\ \A kind : Lacks(<<>>, kind)
    /\ \A e : Newest(<<e>>, e)
    /\ \A e, kind : Lacks(<<e>>, kind) <=> e.evt # kind
BY DEF Newest, Lacks

LEMMA AppendTells ==
    ASSUME NEW S, NEW s \in Seq(S), NEW x \in S
    PROVE  /\ Newest(Append(s, x), x)
           /\ \A e : Newest(s, e) /\ x.evt # e.evt => Newest(Append(s, x), e)
           /\ \A kind : Lacks(s, kind) /\ x.evt # kind => Lacks(Append(s, x), kind)
<1>1. Append(s, x) = s \o <<x>> /\ <<x>> \in Seq(S)
  BY AppendIsConcat
<1>2. Newest(<<x>>, x) /\ \A kind : Lacks(<<x>>, kind) <=> x.evt # kind
  BY ShortQueues
<1>3. /\ \A e : Newest(<<x>>, e) => Newest(s \o <<x>>, e)
      /\ \A e : Newest(s, e) /\ Lacks(<<x>>, e.evt) => Newest(s \o <<x>>, e)
      /\ \A kind : Lacks(s \o <<x>>, kind) <=> Lacks(s, kind) /\ Lacks(<<x>>, kind)
  BY <1>1, ConcatTells
<1>4. QED
  BY <1>1, <1>2, <1>3, Zenon

-----------------------------------------------------------------------------
(* The LRU cache *)

\* Where a key is, one past the end when it is absent
IsPlace(s, k, place) ==
    /\ place \in 1..(Len(s) + 1)
    /\ \A i \in 1..Len(s) : s[i] = k <=> i = place

LEMMA PlaceFound ==
    ASSUME NEW s \in Seq(Keys), Once(s), NEW k, Contains(s, k)
    PROVE  PlaceOf(s, k) \in 1..Len(s) /\ IsPlace(s, k, PlaceOf(s, k))
<1>1. PICK i \in 1..Len(s) : s[i] = k
  BY DEF Contains
<1>2. \A j \in 1..Len(s) : s[j] = k <=> j = i
  BY <1>1 DEF Once
<1>3. Len(s) \in Nat
  BY LenProperties
<1>4. \A j \in 1..(i - 1) : s[j] # k
  BY <1>2, <1>3
<1>5. PlaceOf(s, k) \in 1..Len(s) /\ s[PlaceOf(s, k)] = k
  BY <1>1, <1>4 DEF PlaceOf
<1>6. PlaceOf(s, k) = i
  BY <1>2, <1>5
<1>7. QED
  BY <1>2, <1>3, <1>6 DEF IsPlace

\* The key comes first, what was before it moves back by one.
LEMMA ToFrontShape ==
    ASSUME NEW s \in Seq(Keys), Once(s), NEW k \in Keys
    PROVE  /\ ToFront(s, k) \in Seq(Keys)
           /\ \E place : /\ IsPlace(s, k, place)
                         /\ Len(ToFront(s, k)) = IF place <= Len(s) THEN Len(s) ELSE Len(s) + 1
                         /\ ToFront(s, k)[1] = k
                         /\ \A i \in 2..Len(ToFront(s, k)) :
                              ToFront(s, k)[i] = IF i <= place THEN s[i - 1] ELSE s[i]
<1> DEFINE n == Len(s)
           w == Without(s, k)
           r == ToFront(s, k)
<1>1. n \in Nat /\ \A i \in 1..n : s[i] \in Keys
  BY LenProperties, ElementOfSeq
<1>2. ASSUME NEW place, IsPlace(s, k, place), w \in Seq(Keys),
             Len(w) = IF place <= n THEN n - 1 ELSE n,
             \A i \in 1..Len(w) : w[i] = IF i < place THEN s[i] ELSE s[i + 1]
      PROVE  /\ r \in Seq(Keys) /\ Len(r) = (IF place <= n THEN n ELSE n + 1) /\ r[1] = k
             /\ \A i \in 2..Len(r) : r[i] = IF i <= place THEN s[i - 1] ELSE s[i]
  <2> DEFINE o == <<k>>
  <2>1. o \in Seq(Keys) /\ Len(o) = 1 /\ o[1] = k
    OBVIOUS
  <2> HIDE DEF o
  <2>2. r = o \o w
    BY DEF ToFront, o
  <2> HIDE DEF r, w
  <2>3. /\ r \in Seq(Keys) /\ Len(r) = 1 + Len(w)
        /\ \A i \in 1..(1 + Len(w)) : r[i] = IF i <= 1 THEN o[i] ELSE w[i - 1]
    <3>1. w \in Seq(Keys)
      BY <1>2
    <3>2. /\ o \o w \in Seq(Keys) /\ Len(o \o w) = Len(o) + Len(w)
          /\ \A i \in 1..(Len(o) + Len(w)) : (o \o w)[i] = IF i <= Len(o) THEN o[i] ELSE w[i - Len(o)]
      BY <2>1, <3>1, ConcatProperties
    <3>3. QED
      BY <2>1, <2>2, <3>2
  <2>4. place \in 1..(n + 1) /\ Len(w) \in Nat
    BY <1>1, <1>2 DEF IsPlace
  <2>5. r[1] = k
    BY <2>1, <2>3, <2>4
  <2>6. ASSUME NEW i \in 2..Len(r)
        PROVE  r[i] = IF i <= place THEN s[i - 1] ELSE s[i]
    <3>1. i - 1 \in 1..Len(w) /\ r[i] = w[i - 1] /\ (i - 1) + 1 = i
      BY <2>3, <2>4
    <3>2. i - 1 < place <=> i <= place
      BY <2>3, <2>4
    <3>3. QED
      BY <1>2, <3>1, <3>2
  <2>7. Len(r) = IF place <= n THEN n ELSE n + 1
    BY <1>1, <1>2, <2>3, <2>4
  <2>8. QED
    BY <2>3, <2>5, <2>6, <2>7
<1>3. CASE Contains(s, k)
  <2> DEFINE p == PlaceOf(s, k)
             a == SubSeq(s, 1, p - 1)
             b == SubSeq(s, p + 1, n)
  <2>1. p \in 1..n /\ IsPlace(s, k, p)
    BY <1>3, PlaceFound
  <2>2. w = a \o b
    BY <1>3 DEF Without, RemoveAt
  <2> HIDE DEF p, n, w
  <2>3. /\ a \in Seq(Keys) /\ Len(a) = p - 1
        /\ \A i \in 1..(p - 1) : a[i] = s[i]
    BY <1>1, <2>1, SubSeqProperties
  <2>4. /\ b \in Seq(Keys) /\ Len(b) = n - p
        /\ \A i \in 1..(n - p) : b[i] = s[p + i]
    <3>1. p + 1 \in Int /\ n \in Int /\ n - (p + 1) + 1 = n - p
      BY <1>1, <2>1
    <3>2. \A i \in 1..(n - p) : (p + 1) + i - 1 = p + i
      BY <1>1, <2>1
    <3>3. QED
      BY <1>1, <2>1, <3>1, <3>2, SubSeqProperties
  <2> HIDE DEF a, b
  <2>5. /\ w \in Seq(Keys) /\ Len(w) = n - 1
        /\ \A i \in 1..(n - 1) : w[i] = IF i <= p - 1 THEN a[i] ELSE b[i - (p - 1)]
    <3>1. /\ w \in Seq(Keys) /\ Len(w) = Len(a) + Len(b)
          /\ \A i \in 1..(Len(a) + Len(b)) : w[i] = IF i <= Len(a) THEN a[i] ELSE b[i - Len(a)]
      BY <2>2, <2>3, <2>4, ConcatProperties
    <3>2. Len(a) + Len(b) = n - 1
      BY <1>1, <2>1, <2>3, <2>4
    <3>3. QED
      BY <2>3, <3>1, <3>2
  <2>6. ASSUME NEW i \in 1..(n - 1)
        PROVE  w[i] = IF i < p THEN s[i] ELSE s[i + 1]
    <3>1. CASE i < p
      BY <1>1, <2>1, <2>3, <2>5, <3>1
    <3>2. CASE i >= p
      <4>1. i - (p - 1) \in 1..(n - p) /\ p + (i - (p - 1)) = i + 1
        BY <1>1, <2>1, <3>2
      <4>2. w[i] = b[i - (p - 1)]
        BY <1>1, <2>1, <2>5, <3>2
      <4>3. QED
        BY <2>1, <2>4, <3>2, <4>1, <4>2
    <3>3. QED
      BY <1>1, <2>1, <3>1, <3>2
  <2>7. r \in Seq(Keys) /\ Len(r) = (IF p <= n THEN n ELSE n + 1) /\ r[1] = k
        /\ \A i \in 2..Len(r) : r[i] = IF i <= p THEN s[i - 1] ELSE s[i]
    BY <1>1, <1>2, <2>1, <2>5, <2>6
  <2>8. QED
    BY <2>1, <2>7 DEF n
<1>4. CASE ~Contains(s, k)
  <2>1. w = s
    BY <1>4 DEF Without
  <2>2. IsPlace(s, k, n + 1)
    BY <1>1, <1>4 DEF IsPlace, Contains
  <2>3. \A i \in 1..n : i < n + 1
    BY <1>1
  <2>4. r \in Seq(Keys) /\ Len(r) = (IF n + 1 <= n THEN n ELSE n + 1) /\ r[1] = k
        /\ \A i \in 2..Len(r) : r[i] = IF i <= n + 1 THEN s[i - 1] ELSE s[i]
    BY <1>1, <1>2, <2>1, <2>2, <2>3
  <2>5. QED
    BY <2>2, <2>4
<1>5. QED
  BY <1>3, <1>4

LEMMA OnceToFront ==
    ASSUME NEW s \in Seq(Keys), Once(s), NEW k \in Keys
    PROVE  Once(ToFront(s, k))
<1> DEFINE r == ToFront(s, k)
           n == Len(s)
<1>1. PICK place : /\ IsPlace(s, k, place)
                   /\ Len(r) = IF place <= Len(s) THEN Len(s) ELSE Len(s) + 1
                   /\ r[1] = k
                   /\ \A i \in 2..Len(r) : r[i] = IF i <= place THEN s[i - 1] ELSE s[i]
  BY ToFrontShape
<1> HIDE DEF r
<1>2. n \in Nat /\ place \in 1..(n + 1) /\ \A i \in 1..n : s[i] = k <=> i = place
  BY <1>1, LenProperties DEF IsPlace
<1>3. ASSUME NEW i \in 2..Len(r)
      PROVE  \E f \in 1..n : f # place /\ r[i] = s[f] /\ f = IF i <= place THEN i - 1 ELSE i
  <2>1. CASE i <= place
    BY <1>1, <1>2, <2>1
  <2>2. CASE i > place
    BY <1>1, <1>2, <2>2
  <2>3. QED
    BY <1>2, <2>1, <2>2
<1>4. ASSUME NEW i \in 1..Len(r), NEW j \in 1..Len(r), r[i] = r[j], i # 1, j # 1
      PROVE  i = j
  <2>1. i \in 2..Len(r) /\ j \in 2..Len(r)
    BY <1>1, <1>2, <1>4
  <2>2. PICK f \in 1..n : r[i] = s[f] /\ f = IF i <= place THEN i - 1 ELSE i
    BY <1>3, <2>1
  <2>3. PICK g \in 1..n : r[j] = s[g] /\ g = IF j <= place THEN j - 1 ELSE j
    BY <1>3, <2>1
  <2>4. f = g
    BY <1>4, <2>2, <2>3 DEF Once
  <2>5. QED
    BY <1>2, <2>1, <2>2, <2>3, <2>4
<1>5. ASSUME NEW i \in 1..Len(r), r[i] = k
      PROVE  i = 1
  <2>1. CASE i # 1
    <3>1. i \in 2..Len(r)
      BY <1>1, <1>2, <2>1
    <3>2. QED
      BY <1>2, <1>3, <1>5, <3>1
  <2>2. QED
    BY <2>1
<1>6. QED
  BY <1>1, <1>4, <1>5 DEF Once, r

LEMMA FirstNShape ==
    ASSUME NEW s \in Seq(Keys), NEW m \in Nat
    PROVE  /\ FirstN(s, m) \in Seq(Keys)
           /\ Len(FirstN(s, m)) = IF Len(s) < m THEN Len(s) ELSE m
           /\ \A i \in 1..Len(FirstN(s, m)) : FirstN(s, m)[i] = s[i]
<1> DEFINE l == IF Len(s) < m THEN Len(s) ELSE m
<1>1. l \in Nat /\ l <= Len(s) /\ \A i \in 1..l : s[i] \in Keys
  BY LenProperties, ElementOfSeq
<1>2. FirstN(s, m) = SubSeq(s, 1, l)
  BY DEF FirstN
<1> HIDE DEF l
<1>3. /\ SubSeq(s, 1, l) \in Seq(Keys) /\ Len(SubSeq(s, 1, l)) = l
      /\ \A i \in 1..l : SubSeq(s, 1, l)[i] = s[i]
  BY <1>1, SubSeqProperties
<1>4. QED
  BY <1>2, <1>3 DEF l

LEMMA OnceFirstN ==
    ASSUME NEW s \in Seq(Keys), Once(s), NEW m \in Nat
    PROVE  Once(FirstN(s, m))
<1>1. Len(FirstN(s, m)) <= Len(s) /\ Len(s) \in Nat /\ Len(FirstN(s, m)) \in Nat
  BY FirstNShape, LenProperties
<1>2. QED
  BY <1>1, FirstNShape DEF Once

\* A use of the cut list is a use of the whole list, cut.
LEMMA RecentToFront ==
    ASSUME NEW s \in Seq(Keys), Once(s), NEW k \in Keys, NEW n \in Nat \ {0}
    PROVE  FirstN(ToFront(FirstN(s, n), k), n) = FirstN(ToFront(s, k), n)
<1> DEFINE e == FirstN(s, n)
           q == ToFront(e, k)
           r == ToFront(s, k)
           l == Len(s)
           m == IF l < n THEN l ELSE n
<1>1. e \in Seq(Keys) /\ Len(e) = m /\ (\A i \in 1..m : e[i] = s[i]) /\ Once(e)
      /\ m \in Nat /\ l \in Nat
  BY FirstNShape, OnceFirstN, LenProperties
<1>2. PICK p : /\ IsPlace(s, k, p)
               /\ Len(r) = IF p <= Len(s) THEN Len(s) ELSE Len(s) + 1
               /\ r[1] = k
               /\ \A i \in 2..Len(r) : r[i] = IF i <= p THEN s[i - 1] ELSE s[i]
  BY ToFrontShape
<1>3. PICK pe : /\ IsPlace(e, k, pe)
                /\ Len(q) = IF pe <= Len(e) THEN Len(e) ELSE Len(e) + 1
                /\ q[1] = k
                /\ \A i \in 2..Len(q) : q[i] = IF i <= pe THEN e[i - 1] ELSE e[i]
  BY <1>1, ToFrontShape
<1>4. r \in Seq(Keys) /\ q \in Seq(Keys)
  BY <1>1, ToFrontShape
<1> DEFINE u == FirstN(q, n)
           v == FirstN(r, n)
<1>5. /\ u \in Seq(Keys) /\ Len(u) = (IF Len(q) < n THEN Len(q) ELSE n)
      /\ \A i \in 1..Len(u) : u[i] = q[i]
  BY <1>4, FirstNShape
<1>6. /\ v \in Seq(Keys) /\ Len(v) = (IF Len(r) < n THEN Len(r) ELSE n)
      /\ \A i \in 1..Len(v) : v[i] = r[i]
  BY <1>4, FirstNShape
<1> HIDE DEF e, q, r, u, v
<1>7. p \in 1..(l + 1) /\ \A i \in 1..l : s[i] = k <=> i = p
  BY <1>2 DEF IsPlace
<1>8. pe \in 1..(m + 1) /\ \A i \in 1..m : e[i] = k <=> i = pe
  BY <1>1, <1>3 DEF IsPlace
<1>9. pe = IF p <= m THEN p ELSE m + 1
  <2>1. m <= l
    BY <1>1
  <2>2. CASE p <= m
    BY <1>1, <1>7, <1>8, <2>1, <2>2
  <2>3. CASE p > m
    BY <1>1, <1>7, <1>8, <2>1, <2>3
  <2>4. QED
    BY <1>1, <1>7, <2>2, <2>3
<1>10. Len(u) = Len(v) /\ Len(u) \in Nat /\ Len(v) <= Len(r) /\ Len(u) <= Len(q) /\ Len(u) <= n
  BY <1>1, <1>2, <1>3, <1>5, <1>6, <1>7, <1>9
<1>11. ASSUME NEW i \in 1..Len(u)
       PROVE  u[i] = v[i]
  <2>1. CASE i = 1
    BY <1>2, <1>3, <1>5, <1>6, <1>10, <2>1
  <2>2. CASE i # 1
    <3>1. i \in 2..Len(q) /\ i \in 2..Len(r)
      BY <1>1, <1>2, <1>3, <1>7, <1>8, <1>10, <2>2
    <3>2. u[i] = (IF i <= pe THEN e[i - 1] ELSE e[i]) /\ v[i] = IF i <= p THEN s[i - 1] ELSE s[i]
      BY <1>2, <1>3, <1>5, <1>6, <1>10, <3>1
    <3>3. CASE p <= m
      <4>1. pe = p /\ i \in 1..m /\ (i <= p => i - 1 \in 1..m)
        BY <1>1, <1>3, <1>7, <1>9, <3>1, <3>3
      <4>2. QED
        BY <1>1, <3>2, <4>1
    <3>4. CASE p > m
      BY <1>1, <1>3, <1>7, <1>9, <3>1, <3>2, <3>4
    <3>5. QED
      BY <1>1, <1>7, <3>3, <3>4
  <2>3. QED
    BY <2>1, <2>2
<1>12. u = v
  BY <1>5, <1>6, <1>10, <1>11, SeqEqual
<1>13. QED
  BY <1>12 DEF u, v, q, r, e

\* A key that is found takes no more room.
LEMMA RecentHit ==
    ASSUME NEW s \in Seq(Keys), Once(s), NEW k \in Keys, NEW n \in Nat \ {0},
           Contains(FirstN(s, n), k)
    PROVE  ToFront(FirstN(s, n), k) = FirstN(ToFront(s, k), n)
<1> DEFINE e == FirstN(s, n)
           q == ToFront(e, k)
<1>1. e \in Seq(Keys) /\ Once(e) /\ Len(e) <= n /\ Len(e) \in Nat
  BY FirstNShape, OnceFirstN, LenProperties
<1>2. q \in Seq(Keys) /\ \E p : IsPlace(e, k, p) /\ Len(q) = IF p <= Len(e) THEN Len(e) ELSE Len(e) + 1
  BY <1>1, ToFrontShape
<1>3. Len(q) <= n /\ Len(q) \in Nat
  BY <1>1, <1>2 DEF IsPlace, Contains
<1> HIDE DEF q, e
<1>4. FirstN(q, n) = q
  BY <1>2, <1>3, FirstNShape, SeqEqual
<1>5. QED
  BY <1>4, RecentToFront DEF q, e

-----------------------------------------------------------------------------
(* Types *)

ScreenRecord == [title : Tracks, container : BOOLEAN, bar : -1..1000]
Request      == [at : {"asked", "fetching", "sent"}, key : Keys]

ToldType   == /\ told \in [track : Tracks, art : Keys \cup {None}]
              /\ handled \in 0..MaxEvents /\ troubles \in 0..MaxTroubles
ProxyType  == entries \in Seq(Keys) /\ uses \in Seq(Keys)
QueueType  == /\ calls \in Seq(Events) /\ queue \in Seq(Keys) /\ Len(queue) <= 1
KnobType   == /\ screen \in ScreenRecord /\ request \in [Viewers -> Request \cup {Idle}]
              /\ etag \in Keys \cup {None} /\ picture \in Keys \cup {None} /\ missed \subseteq Keys

Types == ToldType /\ ProxyType /\ QueueType /\ KnobType

NowPlayingInv == Types /\ TitleInv /\ PictureInv /\ EtagInv /\ CacheInv

LEMMA InvIsTypeOK == Types /\ CacheInv => TypeOK
<1> SUFFICES ASSUME Types, CacheInv
             PROVE  TypeOK
  OBVIOUS
<1>1. Len(entries) <= maxSize
  BY SizeAssumption, FirstNShape DEF Types, ProxyType, CacheInv, CacheIsRecent
<1>2. QED
  BY <1>1 DEF Types, TypeOK, ToldType, ProxyType, QueueType, KnobType, ScreenRecord, Request

LEMMA EventTypes ==
    /\ \A t \in Tracks, p \in Positions :
         StateEvent(t, p) \in Events /\ StateEvent(t, p).evt = "state" /\ StateEvent(t, p).track = t
    /\ \A p \in Positions : PositionEvent(p) \in Events /\ PositionEvent(p).evt = "position"
    /\ \A e \in Events : e.evt \in {"state", "position"} /\ e.pos \in Positions
                       /\ (e.evt = "state" => e.track \in Tracks)
<1>1. \A t \in Tracks, p \in Positions :
        StateEvent(t, p) \in Events /\ StateEvent(t, p).evt = "state" /\ StateEvent(t, p).track = t
  BY DEF StateEvent, Events
<1>2. \A p \in Positions : PositionEvent(p) \in Events /\ PositionEvent(p).evt = "position"
  BY DEF PositionEvent, Events
<1>3. ASSUME NEW e \in Events
      PROVE  /\ e.evt \in {"state", "position"} /\ e.pos \in Positions
             /\ e.evt = "state" => e.track \in Tracks
  <2>1. CASE \E t \in Tracks, p \in Positions : e = StateEvent(t, p)
    BY <2>1 DEF StateEvent
  <2>2. CASE \E p \in Positions : e = PositionEvent(p)
    BY <2>2 DEF PositionEvent
  <2>3. QED
    BY <2>1, <2>2 DEF Events
<1>4. QED
  BY <1>1, <1>2, <1>3

LEMMA EventForms ==
    ASSUME NEW e \in Events, e.evt = "state"
    PROVE  \E p \in Positions : e = StateEvent(e.track, p)
BY DEF StateEvent, PositionEvent, Events

LEMMA RequestTypes ==
    ASSUME KnobType, NEW v \in Viewers, request[v].at \in {"asked", "fetching", "sent"}
    PROVE  request[v] \in Request /\ request[v].key \in Keys /\ request[v] # Idle
BY DEF KnobType, Request, Idle

LEMMA BarType ==
    ASSUME NEW p \in Positions
    PROVE  Bar(p[1], p[2]) \in -1..1000
<1>1. p[1] \in Int /\ p[2] \in Int
  BY TrackAssumption
<1>2. ASSUME NEW pos \in Int, NEW dur \in Int, dur > 0
      PROVE  Permille(pos, dur) \in 0..1000
  <2>1. (pos * 1000) \div dur \in Int
    BY <1>2
  <2>2. QED
    BY <2>1 DEF Permille
<1>3. CASE p[2] > 0
  <2>1. Bar(p[1], p[2]) = Permille(p[1], p[2])
    BY <1>3 DEF Bar
  <2>2. Permille(p[1], p[2]) \in 0..1000
    BY <1>1, <1>2, <1>3
  <2>3. QED
    BY <2>1, <2>2
<1>4. CASE ~(p[2] > 0)
  BY <1>4 DEF Bar, Hidden
<1>5. QED
  BY <1>3, <1>4

\* The state event's title, and a container that stays
LEMMA ScreenAfter ==
    ASSUME KnobType, QueueType, RunCall
    PROVE  LET c == Head(calls)
           IN  /\ screen' \in ScreenRecord
               /\ c.evt = "state" => screen'.title = c.track
               /\ c.evt # "state" => screen'.title = screen.title
               /\ (screen.title # Silence => screen.container) =>
                    (screen'.title # Silence => screen'.container)
<1> DEFINE c == Head(calls)
<1>1. c \in Events
  BY HeadTailProperties DEF QueueType, RunCall
<1> HIDE DEF c
<1>2. PICK b \in -1..1000 :
        screen' = IF c.evt = "state" THEN SetTrack(c.track, b) ELSE [screen EXCEPT !.bar = b]
  BY <1>1, BarType, EventTypes DEF RunCall, c
<1>3. screen \in ScreenRecord
  BY DEF KnobType
<1>4. CASE c.evt = "state"
  <2>1. c.track \in Tracks
    BY <1>1, <1>4, EventTypes
  <2>2. screen' = SetTrack(c.track, b)
    BY <1>2, <1>4
  <2>3. SetTrack(c.track, b) \in ScreenRecord
    BY <1>3, <2>1 DEF SetTrack, ScreenRecord
  <2>4. SetTrack(c.track, b).title = c.track /\ (c.track # Silence => SetTrack(c.track, b).container)
    BY DEF SetTrack
  <2>5. QED
    BY <1>4, <2>2, <2>3, <2>4 DEF c
<1>5. CASE c.evt # "state"
  <2>1. screen' = [screen EXCEPT !.bar = b]
    BY <1>2, <1>5
  <2>2. QED
    BY <1>3, <1>5, <2>1 DEF ScreenRecord, c
<1>6. QED
  BY <1>4, <1>5

-----------------------------------------------------------------------------
(* The proxy: a request of any viewer, while another is at work *)

LEMMA StepCache ==
    ASSUME Types, CacheInv, [Next]_vars
    PROVE  ProxyType' /\ CacheInv'
<1>1. entries \in Seq(Keys) /\ uses \in Seq(Keys) /\ Once(uses) /\ entries = FirstN(uses, maxSize)
  BY DEF Types, ProxyType, CacheInv, CacheIsRecent
<1>2. CASE UNCHANGED proxyVars
  BY <1>1, <1>2 DEF proxyVars, ProxyType, CacheInv, CacheIsRecent
<1>3. ASSUME NEW k \in Keys, uses' = ToFront(uses, k),
             \/ Contains(entries, k) /\ entries' = ToFront(entries, k)
             \/ entries' = FirstN(ToFront(entries, k), maxSize)
      PROVE  ProxyType' /\ CacheInv'
  <2>1. uses' \in Seq(Keys) /\ Once(uses')
    BY <1>1, <1>3, ToFrontShape, OnceToFront
  <2>2. entries' = FirstN(uses', maxSize)
    <3>1. CASE Contains(entries, k) /\ entries' = ToFront(entries, k)
      BY <1>1, <1>3, <3>1, RecentHit, SizeAssumption
    <3>2. CASE entries' = FirstN(ToFront(entries, k), maxSize)
      BY <1>1, <1>3, <3>2, RecentToFront, SizeAssumption
    <3>3. QED
      BY <1>3, <3>1, <3>2
  <2>3. entries' \in Seq(Keys)
    BY <2>1, <2>2, FirstNShape, SizeAssumption
  <2>4. QED
    BY <2>1, <2>2, <2>3 DEF ProxyType, CacheInv, CacheIsRecent, Once
<1>4. CASE \E v \in Viewers : Get(v) \/ PutAndSend(v)
  <2>1. PICK v \in Viewers : Get(v) \/ PutAndSend(v)
    BY <1>4
  <2>2. request[v].key \in Keys
    BY <2>1, RequestTypes DEF Get, PutAndSend, Types
  <2>3. QED
    BY <1>2, <1>3, <2>1, <2>2 DEF Get, PutAndSend, Use, Put
<1>5. QED
  BY <1>2, <1>4 DEF Next, vars, HandleStatus, HandleArtwork, OtherAsks, RunCall, StartFetch,
     OtherDone, NotModified, FetchFails, ReadBreaks, ShowPicture

-----------------------------------------------------------------------------
(* Types, kept by every step *)

LEMMA StepToldType ==
    ASSUME Types, [Next]_vars
    PROVE  ToldType'
<1>1. /\ told \in [track : Tracks, art : Keys \cup {None}]
      /\ handled \in 0..MaxEvents /\ troubles \in 0..MaxTroubles
      /\ MaxEvents \in Nat /\ MaxTroubles \in Nat
  BY SizeAssumption DEF Types, ToldType
<1>2. CASE UNCHANGED <<toldVars, troubles>>
  BY <1>1, <1>2 DEF toldVars, ToldType
<1>3. CASE \E e \in Events : HandleStatus(e)
  <2>1. PICK e \in Events : HandleStatus(e)
    BY <1>3
  <2>2. told' \in [track : Tracks, art : Keys \cup {None}]
    BY <1>1, <2>1, EventTypes DEF HandleStatus
  <2>3. handled' \in 0..MaxEvents /\ troubles' = troubles
    BY <1>1, <2>1 DEF HandleStatus, Event
  <2>4. QED
    BY <1>1, <2>2, <2>3 DEF ToldType
<1>4. CASE \E k \in Keys : HandleArtwork(k)
  BY <1>1, <1>4 DEF HandleArtwork, Event, ToldType
<1>5. CASE Trouble /\ UNCHANGED toldVars
  BY <1>1, <1>5 DEF Trouble, ToldType, toldVars
<1>6. QED
  BY <1>2, <1>3, <1>4, <1>5 DEF Next, vars, OtherAsks, RunCall, StartFetch,
     OtherDone, NotModified, Get, PutAndSend, FetchFails, ReadBreaks, ShowPicture

LEMMA StepQueueType ==
    ASSUME Types, [Next]_vars
    PROVE  QueueType'
<1>1. calls \in Seq(Events) /\ queue \in Seq(Keys) /\ Len(queue) <= 1
  BY DEF Types, QueueType
<1>2. CASE UNCHANGED <<calls, queue>>
  BY <1>1, <1>2 DEF QueueType
<1>3. CASE \E e \in Events : HandleStatus(e)
  <2>1. PICK e \in Events : calls' = Append(calls, e) /\ queue' = queue
    BY <1>3 DEF HandleStatus
  <2>2. calls' \in Seq(Events)
    BY <1>1, <2>1, AppendProperties
  <2>3. QED
    BY <1>1, <2>1, <2>2 DEF QueueType
<1>4. CASE \E k \in Keys : HandleArtwork(k)
  <2>1. PICK k \in Keys : queue' = <<k>> /\ calls' = calls
    BY <1>4 DEF HandleArtwork, Queued
  <2>2. queue' \in Seq(Keys) /\ Len(queue') = 1
    BY <2>1
  <2>3. QED
    BY <1>1, <2>1, <2>2 DEF QueueType
<1>7. CASE RunCall
  <2>1. calls' \in Seq(Events) /\ queue' = queue
    BY <1>1, <1>7, HeadTailProperties DEF RunCall
  <2>2. QED
    BY <1>1, <2>1 DEF QueueType
<1>8. CASE StartFetch
  <2>1. queue' = <<>> /\ calls' = calls
    BY <1>8 DEF StartFetch
  <2>2. queue' \in Seq(Keys) /\ Len(queue') = 0
    BY <2>1
  <2>3. QED
    BY <1>1, <2>1, <2>2 DEF QueueType
<1>9. QED
  BY <1>2, <1>3, <1>4, <1>7, <1>8 DEF Next, vars, screenVars, OtherAsks, OtherDone, NotModified,
     Get, PutAndSend, FetchFails, ReadBreaks, ShowPicture

LEMMA StepKnobType ==
    ASSUME Types, [Next]_vars
    PROVE  KnobType'
<1>1. KnobType /\ QueueType /\ request \in [Viewers -> Request \cup {Idle}]
  BY DEF Types, KnobType
<1>2. /\ \A v \in Viewers, a \in {"asked", "fetching", "sent"}, k \in Keys :
           Goto(v, a, k) => request' \in [Viewers -> Request \cup {Idle}]
      /\ \A v \in Viewers : Leave(v) => request' \in [Viewers -> Request \cup {Idle}]
  <2>1. \A a \in {"asked", "fetching", "sent"}, k \in Keys : [at |-> a, key |-> k] \in Request
    BY DEF Request
  <2>2. QED
    BY <1>1, <2>1 DEF Goto, Leave
<1>3. CASE UNCHANGED <<screen, request, knobVars>>
  BY <1>1, <1>3 DEF KnobType, knobVars
<1>4. CASE RunCall
  BY <1>1, <1>4, ScreenAfter DEF RunCall, KnobType, knobVars
<1>5. ASSUME UNCHANGED <<screen, knobVars>>, request' \in [Viewers -> Request \cup {Idle}]
      PROVE  KnobType'
  BY <1>1, <1>5 DEF KnobType, knobVars
<1>6. CASE StartFetch
  <2>1. Head(queue) \in Keys
    BY <1>1, <1>6, HeadTailProperties DEF StartFetch, QueueType
  <2>2. QED
    BY <1>2, <1>5, <1>6, <2>1 DEF StartFetch, Viewers
<1>7. CASE \E k \in Keys : OtherAsks(k)
  BY <1>2, <1>5, <1>7 DEF OtherAsks, screenVars, Viewers
<1>8. CASE OtherDone
  BY <1>2, <1>5, <1>8 DEF OtherDone, screenVars, Viewers
<1>9. CASE \E v \in Viewers : NotModified(v) \/ Get(v) \/ PutAndSend(v)
  <2>1. PICK v \in Viewers : NotModified(v) \/ Get(v) \/ PutAndSend(v)
    BY <1>9
  <2>2. request[v].key \in Keys
    BY <1>1, <2>1, RequestTypes DEF NotModified, Get, PutAndSend
  <2>3. request' \in [Viewers -> Request \cup {Idle}] /\ UNCHANGED <<screen, knobVars>>
    BY <1>2, <2>1, <2>2 DEF NotModified, Get, PutAndSend, screenVars
  <2>4. QED
    BY <1>5, <2>3
<1>10. CASE FetchFails \/ ReadBreaks \/ ShowPicture
  <2>1. request["knob"].key \in Keys
    BY <1>1, <1>10, RequestTypes DEF FetchFails, ReadBreaks, ShowPicture, Viewers
  <2>2. request' \in [Viewers -> Request \cup {Idle}] /\ screen' = screen
    BY <1>2, <1>10 DEF FetchFails, ReadBreaks, ShowPicture, screenVars, Viewers
  <2>3. etag' \in Keys \cup {None} /\ picture' \in Keys \cup {None} /\ missed' \subseteq Keys
    BY <1>1, <1>10, <2>1 DEF FetchFails, ReadBreaks, ShowPicture, SaveEtag, KnobType
  <2>4. QED
    BY <1>1, <2>2, <2>3 DEF KnobType
<1>11. CASE (\E e \in Events : HandleStatus(e)) \/ \E k \in Keys : HandleArtwork(k)
  BY <1>3, <1>11 DEF HandleStatus, HandleArtwork
<1>12. QED
  BY <1>3, <1>4, <1>6, <1>7, <1>8, <1>9, <1>10, <1>11 DEF Next, vars, screenVars

-----------------------------------------------------------------------------
(* The title *)

LEMMA StepTitle ==
    ASSUME Types, TitleInv, [Next]_vars
    PROVE  TitleInv'
<1>1. calls \in Seq(Events) /\ KnobType /\ QueueType /\ told.track \in Tracks
      /\ told \in [track : Tracks, art : Keys \cup {None}]
  BY DEF Types, QueueType, ToldType
<1>2. CASE UNCHANGED <<calls, screen>> /\ told'.track = told.track
  BY <1>2 DEF TitleInv
<1>3. ASSUME NEW e \in Events, HandleStatus(e)
      PROVE  TitleInv'
  <2>1. calls' = Append(calls, e) /\ screen' = screen
        /\ told' = IF e.evt = "state" THEN [told EXCEPT !.track = e.track] ELSE told
    BY <1>3 DEF HandleStatus
  <2>2. /\ Newest(calls', e)
        /\ \A x : Newest(calls, x) /\ e.evt # x.evt => Newest(calls', x)
        /\ \A kind : Lacks(calls, kind) /\ e.evt # kind => Lacks(calls', kind)
    BY <1>1, <2>1, AppendTells
  <2>3. CASE e.evt = "state"
    <3>1. told'.track = e.track
      BY <1>1, <2>1, <2>3
    <3>2. PICK p \in Positions : e = StateEvent(e.track, p)
      BY <2>3, EventForms
    <3>3. Newest(calls', StateEvent(told'.track, p))
      BY <2>2, <3>1, <3>2
    <3>4. QED
      BY <2>1, <3>3 DEF TitleInv
  <2>4. CASE e.evt # "state"
    <3>1. told' = told
      BY <2>1, <2>4
    <3>2. ASSUME NEW p \in Positions, Newest(calls, StateEvent(told.track, p))
          PROVE  TitleInv'
      <4>1. StateEvent(told.track, p).evt = "state"
        BY <1>1, EventTypes
      <4>2. Newest(calls', StateEvent(told.track, p))
        BY <2>2, <2>4, <3>2, <4>1
      <4>3. QED
        BY <2>1, <3>1, <4>2 DEF TitleInv
    <3>3. ASSUME Lacks(calls, "state"), screen.title = told.track
          PROVE  TitleInv'
      BY <2>1, <2>2, <2>4, <3>1, <3>3 DEF TitleInv
    <3>4. QED
      BY <3>2, <3>3 DEF TitleInv
  <2>5. QED
    BY <2>3, <2>4
<1>4. CASE \E k \in Keys : HandleArtwork(k)
  BY <1>1, <1>2, <1>4 DEF HandleArtwork
<1>5. CASE RunCall
  <2> DEFINE c == Head(calls)
  <2>1. calls # <<>> /\ calls' = Tail(calls) /\ told' = told
    BY <1>5 DEF RunCall, toldVars
  <2>2. /\ c.evt = "state" => screen'.title = c.track
        /\ c.evt # "state" => screen'.title = screen.title
        /\ screen'.title # Silence => screen'.container
    BY <1>1, <1>5, ScreenAfter DEF TitleInv
  <2>3. /\ \A x : Newest(calls, x) => Newest(calls', x) \/ (c = x /\ Lacks(calls', x.evt))
        /\ \A kind : Lacks(calls, kind) => c.evt # kind /\ Lacks(calls', kind)
    BY <1>1, <2>1, TailTells
  <2> HIDE DEF c
  <2>4. ASSUME NEW p \in Positions, Newest(calls, StateEvent(told.track, p))
        PROVE  TitleInv'
    <3>1. StateEvent(told.track, p).evt = "state" /\ StateEvent(told.track, p).track = told.track
      BY <1>1, EventTypes
    <3>2. CASE Newest(calls', StateEvent(told.track, p))
      BY <2>1, <2>2, <3>2 DEF TitleInv
    <3>3. CASE c = StateEvent(told.track, p) /\ Lacks(calls', "state")
      BY <2>1, <2>2, <3>1, <3>3 DEF TitleInv
    <3>4. QED
      BY <2>3, <2>4, <3>1, <3>2, <3>3
  <2>5. ASSUME Lacks(calls, "state"), screen.title = told.track
        PROVE  TitleInv'
    BY <2>1, <2>2, <2>3, <2>5 DEF TitleInv
  <2>6. QED
    BY <2>4, <2>5 DEF TitleInv
<1>6. CASE OtherDone \/ StartFetch \/ UNCHANGED vars \/ \E k \in Keys : OtherAsks(k)
  BY <1>2, <1>6 DEF vars, toldVars, screenVars, OtherAsks, StartFetch, OtherDone
<1>7. CASE \/ FetchFails \/ ReadBreaks \/ ShowPicture
           \/ \E v \in Viewers : NotModified(v) \/ Get(v) \/ PutAndSend(v)
  BY <1>2, <1>7 DEF toldVars, screenVars, NotModified, Get, PutAndSend, FetchFails, ReadBreaks, ShowPicture
<1>8. QED
  BY <1>3, <1>4, <1>5, <1>6, <1>7 DEF Next

-----------------------------------------------------------------------------
(* The picture *)

LEMMA StepEtag ==
    ASSUME EtagInv, [Next]_vars
    PROVE  EtagInv'
<1>1. CASE UNCHANGED knobVars
  BY <1>1 DEF knobVars, EtagInv
<1>2. CASE FetchFails \/ ReadBreaks \/ ShowPicture
  BY <1>2 DEF FetchFails, ReadBreaks, ShowPicture, SaveEtag, EtagInv
<1>3. QED
  BY <1>1, <1>2 DEF Next, vars, HandleStatus, HandleArtwork, RunCall, StartFetch, OtherAsks,
     OtherDone, NotModified, Get, PutAndSend

\* The events, up to the queue of the fetch task
LEMMA EventPicture ==
    ASSUME Types, PictureInv,
           (\E e \in Events : HandleStatus(e)) \/ \E k \in Keys : HandleArtwork(k)
    PROVE  PictureInv'
<1>1. told \in [track : Tracks, art : Keys \cup {None}]
  BY DEF Types, ToldType
<1>2. ASSUME NEW e \in Events, HandleStatus(e)
      PROVE  PictureInv'
  <2>1. told'.art = told.art /\ UNCHANGED <<queue, request, picture, missed>>
    BY <1>1, <1>2 DEF HandleStatus, knobVars
  <2>2. QED
    BY <2>1 DEF PictureInv, Underway
<1>3. ASSUME NEW k \in Keys, HandleArtwork(k)
      PROVE  PictureInv'
  <2>1. told'.art = k /\ queue' = <<k>>
    BY <1>1, <1>3 DEF HandleArtwork, Queued
  <2>2. QED
    BY <2>1 DEF PictureInv, Underway
<1>4. QED
  BY <1>2, <1>3

\* The fetch task, up to the screen
LEMMA FetchPicture ==
    ASSUME Types, EtagInv, Underway, told' = told,
           \/ StartFetch \/ NotModified("knob") \/ Get("knob") \/ PutAndSend("knob")
           \/ FetchFails \/ ReadBreaks \/ ShowPicture
    PROVE  Underway'
<1>1. request \in [Viewers -> Request \cup {Idle}] /\ "knob" \in Viewers /\ queue \in Seq(Keys)
  BY DEF Types, KnobType, QueueType, Viewers
<1>2. /\ \A a, k : Goto("knob", a, k) => request'["knob"] = [at |-> a, key |-> k]
      /\ Leave("knob") => request'["knob"] = Idle
  BY <1>1 DEF Goto, Leave
<1>3. \A k : \A a \in {"asked", "fetching", "sent"} : [at |-> a, key |-> k] # Idle
  BY DEF Idle
<1>4. CASE StartFetch
  <2>1. queue = <<told.art>> /\ queue' = <<>>
    BY <1>4 DEF StartFetch, Underway
  <2>2. request'["knob"] = [at |-> "asked", key |-> told.art]
    BY <1>2, <1>4, <2>1 DEF StartFetch
  <2>3. QED
    BY <1>3, <2>1, <2>2 DEF Underway
<1>5. ASSUME request["knob"] # Idle, queue' = queue, UNCHANGED <<picture, missed>>,
             NEW a \in {"asked", "fetching", "sent"}, Goto("knob", a, request["knob"].key)
      PROVE  Underway'
  <2>1. request'["knob"] = [at |-> a, key |-> request["knob"].key]
    BY <1>2, <1>5
  <2>2. request'["knob"] # Idle /\ request'["knob"].key = request["knob"].key
    BY <1>3, <2>1
  <2>3. QED
    BY <1>5, <2>2 DEF Underway
<1>6. ASSUME request["knob"] # Idle, queue' = queue, Leave("knob"),
             LET k == request["knob"].key IN k \in missed' \/ picture' = k
      PROVE  Underway'
  <2>1. request'["knob"] = Idle
    BY <1>2, <1>6
  <2>2. QED
    BY <1>6, <2>1 DEF Underway
<1>7. CASE NotModified("knob")
  <2>1. /\ request["knob"].at = "asked" /\ request["knob"].key = etag /\ Leave("knob")
        /\ UNCHANGED <<queue, picture, missed>>
    BY <1>7 DEF NotModified, Matches, screenVars, knobVars
  <2>2. request["knob"] # Idle /\ request["knob"].key \in Keys
    BY <1>1, <2>1, RequestTypes DEF Types
  <2>3. etag = picture \/ etag \in missed
    BY <2>1, <2>2, TrackAssumption DEF EtagInv
  <2>4. QED
    BY <1>6, <2>1, <2>2, <2>3
<1>8. CASE Get("knob") \/ PutAndSend("knob")
  <2>1. request["knob"].at \in {"asked", "fetching"} /\ UNCHANGED <<queue, picture, missed>>
        /\ \E a \in {"asked", "fetching", "sent"} : Goto("knob", a, request["knob"].key)
    BY <1>8 DEF Get, PutAndSend, screenVars, knobVars
  <2>2. request["knob"] # Idle
    BY <1>1, <2>1, RequestTypes DEF Types
  <2>3. QED
    BY <1>5, <2>1, <2>2
<1>9. CASE FetchFails \/ ReadBreaks \/ ShowPicture
  <2>1. /\ request["knob"].at \in {"asked", "fetching", "sent"} /\ queue' = queue /\ Leave("knob")
        /\ request["knob"].key \in missed' \/ picture' = request["knob"].key
    BY <1>9 DEF FetchFails, ReadBreaks, ShowPicture, screenVars
  <2>2. request["knob"] # Idle
    BY <1>1, <2>1, RequestTypes DEF Types
  <2>3. QED
    BY <1>6, <2>1, <2>2
<1>10. QED
  BY <1>4, <1>7, <1>8, <1>9

LEMMA StepPicture ==
    ASSUME Types, EtagInv, PictureInv, [Next]_vars
    PROVE  PictureInv'
<1>1. request \in [Viewers -> Request \cup {Idle}]
  BY DEF Types, KnobType
<1>2. CASE UNCHANGED <<told, queue, picture, missed>> /\ request'["knob"] = request["knob"]
  BY <1>2 DEF PictureInv, Underway
<1>3. CASE told' = told /\ (Underway => Underway')
  BY <1>3 DEF PictureInv
<1>4. CASE \/ StartFetch \/ NotModified("knob") \/ Get("knob") \/ PutAndSend("knob")
           \/ FetchFails \/ ReadBreaks \/ ShowPicture
  <2>1. told' = told
    BY <1>4 DEF StartFetch, NotModified, Get, PutAndSend, FetchFails, ReadBreaks, ShowPicture,
       toldVars, screenVars
  <2>2. QED
    BY <1>3, <1>4, <2>1, FetchPicture
<1>5. CASE OtherDone \/ Get("other") \/ PutAndSend("other") \/ \E k \in Keys : OtherAsks(k)
  <2>1. request'["knob"] = request["knob"]
    BY <1>1, <1>5 DEF OtherDone, Get, PutAndSend, OtherAsks, Goto, Leave, Viewers
  <2>2. QED
    BY <1>2, <1>5, <2>1 DEF OtherDone, Get, PutAndSend, OtherAsks, toldVars, screenVars, knobVars
<1>6. CASE RunCall \/ UNCHANGED vars
  BY <1>2, <1>6 DEF RunCall, vars, toldVars, screenVars, knobVars
<1>7. ~NotModified("other")
  BY DEF NotModified, Matches
<1>8. QED
  BY <1>4, <1>5, <1>6, <1>7, EventPicture DEF Next, Viewers

-----------------------------------------------------------------------------

LEMMA InitNowPlayingInv == Init => NowPlayingInv
<1> SUFFICES ASSUME Init
             PROVE  NowPlayingInv
  OBVIOUS
<1>1. ToldType
  BY SizeAssumption, TrackAssumption DEF Init, ToldType
<1>2. ProxyType /\ CacheInv
  <2>1. entries \in Seq(Keys) /\ uses = <<>> /\ uses \in Seq(Keys) /\ Len(uses) = 0 /\ entries = <<>>
    BY DEF Init
  <2>2. ASSUME NEW s \in Seq(Keys), Len(s) = 0
        PROVE  FirstN(s, maxSize) = <<>>
    <3>1. maxSize \in Nat /\ 0 < maxSize
      BY SizeAssumption
    <3>2. FirstN(s, maxSize) \in Seq(Keys)
      BY <3>1, FirstNShape
    <3>3. Len(FirstN(s, maxSize)) = 0
      BY <2>2, <3>1, FirstNShape
    <3>4. QED
      BY <3>2, <3>3, EmptySeq
  <2>3. CacheIsRecent
    BY <2>1, <2>2 DEF CacheIsRecent
  <2>4. QED
    BY <2>1, <2>3 DEF ProxyType, CacheInv, Once
<1>3. QueueType
  <2>2. calls \in Seq(Events)
    BY DEF Init
  <2>3. queue \in Seq(Keys) /\ Len(queue) = 0
    BY DEF Init
  <2>4. QED
    BY <2>2, <2>3 DEF QueueType
<1>4. KnobType
  <2>1. screen \in ScreenRecord
    BY TrackAssumption DEF Init, ScreenRecord, Hidden
  <2>2. request \in [Viewers -> Request \cup {Idle}]
    BY DEF Init
  <2>3. QED
    BY <2>1, <2>2 DEF Init, KnobType
<1>5. TitleInv
  BY ShortQueues DEF Init, TitleInv
<1>6. PictureInv /\ EtagInv
  BY TrackAssumption DEF Init, PictureInv, EtagInv
<1>7. QED
  BY <1>1, <1>2, <1>3, <1>4, <1>5, <1>6 DEF NowPlayingInv, Types

\* The inductive invariant of what the knob shows: the newest state event is
\* waiting for LVGL's thread or on the screen, the newest artwork queued, in
\* the fetch task, shown or lost with its transfer, whatever order the bridge
\* sends its events in, and the cache is the list of the keys used, cut.
THEOREM NowPlayingInvariant == Spec => []NowPlayingInv
<1>1. NowPlayingInv /\ [Next]_vars => NowPlayingInv'
  BY StepCache, StepToldType, StepQueueType, StepKnobType, StepTitle, StepPicture, StepEtag
  DEF NowPlayingInv, Types
<1>2. QED
  BY InitNowPlayingInv, <1>1, PTL DEF Spec

\* Every variable keeps its range: the progress bar its 0 to 1000 whatever
\* the bridge sends, the cache its capacity, the artwork queue its length.
THEOREM NowPlayingTypeOK == Spec => []TypeOK
BY NowPlayingInvariant, InvIsTypeOK, PTL DEF NowPlayingInv

\* Once the knob has done what it was told to, it shows the track that it was
\* told last and, unless that one's last transfer failed, the picture.
THEOREM ScreenShowsWhatWasTold == Spec => []ScreenShowsTold
<1>1. NowPlayingInv => ScreenShowsTold
  BY ShortQueues DEF NowPlayingInv, TitleInv, PictureInv, Underway, ScreenShowsTold, Rest
<1>2. QED
  BY NowPlayingInvariant, <1>1, PTL

\* The proxy's cache holds the keys used last, as many as it has room for,
\* whatever two requests do at the same time.
THEOREM CacheHoldsRecent == Spec => []CacheIsRecent
BY NowPlayingInvariant, PTL DEF NowPlayingInv, CacheInv
=============================================================================
