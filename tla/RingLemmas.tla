------------------------------- MODULE RingLemmas -------------------------------
(***************************************************************************)
(* Rings as the kernel indexes them: an array of S slots, and indices that *)
(* only ever grow and wrap around at U, a multiple of S.  The pipe is   *)
(* such a ring, and so is the console's input.                             *)
(***************************************************************************)
EXTENDS Integers, Sequences, TLAPS

CONSTANTS
  U,   \* the indices are 0..U-1
  S,   \* the slots of the array
  T    \* what a slot holds

\* The slot that an index selects is one of the array.
LEMMA ModRange ==
  ASSUME NEW N \in Nat \ {0}, NEW x \in Int
  PROVE  x % N \in 0..(N-1)
OBVIOUS

\* An index that passed U once comes back by subtracting U.
LEMMA ModOnce ==
  ASSUME NEW N \in Nat \ {0}, NEW x \in Nat
  PROVE  /\ x < N => x % N = x
         /\ N <= x /\ x < 2 * N => x % N = x - N
<1>1. x % N \in 0..(N-1) /\ x = N * (x \div N) + (x % N) /\ x \div N \in Int
  OBVIOUS
<1> QED
  BY <1>1

\* A positive multiple of M is at least M.
LEMMA MultipleIsLarge ==
  ASSUME NEW M \in Nat \ {0}, NEW m \in Int, NEW d \in Nat \ {0}, d = M * m
  PROVE  d >= M
<1>1. CASE m <= 0
  BY <1>1
<1>2. CASE m >= 1
  BY <1>2
<1> QED
  BY <1>1, <1>2

\* Two indices less than M apart select different slots of M, also when U
\* lies between them, because M divides U.
LEMMA SlotsDiffer ==
  ASSUME NEW M \in Nat \ {0}, NEW N \in Nat \ {0}, N % M = 0,
         NEW a \in Nat, NEW b \in Nat, NEW d \in 1..(M-1),
         b = a + d \/ b = a + d - N
  PROVE  a % M # b % M
<1> SUFFICES ASSUME a % M = b % M PROVE FALSE
  OBVIOUS
<1>1. PICK qa \in Int : a = M * qa + (a % M)
  <2>1. a = M * (a \div M) + (a % M) /\ a \div M \in Int
    OBVIOUS
  <2> QED
    BY Zenon, <2>1
<1>2. PICK qb \in Int : b = M * qb + (b % M)
  <2>1. b = M * (b \div M) + (b % M) /\ b \div M \in Int
    OBVIOUS
  <2> QED
    BY Zenon, <2>1
<1>3. PICK qu \in Int : N = M * qu + (N % M)
  <2>1. N = M * (N \div M) + (N % M) /\ N \div M \in Int
    OBVIOUS
  <2> QED
    BY Zenon, <2>1
<1>4. a % M \in Int
  OBVIOUS
<1>5. CASE b = a + d
  <2>1. d = M * (qb - qa)
    BY <1>1, <1>2, <1>4, <1>5
  <2> QED
    BY <2>1, MultipleIsLarge
<1>6. CASE b = a + d - N
  <2>1. d = M * (qb - qa + qu)
    BY <1>1, <1>2, <1>3, <1>4, <1>6
  <2> QED
    BY <2>1, MultipleIsLarge
<1> QED
  BY <1>5, <1>6


\* What makes an array and its indices a ring: the array fits U exactly.
Ring == U \in Nat \ {0} /\ S \in Nat \ {0} /\ S <= U /\ U % S = 0

\* The index k places after r: r + k in unsigned arithmetic.
Along(r, k) == IF r + k < U THEN r + k ELSE r + k - U

\* The places from r to w: w - r in unsigned arithmetic.
Distance(w, r) == IF r <= w THEN w - r ELSE U + w - r

\* Along is the addition of the code, r + k with wrap around.
LEMMA AlongMod ==
  ASSUME Ring, NEW r \in 0..(U-1), NEW k \in 0..U
  PROVE  (r + k) % U = Along(r, k) /\ Along(r, k) \in 0..(U-1)
<1>0. U \in Nat \ {0}
  BY Zenon DEF Ring
<1>1. PICK x \in Nat : x = r + k
  BY <1>0
<1>2. /\ x < U => x % U = x
      /\ U <= x /\ x < 2 * U => x % U = x - U
  BY Zenon, <1>0, ModOnce
<1>3. x < 2 * U
  BY <1>0, <1>1
<1>4. x % U = IF x < U THEN x ELSE x - U
  BY <1>0, <1>2, <1>3
<1>5. (r + k) % U = Along(r, k)
  BY <1>0, <1>1, <1>4 DEF Along
<1>6. Along(r, k) \in 0..(U-1)
  BY <1>0 DEF Along
<1> QED
  BY <1>5, <1>6

\* Distance is the subtraction of the code, w - r with wrap around.
LEMMA DistanceMod ==
  ASSUME Ring, NEW w \in 0..(U-1), NEW r \in 0..(U-1)
  PROVE  /\ (U + w - r) % U = Distance(w, r)
         /\ (w + U - r) % U = Distance(w, r)
         /\ Distance(w, r) \in 0..(U-1)
<1>0. U \in Nat \ {0}
  BY Zenon DEF Ring
<1>1. PICK x \in Nat : x = U + w - r
  BY <1>0
<1>2. /\ x < U => x % U = x
      /\ U <= x /\ x < 2 * U => x % U = x - U
  BY Zenon, <1>0, ModOnce
<1>3. x < 2 * U
  BY <1>0, <1>1
<1>4. x % U = IF x < U THEN x ELSE x - U
  BY <1>0, <1>2, <1>3
<1>5. x = w + U - r
  BY <1>0, <1>1
<1>6. (U + w - r) % U = Distance(w, r) /\ (w + U - r) % U = Distance(w, r)
  BY <1>0, <1>1, <1>4, <1>5 DEF Distance
<1>7. Distance(w, r) \in 0..(U-1)
  BY <1>0 DEF Distance
<1> QED
  BY <1>6, <1>7

\* Going from r as far as w is ahead of it arrives at w.
LEMMA AlongDistance ==
  ASSUME Ring, NEW w \in 0..(U-1), NEW r \in 0..(U-1)
  PROVE  Along(r, Distance(w, r)) = w
<1>0. U \in Nat \ {0}
  BY Zenon DEF Ring
<1> QED
  BY <1>0 DEF Along, Distance

\* Fewer than S places apart means different slots: an element stored at the
\* end of a queue overwrites nothing that is in it.
LEMMA SlotsApart ==
  ASSUME Ring, NEW r \in 0..(U-1),
         NEW i \in 0..U, NEW j \in 0..U, i < j, j - i < S
  PROVE  Along(r, i) % S # Along(r, j) % S
<1>0. U \in Nat \ {0} /\ S \in Nat \ {0} /\ U % S = 0
  BY Zenon DEF Ring
<1>1. PICK x \in 0..(U-1) : x = Along(r, i)
  BY <1>0, AlongMod
<1>2. PICK y \in 0..(U-1) : y = Along(r, j)
  BY Zenon, <1>0, AlongMod
<1>3. PICK d \in 1..(S-1) : d = j - i
  BY <1>0
<1>4. y = x + d \/ y = x + d - U
  BY <1>0, <1>1, <1>2, <1>3 DEF Along
<1>5. x % S # y % S
  <2>1. x \in Nat /\ y \in Nat
    BY <1>0
  <2> QED
    BY Zenon, <1>0, <1>4, <2>1, SlotsDiffer
<1> QED
  BY Zenon, <1>1, <1>2, <1>5

\* The array holds elements of T.
Buffer(f) == f \in [0..(S-1) -> T]

\* Element k of the queue that starts at r.
Content(f, r, k) == f[Along(r, k - 1) % S]

\* The n elements from index r on, as a sequence.
Window(f, r, n) == [k \in 1..n |-> Content(f, r, k)]

\* The slot of element k, as the code computes it and as Along does.
LEMMA SlotValue ==
  ASSUME Ring, NEW r \in 0..(U-1), NEW n \in 0..U, NEW k \in 1..n
  PROVE  /\ (r + k - 1) % U = Along(r, k - 1)
         /\ Along(r, k - 1) % S \in 0..(S-1)
<1>0. U \in Nat \ {0} /\ S \in Nat \ {0}
  BY Zenon DEF Ring
<1>1. PICK i \in 0..U : i = k - 1
  BY <1>0
<1>2. r + k - 1 = r + i
  BY <1>0, <1>1
<1>3. (r + i) % U = Along(r, i) /\ Along(r, i) \in 0..(U-1)
  BY Zenon, <1>0, AlongMod
<1>4. Along(r, i) \in Int
  BY <1>0, <1>3
<1>5. Along(r, i) % S \in 0..(S-1)
  BY Zenon, <1>0, <1>4, ModRange
<1> QED
  BY Zenon, <1>1, <1>2, <1>3, <1>5

\* The same sequence, indexed as the code does.
ModWindow(f, r, n) == [k \in 1..n |-> f[((r + k - 1) % U) % S]]

\* Window is what the expressions of the code index.
LEMMA WindowMod ==
  ASSUME NEW f, Ring, NEW r \in 0..(U-1), NEW n \in 0..U
  PROVE  Window(f, r, n) = ModWindow(f, r, n)
BY Zenon, SlotValue DEF Window, ModWindow, Content

\* A sequence is a function on 1..Len.
LEMMA LenDomain ==
  ASSUME NEW q \in Seq(T)
  PROVE  q \in [1..Len(q) -> T]
OBVIOUS

\* The elements of a sequence with one more at the end.
LEMMA AppendValue ==
  ASSUME NEW q \in Seq(T), NEW b \in T
  PROVE  /\ Append(q, b) \in [1..(Len(q) + 1) -> T]
         /\ \A k \in 1..(Len(q) + 1) : Append(q, b)[k] = IF k = Len(q) + 1 THEN b ELSE q[k]
<1>1. Append(q, b) \in Seq(T) /\ Len(Append(q, b)) = Len(q) + 1
  OBVIOUS
<1>2. Append(q, b) \in [1..(Len(q) + 1) -> T]
  BY Zenon, <1>1, LenDomain
<1>3. \A k \in 1..(Len(q) + 1) : Append(q, b)[k] = IF k = Len(q) + 1 THEN b ELSE q[k]
  OBVIOUS
<1> QED
  BY <1>2, <1>3

\* Appending to a concatenation appends to its second part.
LEMMA AppendConcat ==
  ASSUME NEW p \in Seq(T), NEW q \in Seq(T), NEW b \in T
  PROVE  Append(p \o q, b) = p \o Append(q, b)
OBVIOUS

\* The elements of a sequence without its first.
LEMMA TailValue ==
  ASSUME NEW q \in Seq(T), q # <<>>
  PROVE  /\ Tail(q) \in [1..(Len(q) - 1) -> T]
         /\ \A k \in 1..(Len(q) - 1) : Tail(q)[k] = q[k + 1]
<1>1. Tail(q) \in Seq(T) /\ Len(Tail(q)) = Len(q) - 1
  OBVIOUS
<1>2. Tail(q) \in [1..(Len(q) - 1) -> T]
  BY Zenon, <1>1, LenDomain
<1>3. \A k \in 1..(Len(q) - 1) : Tail(q)[k] = q[k + 1]
  OBVIOUS
<1> QED
  BY <1>2, <1>3

\* The n elements from r on are a sequence of length n.
LEMMA WindowSeq ==
  ASSUME Ring, NEW f, Buffer(f),
         NEW r \in 0..(U-1), NEW n \in 0..U
  PROVE  Window(f, r, n) \in Seq(T) /\ Len(Window(f, r, n)) = n
<1>1. PICK q : q = Window(f, r, n)
  OBVIOUS
<1>2. \A k \in 1..n : Content(f, r, k) \in T
  BY Zenon, SlotValue DEF Content, Buffer
<1>3. q = [k \in 1..n |-> Content(f, r, k)]
  BY Zenon, <1>1 DEF Window
<1>4. n \in Nat
  BY DEF Ring
<1>5. q \in Seq(T) /\ Len(q) = n
  BY <1>2, <1>3, <1>4
<1> QED
  BY Zenon, <1>1, <1>5

\* g is f with b stored j places after r.
Put(g, f, r, j, b) == g = [f EXCEPT ![Along(r, j) % S] = b]

\* Storing at or after the end of a queue changes nothing in it.
LEMMA WindowKeep ==
  ASSUME Ring, NEW f, Buffer(f), NEW b,
         NEW r \in 0..(U-1), NEW n \in 0..S, NEW j \in 0..(S-1), n <= j,
         NEW g, Put(g, f, r, j, b)
  PROVE  Window(g, r, n) = Window(f, r, n)
<1>0. n \in 0..U /\ j \in 0..U
  BY DEF Ring
<1>1. ASSUME NEW k \in 1..n
      PROVE  Content(g, r, k) = Content(f, r, k)
  <2>1. PICK i \in 0..U : i = k - 1
    BY <1>0 DEF Ring
  <2>2. i < j /\ j - i < S
    BY <2>1 DEF Ring
  <2>3. Along(r, i) % S # Along(r, j) % S
    BY Zenon, <1>0, <2>2, SlotsApart
  <2>4. Along(r, i) % S \in DOMAIN f
    BY Zenon, <1>0, <2>1, SlotValue DEF Buffer
  <2> QED
    BY Zenon, <2>1, <2>3, <2>4 DEF Content, Put
<1> QED
  BY Zenon, <1>1 DEF Window

\* Storing at the end of a queue that is not full appends to it.
LEMMA WindowAppend ==
  ASSUME Ring, NEW f, Buffer(f), NEW b \in T,
         NEW r \in 0..(U-1), NEW n \in 0..(S-1),
         NEW g, Put(g, f, r, n, b)
  PROVE  Window(g, r, n + 1) = Append(Window(f, r, n), b)
<1> DEFINE q == Window(f, r, n)
<1>0. n \in 0..U /\ n + 1 \in 0..U /\ n \in 0..S /\ n \in Nat /\ n <= n
  BY DEF Ring
<1>1. Window(g, r, n) = q
  <2>1. n \in 0..S /\ n \in 0..(S-1) /\ n <= n
    BY <1>0
  <2> QED
    BY <2>1, WindowKeep
<1>2. Along(r, n) % S \in 0..(S-1)
  <2>1. n + 1 \in 1..(n + 1) /\ (n + 1) - 1 = n
    BY <1>0
  <2> QED
    BY Zenon, <1>0, <2>1, SlotValue
<1>3. g[Along(r, n) % S] = b
  BY Zenon, <1>2 DEF Buffer, Put
<1>4. Content(g, r, n + 1) = b
  BY <1>0, <1>3 DEF Content
<1>5. Window(g, r, n + 1) = [k \in 1..(n + 1) |-> Content(g, r, k)]
  BY Zenon DEF Window
<1>6. q = [k \in 1..n |-> Content(g, r, k)]
  BY Zenon, <1>1 DEF Window
<1>7. q \in Seq(T) /\ Len(q) = n
  BY <1>0, WindowSeq
<1> HIDE DEF q
<1>8. \A k \in 1..(n + 1) : Content(g, r, k) = IF k = n + 1 THEN b ELSE q[k]
  BY <1>0, <1>4, <1>6
<1>9. /\ Append(q, b) \in [1..(n + 1) -> T]
      /\ \A k \in 1..(n + 1) : Append(q, b)[k] = IF k = n + 1 THEN b ELSE q[k]
  BY <1>7, AppendValue
<1>10. Window(g, r, n + 1) = Append(q, b)
  BY <1>5, <1>8, <1>9
<1> QED
  BY <1>10 DEF q

\* Moving the read index forward takes the first element.
LEMMA WindowTail ==
  ASSUME Ring, NEW f, Buffer(f),
         NEW r \in 0..(U-1), NEW n \in 1..U
  PROVE  Window(f, Along(r, 1), n - 1) = Tail(Window(f, r, n))
<1> DEFINE q == Window(f, r, n)
           t == Along(r, 1)
<1>0. n \in 0..U /\ n - 1 \in 0..U /\ n \in Nat \ {0} /\ U \in Nat \ {0}
  BY DEF Ring
<1>1. t \in 0..(U-1)
  BY <1>0 DEF Along
<1>2. ASSUME NEW k \in 1..(n - 1)
      PROVE  Content(f, t, k) = Content(f, r, k + 1)
  <2>1. Along(t, k - 1) = Along(r, (k + 1) - 1)
    BY <1>0 DEF Along
  <2> QED
    BY Zenon, <2>1 DEF Content
<1> HIDE DEF t
<1>3. Window(f, t, n - 1) = [k \in 1..(n - 1) |-> Content(f, t, k)]
  BY Zenon, <1>1 DEF Window
<1>4. q = [k \in 1..n |-> Content(f, r, k)]
  BY Zenon DEF Window
<1>5. q \in Seq(T) /\ Len(q) = n
  BY <1>0, WindowSeq
<1> HIDE DEF q
<1>6. /\ Tail(q) \in [1..(n - 1) -> T]
      /\ \A k \in 1..(n - 1) : Tail(q)[k] = q[k + 1]
  <2>1. q # <<>>
    BY <1>0, <1>5
  <2> QED
    BY <1>5, <2>1, TailValue
<1>7. \A k \in 1..(n - 1) : Content(f, t, k) = q[k + 1]
  BY <1>0, <1>2, <1>4
<1>8. Window(f, t, n - 1) = Tail(q)
  BY <1>3, <1>6, <1>7
<1> QED
  BY <1>8 DEF q, t

\* Moving the write index back drops the last element.
LEMMA WindowFront ==
  ASSUME Ring, NEW f, Buffer(f), NEW r \in 0..(U-1), NEW n \in 1..U
  PROVE  Window(f, r, n - 1) = SubSeq(Window(f, r, n), 1, Len(Window(f, r, n)) - 1)
<1> DEFINE q == Window(f, r, n)
<1>0. n \in 0..U /\ n - 1 \in 0..U /\ n \in Nat \ {0}
  BY DEF Ring
<1>1. q = [k \in 1..n |-> Content(f, r, k)]
  BY Zenon DEF Window
<1>2. Window(f, r, n - 1) = [k \in 1..(n - 1) |-> Content(f, r, k)]
  BY Zenon DEF Window
<1>3. q \in Seq(T) /\ Len(q) = n
  BY <1>0, WindowSeq
<1> HIDE DEF q
<1>4. SubSeq(q, 1, n - 1) = [k \in 1..(n - 1) |-> q[k]]
  <2>1. SubSeq(q, 1, n - 1) \in Seq(T) /\ Len(SubSeq(q, 1, n - 1)) = n - 1
    BY <1>0, <1>3
  <2>2. \A k \in 1..(n - 1) : SubSeq(q, 1, n - 1)[k] = q[k]
    BY <1>0, <1>3
  <2>3. SubSeq(q, 1, n - 1) \in [1..(n - 1) -> T]
    BY Zenon, <2>1, LenDomain
  <2> QED
    BY <2>2, <2>3
<1>5. \A k \in 1..(n - 1) : Content(f, r, k) = q[k]
  BY <1>0, <1>1
<1>6. Window(f, r, n - 1) = SubSeq(q, 1, n - 1)
  BY <1>2, <1>4, <1>5
<1> QED
  BY <1>3, <1>6 DEF q

\* Two queues that follow each other in the ring are one queue, their
\* concatenation.
LEMMA WindowConcat ==
  ASSUME Ring, NEW f, Buffer(f), NEW r \in 0..(U-1),
         NEW n \in 0..(U-1), NEW m \in 0..U, n + m <= U
  PROVE  Window(f, r, n + m) = Window(f, r, n) \o Window(f, Along(r, n), m)
<1> DEFINE t == Along(r, n)
           p == Window(f, r, n)
           q == Window(f, t, m)
<1>0. n \in 0..U /\ n + m \in 0..U /\ n \in Nat /\ m \in Nat /\ U \in Nat \ {0}
  BY DEF Ring
<1>1. t \in 0..(U-1)
  BY <1>0 DEF Along
<1>2. ASSUME NEW k \in 1..m
      PROVE  Content(f, t, k) = Content(f, r, n + k)
  <2>1. Along(t, k - 1) = Along(r, (n + k) - 1)
    BY <1>0 DEF Along
  <2> QED
    BY Zenon, <2>1 DEF Content
<1> HIDE DEF t
<1>3. Window(f, r, n + m) = [k \in 1..(n + m) |-> Content(f, r, k)]
  BY Zenon DEF Window
<1>4. p = [k \in 1..n |-> Content(f, r, k)] /\ q = [k \in 1..m |-> Content(f, t, k)]
  BY Zenon DEF Window
<1>5. p \in Seq(T) /\ Len(p) = n
  BY <1>0, WindowSeq
<1>6. q \in Seq(T) /\ Len(q) = m
  BY <1>0, <1>1, WindowSeq
<1> HIDE DEF p, q
<1>7. p \o q \in [1..(n + m) -> T]
  <2>1. p \o q \in Seq(T) /\ Len(p \o q) = n + m
    BY <1>5, <1>6
  <2> QED
    BY Zenon, <2>1, LenDomain
<1>8. \A k \in 1..(n + m) : (p \o q)[k] = Content(f, r, k)
  <2>1. \A k \in 1..(n + m) : (p \o q)[k] = IF k <= n THEN p[k] ELSE q[k - n]
    BY <1>0, <1>5, <1>6
  <2>2. \A k \in 1..n : p[k] = Content(f, r, k)
    BY <1>4
  <2>3. ASSUME NEW k \in 1..(n + m), k > n
        PROVE  q[k - n] = Content(f, r, k)
    <3>1. PICK i \in 1..m : i = k - n
      BY <1>0, <2>3
    <3>2. q[i] = Content(f, t, i)
      BY <1>4
    <3>3. n + i = k
      BY <1>0, <3>1
    <3> QED
      BY Zenon, <1>2, <3>1, <3>2, <3>3
  <2>4. ASSUME NEW k \in 1..(n + m)
        PROVE  (p \o q)[k] = Content(f, r, k)
    <3>1. CASE k <= n
      <4>1. k \in 1..n
        BY <1>0, <3>1
      <4> QED
        BY Zenon, <2>1, <2>2, <3>1, <4>1
    <3>2. CASE ~(k <= n)
      <4>1. k > n
        BY <1>0, <3>2
      <4>2. (p \o q)[k] = q[k - n]
        BY Zenon, <2>1, <3>2
      <4> QED
        BY Zenon, <2>3, <4>1, <4>2
    <3> QED
      BY Zenon, <3>1, <3>2
  <2> QED
    BY Zenon, <2>4
<1>9. Window(f, r, n + m) = p \o q
  BY Zenon, <1>3, <1>7, <1>8
<1> QED
  BY <1>9 DEF p, q, t
===============================================================================
