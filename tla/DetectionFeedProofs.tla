------------------------- MODULE DetectionFeedProofs -------------------------
(***************************************************************************)
(* Two results about the detection feed, for any streams, families, rings, *)
(* queues and wants.                                                       *)
(*                                                                         *)
(* It implements OrderedFeed.  The inductive invariant says, of each       *)
(* connection, where its client is (Place) and that its queue owes it      *)
(* nothing (Backlog): what the client wants beyond the point the stream    *)
(* has dealt with, which is the announced head before the replay and the   *)
(* last number of the replay after it, is in the queue or among what       *)
(* overflowed, as far as the queue goes, and for a subscription as far as  *)
(* the bus has pulled.  So the overlap of queue and replay is skipped and  *)
(* nothing between them is.                                                *)
(*                                                                         *)
(* A revocation closes every stream subscribed before it.  What makes it   *)
(* so is that the bus and the token store agree: no subscription is        *)
(* without an unsubscribe, and a live family for which the bus holds one   *)
(* is one the store holds the bus's callback for, unless the family is     *)
(* haunted.  For the unsubscribe of a family no longer alive may be stale, *)
(* and comes to life when a reset hands its id out again; but then some    *)
(* stream of the id is still connected, which is what haunted records.     *)
(***************************************************************************)
EXTENDS DetectionFeed, FiniteSetTheorems, SequenceTheorems, TLAPS

\* Sequences of numbers.
In(q, m) == \E i \in DOMAIN q : q[i] = m
Rising(q) == \A i, j \in DOMAIN q : i < j => q[i] < q[j]

\* The numbers of a finite set in ascending order: each once, none left out.
\* That each place is taken is the pigeonhole principle: two numbers do not
\* have equally many of the set at or below them.
LEMMA AscendingOrders ==
    ASSUME NEW S \in SUBSET Nat, IsFiniteSet(S)
    PROVE  /\ Ascending(S) \in Seq(S) /\ Rising(Ascending(S))
           /\ \A n \in S : In(Ascending(S), n)
<1> DEFINE R(n) == {m \in S : m <= n}
           rank == [n \in S |-> Cardinality(R(n))]
           C == Cardinality(S)
<1>1. C \in Nat /\ IsFiniteSet(1 .. C) /\ Cardinality(1 .. C) = C
    BY FS_CardinalityType, FS_Interval
<1>2. ASSUME NEW n \in S PROVE IsFiniteSet(R(n)) /\ Cardinality(R(n)) \in 1 .. C
    <2>1. R(n) \in SUBSET S /\ n \in R(n)
        OBVIOUS
    <2>2. IsFiniteSet(R(n)) /\ Cardinality(R(n)) <= C
        BY <2>1, FS_Subset
    <2>3. Cardinality(R(n)) \in Nat /\ Cardinality(R(n)) # 0
        BY <2>1, <2>2, FS_CardinalityType, FS_EmptySet
    <2> QED
        BY <1>1, <2>2, <2>3
<1>3. ASSUME NEW n \in S, NEW m \in S, n < m PROVE rank[n] < rank[m]
    <2>1. R(n) \in SUBSET R(m) /\ m \in R(m) /\ m \notin R(n)
        <3>1. n \in Nat /\ m \in Nat /\ \A x \in S : x <= n => x <= m
            BY <1>3
        <3>2. m \in R(m) /\ m \notin R(n)
            BY <1>3, <3>1
        <3> QED
            BY <3>1, <3>2
    <2>2. Cardinality(R(n)) <= Cardinality(R(m)) /\ Cardinality(R(n)) # Cardinality(R(m))
        BY <1>2, <2>1, FS_Subset
    <2> QED
        BY <1>2, <2>2
<1>4. rank \in [S -> 1 .. C]
    BY <1>2
<1>5. rank \in Injection(S, 1 .. C)
    <2> HIDE DEF rank
    <2>1. \A n, m \in S : rank[n] = rank[m] => n = m
        <3>1. ASSUME NEW n \in S, NEW m \in S, rank[n] = rank[m] PROVE n = m
            <4>1. n \in Nat /\ m \in Nat /\ rank[n] \in 1 .. C /\ ~ (n < m) /\ ~ (m < n)
                BY <1>3, <1>4, <3>1
            <4> QED
                BY <4>1
        <3> QED
            BY <3>1
    <2> QED
        BY <1>4, <2>1 DEF Injection, IsInjective
<1>6. rank \in Surjection(S, 1 .. C)
    BY <1>1, <1>5, FS_Injection
<1> DEFINE q == Ascending(S)
<1>7. ASSUME NEW k \in 1 .. C PROVE q[k] \in S /\ rank[q[k]] = k
    <2>1. PICK n \in S : rank[n] = k
        BY <1>6 DEF Surjection
    <2>2. Cardinality({m \in S : m <= n}) = k
        BY <2>1
    <2>3. q[k] = CHOOSE x \in S : Cardinality({m \in S : m <= x}) = k
        BY DEF Ascending
    <2>4. q[k] \in S /\ Cardinality({m \in S : m <= q[k]}) = k
        BY <2>2, <2>3
    <2> QED
        BY <2>4
<1>8. DOMAIN q = 1 .. C /\ q \in Seq(S)
    <2>1. DOMAIN q = 1 .. C /\ q = [k \in 1 .. C |-> q[k]]
        BY DEF Ascending
    <2>2. q \in [1 .. C -> S]
        BY <1>7, <2>1
    <2> QED
        BY <1>1, <2>1, <2>2, SeqDef
<1> HIDE DEF q, rank, C
<1>9. ASSUME NEW i \in 1 .. C, NEW j \in 1 .. C, i < j PROVE q[i] < q[j]
    <2>1. q[i] \in Nat /\ q[j] \in Nat /\ ~ (q[j] < q[i]) /\ q[i] # q[j]
        <3>1. q[i] \in S /\ rank[q[i]] = i /\ q[j] \in S /\ rank[q[j]] = j /\ i \in Nat /\ j \in Nat
            BY <1>7, <1>1
        <3>2. ~ (q[j] < q[i])
            <4>1. ASSUME q[j] < q[i] PROVE rank[q[j]] < rank[q[i]]
                BY <1>3, <3>1, <4>1
            <4> QED
                BY <1>9, <3>1, <4>1
        <3>3. q[i] \in Nat /\ q[j] \in Nat
            BY <3>1
        <3>4. q[i] # q[j]
            BY <1>9, <3>1
        <3> QED
            BY <3>2, <3>3, <3>4
    <2> QED
        BY <2>1
<1>10. ASSUME NEW n \in S PROVE \E i \in 1 .. C : q[i] = n
    <2>1. rank[n] \in 1 .. C /\ q[rank[n]] \in S /\ rank[q[rank[n]]] = rank[n]
        BY <1>4, <1>7
    <2>2. q[rank[n]] = n
        BY <2>1, <1>5 DEF Injection, IsInjective
    <2> QED
        BY <2>1, <2>2
<1> QED
    BY <1>8, <1>9, <1>10 DEF In, Rising, q

-----------------------------------------------------------------------------
\* Queues.
Numbers == 1 .. MaxSeq

\* A queue of the stream s holds detections its client may read, up to r.
Readable(s, q, r) == \A i \in DOMAIN q : q[i] \in Wanted[s] /\ q[i] <= r
\* What the client wants beyond b up to c is in the queue, or is among l.
UpTo(s, q, b, l, c) == \A m \in Wanted[s] : b < m /\ m <= c => m \in l \/ In(q, m)
\* The same of what precedes one of its items.
Gapless(s, q, b, l) ==
    \A i \in DOMAIN q : \A m \in Wanted[s] : b < m /\ m < q[i] => m \in l \/ In(q, m)

\* WantedSeq is what the client wants beyond lo up to hi, in order.
LEMMA WantedSeqOrders ==
    ASSUME NEW s \in Streams, NEW lo \in Nat, NEW hi \in Nat
    PROVE  /\ WantedSeq(s, lo, hi) \in Seq(Numbers) /\ Rising(WantedSeq(s, lo, hi))
           /\ Readable(s, WantedSeq(s, lo, hi), hi)
           /\ \A i \in DOMAIN WantedSeq(s, lo, hi) : lo < WantedSeq(s, lo, hi)[i]
           /\ \A m \in Wanted[s] : lo < m /\ m <= hi => In(WantedSeq(s, lo, hi), m)
<1> DEFINE W == {n \in Wanted[s] : lo < n /\ n <= hi}
<1>1. W \in SUBSET Numbers /\ Numbers \in SUBSET Nat /\ IsFiniteSet(Numbers)
    BY FeedAssumption, FS_Interval DEF Numbers
<1>2. IsFiniteSet(W) /\ W \in SUBSET Nat
    BY <1>1, FS_Subset
<1> DEFINE q == Ascending(W)
<1>3. q \in Seq(W) /\ Rising(q) /\ \A n \in W : In(q, n)
    BY <1>2, AscendingOrders
<1> HIDE DEF q
<1>4. q \in Seq(Numbers) /\ \A i \in DOMAIN q : q[i] \in W
    <2> HIDE DEF W
    <2>1. q \in Seq(Numbers)
        BY <1>1, <1>3, SeqMonotonic
    <2>2. \A i \in DOMAIN q : q[i] \in W
        BY <1>3
    <2> QED
        BY <2>1, <2>2
<1> QED
    BY <1>3, <1>4 DEF WantedSeq, q, Readable

\* Pushing what the bus pulled beyond c.
LEMMA PushedBacklog ==
    ASSUME NEW s \in Streams, NEW q \in Seq(Numbers), NEW b \in Nat, NEW l,
           NEW c \in Nat, NEW r \in Nat, c <= r,
           Rising(q), Readable(s, q, c), UpTo(s, q, b, l, c)
    PROVE  LET p == q \o WantedSeq(s, c, r)
           IN  /\ p \in Seq(Numbers) /\ Rising(p) /\ Readable(s, p, r)
               /\ UpTo(s, p, b, l, r) /\ Gapless(s, p, b, l)
<1> DEFINE w == WantedSeq(s, c, r)
           p == q \o w
<1>1. /\ w \in Seq(Numbers) /\ Rising(w) /\ Readable(s, w, r)
      /\ \A i \in DOMAIN w : c < w[i]
      /\ \A m \in Wanted[s] : c < m /\ m <= r => In(w, m)
    BY WantedSeqOrders
<1> HIDE DEF w
<1>2. /\ p \in Seq(Numbers) /\ DOMAIN p = 1 .. Len(q) + Len(w)
      /\ DOMAIN q = 1 .. Len(q) /\ DOMAIN w = 1 .. Len(w) /\ Len(q) \in Nat /\ Len(w) \in Nat
      /\ \A i \in 1 .. Len(q) : p[i] = q[i]
      /\ \A i \in 1 .. Len(w) : p[Len(q) + i] = w[i]
    BY <1>1
<1> HIDE DEF p
<1>3. ASSUME NEW i \in DOMAIN p
      PROVE  \/ i \in DOMAIN q /\ p[i] = q[i]
             \/ i - Len(q) \in DOMAIN w /\ p[i] = w[i - Len(q)]
    BY <1>2
<1>4. /\ \A i \in DOMAIN q : q[i] \in Nat /\ q[i] <= c /\ q[i] \in Wanted[s]
      /\ \A i \in DOMAIN w : w[i] \in Nat /\ c < w[i] /\ w[i] <= r /\ w[i] \in Wanted[s]
    <2>1. \A i \in DOMAIN q : q[i] \in Numbers
        OBVIOUS
    <2>2. \A i \in DOMAIN w : w[i] \in Numbers
        BY <1>1
    <2>3. \A n \in Numbers : n \in Nat
        BY DEF Numbers
    <2> QED
        BY <1>1, <2>1, <2>2, <2>3 DEF Readable
<1>5. ASSUME NEW i \in DOMAIN p PROVE p[i] \in Nat /\ p[i] <= r /\ p[i] \in Wanted[s]
    BY <1>3, <1>4
<1>6. ASSUME NEW i \in DOMAIN p, NEW j \in DOMAIN p, i < j PROVE p[i] < p[j]
    <2>1. CASE i \in DOMAIN q /\ j \in DOMAIN q
        BY <1>2, <1>6, <2>1 DEF Rising
    <2>2. CASE i \in DOMAIN q /\ j \notin DOMAIN q
        <3>1. p[i] = q[i]
            BY <1>2, <2>2
        <3>2. j - Len(q) \in DOMAIN w /\ p[j] = w[j - Len(q)]
            BY <1>3, <2>2
        <3> QED
            BY <1>4, <2>2, <3>1, <3>2
    <2>3. CASE i \notin DOMAIN q
        <3>1. /\ i - Len(q) \in DOMAIN w /\ p[i] = w[i - Len(q)]
              /\ j - Len(q) \in DOMAIN w /\ p[j] = w[j - Len(q)] /\ i - Len(q) < j - Len(q)
            BY <1>2, <1>3, <1>6, <2>3
        <3> QED
            BY <3>1, <1>1 DEF Rising
    <2> QED
        BY <2>1, <2>2, <2>3
<1>7. ASSUME NEW m, In(q, m) \/ In(w, m) PROVE In(p, m)
    <2>1. \A i \in DOMAIN q : i \in DOMAIN p /\ p[i] = q[i]
        BY <1>2
    <2>2. \A i \in DOMAIN w : Len(q) + i \in DOMAIN p /\ p[Len(q) + i] = w[i]
        BY <1>2
    <2>3. CASE In(q, m)
        BY <2>1, <2>3 DEF In
    <2>4. CASE In(w, m)
        BY <2>2, <2>4 DEF In
    <2> QED
        BY <1>7, <2>3, <2>4
<1>8. UpTo(s, p, b, l, r)
    <2> SUFFICES ASSUME NEW m \in Wanted[s], b < m, m <= r, m \notin l PROVE In(p, m)
        BY DEF UpTo
    <2>1. m \in Nat
        BY FeedAssumption
    <2> QED
        BY <1>1, <1>7, <2>1 DEF UpTo
<1>9. Gapless(s, p, b, l)
    <2> SUFFICES ASSUME NEW i \in DOMAIN p, NEW m \in Wanted[s], b < m, m < p[i]
                 PROVE  m \in l \/ In(p, m)
        BY DEF Gapless
    <2>1. m \in Nat /\ m <= r
        BY <1>5, FeedAssumption
    <2> QED
        BY <1>8, <2>1 DEF UpTo
<1> QED
    BY <1>2, <1>5, <1>6, <1>8, <1>9 DEF p, w, Rising, Readable

\* What the first k of p hold beyond v.
Dropped(p, k, v) == {n \in ToSet(SubSeq(p, 1, k)) : n > v}

\* Dropping the first k, which are among what is lost from then on.
LEMMA DroppedBacklog ==
    ASSUME NEW s \in Streams, NEW p \in Seq(Numbers), NEW k \in 0 .. Len(p),
           NEW b \in Nat, NEW v \in Nat, v <= b, NEW r \in Nat, NEW l, NEW l2,
           l2 = l \cup Dropped(p, k, v),
           Rising(p), Readable(s, p, r)
    PROVE  LET t == SubSeq(p, k + 1, Len(p))
           IN  /\ t \in Seq(Numbers) /\ Len(t) = Len(p) - k /\ Rising(t)
               /\ \A c \in Nat : Readable(s, p, c) => Readable(s, t, c)
               /\ Gapless(s, p, b, l) => Gapless(s, t, b, l2)
               /\ \A c \in Nat : UpTo(s, p, b, l, c) => UpTo(s, t, b, l2, c)
               /\ \A n \in l2 \ l : n \in Wanted[s] /\ n > v /\ n <= r
<1> DEFINE t == SubSeq(p, k + 1, Len(p))
           d == SubSeq(p, 1, k)
<1>0. /\ DOMAIN p = 1 .. Len(p) /\ Len(p) \in Nat /\ k \in Nat /\ k <= Len(p)
      /\ \A i \in DOMAIN p : p[i] \in Numbers /\ p[i] \in Nat
    <2>1. DOMAIN p = 1 .. Len(p) /\ Len(p) \in Nat /\ \A i \in DOMAIN p : p[i] \in Numbers
        OBVIOUS
    <2> QED
        BY <2>1 DEF Numbers
<1>1. t \in Seq(Numbers) /\ Len(t) = Len(p) - k /\ \A i \in 1 .. Len(p) - k : t[i] = p[k + i]
    <2>1. k + 1 \in Int /\ Len(p) \in Int /\ \A i \in k + 1 .. Len(p) : p[i] \in Numbers
        BY <1>0
    <2>2. /\ t \in Seq(Numbers)
          /\ Len(t) = IF k + 1 <= Len(p) THEN Len(p) - (k + 1) + 1 ELSE 0
          /\ \A i \in 1 .. Len(p) - (k + 1) + 1 : t[i] = p[k + 1 + i - 1]
        BY <2>1, SubSeqProperties
    <2> HIDE DEF t
    <2>3. Len(t) = Len(p) - k
        <3>1. Len(t) = IF k + 1 <= Len(p) THEN Len(p) - (k + 1) + 1 ELSE 0
            BY <2>2
        <3> DEFINE N == Len(p)
        <3>2. k \in Nat /\ N \in Nat /\ k <= N
            BY <1>0
        <3>3. Len(t) = IF k + 1 <= N THEN N - (k + 1) + 1 ELSE 0
            BY <3>1
        <3> HIDE DEF N
        <3>4. Len(t) = N - k
            BY <3>2, <3>3
        <3> QED
            BY <3>4 DEF N
    <2>4. ASSUME NEW i \in 1 .. Len(p) - k PROVE t[i] = p[k + i]
        <3>1. i \in 1 .. Len(p) - (k + 1) + 1 /\ k + 1 + i - 1 = k + i
            BY <1>0
        <3> QED
            BY <2>2, <3>1
    <2> QED
        BY <2>2, <2>3, <2>4
<1>2. d \in Seq(Numbers) /\ Len(d) = k /\ \A i \in 1 .. k : d[i] = p[i]
    <2>1. \A i \in 1 .. k : p[i] \in Numbers
        BY <1>0
    <2>2. d \in Seq(Numbers)
        BY <1>0, <2>1, SubSeqProperties
    <2>3. Len(d) = IF 1 <= k THEN k - 1 + 1 ELSE 0
        BY <1>0, <2>1, SubSeqProperties
    <2>4. \A i \in 1 .. k - 1 + 1 : d[i] = p[1 + i - 1]
        BY <1>0, <2>1, SubSeqProperties
    <2> HIDE DEF d
    <2> QED
        BY <1>0, <2>2, <2>3, <2>4
<1> HIDE DEF t, d
<1>3. DOMAIN t = 1 .. Len(p) - k /\ DOMAIN d = 1 .. k
    BY <1>1, <1>2
<1>4. ASSUME NEW i \in DOMAIN t PROVE k + i \in DOMAIN p /\ t[i] = p[k + i]
    BY <1>0, <1>1, <1>3
<1>5. ASSUME NEW m \in Nat, b < m, In(p, m) PROVE m \in l2 \/ In(t, m)
    <2>1. PICK j \in DOMAIN p : p[j] = m
        BY <1>5 DEF In
    <2>2. CASE j <= k
        <3>1. j \in DOMAIN d /\ d[j] = m
            BY <1>0, <1>2, <1>3, <2>1, <2>2
        <3>2. m \in ToSet(d) /\ m > v
            BY <3>1, <1>5 DEF ToSet
        <3> QED
            BY <3>2 DEF d, Dropped
    <2>3. CASE k < j
        <3>1. j - k \in DOMAIN t /\ t[j - k] = p[k + (j - k)] /\ k + (j - k) = j
            BY <1>0, <1>1, <1>3, <2>1, <2>3
        <3> QED
            BY <2>1, <3>1 DEF In
    <2> QED
        BY <1>0, <2>2, <2>3
<1>6. l \subseteq l2
    OBVIOUS
<1>7. ASSUME NEW i \in DOMAIN t, NEW j \in DOMAIN t, i < j PROVE t[i] < t[j]
    <2>1. k + i \in DOMAIN p /\ k + j \in DOMAIN p /\ k + i < k + j
        BY <1>0, <1>3, <1>4, <1>7
    <2> QED
        BY <1>4, <2>1 DEF Rising
<1>8. ASSUME NEW c \in Nat, Readable(s, p, c) PROVE Readable(s, t, c)
    BY <1>4, <1>8 DEF Readable
<1>9. ASSUME Gapless(s, p, b, l) PROVE Gapless(s, t, b, l2)
    <2> SUFFICES ASSUME NEW i \in DOMAIN t, NEW m \in Wanted[s], b < m, m < t[i]
                 PROVE  m \in l2 \/ In(t, m)
        BY DEF Gapless
    <2>1. m \in l \/ In(p, m)
        BY <1>4, <1>9 DEF Gapless
    <2>2. m \in Nat
        BY FeedAssumption
    <2> QED
        BY <1>5, <1>6, <2>1, <2>2
<1>10. ASSUME NEW c \in Nat, UpTo(s, p, b, l, c) PROVE UpTo(s, t, b, l2, c)
    <2> SUFFICES ASSUME NEW m \in Wanted[s], b < m, m <= c
                 PROVE  m \in l2 \/ In(t, m)
        BY DEF UpTo
    <2>1. m \in l \/ In(p, m)
        BY <1>10 DEF UpTo
    <2>2. m \in Nat
        BY FeedAssumption
    <2> QED
        BY <1>5, <1>6, <2>1, <2>2
<1>11. ASSUME NEW n \in l2 \ l PROVE n \in Wanted[s] /\ n > v /\ n <= r
    <2>1. n \in ToSet(d) /\ n > v
        BY DEF d, Dropped
    <2>2. PICK i \in DOMAIN d : d[i] = n
        BY <2>1 DEF ToSet
    <2>3. i \in DOMAIN p /\ p[i] = n
        BY <1>0, <1>2, <1>3, <2>2
    <2> QED
        BY <2>1, <2>3 DEF Readable
<1> QED
    BY <1>1, <1>7, <1>8, <1>9, <1>10, <1>11 DEF Rising, t

-----------------------------------------------------------------------------
\* The invariant.
Pcs == {"off", "authorised", "open", "replay", "live", "waiting"}
Connections ==
    [pc : Pcs, family : Families \cup {0}, resume : Nat, last : Nat, head : Nat,
     pending : Seq(Numbers), items : Seq(Numbers), closed : BOOLEAN]

FeedTypes ==
    /\ released \in 0 .. MaxSeq /\ cursor \in 0 .. released /\ primed \in BOOLEAN
    /\ subs \subseteq Streams /\ registered \subseteq alive
    /\ stream \in [Streams -> Connections] /\ seen \in [Streams -> 0 .. released]
    /\ got \in [Streams -> Seq(Numbers)] /\ lost \in [Streams -> SUBSET (1 .. released)]

\* The queue q of s: what the client wants beyond b is in it or lost, as far
\* as the queue goes; that of a subscription, as far as the bus has pulled.
Backlog(s, q, b, l, c, r, in) ==
    /\ Len(q) <= QueueSize /\ Rising(q) /\ Readable(s, q, r) /\ Gapless(s, q, b, l)
    /\ in => Readable(s, q, c) /\ UpTo(s, q, b, l, c)

\* What a stream has dealt with besides its queue: before the replay, the
\* head it announced; then, the last it will have yielded.
Base(x) == IF x.pc = "open" THEN x.head ELSE x.last

\* What the replay still holds is what its client, at v, wants up to the last.
Pending(s, q, v, last) ==
    /\ Rising(q) /\ Readable(s, q, last) /\ UpTo(s, q, v, {}, last)
    /\ \A i \in DOMAIN q : v < q[i]
    /\ IF q = <<>> THEN v = last ELSE q[Len(q)] = last

\* The number its client has reached, at each place of events().
Place(s, x, v, r) ==
    /\ x.pc \in {"off", "authorised"} => x.items = <<>>
    /\ x.pc = "authorised" => x.resume = v /\ ~ x.closed
    /\ x.pc = "open" => /\ v <= x.head /\ x.head <= r
                        /\ v = IF x.resume = 0 THEN x.head ELSE x.resume
    /\ x.pc = "replay" => x.last <= r /\ Pending(s, x.pending, v, x.last)
    /\ x.pc \in {"live", "waiting"} => x.last = v

KeptAs(s, x, v, l, c, r, ready, in) ==
    /\ Place(s, x, v, r)
    /\ Backlog(s, x.items, Base(x), l, c, r, in)
    /\ in => ready /\ ~ x.closed /\ x.pc \notin {"off", "authorised"}
Kept(s) == KeptAs(s, stream[s], seen[s], lost[s], cursor, released, primed, s \in subs)

FeedInv == FeedTypes /\ \A s \in Streams : Kept(s)

\* The client never is beyond what the stream has dealt with.
LEMMA SeenAtBase ==
    ASSUME NEW s \in Streams, NEW x \in Connections, NEW r \in Nat, NEW v \in 0 .. r,
           Place(s, x, v, r), x.pc \notin {"off", "authorised"}
    PROVE  v <= Base(x) /\ Base(x) <= r /\ Base(x) \in Nat
<1>1. x.head \in Nat /\ x.last \in Nat /\ x.pending \in Seq(Numbers) /\ x.pc \in Pcs
    BY DEF Connections
<1>2. CASE x.pc = "replay"
    <2>1. Pending(s, x.pending, v, x.last) /\ x.last <= r
        BY <1>2 DEF Place
    <2>2. CASE x.pending = <<>>
        BY <1>1, <1>2, <2>1, <2>2 DEF Pending, Base
    <2>3. CASE x.pending # <<>>
        <3>1. Len(x.pending) \in DOMAIN x.pending
            BY <1>1, <2>3
        <3>2. v < x.last
            BY <2>1, <2>3, <3>1 DEF Pending
        <3> QED
            BY <1>1, <1>2, <2>1, <3>2 DEF Base
    <2> QED
        BY <2>2, <2>3
<1>3. CASE x.pc = "open"
    BY <1>1, <1>3 DEF Place, Base
<1>4. CASE x.pc \in {"live", "waiting"}
    BY <1>1, <1>4 DEF Place, Base
<1> QED
    BY <1>1, <1>2, <1>3, <1>4 DEF Pcs

\* An empty queue owes nothing to a stream that has dealt with everything.
LEMMA EmptyBacklog ==
    ASSUME NEW s \in Streams, NEW b, NEW l, NEW c, NEW r
    PROVE  Backlog(s, <<>>, b, l, c, r, FALSE)
<1>1. QueueSize \in Nat
    BY FeedAssumption
<1> QED
    BY <1>1 DEF Backlog, Rising, Readable, Gapless

\* refresh(), seen from one stream.
LEMMA PullKeeps ==
    ASSUME FeedInv, NEW s \in Streams, NEW l2,
           l2 = lost[s] \cup {n \in ToSet(SubSeq(Pushed(s), 1, Overflow(s))) : n > seen[s]}
    PROVE  /\ Items(s) \in Seq(Numbers) /\ l2 \in SUBSET (1 .. released)
           /\ Backlog(s, Items(s), Base(stream[s]), l2, released, released, s \in subs)
           /\ stream[s].pc \in {"off", "authorised"} => Items(s) = <<>>
           /\ lost[s] \subseteq l2
           /\ \A n \in l2 \ lost[s] : n \in Wanted[s] /\ n > seen[s]
<1> DEFINE x == stream[s]
           q == x.items
           b == Base(x)
           l == lost[s]
           v == seen[s]
           in == s \in subs
           p == Pushed(s)
           k == Overflow(s)
<1>1. /\ x \in Connections /\ q \in Seq(Numbers) /\ v \in 0 .. released /\ v \in Nat
      /\ released \in Nat /\ cursor \in Nat /\ cursor <= released /\ l \in SUBSET (1 .. released)
    BY DEF FeedInv, FeedTypes, Connections
<1>2. Place(s, x, v, released) /\ Backlog(s, q, b, l, cursor, released, in)
    BY DEF FeedInv, Kept, KeptAs
<1>3. in => primed /\ ~ x.closed /\ x.pc \notin {"off", "authorised"}
    BY DEF FeedInv, Kept, KeptAs
<1>4. QueueSize \in Nat /\ QueueSize # 0
    BY FeedAssumption
<1>5. p = IF in THEN q \o WantedSeq(s, cursor, released) ELSE q
    BY <1>3 DEF Pushed
<1>6. k = IF Len(p) > QueueSize THEN Len(p) - QueueSize ELSE 0
    BY DEF Overflow
<1>7. Items(s) = SubSeq(p, k + 1, Len(p))
    BY DEF Items
<1>8. CASE in
    <2>1. b \in Nat /\ v <= b
        BY <1>1, <1>2, <1>3, <1>8, SeenAtBase
    <2>2. Rising(q) /\ Readable(s, q, cursor) /\ UpTo(s, q, b, l, cursor)
        BY <1>2, <1>8 DEF Backlog
    <2>3. /\ p \in Seq(Numbers) /\ Rising(p) /\ Readable(s, p, released)
          /\ UpTo(s, p, b, l, released) /\ Gapless(s, p, b, l)
        <3> HIDE DEF x, q, b, l, v, p, k
        <3> QED
            BY <1>1, <1>5, <1>8, <2>1, <2>2, PushedBacklog
    <2>4. k \in 0 .. Len(p) /\ Len(p) - k <= QueueSize
        <3>1. Len(p) \in Nat
            BY <2>3
        <3> HIDE DEF p, k
        <3> QED
            BY <1>4, <1>6, <3>1
    <2>5. /\ Items(s) \in Seq(Numbers) /\ Len(Items(s)) = Len(p) - k /\ Rising(Items(s))
          /\ Readable(s, Items(s), released) /\ Gapless(s, Items(s), b, l2)
          /\ UpTo(s, Items(s), b, l2, released)
          /\ \A n \in l2 \ l : n \in Wanted[s] /\ n > v /\ n <= released
        <3> HIDE DEF x, q, b, l, v, p, k
        <3>1. l2 = l \cup Dropped(p, k, v)
            BY DEF l, p, k, v, Dropped
        <3> DEFINE t == SubSeq(p, k + 1, Len(p))
        <3>2. /\ t \in Seq(Numbers) /\ Len(t) = Len(p) - k /\ Rising(t)
              /\ \A c \in Nat : Readable(s, p, c) => Readable(s, t, c)
              /\ Gapless(s, p, b, l) => Gapless(s, t, b, l2)
              /\ \A c \in Nat : UpTo(s, p, b, l, c) => UpTo(s, t, b, l2, c)
              /\ \A n \in l2 \ l : n \in Wanted[s] /\ n > v /\ n <= released
            BY <1>1, <2>1, <2>3, <2>4, <3>1, DroppedBacklog
        <3> HIDE DEF t
        <3>3. Items(s) = t
            BY <1>7 DEF t
        <3> QED
            BY <1>1, <2>3, <3>2, <3>3
    <2>6. l2 \in SUBSET (1 .. released)
        <3>1. ASSUME NEW n \in l2 \ l PROVE n \in 1 .. released
            <4>1. n \in Wanted[s] /\ Wanted[s] \in SUBSET (1 .. MaxSeq)
                BY <2>5, <3>1, FeedAssumption
            <4> QED
                BY <1>1, <2>5, <4>1
        <3> QED
            BY <1>1, <3>1
    <2>7. Backlog(s, Items(s), b, l2, released, released, in)
        BY <2>4, <2>5 DEF Backlog
    <2> QED
        BY <1>3, <1>8, <2>5, <2>6, <2>7
<1>9. CASE ~ in
    <2>1. p = q /\ k = 0
        <3>1. Len(q) <= QueueSize /\ Len(q) \in Nat
            BY <1>1, <1>2 DEF Backlog
        <3> QED
            BY <1>4, <1>5, <1>6, <1>9, <3>1
    <2>2. Items(s) = q /\ SubSeq(p, 1, k) = <<>>
        <3>1. SubSeq(q, 1, Len(q)) = q /\ SubSeq(q, 1, 0) = <<>>
            BY <1>1, SubSeqFull, SubSeqEmpty
        <3> HIDE DEF q, p, k
        <3>2. k + 1 = 1
            BY <2>1
        <3> QED
            BY <1>7, <2>1, <3>1, <3>2, Zenon
    <2>3. l2 = l
        <3>1. ToSet(<<>>) = {}
            BY DEF ToSet
        <3> QED
            BY <2>2, <3>1
    <2> QED
        <3>1. Backlog(s, Items(s), b, l2, released, released, in)
            BY <1>2, <1>9, <2>2, <2>3 DEF Backlog
        <3>2. x.pc \in {"off", "authorised"} => Items(s) = <<>>
            BY <1>2, <2>2 DEF Place
        <3> QED
            BY <1>1, <2>2, <2>3, <3>1, <3>2
<1> QED
    BY <1>8, <1>9

\* The first item of a queue and the rest.
LEMMA TailOf ==
    ASSUME NEW q \in Seq(Numbers), q # <<>>, Rising(q)
    PROVE  /\ Head(q) \in Numbers /\ Head(q) \in Nat /\ Head(q) = q[1] /\ 1 \in DOMAIN q
           /\ Tail(q) \in Seq(Numbers) /\ Len(Tail(q)) = Len(q) - 1 /\ Rising(Tail(q))
           /\ \A i \in DOMAIN Tail(q) :
                 i + 1 \in DOMAIN q /\ Tail(q)[i] = q[i + 1] /\ Head(q) < Tail(q)[i]
           /\ \A m : In(q, m) => m = Head(q) \/ In(Tail(q), m)
           /\ \A i \in DOMAIN q : Head(q) <= q[i]
<1> DEFINE t == Tail(q)
<1>1. /\ DOMAIN q = 1 .. Len(q) /\ Len(q) \in Nat /\ Len(q) # 0
      /\ t \in Seq(Numbers) /\ Len(t) = Len(q) - 1 /\ DOMAIN t = 1 .. Len(t)
      /\ Head(q) = q[1]
    OBVIOUS
<1>2. ASSUME NEW i \in DOMAIN t PROVE i + 1 \in DOMAIN q /\ i \in DOMAIN q /\ t[i] = q[i + 1]
    BY <1>1
<1>3. 1 \in DOMAIN q /\ \A i \in DOMAIN q : q[i] \in Numbers /\ q[i] \in Nat
    <2>1. \A i \in DOMAIN q : q[i] \in Numbers
        BY <1>1
    <2> QED
        BY <1>1, <2>1 DEF Numbers
<1> HIDE DEF t
<1>4. ASSUME NEW i \in DOMAIN q PROVE i = 1 \/ (q[1] < q[i] /\ i - 1 \in DOMAIN t /\ t[i - 1] = q[i])
    <2> SUFFICES ASSUME i # 1 PROVE q[1] < q[i] /\ i - 1 \in DOMAIN t /\ t[i - 1] = q[i]
        OBVIOUS
    <2>1. 1 < i /\ i - 1 \in DOMAIN t /\ i - 1 + 1 = i
        BY <1>1
    <2> QED
        BY <1>2, <1>3, <2>1 DEF Rising
<1>5. Rising(t)
    <2> SUFFICES ASSUME NEW i \in DOMAIN t, NEW j \in DOMAIN t, i < j PROVE t[i] < t[j]
        BY DEF Rising
    <2>1. i + 1 < j + 1
        BY <1>1
    <2> QED
        BY <1>2, <2>1 DEF Rising
<1>6. ASSUME NEW i \in DOMAIN t PROVE q[1] < t[i]
    <2>1. 1 < i + 1
        BY <1>1
    <2> QED
        BY <1>2, <1>3, <2>1 DEF Rising
<1>7. ASSUME NEW m, In(q, m) PROVE m = q[1] \/ In(t, m)
    BY <1>4, <1>7 DEF In
<1>8. ASSUME NEW i \in DOMAIN q PROVE q[1] <= q[i]
    BY <1>3, <1>4
<1> QED
    BY <1>1, <1>2, <1>3, <1>5, <1>6, <1>7, <1>8 DEF t

\* _resume()'s replay begins with all that its client wants.
LEMMA MissedIsPending ==
    ASSUME NEW s \in Streams, NEW v \in Nat, NEW r \in Nat, v <= r, NEW last,
           last = IF WantedSeq(s, v, r) = <<>> THEN v ELSE Last(WantedSeq(s, v, r))
    PROVE  /\ WantedSeq(s, v, r) \in Seq(Numbers)
           /\ last \in Nat /\ last <= r /\ Pending(s, WantedSeq(s, v, r), v, last)
           /\ \A m \in Wanted[s] : last < m => ~ (m <= r)
<1> DEFINE q == WantedSeq(s, v, r)
<1>1. /\ q \in Seq(Numbers) /\ Rising(q) /\ Readable(s, q, r) /\ \A i \in DOMAIN q : v < q[i]
      /\ \A m \in Wanted[s] : v < m /\ m <= r => In(q, m)
    BY WantedSeqOrders
<1>2. last = IF q = <<>> THEN v ELSE q[Len(q)]
    BY DEF Last
<1> HIDE DEF q
<1>3. CASE q = <<>>
    <2>1. DOMAIN q = {} /\ last = v
        BY <1>2, <1>3
    <2>2. \A m \in Wanted[s] : v < m => ~ (m <= r)
        BY <1>1, <2>1 DEF In
    <2>3. UpTo(s, q, v, {}, last)
        <3>1. \A m \in Wanted[s] : m \in Nat
            BY FeedAssumption
        <3> QED
            BY <2>1, <3>1 DEF UpTo
    <2>4. Pending(s, q, v, last)
        BY <1>1, <1>3, <2>1, <2>3 DEF Pending, Readable
    <2> QED
        BY <1>1, <2>1, <2>2, <2>4 DEF q
<1>4. CASE q # <<>>
    <2>1. DOMAIN q = 1 .. Len(q) /\ Len(q) \in DOMAIN q /\ last = q[Len(q)]
        BY <1>1, <1>2, <1>4
    <2>2. \A i \in DOMAIN q : q[i] \in Nat
        <3>1. \A i \in DOMAIN q : q[i] \in Numbers
            BY <1>1
        <3> QED
            BY <3>1 DEF Numbers
    <2>3. last \in Nat /\ v < last /\ last <= r
        BY <1>1, <2>1, <2>2 DEF Readable
    <2>4. ASSUME NEW i \in DOMAIN q PROVE q[i] <= last
        <3>1. i = Len(q) \/ i < Len(q)
            BY <2>1
        <3> QED
            BY <2>1, <2>2, <3>1, <1>1 DEF Rising
    <2>5. ASSUME NEW m \in Wanted[s], last < m, m <= r PROVE FALSE
        <3>1. m \in Nat /\ v < m
            BY <2>3, <2>5, FeedAssumption
        <3>2. PICK i \in DOMAIN q : q[i] = m
            BY <1>1, <2>5, <3>1 DEF In
        <3> QED
            BY <2>3, <2>4, <2>5, <3>1, <3>2
    <2>6. UpTo(s, q, v, {}, last)
        <3> SUFFICES ASSUME NEW m \in Wanted[s], v < m, m <= last PROVE In(q, m)
            BY DEF UpTo
        <3>1. m \in Nat /\ m <= r
            BY <2>3, FeedAssumption
        <3> QED
            BY <1>1, <3>1
    <2>7. Pending(s, q, v, last)
        BY <1>1, <1>4, <2>1, <2>4, <2>6 DEF Pending, Readable
    <2> QED
        BY <1>1, <2>3, <2>5, <2>7 DEF q
<1> QED
    BY <1>3, <1>4

\* Yielding the first of a replay.
LEMMA ReplayOne ==
    ASSUME NEW s \in Streams, NEW q \in Seq(Numbers), q # <<>>, NEW v \in Nat, NEW last \in Nat,
           Pending(s, q, v, last)
    PROVE  /\ Head(q) \in Wanted[s] /\ v < Head(q) /\ Head(q) <= last
           /\ \A m \in Wanted[s] : v < m => ~ (m < Head(q))
           /\ Pending(s, Tail(q), Head(q), last)
<1> DEFINE n == Head(q)
           t == Tail(q)
<1>1. Rising(q) /\ Readable(s, q, last) /\ UpTo(s, q, v, {}, last) /\ q[Len(q)] = last
      /\ \A i \in DOMAIN q : v < q[i]
    BY DEF Pending
<1>2. /\ n \in Nat /\ n = q[1] /\ 1 \in DOMAIN q
      /\ t \in Seq(Numbers) /\ Len(t) = Len(q) - 1 /\ Rising(t)
      /\ \A i \in DOMAIN t : i + 1 \in DOMAIN q /\ t[i] = q[i + 1] /\ n < t[i]
      /\ \A m : In(q, m) => m = n \/ In(t, m)
      /\ \A i \in DOMAIN q : n <= q[i]
    BY <1>1, TailOf
<1>3. DOMAIN q = 1 .. Len(q) /\ DOMAIN t = 1 .. Len(t) /\ Len(q) \in Nat /\ Len(q) # 0
    BY <1>2
<1> HIDE DEF n, t
<1>4. n \in Wanted[s] /\ v < n /\ n <= last
    BY <1>1, <1>2 DEF Readable
<1>5. ASSUME NEW m \in Wanted[s], v < m, m < n PROVE FALSE
    <2>1. m \in Nat /\ m <= last
        BY <1>2, <1>4, <1>5, FeedAssumption
    <2>2. PICK i \in DOMAIN q : q[i] = m
        BY <1>1, <1>5, <2>1 DEF UpTo, In
    <2> QED
        BY <1>2, <1>5, <2>1, <2>2
<1>6. Readable(s, t, last)
    BY <1>1, <1>2 DEF Readable
<1>7. UpTo(s, t, n, {}, last)
    <2> SUFFICES ASSUME NEW m \in Wanted[s], n < m, m <= last PROVE In(t, m)
        BY DEF UpTo
    <2>1. m \in Nat /\ v < m /\ m # n
        BY <1>2, <1>4, FeedAssumption
    <2> QED
        BY <1>1, <1>2, <2>1 DEF UpTo
<1>8. IF t = <<>> THEN n = last ELSE t[Len(t)] = last
    <2>1. CASE t = <<>>
        <3>1. Len(q) = 1
            BY <1>2, <1>3, <2>1
        <3> QED
            BY <1>1, <1>2, <2>1, <3>1
    <2>2. CASE t # <<>>
        <3>1. Len(t) \in DOMAIN t /\ Len(t) + 1 = Len(q)
            BY <1>2, <1>3, <2>2
        <3> QED
            BY <1>1, <1>2, <2>2, <3>1
    <2> QED
        BY <2>1, <2>2
<1>9. Pending(s, t, n, last)
    BY <1>2, <1>6, <1>7, <1>8 DEF Pending
<1> QED
    BY <1>4, <1>5, <1>9 DEF n, t

\* Taking the first of a queue.
LEMMA TakeOne ==
    ASSUME NEW s \in Streams, NEW q \in Seq(Numbers), q # <<>>, NEW b \in Nat, NEW l, NEW c, NEW r \in Nat,
           NEW in \in BOOLEAN, Backlog(s, q, b, l, c, r, in)
    PROVE  /\ Head(q) \in Wanted[s] /\ Head(q) <= r
           /\ \A m \in Wanted[s] : b < m /\ m < Head(q) => m \in l
           /\ Backlog(s, Tail(q), IF Head(q) > b THEN Head(q) ELSE b, l, c, r, in)
<1> DEFINE n == Head(q)
           t == Tail(q)
           d == IF n > b THEN n ELSE b
<1>1. Rising(q) /\ Readable(s, q, r) /\ Gapless(s, q, b, l) /\ Len(q) <= QueueSize
    BY DEF Backlog
<1>2. /\ n \in Nat /\ n = q[1] /\ 1 \in DOMAIN q
      /\ t \in Seq(Numbers) /\ Len(t) = Len(q) - 1 /\ Rising(t)
      /\ \A i \in DOMAIN t : i + 1 \in DOMAIN q /\ t[i] = q[i + 1] /\ n < t[i]
      /\ \A m : In(q, m) => m = n \/ In(t, m)
      /\ \A i \in DOMAIN q : n <= q[i]
    BY <1>1, TailOf
<1>3. Len(q) \in Nat /\ QueueSize \in Nat /\ \A m \in Wanted[s] : m \in Nat
    BY FeedAssumption
<1> HIDE DEF n, t
<1>4. d \in Nat /\ n <= d /\ b <= d
    BY <1>2
<1>5. n \in Wanted[s] /\ n <= r
    BY <1>1, <1>2 DEF Readable
<1>6. ASSUME NEW m \in Wanted[s], b < m, m < n PROVE m \in l
    <2>1. m \in l \/ In(q, m)
        BY <1>1, <1>2, <1>6 DEF Gapless
    <2>2. ~ In(q, m)
        BY <1>2, <1>3, <1>6 DEF In
    <2> QED
        BY <2>1, <2>2
<1>7. Len(t) <= QueueSize /\ Rising(t) /\ Readable(s, t, r)
    <2>1. Len(t) <= QueueSize
        BY <1>1, <1>2, <1>3
    <2> QED
        BY <1>1, <1>2, <2>1 DEF Readable
<1> HIDE DEF d
<1>8. Gapless(s, t, d, l)
    <2> SUFFICES ASSUME NEW i \in DOMAIN t, NEW m \in Wanted[s], d < m, m < t[i]
                 PROVE  m \in l \/ In(t, m)
        BY DEF Gapless
    <2>1. m \in Nat /\ b < m /\ m # n
        BY <1>2, <1>3, <1>4
    <2>2. m \in l \/ In(q, m)
        BY <1>1, <1>2, <2>1 DEF Gapless
    <2> QED
        BY <1>2, <2>1, <2>2
<1>9. ASSUME in PROVE Readable(s, t, c) /\ UpTo(s, t, d, l, c)
    <2>1. Readable(s, q, c) /\ UpTo(s, q, b, l, c)
        BY <1>9 DEF Backlog
    <2>2. Readable(s, t, c)
        BY <1>2, <2>1 DEF Readable
    <2>3. UpTo(s, t, d, l, c)
        <3> SUFFICES ASSUME NEW m \in Wanted[s], d < m, m <= c PROVE m \in l \/ In(t, m)
            BY DEF UpTo
        <3>1. m \in Nat /\ b < m /\ m # n
            BY <1>2, <1>3, <1>4
        <3> QED
            BY <1>2, <2>1, <3>1 DEF UpTo
    <2> QED
        BY <2>2, <2>3
<1>10. Backlog(s, t, d, l, c, r, in)
    BY <1>7, <1>8, <1>9 DEF Backlog
<1> QED
    BY <1>5, <1>6, <1>10 DEF n, t, d

-----------------------------------------------------------------------------
\* The steps.
\* What a step may do to the connection of s and to its client: all of it is
\* a step of OrderedFeed, and keeps the invariant.
Advance(s) ==
    /\ stream'[s] \in Connections /\ seen'[s] \in 0 .. released'
    /\ got'[s] \in Seq(Numbers) /\ lost'[s] \in SUBSET (1 .. released')
    /\ KeptAs(s, stream'[s], seen'[s], lost'[s], cursor', released', primed', s \in subs')
    /\ Feed!Lose(s)
    /\ Feed!Stay(s) \/ \E n \in Numbers : Feed!Deliver(s, n) \/ Feed!Rebase(s, n)

\* What a step does besides.
Around ==
    /\ released' \in 0 .. MaxSeq /\ cursor' \in 0 .. released' /\ primed' \in BOOLEAN
    /\ subs' \subseteq Streams /\ registered' \subseteq alive'
    /\ DOMAIN stream' = Streams /\ stream' = [s \in Streams |-> stream'[s]]
    /\ seen' = [s \in Streams |-> seen'[s]] /\ got' = [s \in Streams |-> got'[s]]
    /\ lost' = [s \in Streams |-> lost'[s]]

\* Advances everywhere make a step of OrderedFeed.
LEMMA StepOfFeed ==
    ASSUME Around, \A s \in Streams : Advance(s)
    PROVE  FeedInv' /\ Feed!FeedNext
<1>1. /\ stream' \in [Streams -> Connections] /\ seen' \in [Streams -> 0 .. released']
      /\ got' \in [Streams -> Seq(Numbers)] /\ lost' \in [Streams -> SUBSET (1 .. released')]
    BY DEF Around, Advance
<1>2. FeedTypes'
    BY <1>1 DEF Around, FeedTypes
<1>3. ASSUME NEW s \in Streams PROVE Kept(s)'
    BY DEF Advance, Kept
<1>4. Feed!FeedNext
    <2>1. released' \in Nat /\ MaxSeq \in Nat /\ released' <= MaxSeq
        BY FeedAssumption DEF Around
    <2>2. 0 .. released' \subseteq 0 .. MaxSeq /\ 1 .. released' \subseteq 1 .. MaxSeq
        BY <2>1
    <2>3. /\ seen' \in [Streams -> 0 .. MaxSeq] /\ got' \in [Streams -> Seq(1 .. MaxSeq)]
          /\ lost' \in [Streams -> SUBSET (1 .. MaxSeq)]
        BY <1>1, <2>2 DEF Numbers
    <2>4. ASSUME NEW s \in Streams
          PROVE  /\ Feed!Lose(s)
                 /\ Feed!Stay(s) \/ \E n \in 1 .. MaxSeq : Feed!Deliver(s, n) \/ Feed!Rebase(s, n)
        BY DEF Advance, Numbers
    <2> QED
        BY <2>3, <2>4 DEF Feed!FeedNext
<1> QED
    BY <1>2, <1>3, <1>4 DEF FeedInv

\* The two connections differ in their queues, and in being closed, at most.
Alike(x, y) ==
    /\ x.pc = y.pc /\ x.resume = y.resume /\ x.last = y.last /\ x.head = y.head
    /\ x.pending = y.pending
    /\ x.pc = "authorised" => x.closed = y.closed

\* A subscription that remains is one that was open.
StillIn(s) == s \in subs' => s \in subs /\ ~ stream'[s].closed

\* The types and the invariant, of one stream.
LEMMA FactsOf ==
    ASSUME FeedInv, NEW s \in Streams
    PROVE  /\ stream[s] \in Connections /\ seen[s] \in 0 .. released /\ seen[s] \in Nat
           /\ got[s] \in Seq(Numbers) /\ lost[s] \in SUBSET (1 .. released)
           /\ released \in Nat /\ released <= MaxSeq /\ cursor \in Nat /\ cursor <= released
           /\ Place(s, stream[s], seen[s], released)
           /\ Backlog(s, stream[s].items, Base(stream[s]), lost[s], cursor, released, s \in subs)
           /\ s \in subs => /\ primed /\ ~ stream[s].closed
                            /\ stream[s].pc \notin {"off", "authorised"}
BY DEF FeedInv, FeedTypes, Kept, KeptAs

\* The place of a client depends on nothing else.
LEMMA AlikePlace ==
    ASSUME NEW s, NEW x, NEW y, NEW v, NEW r \in Nat, NEW r2 \in Nat, r <= r2,
           y \in Connections, Alike(x, y), Place(s, y, v, r),
           y.pc \in {"off", "authorised"} => x.items = <<>>
    PROVE  Place(s, x, v, r2) /\ Base(x) = Base(y)
<1>1. y.head \in Nat /\ y.last \in Nat
    BY DEF Connections
<1>2. y.head <= r => y.head <= r2
    BY <1>1
<1>3. y.last <= r => y.last <= r2
    BY <1>1
<1> QED
    BY <1>2, <1>3 DEF Alike, Place, Base

\* A stream that a step passes by.
LEMMA PassedBy ==
    ASSUME FeedInv, NEW s \in Streams, released' \in Nat, released <= released', released' <= MaxSeq,
           stream'[s] \in Connections, Alike(stream'[s], stream[s]),
           stream'[s].items = stream[s].items,
           seen'[s] = seen[s], got'[s] = got[s], lost'[s] = lost[s],
           StillIn(s), s \in subs' => cursor' = cursor /\ primed' = primed
    PROVE  Advance(s)
<1>1. Place(s, stream'[s], seen[s], released') /\ Base(stream'[s]) = Base(stream[s])
    <2>1. stream[s].pc \in {"off", "authorised"} => stream'[s].items = <<>>
        BY FactsOf DEF Place
    <2> QED
        BY <2>1, FactsOf, AlikePlace
<1>2. Backlog(s, stream'[s].items, Base(stream'[s]), lost[s], cursor', released', s \in subs')
    <2>1. Backlog(s, stream[s].items, Base(stream[s]), lost[s], cursor, released, s \in subs)
        BY FactsOf
    <2>2. stream[s].items \in Seq(Numbers) /\ released \in Nat
        BY FactsOf DEF Connections
    <2>3. \A i \in DOMAIN stream[s].items : stream[s].items[i] \in Nat
        <3>1. \A i \in DOMAIN stream[s].items : stream[s].items[i] \in Numbers
            BY <2>2
        <3> QED
            BY <3>1 DEF Numbers
    <2>4. Readable(s, stream[s].items, released')
        <3>1. Readable(s, stream[s].items, released)
            BY <2>1 DEF Backlog
        <3> QED
            BY <2>2, <2>3, <3>1 DEF Readable
    <2> QED
        BY <1>1, <2>1, <2>4 DEF Backlog, StillIn
<1>3. s \in subs' => primed' /\ ~ stream'[s].closed /\ stream'[s].pc \notin {"off", "authorised"}
    BY FactsOf DEF StillIn, Alike
<1>4. seen'[s] \in 0 .. released' /\ got'[s] \in Seq(Numbers) /\ lost'[s] \in SUBSET (1 .. released')
    <2>1. 0 .. released \subseteq 0 .. released' /\ 1 .. released \subseteq 1 .. released'
        BY FactsOf
    <2> QED
        BY <2>1, FactsOf
<1>5. Feed!Lose(s) /\ Feed!Stay(s)
    BY DEF Feed!Lose, Feed!Stay
<1> QED
    BY <1>1, <1>2, <1>3, <1>4, <1>5 DEF Advance, KeptAs

\* What refresh() adds to what overflowed.
Overflows(s) ==
    lost'[s] = lost[s] \cup {n \in ToSet(SubSeq(Pushed(s), 1, Overflow(s))) : n > seen[s]}

\* It is what OrderedFeed lets a reader lose.
LEMMA PullLoses ==
    ASSUME FeedInv, NEW s \in Streams, Overflows(s)
    PROVE  Feed!Lose(s) /\ lost'[s] \in SUBSET (1 .. released)
BY PullKeeps DEF Overflows, Feed!Lose

\* A stream whose queue the bus fills, and no more.
LEMMA Filled ==
    ASSUME FeedInv, NEW s \in Streams, released' = released, cursor' = released, primed' = TRUE,
           stream'[s] \in Connections, Alike(stream'[s], stream[s]),
           stream'[s].items = Items(s), Overflows(s),
           seen'[s] = seen[s], got'[s] = got[s], StillIn(s)
    PROVE  Advance(s)
<1> DEFINE l2 == lost'[s]
<1>1. /\ Items(s) \in Seq(Numbers) /\ l2 \in SUBSET (1 .. released)
      /\ Backlog(s, Items(s), Base(stream[s]), l2, released, released, s \in subs)
      /\ stream[s].pc \in {"off", "authorised"} => Items(s) = <<>>
    BY PullKeeps DEF Overflows
<1>2. Place(s, stream'[s], seen[s], released) /\ Base(stream'[s]) = Base(stream[s])
    BY <1>1, FactsOf, AlikePlace
<1>3. Backlog(s, stream'[s].items, Base(stream'[s]), l2, cursor', released', s \in subs')
    BY <1>1, <1>2 DEF Backlog, StillIn
<1>4. s \in subs' => primed' /\ ~ stream'[s].closed /\ stream'[s].pc \notin {"off", "authorised"}
    BY FactsOf DEF StillIn, Alike
<1>5. Feed!Lose(s) /\ Feed!Stay(s)
    BY PullLoses DEF Feed!Stay
<1>6. seen'[s] \in 0 .. released' /\ got'[s] \in Seq(Numbers) /\ l2 \in SUBSET (1 .. released')
    BY <1>1, FactsOf
<1> QED
    BY <1>2, <1>3, <1>4, <1>5, <1>6 DEF Advance, KeptAs

\* A client without a subscription.
LEMMA Idle ==
    ASSUME FeedInv, NEW s \in Streams, released' = released, s \notin subs',
           stream'[s] \in Connections, stream'[s].items = <<>>,
           \/ stream'[s].pc = "off"
           \/ stream'[s].pc = "authorised" /\ stream'[s].resume = seen[s] /\ ~ stream'[s].closed,
           seen'[s] = seen[s], got'[s] = got[s], lost'[s] = lost[s]
    PROVE  Advance(s)
<1>1. Place(s, stream'[s], seen'[s], released')
    BY DEF Place
<1>2. Backlog(s, stream'[s].items, Base(stream'[s]), lost'[s], cursor', released', s \in subs')
    BY EmptyBacklog DEF Backlog
<1>3. Feed!Lose(s) /\ Feed!Stay(s)
    BY DEF Feed!Lose, Feed!Stay
<1>4. seen'[s] \in 0 .. released' /\ got'[s] \in Seq(Numbers) /\ lost'[s] \in SUBSET (1 .. released')
    BY FactsOf
<1> QED
    BY <1>1, <1>2, <1>3, <1>4 DEF Advance, KeptAs

\* A step of the feed that keeps the invariant.
Advances == FeedInv' /\ Feed!FeedNext

\* The types of the invariant, of the whole state.
LEMMA WholeFacts ==
    ASSUME FeedInv
    PROVE  /\ released \in Nat /\ MaxSeq \in Nat /\ released \in 0 .. MaxSeq /\ released <= MaxSeq
           /\ cursor \in 0 .. released /\ primed \in BOOLEAN /\ subs \subseteq Streams
           /\ registered \subseteq alive /\ DOMAIN stream = Streams
           /\ stream = [s \in Streams |-> stream[s]] /\ seen = [s \in Streams |-> seen[s]]
           /\ got = [s \in Streams |-> got[s]] /\ lost = [s \in Streams |-> lost[s]]
BY FeedAssumption DEF FeedInv, FeedTypes

\* refresh() fills the queues and touches nothing else of a connection.
LEMMA Refreshing ==
    ASSUME FeedInv
    PROVE  /\ DOMAIN Refreshed = Streams /\ Refreshed = [s \in Streams |-> Refreshed[s]]
           /\ \A s \in Streams :
                 /\ Refreshed[s] = [stream[s] EXCEPT !.items = Items(s)]
                 /\ Refreshed[s] \in Connections /\ Alike(Refreshed[s], stream[s])
                 /\ Refreshed[s].items = Items(s) /\ Refreshed[s].closed = stream[s].closed
                 /\ Refreshed[s].family = stream[s].family
           /\ RefreshBus => /\ cursor' = released /\ primed' = TRUE
                            /\ lost' = [s \in Streams |-> lost'[s]]
                            /\ \A s \in Streams : Overflows(s)
<1>1. ASSUME NEW s \in Streams PROVE Items(s) \in Seq(Numbers)
    <2> DEFINE l2 == lost[s] \cup {n \in ToSet(SubSeq(Pushed(s), 1, Overflow(s))) : n > seen[s]}
    <2> HIDE DEF l2
    <2> QED
        BY PullKeeps DEF l2
<1>2. ASSUME NEW s \in Streams
      PROVE  /\ Refreshed[s] = [stream[s] EXCEPT !.items = Items(s)]
             /\ Refreshed[s] \in Connections /\ Alike(Refreshed[s], stream[s])
             /\ Refreshed[s].items = Items(s) /\ Refreshed[s].closed = stream[s].closed
             /\ Refreshed[s].family = stream[s].family
    <2>1. stream[s] \in Connections
        BY FactsOf
    <2>2. Refreshed[s] = [stream[s] EXCEPT !.items = Items(s)]
        BY DEF Refreshed
    <2> QED
        BY <1>1, <2>1, <2>2 DEF Connections, Alike
<1>3. DOMAIN Refreshed = Streams /\ Refreshed = [s \in Streams |-> Refreshed[s]]
    BY DEF Refreshed
<1>4. ASSUME RefreshBus
      PROVE  /\ cursor' = released /\ primed' = TRUE /\ lost' = [s \in Streams |-> lost'[s]]
             /\ \A s \in Streams : Overflows(s)
    BY <1>4 DEF RefreshBus, Overflows
<1> QED
    BY <1>2, <1>3, <1>4

\* No connection.
LEMMA OffIsConnection == Off \in Connections /\ Off.items = <<>> /\ Off.pc = "off"
BY DEF Off, Connections, Pcs

\* One lemma for each action.
LEMMA AuthorizeAdvances ==
    ASSUME FeedInv, NEW s \in Streams, NEW f \in Families, Authorize(s, f)
    PROVE  Advances
<1>1. /\ stream[s].pc = "off"
      /\ stream' = [stream EXCEPT ![s] = [Off EXCEPT !.pc = "authorised", !.family = f,
                                                     !.resume = seen[s]]]
      /\ UNCHANGED <<released, cursor, primed, subs, alive, registered, seen, got, lost>>
    BY DEF Authorize, busVars, tokenVars, clientVars
<1>2. /\ stream'[s] = [Off EXCEPT !.pc = "authorised", !.family = f, !.resume = seen[s]]
      /\ \A q \in Streams \ {s} : stream'[q] = stream[q]
    BY <1>1, WholeFacts
<1>3. /\ stream'[s] \in Connections /\ stream'[s].pc = "authorised" /\ stream'[s].items = <<>>
      /\ stream'[s].resume = seen[s] /\ ~ stream'[s].closed
    <2>1. stream'[s] = [pc |-> "authorised", family |-> f, resume |-> seen[s], last |-> 0, head |-> 0,
                        pending |-> <<>>, items |-> <<>>, closed |-> FALSE]
        BY <1>2 DEF Off
    <2>2. seen[s] \in Nat /\ f \in Families \cup {0} /\ <<>> \in Seq(Numbers)
        BY FactsOf
    <2> QED
        BY <2>1, <2>2 DEF Connections, Pcs
<1>4. s \notin subs'
    BY <1>1, FactsOf
<1>5. Advance(s)
    BY <1>1, <1>3, <1>4, Idle
<1>6. ASSUME NEW q \in Streams \ {s} PROVE Advance(q)
    BY <1>1, <1>2, WholeFacts, FactsOf, PassedBy DEF Alike, StillIn
<1>7. Around
    BY <1>1, WholeFacts DEF Around
<1> QED
    BY <1>5, <1>6, <1>7, StepOfFeed DEF Advances

LEMMA GiveUpAdvances ==
    ASSUME FeedInv, NEW s \in Streams, GiveUp(s)
    PROVE  Advances
<1>1. /\ stream[s].pc = "authorised" /\ stream' = [stream EXCEPT ![s] = Off]
      /\ UNCHANGED <<released, cursor, primed, subs, alive, registered, seen, got, lost>>
    BY DEF GiveUp, busVars, clientVars
<1>2. stream'[s] = Off /\ \A q \in Streams \ {s} : stream'[q] = stream[q]
    BY <1>1, WholeFacts
<1>3. s \notin subs'
    BY <1>1, FactsOf
<1>4. Advance(s)
    BY <1>1, <1>2, <1>3, OffIsConnection, Idle
<1>5. ASSUME NEW q \in Streams \ {s} PROVE Advance(q)
    BY <1>1, <1>2, WholeFacts, FactsOf, PassedBy DEF Alike, StillIn
<1>6. Around
    BY <1>1, WholeFacts DEF Around
<1> QED
    BY <1>4, <1>5, <1>6, StepOfFeed DEF Advances

LEMMA LeaveAdvances ==
    ASSUME FeedInv, NEW s \in Streams, Leave(s)
    PROVE  Advances
<1>1. /\ subs' = subs \ {s} /\ stream' = [stream EXCEPT ![s] = Off]
      /\ registered' \subseteq registered
      /\ UNCHANGED <<released, cursor, primed, alive, seen, got, lost>>
    BY DEF Leave, clientVars
<1>2. stream'[s] = Off /\ \A q \in Streams \ {s} : stream'[q] = stream[q]
    BY <1>1, WholeFacts
<1>3. Advance(s)
    BY <1>1, <1>2, OffIsConnection, Idle
<1>4. ASSUME NEW q \in Streams \ {s} PROVE Advance(q)
    BY <1>1, <1>2, WholeFacts, FactsOf, PassedBy DEF Alike, StillIn
<1>5. Around
    BY <1>1, WholeFacts DEF Around
<1> QED
    BY <1>3, <1>4, <1>5, StepOfFeed DEF Advances

LEMMA SubscribeAdvances ==
    ASSUME FeedInv, NEW s \in Streams, Subscribe(s)
    PROVE  Advances
<1> DEFINE f == Fam(s)
           calledBack == f \notin unsub /\ f \notin alive
           entered == [Refreshed EXCEPT ![s].pc = "open", ![s].head = released]
           x == stream'[s]
           l2 == lost'[s]
<1>1. /\ stream[s].pc = "authorised" /\ RefreshBus
      /\ subs' = IF calledBack THEN subs \ Subscribers(f) ELSE subs \cup {s}
      /\ stream' = IF calledBack THEN Closed(entered, Subscribers(f) \cup {s}) ELSE entered
      /\ registered' = IF f \notin unsub /\ f \in alive THEN registered \cup {f} ELSE registered
      /\ seen' = IF stream[s].resume = 0 THEN [seen EXCEPT ![s] = released] ELSE seen
      /\ UNCHANGED <<released, alive, got>>
    BY DEF Subscribe
<1>2. /\ cursor' = released /\ primed' = TRUE /\ lost' = [q \in Streams |-> lost'[q]]
      /\ \A q \in Streams : Overflows(q)
    BY <1>1, Refreshing
<1>3. /\ DOMAIN entered = Streams /\ entered = [q \in Streams |-> entered[q]]
      /\ \A q \in Streams \ {s} : entered[q] = Refreshed[q]
      /\ entered[s] = [Refreshed[s] EXCEPT !.pc = "open", !.head = released]
    BY Refreshing
<1> HIDE DEF entered
<1>4. /\ DOMAIN stream' = Streams /\ stream' = [q \in Streams |-> stream'[q]]
      /\ \A q \in Streams : \/ stream'[q] = entered[q]
                            \/ /\ calledBack /\ q \in Subscribers(f) \cup {s}
                               /\ stream'[q] = [entered[q] EXCEPT !.closed = TRUE]
    BY <1>1, <1>3 DEF Closed
<1>5. s \notin subs
    BY <1>1, FactsOf
<1>6. subs' \subseteq Streams /\ registered' \subseteq alive' /\ (s \in subs' => ~ calledBack)
    BY <1>1, <1>5, WholeFacts
<1>7. seen' = [q \in Streams |-> seen'[q]] /\ \A q \in Streams \ {s} : seen'[q] = seen[q]
    BY <1>1, WholeFacts
<1>8. Around
    BY <1>1, <1>2, <1>4, <1>6, <1>7, WholeFacts DEF Around
<1>9. ASSUME NEW q \in Streams \ {s} PROVE Advance(q)
    <2>1. /\ Refreshed[q] \in Connections /\ Alike(Refreshed[q], stream[q])
          /\ Refreshed[q].items = Items(q) /\ Refreshed[q].closed = stream[q].closed
        BY Refreshing
    <2>2. CASE stream'[q] = entered[q]
        <3>1. stream'[q] = Refreshed[q]
            BY <1>3, <2>2
        <3>2. StillIn(q)
            BY <1>1, <2>1, <3>1, FactsOf DEF StillIn
        <3> QED
            BY <1>1, <1>2, <1>7, <2>1, <3>1, <3>2, Filled
    <2>3. CASE /\ calledBack /\ q \in Subscribers(f) \cup {s}
               /\ stream'[q] = [entered[q] EXCEPT !.closed = TRUE]
        <3>1. stream'[q] = [Refreshed[q] EXCEPT !.closed = TRUE]
            BY <1>3, <2>3
        <3>2. q \in subs /\ q \notin subs'
            BY <1>1, <2>3 DEF Subscribers
        <3>3. stream[q].pc # "authorised"
            BY <3>2, FactsOf
        <3>4. /\ stream'[q] \in Connections /\ Alike(stream'[q], stream[q])
              /\ stream'[q].items = Items(q)
            BY <2>1, <3>1, <3>3 DEF Alike, Connections
        <3> QED
            BY <1>1, <1>2, <1>7, <3>2, <3>4, Filled DEF StillIn
    <2> QED
        BY <1>4, <2>2, <2>3
<1>10. Advance(s)
    <2>1. /\ Refreshed[s] \in Connections /\ Alike(Refreshed[s], stream[s])
          /\ Refreshed[s].items = Items(s) /\ Refreshed[s].closed = stream[s].closed
        BY Refreshing
    <2>2. /\ stream[s] \in Connections /\ seen[s] \in 0 .. released /\ ~ stream[s].closed
          /\ stream[s].resume = seen[s] /\ released \in Nat /\ released <= MaxSeq
          /\ got[s] \in Seq(Numbers)
        BY <1>1, FactsOf DEF Place
    <2>3. Items(s) = <<>> /\ Feed!Lose(s) /\ l2 \in SUBSET (1 .. released)
        BY <1>1, <1>2, PullKeeps, PullLoses DEF Overflows
    <2>4. /\ x \in Connections /\ x.pc = "open" /\ x.head = released /\ x.items = <<>>
          /\ x.resume = stream[s].resume /\ (s \in subs' => ~ x.closed)
        <3> DEFINE e == entered[s]
        <3>1. /\ e \in Connections /\ e.pc = "open" /\ e.head = released /\ e.items = <<>>
              /\ e.resume = stream[s].resume /\ ~ e.closed
            BY <1>3, <2>1, <2>2, <2>3 DEF Connections, Pcs, Alike
        <3>2. x = e \/ (calledBack /\ x = [e EXCEPT !.closed = TRUE])
            BY <1>4
        <3> HIDE DEF e
        <3>3. CASE x = e
            BY <3>1, <3>3
        <3>4. CASE calledBack /\ x = [e EXCEPT !.closed = TRUE]
            <4>1. s \notin subs'
                BY <1>6, <3>4
            <4> QED
                BY <3>1, <3>4, <4>1 DEF Connections
        <3> QED
            BY <3>2, <3>3, <3>4
    <2>5. seen'[s] = IF stream[s].resume = 0 THEN released ELSE seen[s]
        BY <1>1, WholeFacts
    <2>6. Place(s, x, seen'[s], released) /\ seen'[s] \in 0 .. released
        BY <2>2, <2>4, <2>5 DEF Place
    <2>7. Backlog(s, x.items, Base(x), l2, released, released, s \in subs')
        <3>1. Base(x) = released
            BY <2>4 DEF Base
        <3>2. UpTo(s, <<>>, released, l2, released)
            <4>1. \A m \in Wanted[s] : m \in Nat
                BY FeedAssumption
            <4> QED
                BY <2>2, <4>1 DEF UpTo
        <3>3. Backlog(s, <<>>, released, l2, released, released, FALSE) /\ Readable(s, <<>>, released)
            BY EmptyBacklog DEF Backlog
        <3> QED
            BY <2>4, <3>1, <3>2, <3>3 DEF Backlog
    <2>8. Feed!Stay(s) \/ \E n \in Numbers : Feed!Rebase(s, n)
        <3>1. CASE seen'[s] = seen[s]
            BY <1>1, <3>1 DEF Feed!Stay
        <3>2. CASE seen'[s] # seen[s]
            <4>1. seen'[s] = released /\ released > seen[s] /\ released \in Numbers
                BY <2>2, <2>5, <3>2 DEF Numbers
            <4> QED
                BY <1>1, <4>1 DEF Feed!Rebase
        <3> QED
            BY <3>1, <3>2
    <2>9. KeptAs(s, x, seen'[s], l2, cursor', released', primed', s \in subs')
        BY <1>1, <1>2, <2>4, <2>6, <2>7 DEF KeptAs
    <2> QED
        BY <1>1, <2>2, <2>3, <2>4, <2>6, <2>8, <2>9 DEF Advance
<1> QED
    BY <1>8, <1>9, <1>10, StepOfFeed DEF Advances

\* A step of one stream that neither pulls from the bus nor leaves it: the
\* others are passed by.
OnlyOf(s) ==
    /\ stream' = [stream EXCEPT ![s] = stream'[s]] /\ seen' = [seen EXCEPT ![s] = seen'[s]]
    /\ got' = [got EXCEPT ![s] = got'[s]]
    /\ UNCHANGED <<released, cursor, primed, subs, alive, registered, lost>>

\* It is one of OrderedFeed if that of the stream is.
LEMMA OwnStep ==
    ASSUME FeedInv, NEW s \in Streams, Advance(s), OnlyOf(s)
    PROVE  Advances
<1>1. ASSUME NEW q \in Streams \ {s}
      PROVE  stream'[q] = stream[q] /\ seen'[q] = seen[q] /\ got'[q] = got[q]
    BY WholeFacts DEF OnlyOf
<1>2. UNCHANGED <<released, cursor, primed, subs, alive, registered, lost>>
    BY DEF OnlyOf
<1>3. ASSUME NEW q \in Streams \ {s} PROVE Advance(q)
    <2>1. stream'[q] \in Connections /\ Alike(stream'[q], stream[q]) /\ StillIn(q)
        BY <1>1, <1>2, FactsOf DEF Alike, StillIn
    <2>2. lost'[q] = lost[q] /\ (q \in subs' => cursor' = cursor /\ primed' = primed)
        BY <1>2
    <2> QED
        BY <1>1, <1>2, <2>1, <2>2, WholeFacts, PassedBy
<1>4. Around
    <2>1. /\ stream' = [q \in Streams |-> stream'[q]] /\ seen' = [q \in Streams |-> seen'[q]]
          /\ got' = [q \in Streams |-> got'[q]]
        BY WholeFacts DEF OnlyOf
    <2> QED
        BY <1>2, <2>1, WholeFacts DEF Around
<1> QED
    BY <1>3, <1>4, StepOfFeed DEF Advances

LEMMA ReplayAdvances ==
    ASSUME FeedInv, NEW s \in Streams, Replay(s)
    PROVE  Advances
<1> DEFINE x == stream[s]
           q == x.pending
<1>1. x.pc = "replay" /\ UNCHANGED <<released, cursor, primed, subs, alive, registered, lost>>
    BY DEF Replay, busVars, tokenVars
<1>2. /\ x \in Connections /\ q \in Seq(Numbers) /\ x.last \in Nat
      /\ seen[s] \in 0 .. released /\ seen[s] \in Nat /\ got[s] \in Seq(Numbers)
      /\ lost[s] \in SUBSET (1 .. released) /\ released \in Nat /\ released <= MaxSeq
      /\ x.last <= released /\ Pending(s, q, seen[s], x.last)
      /\ Backlog(s, x.items, x.last, lost[s], cursor, released, s \in subs)
      /\ s \in subs => primed /\ ~ x.closed
    BY <1>1, FactsOf DEF Place, Connections, Base
<1>3. CASE q = <<>>
    <2>1. /\ stream' = [stream EXCEPT ![s] = [x EXCEPT !.pc = "live"]]
          /\ UNCHANGED <<seen, got>>
        BY <1>3, WholeFacts DEF Replay, clientVars
    <2>2. stream'[s] = [x EXCEPT !.pc = "live"] /\ seen[s] = x.last
        BY <1>2, <1>3, <2>1, WholeFacts DEF Pending
    <2>3. /\ stream'[s] \in Connections /\ stream'[s].pc = "live" /\ stream'[s].last = seen[s]
          /\ stream'[s].items = x.items /\ stream'[s].closed = x.closed
        BY <1>2, <2>2 DEF Connections, Pcs
    <2>4. Place(s, stream'[s], seen[s], released) /\ Base(stream'[s]) = x.last
        BY <2>2, <2>3 DEF Place, Base
    <2>5. KeptAs(s, stream'[s], seen[s], lost[s], cursor, released, primed, s \in subs)
        BY <1>2, <2>3, <2>4 DEF KeptAs
    <2>6. Feed!Lose(s) /\ Feed!Stay(s)
        BY <1>1, <2>1 DEF Feed!Lose, Feed!Stay
    <2>7. Advance(s)
        BY <1>1, <1>2, <2>1, <2>3, <2>5, <2>6 DEF Advance
    <2>8. OnlyOf(s)
        BY <1>1, <2>1, <2>2, WholeFacts DEF OnlyOf
    <2> QED
        BY <2>7, <2>8, OwnStep
<1>4. CASE q # <<>>
    <2> DEFINE n == Head(q)
    <2>1. /\ stream' = [stream EXCEPT ![s] = [x EXCEPT !.pending = Tail(q)]]
          /\ seen' = [seen EXCEPT ![s] = n] /\ got' = [got EXCEPT ![s] = Append(got[s], n)]
        BY <1>4, WholeFacts DEF Replay, Receive
    <2>2. /\ stream'[s] = [x EXCEPT !.pending = Tail(q)]
          /\ seen'[s] = n /\ got'[s] = Append(got[s], n)
        BY <2>1, WholeFacts
    <2>3. /\ n \in Wanted[s] /\ seen[s] < n /\ n <= x.last
          /\ \A m \in Wanted[s] : seen[s] < m => ~ (m < n)
          /\ Pending(s, Tail(q), n, x.last)
        BY <1>2, <1>4, ReplayOne
    <2>4. Tail(q) \in Seq(Numbers) /\ n \in Numbers /\ n \in Nat
        BY <1>2, <1>4, TailOf DEF Pending
    <2>5. /\ stream'[s] \in Connections /\ stream'[s].pc = "replay" /\ stream'[s].last = x.last
          /\ stream'[s].items = x.items /\ stream'[s].closed = x.closed
          /\ stream'[s].pending = Tail(q)
        BY <1>1, <1>2, <2>2, <2>4 DEF Connections
    <2>6. Place(s, stream'[s], n, released) /\ Base(stream'[s]) = x.last
        BY <1>2, <2>3, <2>5 DEF Place, Base
    <2>7. KeptAs(s, stream'[s], n, lost[s], cursor, released, primed, s \in subs)
        BY <1>2, <2>5, <2>6 DEF KeptAs
    <2>8. Feed!Lose(s) /\ Feed!Deliver(s, n)
        <3>1. \A m \in seen[s] + 1 .. n - 1 : m \in Wanted[s] => m \in lost[s]
            BY <1>2, <2>3, <2>4
        <3> QED
            BY <1>1, <2>2, <2>3, <3>1 DEF Feed!Lose, Feed!Deliver
    <2>9. n \in 0 .. released /\ Append(got[s], n) \in Seq(Numbers)
        BY <1>2, <2>3, <2>4
    <2>10. Advance(s)
        BY <1>1, <1>2, <2>2, <2>4, <2>5, <2>7, <2>8, <2>9 DEF Advance
    <2>11. OnlyOf(s)
        BY <1>1, <2>1, <2>2 DEF OnlyOf
    <2> QED
        BY <2>10, <2>11, OwnStep
<1> QED
    BY <1>3, <1>4

LEMMA TakeAdvances ==
    ASSUME FeedInv, NEW s \in Streams, Take(s)
    PROVE  Advances
<1> DEFINE x == stream[s]
           q == x.items
<1>1. x.pc = "waiting" /\ UNCHANGED <<released, cursor, primed, subs, alive, registered, lost>>
    BY DEF Take, busVars, tokenVars
<1>2. /\ x \in Connections /\ q \in Seq(Numbers) /\ x.last \in Nat /\ x.last = seen[s]
      /\ seen[s] \in 0 .. released /\ seen[s] \in Nat /\ got[s] \in Seq(Numbers)
      /\ lost[s] \in SUBSET (1 .. released) /\ released \in Nat /\ released <= MaxSeq
      /\ Backlog(s, q, x.last, lost[s], cursor, released, s \in subs)
      /\ s \in subs => primed /\ ~ x.closed
    BY <1>1, FactsOf DEF Place, Connections, Base
<1>3. CASE q = <<>>
    <2>1. /\ stream' = [stream EXCEPT ![s] = [x EXCEPT !.pc = "live"]]
          /\ UNCHANGED <<seen, got>>
        BY <1>3, WholeFacts DEF Take, clientVars
    <2>2. stream'[s] = [x EXCEPT !.pc = "live"]
        BY <2>1, WholeFacts
    <2>3. /\ stream'[s] \in Connections /\ stream'[s].pc = "live" /\ stream'[s].last = seen[s]
          /\ stream'[s].items = x.items /\ stream'[s].closed = x.closed
        BY <1>2, <2>2 DEF Connections, Pcs
    <2>4. Place(s, stream'[s], seen[s], released) /\ Base(stream'[s]) = x.last
        BY <1>2, <2>2, <2>3 DEF Place, Base
    <2>5. KeptAs(s, stream'[s], seen[s], lost[s], cursor, released, primed, s \in subs)
        BY <1>2, <2>3, <2>4 DEF KeptAs
    <2>6. Feed!Lose(s) /\ Feed!Stay(s)
        BY <1>1, <2>1 DEF Feed!Lose, Feed!Stay
    <2>7. Advance(s)
        BY <1>1, <1>2, <2>1, <2>3, <2>5, <2>6 DEF Advance
    <2>8. OnlyOf(s)
        BY <1>1, <2>1, <2>2, WholeFacts DEF OnlyOf
    <2> QED
        BY <2>7, <2>8, OwnStep
<1>4. CASE q # <<>>
    <2> DEFINE n == Head(q)
               fresh == n > x.last
               d == IF fresh THEN n ELSE x.last
    <2>1. /\ stream' = [stream EXCEPT ![s] = [x EXCEPT !.pc = "live", !.items = Tail(q), !.last = d]]
          /\ seen' = [seen EXCEPT ![s] = d]
          /\ got' = [got EXCEPT ![s] = IF fresh THEN Append(got[s], n) ELSE got[s]]
        <3>1. stream' = [stream EXCEPT ![s] = [x EXCEPT !.pc = "live", !.items = Tail(q), !.last = d]]
            BY <1>4, WholeFacts DEF Take
        <3>2. CASE fresh
            BY <1>4, <3>1, <3>2 DEF Take, Receive
        <3>3. CASE ~ fresh
            BY <1>2, <1>4, <3>1, <3>3, WholeFacts DEF Take, clientVars
        <3> QED
            BY <3>2, <3>3
    <2>2. /\ stream'[s] = [x EXCEPT !.pc = "live", !.items = Tail(q), !.last = d]
          /\ seen'[s] = d /\ got'[s] = IF fresh THEN Append(got[s], n) ELSE got[s]
        BY <2>1, WholeFacts
    <2>3. /\ n \in Wanted[s] /\ n <= released
          /\ \A m \in Wanted[s] : x.last < m /\ m < n => m \in lost[s]
          /\ Backlog(s, Tail(q), d, lost[s], cursor, released, s \in subs)
        <3> DEFINE in == s \in subs
        <3>1. in \in BOOLEAN
            OBVIOUS
        <3> HIDE DEF in
        <3>2. Backlog(s, q, x.last, lost[s], cursor, released, in)
            BY <1>2 DEF in
        <3>3. /\ n \in Wanted[s] /\ n <= released
              /\ \A m \in Wanted[s] : x.last < m /\ m < n => m \in lost[s]
              /\ Backlog(s, Tail(q), d, lost[s], cursor, released, in)
            BY <1>2, <1>4, <3>1, <3>2, TakeOne
        <3> QED
            BY <3>3 DEF in
    <2>4. Tail(q) \in Seq(Numbers) /\ n \in Numbers /\ n \in Nat
        BY <1>2, <1>4, TailOf DEF Backlog
    <2>5. d \in 0 .. released /\ d \in Nat
        BY <1>2, <2>3, <2>4
    <2>6. /\ stream'[s] \in Connections /\ stream'[s].pc = "live" /\ stream'[s].last = d
          /\ stream'[s].items = Tail(q) /\ stream'[s].closed = x.closed
        <3> HIDE DEF d
        <3> QED
            BY <1>2, <2>2, <2>4, <2>5 DEF Connections, Pcs
    <2>7. Place(s, stream'[s], d, released) /\ Base(stream'[s]) = d
        BY <2>6 DEF Place, Base
    <2>8. KeptAs(s, stream'[s], d, lost[s], cursor, released, primed, s \in subs)
        BY <1>2, <2>3, <2>6, <2>7 DEF KeptAs
    <2>9. Feed!Lose(s) /\ (Feed!Stay(s) \/ \E k \in Numbers : Feed!Deliver(s, k))
        <3>1. CASE fresh
            <4>1. \A m \in seen[s] + 1 .. n - 1 : m \in Wanted[s] => m \in lost[s]
                BY <1>2, <2>3, <2>4
            <4>2. Feed!Deliver(s, n)
                BY <1>2, <2>2, <2>3, <3>1, <4>1 DEF Feed!Deliver
            <4> QED
                BY <1>1, <2>4, <4>2 DEF Feed!Lose
        <3>2. CASE ~ fresh
            BY <1>1, <1>2, <2>2, <3>2 DEF Feed!Lose, Feed!Stay
        <3> QED
            BY <3>1, <3>2
    <2>10. got'[s] \in Seq(Numbers)
        BY <1>2, <2>2, <2>4
    <2>11. Advance(s)
        <3> HIDE DEF d
        <3> QED
            BY <1>1, <1>2, <2>2, <2>5, <2>6, <2>8, <2>9, <2>10 DEF Advance
    <2>12. OnlyOf(s)
        BY <1>1, <2>1, <2>2 DEF OnlyOf
    <2> QED
        BY <2>11, <2>12, OwnStep
<1> QED
    BY <1>3, <1>4

LEMMA CheckAdvances ==
    ASSUME FeedInv, NEW s \in Streams, Check(s)
    PROVE  Advances
<1> DEFINE x == stream[s]
<1>1. CASE Leave(s)
    BY <1>1, LeaveAdvances
<1>2. CASE ~ Leave(s)
    <2>1. /\ x.pc = "live" /\ stream' = [stream EXCEPT ![s].pc = "waiting"]
          /\ UNCHANGED <<released, cursor, primed, subs, alive, registered, lost, seen, got>>
        BY <1>2 DEF Check, busVars, tokenVars, clientVars
    <2>2. /\ x \in Connections /\ x.last = seen[s]
          /\ seen[s] \in 0 .. released /\ got[s] \in Seq(Numbers)
          /\ lost[s] \in SUBSET (1 .. released)
          /\ Backlog(s, x.items, x.last, lost[s], cursor, released, s \in subs)
          /\ s \in subs => primed /\ ~ x.closed
        BY <2>1, FactsOf DEF Place, Base
    <2>3. stream' = [stream EXCEPT ![s] = [x EXCEPT !.pc = "waiting"]]
        BY <2>1, WholeFacts
    <2>4. stream'[s] = [x EXCEPT !.pc = "waiting"]
        BY <2>3, WholeFacts
    <2>5. /\ stream'[s] \in Connections /\ stream'[s].pc = "waiting" /\ stream'[s].last = seen[s]
          /\ stream'[s].items = x.items /\ stream'[s].closed = x.closed
        BY <2>2, <2>4 DEF Connections, Pcs
    <2>6. Place(s, stream'[s], seen[s], released) /\ Base(stream'[s]) = x.last
        BY <2>2, <2>5 DEF Place, Base
    <2>7. KeptAs(s, stream'[s], seen[s], lost[s], cursor, released, primed, s \in subs)
        BY <2>2, <2>5, <2>6 DEF KeptAs
    <2>8. Feed!Lose(s) /\ Feed!Stay(s)
        BY <2>1 DEF Feed!Lose, Feed!Stay
    <2>9. Advance(s)
        BY <2>1, <2>2, <2>5, <2>7, <2>8 DEF Advance
    <2>10. OnlyOf(s)
        BY <2>1, <2>3, <2>4, WholeFacts DEF OnlyOf
    <2> QED
        BY <2>9, <2>10, OwnStep
<1> QED
    BY <1>1, <1>2

\* A step in which the bus pulls, and one stream goes on from _resume().
LEMMA PullStep ==
    ASSUME FeedInv, RefreshBus, NEW s \in Streams, Advance(s), NEW x, NEW v,
           stream' = [Refreshed EXCEPT ![s] = x], seen' = [seen EXCEPT ![s] = v],
           UNCHANGED <<released, subs, alive, registered, got>>
    PROVE  Advances
<1>1. /\ cursor' = released /\ primed' = TRUE /\ lost' = [q \in Streams |-> lost'[q]]
      /\ \A q \in Streams :
            /\ Overflows(q) /\ Refreshed[q] \in Connections /\ Alike(Refreshed[q], stream[q])
            /\ Refreshed[q].items = Items(q) /\ Refreshed[q].closed = stream[q].closed
    BY Refreshing
<1>2. /\ DOMAIN stream' = Streams /\ stream' = [q \in Streams |-> stream'[q]]
      /\ seen' = [q \in Streams |-> seen'[q]]
      /\ \A q \in Streams \ {s} : stream'[q] = Refreshed[q] /\ seen'[q] = seen[q]
    BY Refreshing, WholeFacts
<1>3. ASSUME NEW q \in Streams \ {s} PROVE Advance(q)
    <2>1. StillIn(q)
        BY <1>1, <1>2, FactsOf DEF StillIn
    <2> QED
        BY <1>1, <1>2, <2>1, Filled
<1>4. Around
    BY <1>1, <1>2, WholeFacts DEF Around
<1> QED
    BY <1>3, <1>4, StepOfFeed DEF Advances

LEMMA ResumeAdvances ==
    ASSUME FeedInv, NEW s \in Streams, Resume(s)
    PROVE  Advances
<1> DEFINE x == stream[s]
           l2 == lost'[s]
           i2 == Items(s)
           v == seen[s]
<1>1. x.pc = "open" /\ UNCHANGED <<released, subs, alive, registered, got>>
    BY DEF Resume, tokenVars
<1>2. /\ x \in Connections /\ x.head \in Nat /\ x.head <= released /\ x.resume \in Nat
      /\ v \in 0 .. released /\ v \in Nat /\ v <= x.head
      /\ v = IF x.resume = 0 THEN x.head ELSE x.resume
      /\ got[s] \in Seq(Numbers) /\ lost[s] \in SUBSET (1 .. released)
      /\ released \in Nat /\ released <= MaxSeq
      /\ Backlog(s, x.items, x.head, lost[s], cursor, released, s \in subs)
      /\ s \in subs => primed /\ ~ x.closed
    BY <1>1, FactsOf DEF Place, Connections, Base
<1>3. CASE x.resume = 0
    <2>1. /\ stream' = [stream EXCEPT ![s] = [x EXCEPT !.pc = "live", !.last = x.head]]
          /\ UNCHANGED <<cursor, primed, seen, lost>>
        BY <1>3, WholeFacts DEF Resume
    <2>2. stream'[s] = [x EXCEPT !.pc = "live", !.last = x.head] /\ v = x.head
        BY <1>2, <1>3, <2>1, WholeFacts
    <2>3. /\ stream'[s] \in Connections /\ stream'[s].pc = "live" /\ stream'[s].last = v
          /\ stream'[s].items = x.items /\ stream'[s].closed = x.closed
        BY <1>2, <2>2 DEF Connections, Pcs
    <2>4. Place(s, stream'[s], v, released) /\ Base(stream'[s]) = x.head
        BY <2>2, <2>3 DEF Place, Base
    <2>5. KeptAs(s, stream'[s], v, lost[s], cursor, released, primed, s \in subs)
        BY <1>2, <2>3, <2>4 DEF KeptAs
    <2>6. Feed!Lose(s) /\ Feed!Stay(s)
        BY <1>1, <2>1 DEF Feed!Lose, Feed!Stay
    <2>7. Advance(s)
        BY <1>1, <1>2, <2>1, <2>3, <2>5, <2>6 DEF Advance
    <2>8. OnlyOf(s)
        BY <1>1, <2>1, <2>2, WholeFacts DEF OnlyOf
    <2> QED
        BY <2>7, <2>8, OwnStep
<1>4. CASE x.resume # 0
    <2>1. RefreshBus
        BY <1>4 DEF Resume
    <2>2. /\ cursor' = released /\ primed' = TRUE
          /\ i2 \in Seq(Numbers) /\ l2 \in SUBSET (1 .. released)
          /\ Backlog(s, i2, x.head, l2, released, released, s \in subs)
          /\ Feed!Lose(s)
        BY <1>1, <2>1, Refreshing, PullKeeps, PullLoses DEF Overflows, Base
    <2>3. Refreshed[s] = [x EXCEPT !.items = i2] /\ DOMAIN Refreshed = Streams
        BY Refreshing
    <2>4. CASE Oldest # 0 /\ x.resume < Oldest - 1
        <3> DEFINE y == [x EXCEPT !.items = i2, !.pc = "live", !.last = x.head]
        <3>1. /\ stream' = [Refreshed EXCEPT ![s].pc = "live", ![s].last = x.head]
              /\ seen' = [seen EXCEPT ![s] = x.head]
            BY <1>4, <2>4 DEF Resume
        <3>2. stream' = [Refreshed EXCEPT ![s] = y]
            BY <2>3, <3>1
        <3>3. stream'[s] = y /\ seen'[s] = x.head
            BY <2>3, <3>1, <3>2, WholeFacts
        <3>4. /\ stream'[s] \in Connections /\ stream'[s].pc = "live" /\ stream'[s].last = x.head
              /\ stream'[s].items = i2 /\ stream'[s].closed = x.closed
            BY <1>2, <2>2, <3>3 DEF Connections, Pcs
        <3>5. Place(s, stream'[s], x.head, released) /\ Base(stream'[s]) = x.head
            BY <3>4 DEF Place, Base
        <3>6. KeptAs(s, stream'[s], x.head, l2, released, released, TRUE, s \in subs)
            BY <1>2, <2>2, <3>4, <3>5 DEF KeptAs
        <3>7. Feed!Stay(s) \/ \E n \in Numbers : Feed!Rebase(s, n)
            <4>1. CASE x.head = v
                BY <1>1, <3>3, <4>1 DEF Feed!Stay
            <4>2. CASE x.head # v
                <5>1. x.head > v /\ x.head \in Numbers
                    BY <1>2, <4>2, WholeFacts DEF Numbers
                <5> QED
                    BY <1>1, <3>3, <5>1 DEF Feed!Rebase
            <4> QED
                BY <4>1, <4>2
        <3>8. x.head \in 0 .. released /\ got'[s] \in Seq(Numbers)
            BY <1>1, <1>2
        <3> HIDE DEF y
        <3>9. Advance(s)
            BY <1>1, <2>2, <3>3, <3>4, <3>6, <3>7, <3>8 DEF Advance
        <3> QED
            BY <1>1, <2>1, <3>1, <3>2, <3>9, PullStep
    <2>5. CASE ~ (Oldest # 0 /\ x.resume < Oldest - 1)
        <3> DEFINE missed == WantedSeq(s, x.resume, released)
                   last == IF missed = <<>> THEN x.resume ELSE Last(missed)
                   y == [x EXCEPT !.items = i2, !.pc = "replay", !.pending = missed, !.last = last]
        <3>1. /\ stream' = [Refreshed EXCEPT ![s].pc = "replay", ![s].pending = missed, ![s].last = last]
              /\ seen' = seen
            BY <1>4, <2>5, Zenon DEF Resume
        <3>2. /\ missed \in Seq(Numbers) /\ last \in Nat /\ last <= released
              /\ Pending(s, missed, v, last)
              /\ \A m \in Wanted[s] : last < m => ~ (m <= released)
            BY <1>2, <1>4, MissedIsPending
        <3> HIDE DEF missed, last
        <3>3. stream' = [Refreshed EXCEPT ![s] = y]
            BY <2>3, <3>1
        <3>4. stream'[s] = y /\ seen'[s] = v
            BY <2>3, <3>1, <3>3
        <3>5. /\ stream'[s] \in Connections /\ stream'[s].pc = "replay" /\ stream'[s].last = last
              /\ stream'[s].items = i2 /\ stream'[s].closed = x.closed
              /\ stream'[s].pending = missed
            BY <1>2, <2>2, <3>2, <3>4 DEF Connections, Pcs
        <3>6. Place(s, stream'[s], v, released) /\ Base(stream'[s]) = last
            BY <3>2, <3>5 DEF Place, Base
        <3>7. Backlog(s, i2, last, l2, released, released, s \in subs)
            <4>1. UpTo(s, i2, last, l2, released)
                BY <3>2 DEF UpTo
            <4>2. Gapless(s, i2, last, l2)
                <5>1. Readable(s, i2, released)
                    BY <2>2 DEF Backlog
                <5>2. \A m \in Wanted[s] : m \in Nat
                    BY FeedAssumption
                <5>3. ASSUME NEW i \in DOMAIN i2, NEW m \in Wanted[s], last < m, m < i2[i] PROVE FALSE
                    <6>1. i2[i] \in Nat /\ i2[i] <= released /\ m \in Nat
                        BY <5>1, <5>2 DEF Readable
                    <6>2. m <= released
                        BY <1>2, <5>3, <6>1
                    <6> QED
                        BY <3>2, <5>3, <6>2
                <5> QED
                    BY <5>3 DEF Gapless
            <4> QED
                BY <2>2, <4>1, <4>2 DEF Backlog
        <3>8. KeptAs(s, stream'[s], v, l2, released, released, TRUE, s \in subs)
            BY <1>2, <3>5, <3>6, <3>7 DEF KeptAs
        <3>9. Feed!Stay(s)
            BY <1>1, <3>4 DEF Feed!Stay
        <3>10. Advance(s)
            BY <1>1, <1>2, <2>2, <3>4, <3>5, <3>8, <3>9 DEF Advance
        <3>11. seen' = [seen EXCEPT ![s] = v]
            BY <3>1, WholeFacts
        <3> HIDE DEF y
        <3> QED
            BY <1>1, <2>1, <3>3, <3>10, <3>11, PullStep
    <2> QED
        BY <2>4, <2>5
<1> QED
    BY <1>2, <1>3, <1>4

LEMMA PumpAdvances ==
    ASSUME FeedInv, Pump
    PROVE  Advances
<1>1. RefreshBus /\ stream' = Refreshed /\ UNCHANGED <<released, subs, alive, registered, seen, got>>
    BY DEF Pump, tokenVars, clientVars
<1>2. /\ cursor' = released /\ primed' = TRUE /\ lost' = [q \in Streams |-> lost'[q]]
      /\ \A q \in Streams :
            /\ Overflows(q) /\ Refreshed[q] \in Connections /\ Alike(Refreshed[q], stream[q])
            /\ Refreshed[q].items = Items(q) /\ Refreshed[q].closed = stream[q].closed
    BY <1>1, Refreshing
<1>3. ASSUME NEW q \in Streams PROVE Advance(q)
    <2>1. StillIn(q)
        BY <1>1, <1>2, FactsOf DEF StillIn
    <2> QED
        BY <1>1, <1>2, <2>1, Filled
<1>4. Around
    BY <1>1, <1>2, WholeFacts, Refreshing DEF Around
<1> QED
    BY <1>3, <1>4, StepOfFeed DEF Advances

\* Steps that close subscriptions at most, and take those closed off the bus.
Closing ==
    /\ released' \in 0 .. MaxSeq /\ released <= released'
    /\ cursor' \in 0 .. released' /\ primed' \in BOOLEAN /\ registered' \subseteq alive'
    /\ subs' \subseteq subs /\ (subs' = {} \/ UNCHANGED <<cursor, primed>>)
    /\ \/ UNCHANGED stream
       \/ \E S : S \subseteq subs /\ subs' \cap S = {} /\ stream' = Closed(stream, S)
    /\ UNCHANGED <<seen, got, lost>>

LEMMA ClosingAdvances ==
    ASSUME FeedInv, Closing
    PROVE  Advances
<1>1. /\ DOMAIN stream' = Streams /\ stream' = [q \in Streams |-> stream'[q]]
      /\ \A q \in Streams : \/ stream'[q] = stream[q]
                            \/ /\ q \in subs /\ q \notin subs'
                               /\ stream'[q] = [stream[q] EXCEPT !.closed = TRUE]
    BY WholeFacts DEF Closing, Closed
<1>2. ASSUME NEW q \in Streams PROVE Advance(q)
    <2>1. /\ released' \in Nat /\ released <= released' /\ released' <= MaxSeq
          /\ q \in subs' => cursor' = cursor /\ primed' = primed
          /\ q \in subs' => q \in subs
          /\ seen'[q] = seen[q] /\ got'[q] = got[q] /\ lost'[q] = lost[q]
        BY WholeFacts DEF Closing
    <2>2. CASE stream'[q] = stream[q]
        <3>1. stream'[q] \in Connections /\ Alike(stream'[q], stream[q]) /\ StillIn(q)
            BY <2>1, <2>2, FactsOf DEF Alike, StillIn
        <3> QED
            BY <2>1, <2>2, <3>1, PassedBy
    <2>3. CASE q \in subs /\ q \notin subs' /\ stream'[q] = [stream[q] EXCEPT !.closed = TRUE]
        <3>1. stream[q] \in Connections /\ stream[q].pc # "authorised"
            BY <2>3, FactsOf
        <3>2. /\ stream'[q] \in Connections /\ Alike(stream'[q], stream[q]) /\ StillIn(q)
              /\ stream'[q].items = stream[q].items
            BY <2>3, <3>1 DEF Alike, StillIn, Connections
        <3> QED
            BY <2>1, <3>2, PassedBy
    <2> QED
        BY <1>1, <2>2, <2>3
<1>3. Around
    BY <1>1, WholeFacts DEF Closing, Around
<1> QED
    BY <1>2, <1>3, StepOfFeed DEF Advances

\* They are the release of a detection, a sign-in, a revocation, a reset.
LEMMA OthersClose ==
    ASSUME FeedInv
    PROVE  /\ Release => Closing
           /\ \A f \in Families : Login(f) => Closing
           /\ \A f \in Families : Revoke(f) => Closing
           /\ Reset => Closing
<1>1. ASSUME Release PROVE Closing
    BY <1>1, WholeFacts DEF Release, Closing, busVars, tokenVars, clientVars
<1>2. ASSUME NEW f \in Families, Login(f) PROVE Closing
    BY <1>2, WholeFacts DEF Login, Closing, busVars, clientVars
<1>3. ASSUME NEW f \in Families, Revoke(f) PROVE Closing
    <2>1. /\ alive' = alive \ {f} /\ UNCHANGED <<released, cursor, primed, seen, got, lost>>
          /\ \/ /\ stream' = Closed(stream, Subscribers(f)) /\ subs' = subs \ Subscribers(f)
                /\ registered' = registered \ {f}
             \/ f \notin registered /\ UNCHANGED <<stream, subs, registered>>
        BY <1>3 DEF Revoke, clientVars
    <2>2. Subscribers(f) \subseteq subs
        BY DEF Subscribers
    <2>3. registered' \subseteq alive' /\ subs' \subseteq subs
        BY <2>1, WholeFacts
    <2>4. \/ UNCHANGED stream
          \/ \E S : S \subseteq subs /\ subs' \cap S = {} /\ stream' = Closed(stream, S)
        <3>1. CASE stream' = Closed(stream, Subscribers(f)) /\ subs' = subs \ Subscribers(f)
            <4>1. subs' \cap Subscribers(f) = {}
                BY <3>1
            <4> QED
                BY <2>2, <3>1, <4>1
        <3> QED
            BY <2>1, <3>1
    <2> QED
        BY <2>1, <2>3, <2>4, WholeFacts DEF Closing
<1>4. ASSUME Reset PROVE Closing
    <2>1. stream' = Closed(stream, subs) /\ subs' \cap subs = {} /\ subs \subseteq subs
        BY <1>4 DEF Reset
    <2>2. \/ UNCHANGED stream
          \/ \E S : S \subseteq subs /\ subs' \cap S = {} /\ stream' = Closed(stream, S)
        BY <2>1
    <2>3. /\ released' = released /\ cursor' = 0 /\ primed' = FALSE
          /\ registered' = {} /\ subs' = {} /\ UNCHANGED <<seen, got, lost>>
        BY <1>4 DEF Reset, clientVars
    <2> QED
        <3>1. /\ released' \in 0 .. MaxSeq /\ released <= released' /\ cursor' \in 0 .. released'
              /\ primed' \in BOOLEAN /\ subs' \subseteq subs /\ registered' \subseteq alive'
            <4>1. released' \in 0 .. MaxSeq /\ released <= released' /\ cursor' \in 0 .. released'
                BY <2>3, WholeFacts
            <4>2. primed' \in BOOLEAN
                BY <2>3, Zenon
            <4> QED
                BY <2>3, <4>1, <4>2
        <3>2. (subs' = {} \/ UNCHANGED <<cursor, primed>>) /\ UNCHANGED <<seen, got, lost>>
            BY <2>3
        <3> QED
            BY <2>2, <3>1, <3>2, Zenon DEF Closing
<1> QED
    BY <1>1, <1>2, <1>3, <1>4

\* Every step of the feed is one of OrderedFeed, or none.
LEMMA FeedStep ==
    ASSUME FeedInv, [DetectionNext]_detectionVars
    PROVE  FeedInv' /\ [Feed!FeedNext]_(Feed!feedVars)
<1>1. ASSUME NEW s \in Streams, Serve(s) PROVE Advances
    BY <1>1, SubscribeAdvances, ResumeAdvances, ReplayAdvances, CheckAdvances, TakeAdvances DEF Serve
<1>2. ASSUME NEW s \in Streams, End(s) \/ GiveUp(s) PROVE Advances
    BY <1>2, LeaveAdvances, GiveUpAdvances DEF End
<1>3. ASSUME NEW s \in Streams, NEW f \in Families, Authorize(s, f) PROVE Advances
    BY <1>3, AuthorizeAdvances
<1>4. ASSUME NEW f \in Families, Login(f) \/ Revoke(f) PROVE Advances
    <2>1. Closing
        BY <1>4, OthersClose
    <2> QED
        BY <2>1, ClosingAdvances
<1>5. ASSUME Release \/ Pump \/ Reset PROVE Advances
    <2>1. Closing \/ Pump
        BY <1>5, OthersClose
    <2> QED
        BY <2>1, ClosingAdvances, PumpAdvances
<1>6. CASE DetectionNext
    <2>1. Advances
        BY <1>1, <1>2, <1>3, <1>4, <1>5, <1>6 DEF DetectionNext
    <2> QED
        BY <2>1 DEF Advances
<1>7. CASE UNCHANGED detectionVars
    <2>1. FeedInv'
        BY <1>7 DEF detectionVars, busVars, tokenVars, clientVars, FeedInv, FeedTypes, Kept
    <2> QED
        BY <1>7, <2>1 DEF detectionVars, clientVars, Feed!feedVars
<1> QED
    BY <1>6, <1>7

\* The feed starts as OrderedFeed does.
LEMMA FeedStart == DetectionInit => FeedInv /\ Feed!FeedInit
<1> SUFFICES ASSUME DetectionInit PROVE FeedInv /\ Feed!FeedInit
    OBVIOUS
<1>1. /\ released = 0 /\ cursor = 0 /\ primed = FALSE /\ subs = {} /\ registered = {} /\ alive = {}
      /\ stream = [s \in Streams |-> Off] /\ seen = [s \in Streams |-> 0]
      /\ got = [s \in Streams |-> <<>>] /\ lost = [s \in Streams |-> {}]
    BY DEF DetectionInit
<1>2. FeedTypes
    <2>1. stream \in [Streams -> Connections] /\ got \in [Streams -> Seq(Numbers)]
        BY <1>1, OffIsConnection
    <2>2. seen \in [Streams -> 0 .. released] /\ lost \in [Streams -> SUBSET (1 .. released)]
        BY <1>1
    <2>3. released \in 0 .. MaxSeq /\ cursor \in 0 .. released
        BY <1>1, FeedAssumption
    <2> QED
        BY <1>1, <2>1, <2>2, <2>3 DEF FeedTypes
<1>3. ASSUME NEW s \in Streams PROVE Kept(s)
    <2>1. Place(s, stream[s], seen[s], released) /\ stream[s].items = <<>> /\ s \notin subs
        BY <1>1, OffIsConnection DEF Place
    <2>2. Backlog(s, stream[s].items, Base(stream[s]), lost[s], cursor, released, s \in subs)
        BY <2>1, EmptyBacklog DEF Backlog
    <2> QED
        BY <2>1, <2>2 DEF Kept, KeptAs
<1>4. Feed!FeedInit
    BY <1>1 DEF Feed!FeedInit
<1> QED
    BY <1>2, <1>3, <1>4 DEF FeedInv

\* The invariant always holds.
LEMMA FeedInvariant == DetectionSpec => []FeedInv
BY FeedStart, FeedStep, PTL DEF DetectionSpec

\* The bus, the streams and their clients implement OrderedFeed: whatever is
\* interleaved with the replay, with reconnections, overflows, revocations and
\* resets, a client gets what it wants once, in order and without gaps.
THEOREM FeedIsKept == DetectionSpec => FeedKept
BY FeedStart, FeedStep, FeedInvariant, PTL DEF DetectionSpec, FeedKept, Feed!FeedSpec

-----------------------------------------------------------------------------
\* The bus and the token store.
Registered ==
    /\ unsub \subseteq Families /\ alive \subseteq opened /\ haunted \subseteq opened
    /\ unsub \cap alive \subseteq registered \cup haunted /\ registered \subseteq unsub
Subscribed ==
    /\ DOMAIN stream = Streams /\ subs \subseteq Streams
    /\ \A s \in Streams :
          /\ {"pc", "family", "closed"} \subseteq DOMAIN stream[s]
          /\ stream[s].pc # "off" => Fam(s) \in Families /\ (s \notin lapsed => Fam(s) \in opened)
    /\ \A s \in subs : /\ stream[s].pc \notin {"off", "authorised"}
                       /\ Fam(s) \in unsub
\* Stale or not, an unsubscribe is there for a stream that will give it back.
Held == \A f \in unsub : Connected(f) # {}
CallbacksInv == Registered /\ Subscribed /\ Held

\* A step that keeps the families of the streams, and takes none back to
\* before its subscription, leaves the subscribed ones so.
Follows(s) ==
    /\ {"pc", "family", "closed"} \subseteq DOMAIN stream'[s]
    /\ stream'[s].pc # "off" => /\ stream'[s].family \in Families
                                /\ s \notin lapsed' => stream'[s].family \in opened'
    /\ s \in subs' => /\ stream'[s].pc \notin {"off", "authorised"}
                      /\ stream'[s].family \in unsub'

LEMMA FollowingStaysSubscribed ==
    ASSUME DOMAIN stream' = Streams, subs' \subseteq Streams, \A s \in Streams : Follows(s)
    PROVE  Subscribed'
BY DEF Follows, Subscribed, Fam

\* Nor does a step that lets go of no connected stream leave a new
\* unsubscribe without one.
LEMMA ConnectedStayHeld ==
    ASSUME Held, unsub' \subseteq unsub,
           \A s \in Streams :
              stream[s].pc \notin {"off", "authorised"} =>
                 /\ stream'[s].pc \notin {"off", "authorised"}
                 /\ stream'[s].family = stream[s].family
    PROVE  Held'
BY DEF Held, Connected, Fam

\* Pulling detections changes the queues only.
LEMMA RefreshedStream ==
    ASSUME Subscribed, NEW s \in Streams
    PROVE  /\ DOMAIN Refreshed = Streams /\ DOMAIN Refreshed[s] = DOMAIN stream[s]
           /\ Refreshed[s].pc = stream[s].pc /\ Refreshed[s].family = stream[s].family
           /\ Refreshed[s].closed = stream[s].closed
BY DEF Refreshed, Subscribed

\* A stream that leaves.
LEMMA LeaveKeeps ==
    ASSUME CallbacksInv, NEW s \in Streams, Leave(s)
    PROVE  CallbacksInv'
<1>1. /\ subs' = subs \ {s} /\ stream' = [stream EXCEPT ![s] = Off]
      /\ lapsed' = lapsed \ {s} /\ UNCHANGED <<alive, opened, haunted>>
      /\ \/ /\ Subscribers(Fam(s)) \subseteq {s}
            /\ unsub' = unsub \ {Fam(s)} /\ registered' = registered \ {Fam(s)}
         \/ ~ (Subscribers(Fam(s)) \subseteq {s}) /\ UNCHANGED <<unsub, registered>>
    BY DEF Leave
<1>2. Registered'
    BY <1>1 DEF CallbacksInv, Registered
<1>3. ASSUME NEW q \in Streams PROVE Follows(q)
    <2>1. CASE q = s
        BY <1>1, <2>1 DEF CallbacksInv, Subscribed, Off, Follows
    <2>2. CASE q # s
        BY <1>1, <2>2 DEF CallbacksInv, Subscribed, Subscribers, Follows, Fam
    <2> QED
        BY <2>1, <2>2
<1>4. Held'
    <2> SUFFICES ASSUME NEW f \in unsub'
                 PROVE  \E q \in Streams \ {s} : Fam(q) = f /\ stream[q].pc \notin {"off", "authorised"}
        BY <1>1 DEF CallbacksInv, Subscribed, Held, Connected, Fam
    <2>1. PICK q \in Streams : Fam(q) = f /\ stream[q].pc \notin {"off", "authorised"}
        BY <1>1 DEF CallbacksInv, Held, Connected
    <2>2. CASE f # Fam(s)
        BY <2>1, <2>2
    <2>3. CASE f = Fam(s)
        BY <1>1, <2>3 DEF CallbacksInv, Subscribed, Subscribers
    <2> QED
        BY <2>2, <2>3
<1> QED
    BY <1>1, <1>2, <1>3, <1>4, FollowingStaysSubscribed DEF CallbacksInv, Subscribed

LEMMA CallbacksStep ==
    ASSUME CallbacksInv, [DetectionNext]_detectionVars
    PROVE  CallbacksInv'
<1>1. /\ DOMAIN stream = Streams /\ subs \subseteq Streams /\ Registered /\ Held
      /\ \A s \in Streams :
            /\ {"pc", "family", "closed"} \subseteq DOMAIN stream[s]
            /\ stream[s].pc # "off" =>
                  stream[s].family \in Families /\ (s \notin lapsed => stream[s].family \in opened)
      /\ \A s \in subs : stream[s].pc \notin {"off", "authorised"} /\ stream[s].family \in unsub
    BY DEF CallbacksInv, Subscribed, Fam
\* Steps of one stream that is, or comes to be, beyond its subscription.
<1>2. ASSUME UNCHANGED <<subs, unsub, tokenVars>>, DOMAIN stream' = Streams,
             NEW s \in Streams, stream'[s].family = stream[s].family,
             DOMAIN stream'[s] = DOMAIN stream[s], stream[s].pc # "off",
             stream'[s].pc \notin {"off", "authorised"},
             \A q \in Streams \ {s} :
                /\ DOMAIN stream'[q] = DOMAIN stream[q]
                /\ stream'[q].pc = stream[q].pc /\ stream'[q].family = stream[q].family
      PROVE  CallbacksInv'
    <2>1. ASSUME NEW q \in Streams PROVE Follows(q)
        BY <1>1, <1>2 DEF Follows, tokenVars
    <2>2. Registered'
        BY <1>1, <1>2 DEF Registered, tokenVars
    <2>3. Held'
        BY <1>1, <1>2, ConnectedStayHeld
    <2> QED
        BY <1>1, <1>2, <2>1, <2>2, <2>3, FollowingStaysSubscribed DEF CallbacksInv
<1>3. ASSUME NEW s \in Streams, Subscribe(s) PROVE CallbacksInv'
    <2> DEFINE f == Fam(s)
               calledBack == f \notin unsub /\ f \notin alive
               entered == [Refreshed EXCEPT ![s].pc = "open", ![s].head = released]
    <2>1. /\ subs' = IF calledBack THEN subs \ Subscribers(f) ELSE subs \cup {s}
          /\ stream' = IF calledBack THEN Closed(entered, Subscribers(f) \cup {s}) ELSE entered
          /\ unsub' = unsub \cup {f}
          /\ registered' = IF f \notin unsub /\ f \in alive THEN registered \cup {f} ELSE registered
          /\ stream[s].pc = "authorised" /\ UNCHANGED <<alive, opened, lapsed, haunted>>
        BY <1>3 DEF Subscribe
    <2>2. f \in Families /\ s \notin subs /\ (calledBack => Subscribers(f) = {})
        BY <1>1, <1>3 DEF Subscribe, Fam, Subscribers
    <2>3. Registered'
        BY <1>1, <2>1, <2>2 DEF Registered
    <2>4. /\ DOMAIN entered = Streams
          /\ \A q \in Streams :
                /\ DOMAIN entered[q] = DOMAIN stream[q] /\ entered[q].family = stream[q].family
                /\ entered[q].pc = IF q = s THEN "open" ELSE stream[q].pc
        BY <1>1, RefreshedStream DEF CallbacksInv
    <2> HIDE DEF entered
    <2>5. /\ DOMAIN stream' = Streams
          /\ \A q \in Streams :
                /\ DOMAIN stream'[q] = DOMAIN stream[q] /\ stream'[q].family = stream[q].family
                /\ stream'[q].pc = IF q = s THEN "open" ELSE stream[q].pc
        BY <1>1, <2>1, <2>4 DEF Closed
    <2>6. subs' \subseteq Streams /\ \A q \in subs' : q = s \/ q \in subs
        BY <1>1, <2>1
    <2>7. ASSUME NEW q \in Streams PROVE Follows(q)
        BY <1>1, <2>1, <2>2, <2>5, <2>6 DEF Follows, Fam
    <2>8. Held'
        <3> SUFFICES ASSUME NEW g \in unsub'
                     PROVE  \E q \in Streams : /\ stream'[q].family = g
                                               /\ stream'[q].pc \notin {"off", "authorised"}
            BY DEF Held, Connected, Fam
        <3>1. CASE g = f
            BY <2>5, <3>1 DEF Fam
        <3>2. CASE g \in unsub
            BY <1>1, <2>5, <3>2 DEF Held, Connected, Fam
        <3> QED
            BY <2>1, <3>1, <3>2
    <2> QED
        BY <2>3, <2>5, <2>6, <2>7, <2>8, FollowingStaysSubscribed DEF CallbacksInv
<1>4. ASSUME NEW s \in Streams, Resume(s) PROVE CallbacksInv'
    <2> DEFINE missed == WantedSeq(s, stream[s].resume, released)
    <2>1. /\ UNCHANGED <<subs, unsub, tokenVars>> /\ stream[s].pc = "open"
          /\ \/ stream' = [stream EXCEPT ![s].pc = "live", ![s].last = stream[s].head]
             \/ stream' = [Refreshed EXCEPT ![s].pc = "live", ![s].last = stream[s].head]
             \/ \E last : stream' = [Refreshed EXCEPT ![s].pc = "replay", ![s].pending = missed,
                                                      ![s].last = last]
        BY <1>4, Zenon DEF Resume
    <2> HIDE DEF missed
    <2>2. /\ DOMAIN Refreshed = Streams
          /\ \A q \in Streams :
                /\ DOMAIN Refreshed[q] = DOMAIN stream[q]
                /\ Refreshed[q].pc = stream[q].pc /\ Refreshed[q].family = stream[q].family
        BY RefreshedStream DEF CallbacksInv
    <2>3. /\ DOMAIN stream' = Streams
          /\ \A q \in Streams :
                /\ DOMAIN stream'[q] = DOMAIN stream[q] /\ stream'[q].family = stream[q].family
                /\ q # s => stream'[q].pc = stream[q].pc
          /\ stream'[s].pc \in {"live", "replay"}
        BY <1>1, <2>1, <2>2
    <2> QED
        BY <1>2, <2>1, <2>3
<1>5. ASSUME NEW s \in Streams, Replay(s) PROVE CallbacksInv'
    <2>1. /\ UNCHANGED <<subs, unsub, tokenVars>> /\ stream[s].pc = "replay"
          /\ \/ stream' = [stream EXCEPT ![s].pc = "live"]
             \/ stream' = [stream EXCEPT ![s].pending = Tail(@)]
        BY <1>5 DEF Replay, busVars
    <2> QED
        BY <1>1, <1>2, <2>1
<1>6. ASSUME NEW s \in Streams, Check(s) PROVE CallbacksInv'
    <2>1. CASE Leave(s)
        BY <2>1, LeaveKeeps
    <2>2. CASE ~ Leave(s)
        BY <1>1, <1>2, <1>6, <2>2 DEF Check, busVars
    <2> QED
        BY <2>1, <2>2
<1>7. ASSUME NEW s \in Streams, Take(s) PROVE CallbacksInv'
    <2>1. /\ UNCHANGED <<subs, unsub, tokenVars>> /\ stream[s].pc = "waiting"
          /\ \/ stream' = [stream EXCEPT ![s].pc = "live"]
             \/ \E last : stream' = [stream EXCEPT ![s].pc = "live", ![s].items = Tail(@),
                                                   ![s].last = last]
        BY <1>7, Zenon DEF Take, busVars
    <2> QED
        BY <1>1, <1>2, <2>1
<1>8. ASSUME NEW s \in Streams, End(s) PROVE CallbacksInv'
    BY <1>8, LeaveKeeps DEF End
\* Steps before the subscription of a stream.
<1>9. ASSUME NEW s \in Streams, NEW f \in Families, Authorize(s, f)
      PROVE  CallbacksInv'
    <2>1. /\ stream' = [stream EXCEPT ![s] = stream'[s]] /\ UNCHANGED <<busVars, tokenVars>>
          /\ {"pc", "family", "closed"} \subseteq DOMAIN stream'[s]
          /\ stream'[s].pc = "authorised" /\ stream'[s].family = f /\ f \in opened
          /\ s \notin subs /\ stream[s].pc = "off"
        BY <1>1, <1>9 DEF Authorize, Off, Registered
    <2>2. \A q \in Streams : Follows(q)
        BY <1>1, <2>1 DEF Follows, busVars, tokenVars
    <2>3. DOMAIN stream' = Streams /\ subs' \subseteq Streams /\ Registered'
        BY <1>1, <2>1 DEF Registered, busVars, tokenVars
    <2>4. Held'
        BY <1>1, <2>1, ConnectedStayHeld DEF busVars
    <2> QED
        BY <2>2, <2>3, <2>4, FollowingStaysSubscribed DEF CallbacksInv
<1>10. ASSUME NEW s \in Streams, GiveUp(s) PROVE CallbacksInv'
    <2>1. /\ stream' = [stream EXCEPT ![s] = Off] /\ lapsed' = lapsed \ {s}
          /\ UNCHANGED <<busVars, alive, opened, registered, haunted>>
          /\ s \notin subs /\ stream[s].pc = "authorised"
        BY <1>1, <1>10 DEF GiveUp
    <2>2. \A q \in Streams : Follows(q)
        BY <1>1, <2>1 DEF Follows, Off, busVars
    <2>3. DOMAIN stream' = Streams /\ subs' \subseteq Streams /\ Registered'
        BY <1>1, <2>1 DEF Registered, busVars
    <2>4. Held'
        BY <1>1, <2>1, ConnectedStayHeld DEF busVars
    <2> QED
        BY <2>2, <2>3, <2>4, FollowingStaysSubscribed DEF CallbacksInv
<1>11. ASSUME Release \/ Pump \/ UNCHANGED detectionVars PROVE CallbacksInv'
    <2>1. UNCHANGED <<subs, unsub, tokenVars>> /\ (stream' = stream \/ stream' = Refreshed)
        BY <1>11 DEF Release, Pump, detectionVars, busVars
    <2>2. /\ DOMAIN stream' = Streams
          /\ \A q \in Streams :
                /\ DOMAIN stream'[q] = DOMAIN stream[q]
                /\ stream'[q].pc = stream[q].pc /\ stream'[q].family = stream[q].family
        <3>1. CASE stream' = stream
            BY <1>1, <3>1
        <3>2. CASE stream' = Refreshed
            BY <1>1, <3>2, RefreshedStream DEF CallbacksInv, Refreshed
        <3> QED
            BY <2>1, <3>1, <3>2
    <2>3. Registered' /\ \A q \in Streams : Follows(q)
        BY <1>1, <2>1, <2>2 DEF Registered, Follows, tokenVars
    <2>4. Held'
        BY <1>1, <2>1, <2>2, ConnectedStayHeld
    <2> QED
        BY <1>1, <2>1, <2>2, <2>3, <2>4, FollowingStaysSubscribed DEF CallbacksInv
<1>12. ASSUME NEW f \in Families, Login(f) PROVE CallbacksInv'
    <2>1. /\ f \notin opened /\ alive' = alive \cup {f} /\ opened' = opened \cup {f}
          /\ haunted' = IF Connected(f) = {} THEN haunted ELSE haunted \cup {f}
          /\ UNCHANGED <<subs, unsub, registered, lapsed, stream>>
        BY <1>12 DEF Login, busVars
    \* If the bus still holds an unsubscribe for the id, the family is haunted.
    <2>2. f \in unsub => f \in haunted'
        BY <1>1, <2>1 DEF Held
    <2>3. Registered' /\ \A q \in Streams : Follows(q)
        BY <1>1, <2>1, <2>2 DEF Registered, Follows
    <2>4. Held'
        BY <1>1, <2>1, ConnectedStayHeld
    <2> QED
        BY <1>1, <2>1, <2>3, <2>4, FollowingStaysSubscribed DEF CallbacksInv
<1>13. ASSUME NEW S, NEW q \in Streams
       PROVE  /\ DOMAIN Closed(stream, S) = Streams
              /\ DOMAIN Closed(stream, S)[q] = DOMAIN stream[q]
              /\ Closed(stream, S)[q].pc = stream[q].pc
              /\ Closed(stream, S)[q].family = stream[q].family
    BY <1>1 DEF Closed
<1>14. ASSUME NEW f \in Families, Revoke(f) PROVE CallbacksInv'
    <2>1. /\ f \in alive /\ alive' = alive \ {f} /\ UNCHANGED <<opened, lapsed, haunted>>
          /\ \/ /\ stream' = Closed(stream, Subscribers(f)) /\ subs' = subs \ Subscribers(f)
                /\ unsub' = unsub \ {f} /\ registered' = registered \ {f}
             \/ UNCHANGED <<stream, subs, unsub, registered>>
        BY <1>14 DEF Revoke
    <2>2. Registered' /\ subs' \subseteq Streams /\ DOMAIN stream' = Streams
        BY <1>1, <2>1 DEF Registered, Closed
    <2>3. ASSUME NEW q \in Streams PROVE Follows(q)
        BY <1>1, <1>13, <2>1 DEF Follows, Subscribers, Fam
    <2>4. Held'
        BY <1>1, <1>13, <2>1, ConnectedStayHeld
    <2> QED
        BY <2>2, <2>3, <2>4, FollowingStaysSubscribed DEF CallbacksInv
<1>15. CASE Reset
    <2>1. /\ stream' = Closed(stream, subs)
          /\ lapsed' = {s \in Streams : stream[s].pc # "off"}
          /\ subs' = {} /\ unsub' = {} /\ registered' = {}
          /\ alive' = {} /\ opened' = {} /\ haunted' = {}
        BY <1>15 DEF Reset
    <2>2. Registered' /\ subs' \subseteq Streams /\ DOMAIN stream' = Streams
        BY <2>1 DEF Registered, Closed
    <2>3. ASSUME NEW q \in Streams PROVE Follows(q)
        BY <1>1, <1>13, <2>1 DEF Follows
    <2>4. Held'
        BY <2>1 DEF Held
    <2> QED
        BY <2>2, <2>3, <2>4, FollowingStaysSubscribed DEF CallbacksInv
<1> QED
    BY <1>3, <1>4, <1>5, <1>6, <1>7, <1>8, <1>9, <1>10, <1>11, <1>12, <1>14, <1>15
    DEF DetectionNext, Serve

LEMMA CallbacksInvariant == DetectionSpec => []CallbacksInv
<1>1. DetectionInit => CallbacksInv
    BY DEF DetectionInit, CallbacksInv, Registered, Subscribed, Held, Fam, Off
<1> QED
    BY <1>1, CallbacksStep, PTL DEF DetectionSpec

\* A revocation takes along every stream subscribed while its family was
\* alive (DetectionBus._family_revoked, close_family and the reset), over
\* resets that hand its id out again, unless a stream of an earlier login with
\* that id was still connected when the family was opened.
THEOREM RevocationClosesStreams == DetectionSpec => RevocationCloses
<1> DEFINE Closes == \A f \in alive \ (alive' \cup haunted') : ClosedBy(f, subs)
<1>1. ASSUME CallbacksInv, [DetectionNext]_detectionVars PROVE [Closes]_detectionVars
    <2> SUFFICES ASSUME NEW f \in alive, f \notin alive', f \notin haunted', NEW s \in subs, Fam(s) = f
                 PROVE  stream'[s].closed /\ s \notin subs'
        BY DEF ClosedBy
    <2>1. /\ s \in Streams /\ "closed" \in DOMAIN stream[s]
          /\ f \in registered \cup haunted /\ s \in Subscribers(f)
        BY <1>1 DEF CallbacksInv, Registered, Subscribed, Subscribers
    <2>2. (\E g \in Families : Revoke(g)) \/ Reset
        <3>1. ~ UNCHANGED alive
            OBVIOUS
        <3>2. \A r \in Streams : ~ Serve(r) /\ ~ End(r) /\ ~ GiveUp(r) /\ \A g \in Families : ~ Authorize(r, g)
            BY <3>1, Zenon DEF Serve, Subscribe, Resume, Replay, Check, Take, End, Leave, GiveUp, Authorize,
                        tokenVars
        <3>3. (\A g \in Families : ~ Login(g)) /\ ~ Release /\ ~ Pump /\ ~ UNCHANGED detectionVars
            BY <3>1 DEF Login, Release, Pump, detectionVars, tokenVars
        <3> QED
            BY <1>1, <3>2, <3>3 DEF DetectionNext
    <2>3. ASSUME NEW g \in Families, Revoke(g) PROVE stream'[s].closed /\ s \notin subs'
        BY <2>1, <2>3 DEF Revoke, Closed
    <2>4. CASE Reset
        BY <2>1, <2>4 DEF Reset, Closed
    <2> QED
        BY <2>2, <2>3, <2>4
<1> QED
    BY <1>1, CallbacksInvariant, PTL DEF DetectionSpec, RevocationCloses

\* The types: a callback the token store holds is that of a live family, for
\* which the bus holds the unsubscribe, a stream's family is one opened since
\* the last reset unless the stream is older, and a queue stays within its size.
THEOREM DetectionTyped == DetectionSpec => []DetectionTypeOK
<1> DEFINE Known == opened \subseteq Families
<1>1. DetectionInit => Known
    BY DEF DetectionInit
<1>2. Known /\ [DetectionNext]_detectionVars => Known'
    <2> SUFFICES ASSUME Known, [DetectionNext]_detectionVars PROVE Known'
        OBVIOUS
    <2>1. UNCHANGED opened \/ opened' = {} \/ \E f \in Families : opened' = opened \cup {f}
        BY DEF DetectionNext, detectionVars, busVars, tokenVars, Serve, Subscribe, Resume, Replay, Check, Take,
               End, Leave, GiveUp, Authorize, Login, Revoke, Release, Pump, Reset
    <2> QED
        BY <2>1
<1>3. FeedInv /\ CallbacksInv /\ Known => DetectionTypeOK
    <2> SUFFICES ASSUME FeedInv, CallbacksInv, Known PROVE DetectionTypeOK
        OBVIOUS
    <2>1. ASSUME NEW s \in Streams
          PROVE  /\ stream[s].pc \in Pcs /\ Len(stream[s].items) <= QueueSize
                 /\ s \in subs => stream[s].pc \notin {"off", "authorised"} /\ ~ stream[s].closed
                 /\ seen[s] \in 0 .. released /\ lost[s] \subseteq 1 .. released
                 /\ stream[s].pc # "off" => Fam(s) \in IF s \in lapsed THEN Families ELSE opened
        BY FactsOf DEF Connections, Backlog, CallbacksInv, Subscribed
    <2>2. /\ released \in 0 .. MaxSeq /\ cursor \in 0 .. released /\ primed \in BOOLEAN
          /\ subs \subseteq Streams /\ registered \subseteq alive
        BY DEF FeedInv, FeedTypes
    <2> QED
        BY <2>1, <2>2 DEF DetectionTypeOK, CallbacksInv, Registered, Pcs
<1> QED
    BY <1>1, <1>2, <1>3, FeedInvariant, CallbacksInvariant, PTL DEF DetectionSpec

\* So no client receives a detection twice or after a later one, over all
\* its connections to this feed.
Ordered == INSTANCE OrderedFeedProofs WITH Readers <- Streams

THEOREM FeedNeverRepeats == DetectionSpec => []Feed!InOrderOnce
<1>1. Feed!FeedInit => Ordered!FeedInit
    BY DEF Feed!FeedInit, Ordered!FeedInit
<1>2. [Feed!FeedNext]_(Feed!feedVars) => [Ordered!FeedNext]_(Ordered!feedVars)
    BY DEF Feed!FeedNext, Feed!feedVars, Feed!Lose, Feed!Stay, Feed!Deliver, Feed!Rebase,
           Ordered!FeedNext, Ordered!feedVars, Ordered!Lose, Ordered!Stay, Ordered!Deliver, Ordered!Rebase
<1>3. Ordered!InOrderOnce => Feed!InOrderOnce
    BY DEF Feed!InOrderOnce, Ordered!InOrderOnce
<1>4. Ordered!FeedSpec => []Ordered!InOrderOnce
    BY Ordered!FeedIsOrdered
<1> QED
    BY <1>1, <1>2, <1>3, <1>4, FeedIsKept, PTL DEF FeedKept, Feed!FeedSpec, Ordered!FeedSpec
=============================================================================
