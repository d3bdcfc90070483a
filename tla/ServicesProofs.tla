--------------------------- MODULE ServicesProofs ---------------------------
(***************************************************************************)
(* What the services promise a caller.                                     *)
(*                                                                         *)
(* No caller gets more than the limit in any window and no address fails   *)
(* more often, for any buckets, callers, addresses and number of keys; and *)
(* whoever waits for as long as it was told is let in.  What is remembered *)
(* under a key is compared with what really happened: they differ as lists *)
(* of times, for keys are dropped and trimmed, but agree on the window     *)
(* (Agree), now and ever after.                                            *)
(*                                                                         *)
(* Related sessions come once each, for any sessions, windows and size of  *)
(* a page: what was related at first and has not been given yet lies       *)
(* behind the cursor (Between), and nothing that has been given does.      *)
(*                                                                         *)
(* What the observer holds against a client stays: a ring is written in    *)
(* the order of time (Timed), so a log that has grown (Grown) has what it  *)
(* had and one record behind it, and no check but three can then improve.  *)
(*                                                                         *)
(* The table of results is a beginning of the rows found, in any order,    *)
(* whichever pages are fetched or refetched while the search runs: what is *)
(* stored, and what a fetch or a refetch set out from, links up from the   *)
(* first row on (Linked), and stays so because rows are only added.        *)
(*                                                                         *)
(* The types of the three are theorems too.  They count: the keys that are *)
(* tracked (Counted), the records of a log that is trimmed at one end      *)
(* (Counts, where what is dropped and what is added balance), and the rows *)
(* that are shown, which are never more than were seen (Showing).          *)
(*                                                                         *)
(* An upload with one file reads the same however it is cut: between two   *)
(* handlers the scanner is in the middle of the file as it has come so far *)
(* (MidScan), each handler that goes on leaves less to do (Left), so       *)
(* the loop ends with the scanner at rest (AtRest), waiting for bytes that *)
(* have not come.  What it says then is what the records say that lie      *)
(* within what has come, since records lie one behind the other.           *)
(*                                                                         *)
(* A packet file is a conversation: each segment starts where its side's   *)
(* stream is, which is what its packets have carried so far (Reassembles); *)
(* the time between two packets is the same (StampedFlow); and what is     *)
(* sent is, at each stage and unless the file is full, what the protocol   *)
(* has said so far, and then what the row lacks beyond it (Staged).        *)
(*                                                                         *)
(* All the services together keep the types of each: the one that moves    *)
(* does what it does on its own (PartsAlone), and the others stay.         *)
(***************************************************************************)
EXTENDS Services, WorkspaceProofs, NaturalsInduction

\* Times in the order in which they were noted, none later than a moment.
Log(s, at) ==
    /\ s \in Seq(Int)
    /\ \A i \in 1 .. Len(s) : s[i] <= at
    /\ \A i, j \in 1 .. Len(s) : i <= j => s[i] <= s[j]

-----------------------------------------------------------------------------
\* The loop stops at one place only.
LEMMA PassedAt ==
    ASSUME NEW s \in Seq(Int), NEW at \in Int, NEW span \in Int
    PROVE  LET n == Passed(s, at, span)
           IN /\ n \in 0 .. Len(s)
              /\ \A i \in 1 .. n : at - s[i] >= span
              /\ n < Len(s) => at - s[n + 1] < span
<1> DEFINE S == {n \in 0 .. Len(s) : n < Len(s) => at - s[n + 1] < span}
<1>1. S \in SUBSET Nat /\ Len(s) \in S /\ \A i \in 1 .. Len(s) : s[i] \in Int
    OBVIOUS
<1>2. PICK n \in S : \A m \in S : n <= m
    BY <1>1, LeastOf
<1>3. ASSUME NEW i \in 1 .. n PROVE at - s[i] >= span
    <2>0. n \in 0 .. Len(s) /\ Len(s) \in Nat
        OBVIOUS
    <2>1. i - 1 \notin S /\ i - 1 \in 0 .. Len(s) /\ i - 1 < Len(s)
        <3>1. ~ (n <= i - 1) /\ i - 1 \in 0 .. Len(s) /\ i - 1 < Len(s)
            BY <2>0
        <3> HIDE DEF S
        <3> QED
            BY <1>2, <3>1
    <2>2. (i - 1) + 1 = i /\ s[i] \in Int
        BY <1>1, <1>2
    <2> QED
        BY <2>1, <2>2
<1>4. \E k \in 0 .. Len(s) : /\ \A i \in 1 .. k : at - s[i] >= span
                             /\ k < Len(s) => at - s[k + 1] < span
    BY <1>2, <1>3
<1> HIDE DEF S
<1> QED
    BY <1>4, Zenon DEF Passed

LEMMA PassedOnce ==
    ASSUME NEW s \in Seq(Int), NEW at \in Int, NEW span \in Int, NEW n \in 0 .. Len(s),
           \A i \in 1 .. n : at - s[i] >= span,
           n < Len(s) => at - s[n + 1] < span
    PROVE  Passed(s, at, span) = n
<1> DEFINE p == Passed(s, at, span)
<1>1. /\ p \in 0 .. Len(s)
      /\ \A i \in 1 .. p : at - s[i] >= span
      /\ p < Len(s) => at - s[p + 1] < span
    BY PassedAt
<1>2. \A i \in 1 .. Len(s) : s[i] \in Int
    OBVIOUS
<1> HIDE DEF p
<1>3. ~ p < n
    <2> SUFFICES ASSUME p < n PROVE FALSE
        OBVIOUS
    <2>1. p + 1 \in 1 .. n /\ p + 1 \in 1 .. Len(s)
        BY <1>1
    <2> QED
        BY <1>1, <1>2, <2>1
<1>4. ~ n < p
    <2> SUFFICES ASSUME n < p PROVE FALSE
        OBVIOUS
    <2>1. n + 1 \in 1 .. p /\ n + 1 \in 1 .. Len(s)
        BY <1>1
    <2> QED
        BY <1>1, <1>2, <2>1
<1>5. p = n
    BY <1>1, <1>3, <1>4
<1> QED
    BY <1>5 DEF p

\* What it leaves: the later part of the log, all of it inside the window.
LEMMA LeftIs ==
    ASSUME NEW s, NEW tk \in Int, Log(s, tk), NEW at \in Int, NEW span \in Int
    PROVE  LET n == Passed(s, at, span)  l == LeftAt(s, at, span)
           IN /\ n \in 0 .. Len(s) /\ l \in Seq(Int) /\ Len(l) = Len(s) - n
              /\ \A i \in 1 .. Len(s) - n : l[i] = s[n + i]
<1> DEFINE n == Passed(s, at, span)
<1>1. n \in 0 .. Len(s) /\ s \in Seq(Int)
    BY PassedAt DEF Log
<1> HIDE DEF n
<1>2. n + 1 \in Int /\ Len(s) \in Int /\ \A i \in n + 1 .. Len(s) : s[i] \in Int
    BY <1>1
<1>3. /\ SubSeq(s, n + 1, Len(s)) \in Seq(Int)
      /\ Len(SubSeq(s, n + 1, Len(s))) = IF n + 1 <= Len(s) THEN Len(s) - (n + 1) + 1 ELSE 0
      /\ \A i \in 1 .. Len(s) - (n + 1) + 1 : SubSeq(s, n + 1, Len(s))[i] = s[n + 1 + i - 1]
    BY <1>2, SubSeqProperties
<1>4. LeftAt(s, at, span) = SubSeq(s, n + 1, Len(s))
    BY DEF LeftAt, n
<1>5. \A i \in 1 .. Len(s) - n : n + 1 + i - 1 = n + i /\ i \in 1 .. Len(s) - (n + 1) + 1
    BY <1>1
<1>6. Len(LeftAt(s, at, span)) = Len(s) - n
    BY <1>1, <1>3, <1>4
<1>7. \A i \in 1 .. Len(s) - n : LeftAt(s, at, span)[i] = s[n + i]
    BY <1>3, <1>4, <1>5
<1> QED
    BY <1>1, <1>3, <1>4, <1>6, <1>7 DEF n

LEMMA LeftIsLog ==
    ASSUME NEW s, NEW tk \in Int, Log(s, tk), NEW at \in Int, NEW span \in Int
    PROVE  /\ Log(LeftAt(s, at, span), tk)
           /\ \A i \in 1 .. Len(LeftAt(s, at, span)) : at - LeftAt(s, at, span)[i] < span
           /\ Len(LeftAt(s, at, span)) <= Len(s)
<1> DEFINE n == Passed(s, at, span)
           l == LeftAt(s, at, span)
<1>1. /\ n \in 0 .. Len(s) /\ l \in Seq(Int) /\ Len(l) = Len(s) - n
      /\ \A i \in 1 .. Len(s) - n : l[i] = s[n + i]
    BY LeftIs
<1>2. n < Len(s) => at - s[n + 1] < span
    BY PassedAt DEF Log
<1> HIDE DEF n, l
<1>3. /\ s \in Seq(Int) /\ \A i \in 1 .. Len(s) : s[i] <= tk /\ s[i] \in Int
      /\ \A i, j \in 1 .. Len(s) : i <= j => s[i] <= s[j]
    BY DEF Log
<1>4. \A i \in 1 .. Len(l) : n + i \in 1 .. Len(s) /\ n + 1 \in 1 .. Len(s) /\ n + 1 <= n + i /\ l[i] = s[n + i]
    <2>1. Len(s) \in Nat /\ n \in Nat /\ n <= Len(s) /\ Len(l) = Len(s) - n
        BY <1>1
    <2>2. \A i \in 1 .. Len(l) : i \in 1 .. Len(s) - n
        BY <2>1
    <2> QED
        BY <1>1, <2>1, <2>2
<1>5. \A i \in 1 .. Len(l) : l[i] <= tk /\ at - l[i] < span
    <2> TAKE i \in 1 .. Len(l)
    <2>1. s[n + 1] <= s[n + i] /\ s[n + i] <= tk /\ s[n + i] \in Int /\ s[n + 1] \in Int
        BY <1>3, <1>4
    <2>2. n < Len(s)
        BY <1>1, <1>4
    <2> QED
        BY <1>2, <1>4, <2>1, <2>2
<1>6. \A i, j \in 1 .. Len(l) : i <= j => l[i] <= l[j]
    <2> SUFFICES ASSUME NEW i \in 1 .. Len(l), NEW j \in 1 .. Len(l), i <= j PROVE l[i] <= l[j]
        OBVIOUS
    <2>1. n + i <= n + j
        BY <1>1
    <2> QED
        BY <1>3, <1>4, <2>1
<1>7. Log(l, tk) /\ Len(l) <= Len(s)
    BY <1>1, <1>5, <1>6 DEF Log
<1> QED
    BY <1>5, <1>7 DEF l

\* A log that lies in the window is left alone; of one that lies outside, nothing is left.
LEMMA AllLeft ==
    ASSUME NEW s, NEW tk \in Int, Log(s, tk), NEW at \in Int, NEW span \in Int,
           Len(s) > 0 => at - s[1] < span
    PROVE  LeftAt(s, at, span) = s
<1>1. Passed(s, at, span) = 0
    BY PassedOnce DEF Log
<1>2. /\ LeftAt(s, at, span) \in Seq(Int) /\ Len(LeftAt(s, at, span)) = Len(s)
      /\ \A i \in 1 .. Len(s) : LeftAt(s, at, span)[i] = s[i]
    <2>1. /\ LeftAt(s, at, span) \in Seq(Int) /\ Len(LeftAt(s, at, span)) = Len(s) - 0
          /\ \A i \in 1 .. Len(s) - 0 : LeftAt(s, at, span)[i] = s[0 + i]
        BY <1>1, LeftIs
    <2>2. s \in Seq(Int)
        BY DEF Log
    <2>3. Len(s) - 0 = Len(s) /\ \A i \in 1 .. Len(s) : 0 + i = i
        BY <2>2
    <2> QED
        BY <2>1, <2>3
<1> QED
    BY <1>2, SeqEqual DEF Log

LEMMA NoneLeft ==
    ASSUME NEW s, NEW tk \in Int, Log(s, tk), NEW at \in Int, NEW span \in Int,
           Len(s) > 0 => at - s[Len(s)] >= span
    PROVE  LeftAt(s, at, span) = <<>>
<1>1. s \in Seq(Int) /\ Len(s) \in Nat
    BY DEF Log
<1>2. \A i \in 1 .. Len(s) : at - s[i] >= span
    <2> TAKE i \in 1 .. Len(s)
    <2>1. s[i] <= s[Len(s)] /\ s[i] \in Int /\ s[Len(s)] \in Int
        BY <1>1 DEF Log
    <2> QED
        BY <1>1, <2>1
<1>3. Passed(s, at, span) = Len(s)
    <2>1. Len(s) \in 0 .. Len(s) /\ ~ (Len(s) < Len(s))
        BY <1>1
    <2> QED
        BY <1>1, <1>2, <2>1, PassedOnce
<1> QED
    BY <1>1, <1>3, SubSeqEmpty DEF LeftAt

\* To drop at once is to drop first what is old now and the rest later.
LEMMA LeftTwice ==
    ASSUME NEW s, NEW tk \in Int, Log(s, tk), NEW at \in Int, NEW span \in Int,
           NEW then \in Int, at <= then
    PROVE  LeftAt(LeftAt(s, at, span), then, span) = LeftAt(s, then, span)
<1> DEFINE n == Passed(s, at, span)
           m == Passed(s, then, span)
           l == LeftAt(s, at, span)
           r == LeftAt(s, then, span)
           t == LeftAt(l, then, span)
<1>1. /\ n \in 0 .. Len(s) /\ l \in Seq(Int) /\ Len(l) = Len(s) - n
      /\ \A i \in 1 .. Len(s) - n : l[i] = s[n + i]
    BY LeftIs
<1>2. /\ m \in 0 .. Len(s) /\ r \in Seq(Int) /\ Len(r) = Len(s) - m
      /\ \A i \in 1 .. Len(s) - m : r[i] = s[m + i]
    BY LeftIs
<1>3. /\ \A i \in 1 .. n : at - s[i] >= span
      /\ \A i \in 1 .. m : then - s[i] >= span
      /\ m < Len(s) => then - s[m + 1] < span
    BY PassedAt DEF Log
<1>4. Log(l, tk)
    BY LeftIsLog
<1>5. LET k == Passed(l, then, span)
      IN /\ k \in 0 .. Len(l) /\ t \in Seq(Int) /\ Len(t) = Len(l) - k
         /\ \A i \in 1 .. Len(l) - k : t[i] = l[k + i]
    BY <1>4, LeftIs
<1> HIDE DEF n, m, l, r, t
<1>6. s \in Seq(Int) /\ \A i \in 1 .. Len(s) : s[i] \in Int
    BY DEF Log
<1>7. n <= m
    <2> SUFFICES ASSUME m < n PROVE FALSE
        BY <1>1, <1>2
    <2>1. m + 1 \in 1 .. n /\ m < Len(s) /\ m + 1 \in 1 .. Len(s)
        BY <1>1, <1>2
    <2> QED
        BY <1>3, <1>6, <2>1
<1>8. \A i \in 1 .. m - n : then - l[i] >= span
    <2> TAKE i \in 1 .. m - n
    <2>0. n \in Nat /\ m \in Nat /\ m <= Len(s) /\ Len(s) \in Nat
        BY <1>1, <1>2, <1>6
    <2>1. n + i \in 1 .. m /\ i \in 1 .. Len(s) - n
        BY <1>7, <2>0
    <2>2. l[i] = s[n + i]
        BY <1>1, <2>1
    <2> QED
        BY <1>3, <2>1, <2>2
<1>9. m - n < Len(l) => then - l[(m - n) + 1] < span
    <2> SUFFICES ASSUME m - n < Len(l) PROVE then - l[(m - n) + 1] < span
        OBVIOUS
    <2>0. n \in Nat /\ m \in Nat /\ Len(s) \in Nat /\ Len(l) = Len(s) - n
        BY <1>1, <1>2, <1>6
    <2>1. m < Len(s) /\ (m - n) + 1 \in 1 .. Len(s) - n /\ n + ((m - n) + 1) = m + 1
        BY <1>7, <2>0
    <2>2. l[(m - n) + 1] = s[m + 1]
        <3>1. PICK i : i = (m - n) + 1
            OBVIOUS
        <3>2. l[i] = s[n + i]
            BY <1>1, <2>1, <3>1
        <3> QED
            BY <2>1, <3>1, <3>2
    <2> QED
        BY <1>3, <2>1, <2>2
<1>10. Passed(l, then, span) = m - n /\ m - n \in 0 .. Len(l)
    <2>1. m - n \in 0 .. Len(l)
        BY <1>1, <1>2, <1>7
    <2> QED
        BY <1>1, <1>8, <1>9, <2>1, PassedOnce
<1>11. t \in Seq(Int) /\ Len(t) = Len(r)
    BY <1>1, <1>2, <1>5, <1>10
<1>12. \A i \in 1 .. Len(t) : t[i] = r[i]
    <2> TAKE i \in 1 .. Len(t)
    <2>0. /\ n \in Nat /\ m \in Nat /\ m <= Len(s) /\ Len(s) \in Nat
          /\ Len(l) = Len(s) - n /\ Len(t) = Len(s) - m
        BY <1>1, <1>2, <1>6, <1>11
    <2>1. /\ i \in 1 .. Len(l) - (m - n) /\ i \in 1 .. Len(s) - m
          /\ (m - n) + i \in 1 .. Len(s) - n /\ n + ((m - n) + i) = m + i
        BY <1>7, <2>0
    <2>2. t[i] = l[(m - n) + i]
        BY <1>5, <1>10, <2>1
    <2> QED
        BY <1>1, <1>2, <2>1, <2>2
<1>13. t = r
    BY <1>2, <1>11, <1>12, SeqEqual
<1> QED
    BY <1>13 DEF t, r, l

\* A time noted now stays at the end of what is left now.
LEMMA LeftWithNow ==
    ASSUME NEW s, NEW at \in Int, Log(s, at), NEW span \in Int, span > 0
    PROVE  /\ Log(Append(s, at), at)
           /\ LeftAt(Append(s, at), at, span) = Append(LeftAt(s, at, span), at)
<1> DEFINE n == Passed(s, at, span)
           l == LeftAt(s, at, span)
           a == Append(s, at)
           t == LeftAt(a, at, span)
           b == Append(l, at)
<1>1. /\ n \in 0 .. Len(s) /\ l \in Seq(Int) /\ Len(l) = Len(s) - n
      /\ \A i \in 1 .. Len(s) - n : l[i] = s[n + i]
    BY LeftIs
<1>2. /\ \A i \in 1 .. n : at - s[i] >= span
      /\ n < Len(s) => at - s[n + 1] < span
    BY PassedAt DEF Log
<1>3. /\ s \in Seq(Int) /\ \A i \in 1 .. Len(s) : s[i] \in Int /\ s[i] <= at
      /\ \A i, j \in 1 .. Len(s) : i <= j => s[i] <= s[j]
    BY DEF Log
<1>4. /\ a \in Seq(Int) /\ Len(a) = Len(s) + 1 /\ a[Len(s) + 1] = at
      /\ \A i \in 1 .. Len(s) : a[i] = s[i]
    BY <1>3, AppendProperties
<1>5. /\ b \in Seq(Int) /\ Len(b) = Len(l) + 1 /\ b[Len(l) + 1] = at
      /\ \A i \in 1 .. Len(l) : b[i] = l[i]
    BY <1>1, AppendProperties
<1> HIDE DEF n, l, a, b
<1>6. Log(a, at)
    <2>1. \A i \in 1 .. Len(a) : a[i] <= at
        <3> TAKE i \in 1 .. Len(a)
        <3>1. i \in 1 .. Len(s) \/ i = Len(s) + 1
            BY <1>3, <1>4
        <3> QED
            BY <1>3, <1>4, <3>1
    <2>2. \A i, j \in 1 .. Len(a) : i <= j => a[i] <= a[j]
        <3> SUFFICES ASSUME NEW i \in 1 .. Len(a), NEW j \in 1 .. Len(a), i <= j PROVE a[i] <= a[j]
            OBVIOUS
        <3>1. CASE j = Len(s) + 1
            BY <1>4, <2>1, <3>1
        <3>2. CASE j # Len(s) + 1
            <4>1. i \in 1 .. Len(s) /\ j \in 1 .. Len(s)
                BY <1>3, <1>4, <3>2
            <4> QED
                BY <1>3, <1>4, <4>1
        <3> QED
            BY <3>1, <3>2
    <2> QED
        BY <1>4, <2>1, <2>2 DEF Log
<1>7. Passed(a, at, span) = n
    <2>1. n \in 0 .. Len(a) /\ \A i \in 1 .. n : i \in 1 .. Len(s)
        BY <1>1, <1>3, <1>4
    <2>2. \A i \in 1 .. n : at - a[i] >= span
        BY <1>2, <1>4, <2>1
    <2>3. n < Len(a) => at - a[n + 1] < span
        <3>1. CASE n < Len(s)
            <4>1. n + 1 \in 1 .. Len(s)
                BY <1>1, <1>3, <3>1
            <4> QED
                BY <1>2, <1>4, <3>1, <4>1
        <3>2. CASE n = Len(s)
            BY <1>4, <3>2
        <3> QED
            BY <1>1, <1>3, <3>1, <3>2
    <2> QED
        BY <1>4, <2>1, <2>2, <2>3, PassedOnce
<1>8. t \in Seq(Int) /\ Len(t) = Len(a) - n /\ \A i \in 1 .. Len(a) - n : t[i] = a[n + i]
    BY <1>6, <1>7, LeftIs
<1> HIDE DEF t
<1>9. Len(t) = Len(b)
    BY <1>1, <1>3, <1>4, <1>5, <1>8
<1>10. \A i \in 1 .. Len(t) : t[i] = b[i]
    <2> TAKE i \in 1 .. Len(t)
    <2>1. t[i] = a[n + i]
        BY <1>8
    <2>2. CASE i \in 1 .. Len(l)
        <3>1. n + i \in 1 .. Len(s) /\ i \in 1 .. Len(s) - n
            BY <1>1, <1>3, <2>2
        <3> QED
            BY <1>1, <1>4, <1>5, <2>1, <2>2, <3>1
    <2>3. CASE i = Len(l) + 1
        <3>1. n + i = Len(s) + 1
            BY <1>1, <1>3, <2>3
        <3> QED
            BY <1>4, <1>5, <2>1, <2>3, <3>1
    <2>4. i \in 1 .. Len(l) \/ i = Len(l) + 1
        BY <1>1, <1>5, <1>9
    <2> QED
        BY <2>2, <2>3, <2>4
<1>11. t = b
    BY <1>5, <1>8, <1>9, <1>10, SeqEqual
<1> QED
    BY <1>6, <1>11 DEF t, b, a, l

-----------------------------------------------------------------------------
\* What is remembered under a key or an address, and what really happened,
\* agree on the window; no more than the limit is remembered.
Agree(short, long, span) == LeftAt(short, tick, span) = LeftAt(long, tick, span)
HitsKept(k) ==
    /\ Log(Times(hits, k), tick) /\ Log(Times(granted, k), tick)
    /\ Len(Times(hits, k)) <= Most[k[1]] /\ Len(Times(granted, k)) <= Most[k[1]]
    /\ Agree(Times(hits, k), Times(granted, k), Span[k[1]])
Sparse(s) == \A i \in 1 .. Len(s) - MaxFailures : s[i + MaxFailures] - s[i] >= LoginSpan
FailuresKept(a) ==
    /\ Log(Times(failures, a), tick) /\ Log(Times(failed, a), tick)
    /\ Len(Times(failures, a)) <= MaxFailures
    /\ Agree(Times(failures, a), Times(failed, a), LoginSpan)
    /\ Sparse(Times(failed, a))
Tracks ==
    /\ DOMAIN hits \subseteq Buckets \X Callers /\ DOMAIN granted \subseteq Buckets \X Callers
    /\ \A k \in Buckets \X Callers : HitsKept(k)
Attempts ==
    /\ DOMAIN failures \subseteq Addresses /\ DOMAIN failed \subseteq Addresses
    /\ \A a \in Addresses : FailuresKept(a)
LimitsInv == tick \in Nat /\ Tracks /\ Attempts

LEMMA EmptyLog ==
    ASSUME NEW at \in Int, NEW span \in Int
    PROVE  Log(<<>>, at) /\ LeftAt(<<>>, at, span) = <<>>
<1>1. <<>> \in Seq(Int) /\ Len(<<>>) = 0
    BY EmptySeq
<1>2. Log(<<>>, at)
    BY <1>1 DEF Log
<1>3. ~ (Len(<<>>) > 0)
    BY <1>1
<1> QED
    BY <1>2, <1>3, AllLeft

LEMMA KeysCount ==
    ASSUME NEW k \in Buckets \X Callers
    PROVE  /\ k[1] \in Buckets /\ k[2] \in Callers /\ k = <<k[1], k[2]>>
           /\ Span[k[1]] \in Nat /\ Span[k[1]] > 0 /\ Most[k[1]] \in Nat /\ Most[k[1]] > 0
           /\ IdleAge \in Nat /\ IdleAge >= Span[k[1]]
BY LimitsAssumption DEF LimitsAssumption

\* Dropping idle keys loses nothing of any window.
LEMMA TrackedTells ==
    ASSUME LimitsInv, NEW k \in Buckets \X Callers
    PROVE  LET s == Times(Tracked(hits), k)
           IN /\ Log(s, tick) /\ Len(s) <= Most[k[1]]
              /\ LeftAt(s, tick, Span[k[1]]) = LeftAt(Times(hits, k), tick, Span[k[1]])
<1> DEFINE h == Times(hits, k)
<1>1. /\ tick \in Int /\ Span[k[1]] \in Int /\ Most[k[1]] \in Nat /\ IdleAge \in Nat
      /\ IdleAge >= Span[k[1]]
    BY KeysCount DEF LimitsInv
<1>2. Log(h, tick) /\ Len(h) <= Most[k[1]]
    BY DEF LimitsInv, Tracks, HitsKept
<1>3. \/ Times(Tracked(hits), k) = h
      \/ /\ Times(Tracked(hits), k) = <<>>
         /\ k \in DOMAIN hits => h = <<>> \/ ~ (tick - Last(h) < IdleAge)
         /\ k \notin DOMAIN hits => h = <<>>
    BY DEF Tracked, Times
<1>4. CASE Times(Tracked(hits), k) = h
    BY <1>2, <1>4
<1>5. CASE /\ Times(Tracked(hits), k) = <<>>
           /\ h = <<>> \/ ~ (tick - Last(h) < IdleAge)
    <2>1. Len(h) > 0 => tick - h[Len(h)] >= Span[k[1]]
        <3> SUFFICES ASSUME Len(h) > 0 PROVE tick - h[Len(h)] >= Span[k[1]]
            OBVIOUS
        <3>1. h # <<>> /\ h[Len(h)] \in Int
            <4>1. h \in Seq(Int)
                BY <1>2 DEF Log
            <4> HIDE DEF h
            <4> QED
                BY <4>1
        <3>2. ~ (tick - h[Len(h)] < IdleAge)
            BY <1>5, <3>1 DEF Last
        <3> QED
            BY <1>1, <3>1, <3>2
    <2>2. LeftAt(h, tick, Span[k[1]]) = <<>>
        BY <1>1, <1>2, <2>1, NoneLeft
    <2>3. Log(<<>>, tick) /\ LeftAt(<<>>, tick, Span[k[1]]) = <<>> /\ Len(<<>>) = 0
        BY <1>1, EmptyLog
    <2> QED
        BY <1>1, <1>5, <2>2, <2>3
<1> QED
    BY <1>3, <1>4, <1>5

\* A request is charged: it is let through, or the window is trimmed.
LEMMA ChargeKeeps ==
    ASSUME LimitsInv, NEW b \in Buckets, NEW c \in Callers, Charge(b, c),
           UNCHANGED <<tick, failures, failed>>
    PROVE  LimitsInv'
<1> DEFINE k == <<b, c>>
           r == Recent(b, c)
           h == Times(hits, k)
           g == Times(granted, k)
           d == Span[b]
           key == Buckets \X Callers
           ok == Len(r) < Most[b]
<1>1. k \in key /\ k[1] = b
    OBVIOUS
<1>2. tick \in Int /\ d \in Int /\ d > 0 /\ Most[b] \in Nat
    BY <1>1, KeysCount DEF LimitsInv
<1>3. /\ Log(h, tick) /\ Len(h) <= Most[b] /\ Log(g, tick) /\ Len(g) <= Most[b]
      /\ LeftAt(h, tick, d) = LeftAt(g, tick, d)
    BY <1>1 DEF LimitsInv, Tracks, HitsKept, Agree
<1>4. r = LeftAt(h, tick, d) /\ r = LeftAt(g, tick, d)
    BY <1>1, <1>3, TrackedTells DEF Recent, Within
<1>5. /\ hits' = With(Tracked(hits), k, IF ok THEN Append(r, tick) ELSE r)
      /\ granted' = IF ok THEN With(granted, k, Append(Within(g, d), tick)) ELSE granted
    BY DEF Charge, Allows
<1>6. Within(g, d) = r
    BY <1>4 DEF Within
<1>7. /\ Times(hits', k) = IF ok THEN Append(r, tick) ELSE r
      /\ Times(granted', k) = IF ok THEN Append(r, tick) ELSE g
    <2> HIDE DEF k, r, g, h, ok, d
    <2> QED
        BY <1>5, <1>6 DEF Times, With, g
<1>8. \A j \in key \ {k} : /\ Times(hits', j) = Times(Tracked(hits), j)
                           /\ Times(granted', j) = Times(granted, j)
    <2> HIDE DEF k, r, g, h, ok, d
    <2> QED
        BY <1>5 DEF Times, With
<1>9. DOMAIN hits' \subseteq key /\ DOMAIN granted' \subseteq key
    <2>1. DOMAIN hits \subseteq key /\ DOMAIN granted \subseteq key
        BY DEF LimitsInv, Tracks
    <2>2. DOMAIN Tracked(hits) \subseteq DOMAIN hits
        BY DEF Tracked
    <2> HIDE DEF k, r, g, h, ok, d
    <2>3. DOMAIN hits' = DOMAIN Tracked(hits) \cup {k} /\ DOMAIN granted' \subseteq DOMAIN granted \cup {k}
        BY <1>5 DEF With
    <2> QED
        BY <1>1, <2>1, <2>2, <2>3
<1>10. Log(r, tick) /\ Len(r) <= Most[b] /\ LeftAt(r, tick, d) = r /\ Len(r) \in Nat
    <2>1. Log(r, tick) /\ Len(r) <= Len(h)
        BY <1>2, <1>3, <1>4, LeftIsLog
    <2>2. LeftAt(r, tick, d) = r
        BY <1>2, <1>3, <1>4, LeftTwice
    <2>3. Len(r) \in Nat /\ Len(h) \in Nat
        BY <1>3, <2>1 DEF Log
    <2> QED
        BY <1>2, <1>3, <2>1, <2>2, <2>3
<1>11. ok => Log(Append(r, tick), tick) /\ Len(Append(r, tick)) <= Most[b]
    <2>1. Log(Append(r, tick), tick)
        BY <1>2, <1>10, LeftWithNow
    <2>2. Len(Append(r, tick)) = Len(r) + 1
        BY <1>2, <1>10, AppendProperties DEF Log
    <2> QED
        BY <1>2, <1>10, <2>1, <2>2
<1>12. HitsKept(k)'
    <2> HIDE DEF k, r, h, g, d, ok
    <2>1. /\ Log(Times(hits', k), tick) /\ Len(Times(hits', k)) <= Most[b]
          /\ Log(Times(granted', k), tick) /\ Len(Times(granted', k)) <= Most[b]
          /\ LeftAt(Times(hits', k), tick, d) = LeftAt(Times(granted', k), tick, d)
        <3>1. CASE ok
            BY <1>7, <1>11, <3>1
        <3>2. CASE ~ ok
            BY <1>3, <1>4, <1>7, <1>10, <3>2
        <3> QED
            BY <3>1, <3>2
    <2>2. k[1] = b /\ d = Span[b] /\ tick' = tick
        BY <1>1 DEF k, d
    <2> QED
        BY <2>1, <2>2 DEF HitsKept, Agree, Times
<1>13. ASSUME NEW j \in key \ {k} PROVE HitsKept(j)'
    <2>1. /\ Log(Times(Tracked(hits), j), tick) /\ Len(Times(Tracked(hits), j)) <= Most[j[1]]
          /\ LeftAt(Times(Tracked(hits), j), tick, Span[j[1]]) = LeftAt(Times(hits, j), tick, Span[j[1]])
        BY TrackedTells
    <2>2. /\ Log(Times(granted, j), tick) /\ Len(Times(granted, j)) <= Most[j[1]]
          /\ LeftAt(Times(hits, j), tick, Span[j[1]]) = LeftAt(Times(granted, j), tick, Span[j[1]])
        BY DEF LimitsInv, Tracks, HitsKept, Agree
    <2>3. Times(hits', j) = Times(Tracked(hits), j) /\ Times(granted', j) = Times(granted, j)
        BY <1>8
    <2> QED
        BY <2>1, <2>2, <2>3 DEF HitsKept, Agree, Times
<1>14. Tracks'
    <2> HIDE DEF k
    <2> QED
        BY <1>9, <1>12, <1>13 DEF Tracks
<1>15. Attempts' /\ tick' \in Nat
    BY DEF LimitsInv, Attempts, FailuresKept, Agree, Sparse, Times
<1> QED
    BY <1>14, <1>15 DEF LimitsInv

\* What the other steps leave alone.
LEMMA NothingCounted ==
    ASSUME LimitsInv, UNCHANGED <<hits, granted, failures, failed, tick>>
    PROVE  LimitsInv'
BY DEF LimitsInv, Tracks, HitsKept, Attempts, FailuresKept, Agree, Sparse, Times

\* A sign-in forgets the failures of its address, or notes one more.
LEMMA SignInKeeps ==
    ASSUME LimitsInv, NEW e \in Addresses, NEW right, SignIn(e, right)
    PROVE  LimitsInv'
<1>0. PICK a : a = Normal[e]
    OBVIOUS
<1> DEFINE r == RecentFailures(e)
           f == Times(failures, a)
           g == Times(failed, a)
           d == LoginSpan
           success == LoginAllowed(e) /\ right /\ a \in Accounts
           failure == LoginAllowed(e) /\ ~success
<1>1. /\ a \in Addresses /\ tick \in Int /\ d \in Nat /\ d > 0 /\ MaxFailures \in Nat \ {0}
    BY <1>0, LimitsAssumption DEF LimitsAssumption, LimitsInv
<1>2. /\ Log(f, tick) /\ Len(f) <= MaxFailures /\ Log(g, tick) /\ Sparse(g)
      /\ LeftAt(f, tick, d) = LeftAt(g, tick, d)
    BY <1>1 DEF LimitsInv, Attempts, FailuresKept, Agree
<1>3. r = LeftAt(f, tick, d) /\ r = LeftAt(g, tick, d)
    BY <1>0, <1>2 DEF RecentFailures, Within
<1>4. Log(r, tick) /\ Len(r) <= MaxFailures /\ LeftAt(r, tick, d) = r /\ Len(r) \in Nat
    <2>1. Log(r, tick) /\ Len(r) <= Len(f)
        BY <1>1, <1>2, <1>3, LeftIsLog
    <2>2. LeftAt(r, tick, d) = r
        BY <1>1, <1>2, <1>3, LeftTwice
    <2>3. Len(r) \in Nat /\ Len(f) \in Nat
        BY <1>2, <2>1 DEF Log
    <2> QED
        BY <1>1, <1>2, <2>1, <2>2, <2>3
<1>5. /\ failures' = CASE success -> [k \in DOMAIN failures \ {a} |-> failures[k]]
                       [] failure -> With(failures, a, Append(r, tick))
                       [] OTHER -> With(failures, a, r)
      /\ failed' = CASE success -> With(failed, a, <<>>)
                     [] failure -> With(failed, a, Append(g, tick))
                     [] OTHER -> failed
      /\ UNCHANGED <<hits, tick, granted>>
    BY <1>0 DEF SignIn
<1>6. failure => Len(r) < MaxFailures
    BY DEF LoginAllowed
<1> HIDE DEF r, f, g, d, success
<1>7. \/ success /\ Times(failures', a) = <<>> /\ Times(failed', a) = <<>>
      \/ failure /\ Times(failures', a) = Append(r, tick) /\ Times(failed', a) = Append(g, tick)
      \/ Times(failures', a) = r /\ Times(failed', a) = g
    <2>1. CASE success
        BY <1>5, <2>1 DEF Times, With
    <2>2. CASE failure
        BY <1>5, <2>2 DEF Times, With
    <2>3. CASE ~ success /\ ~ failure
        BY <1>5, <2>3 DEF Times, With, g
    <2> QED
        BY <2>1, <2>2, <2>3
<1>8. \A j \in Addresses \ {a} : /\ Times(failures', j) = Times(failures, j)
                                 /\ Times(failed', j) = Times(failed, j)
    <2>1. CASE success
        BY <1>5, <2>1 DEF Times, With
    <2>2. CASE failure
        BY <1>5, <2>2 DEF Times, With
    <2>3. CASE ~ success /\ ~ failure
        BY <1>5, <2>3 DEF Times, With
    <2> QED
        BY <2>1, <2>2, <2>3
<1>9. DOMAIN failures' \subseteq Addresses /\ DOMAIN failed' \subseteq Addresses
    <2>0. DOMAIN failures \subseteq Addresses /\ DOMAIN failed \subseteq Addresses
        BY DEF LimitsInv, Attempts
    <2>1. CASE success
        BY <1>1, <1>5, <2>0, <2>1 DEF With
    <2>2. CASE failure
        BY <1>1, <1>5, <2>0, <2>2 DEF With
    <2>3. CASE ~ success /\ ~ failure
        BY <1>1, <1>5, <2>0, <2>3 DEF With
    <2> QED
        BY <2>1, <2>2, <2>3
<1>10. ASSUME NEW x, NEW y, Times(failures', a) = x, Times(failed', a) = y,
              Log(x, tick), Log(y, tick), Len(x) <= MaxFailures,
              LeftAt(x, tick, d) = LeftAt(y, tick, d), Sparse(y)
       PROVE  FailuresKept(a)'
    <2>1. Times(failures, a)' = x /\ Times(failed, a)' = y /\ tick' = tick
        BY <1>5, <1>10 DEF Times
    <2>2. Sparse(Times(failed, a)')
        BY <1>10, <2>1
    <2>3. Sparse(Times(failed, a))'
        BY <2>2 DEF Sparse
    <2> QED
        BY <1>10, <2>1, <2>3 DEF FailuresKept, Agree, d
<1>11. ASSUME Times(failures', a) = <<>>, Times(failed', a) = <<>> PROVE FailuresKept(a)'
    <2>1. Log(<<>>, tick) /\ Len(<<>>) = 0 /\ Sparse(<<>>)
        BY <1>1, EmptyLog DEF Sparse
    <2> QED
        BY <1>1, <1>10, <1>11, <2>1
<1>12. ASSUME Times(failures', a) = r, Times(failed', a) = g PROVE FailuresKept(a)'
    BY <1>2, <1>3, <1>4, <1>10, <1>12
<1>13. ASSUME failure, Times(failures', a) = Append(r, tick), Times(failed', a) = Append(g, tick)
       PROVE  FailuresKept(a)'
    <2>1. /\ Log(Append(r, tick), tick) /\ Log(Append(g, tick), tick)
          /\ LeftAt(Append(r, tick), tick, d) = Append(r, tick)
          /\ LeftAt(Append(g, tick), tick, d) = Append(r, tick)
        BY <1>1, <1>2, <1>3, <1>4, LeftWithNow
    <2>2. /\ Len(Append(r, tick)) = Len(r) + 1 /\ Len(Append(g, tick)) = Len(g) + 1
          /\ \A i \in 1 .. Len(g) : Append(g, tick)[i] = g[i]
          /\ Append(g, tick)[Len(g) + 1] = tick
          /\ Len(g) \in Nat
        BY <1>1, <1>2, <1>4, AppendProperties DEF Log
    <2>3. Len(Append(r, tick)) <= MaxFailures
        BY <1>1, <1>4, <1>6, <1>13, <2>2
    <2>4. ASSUME NEW i \in 1 .. (Len(g) + 1) - MaxFailures
          PROVE  Append(g, tick)[i + MaxFailures] - Append(g, tick)[i] >= d
        <3>1. i \in 1 .. Len(g) /\ Append(g, tick)[i] = g[i]
            BY <1>1, <2>2
        <3>2. CASE i + MaxFailures = Len(g) + 1
            <4>1. /\ Passed(g, tick, d) \in 0 .. Len(g)
                  /\ \A j \in 1 .. Passed(g, tick, d) : tick - g[j] >= d
                BY <1>1, <1>2, PassedAt DEF Log
            <4>2. Len(r) = Len(g) - Passed(g, tick, d)
                BY <1>1, <1>2, <1>3, LeftIs
            <4>3. i \in 1 .. Passed(g, tick, d)
                BY <1>1, <1>4, <1>6, <1>13, <2>2, <3>1, <3>2, <4>1, <4>2
            <4> QED
                BY <2>2, <3>1, <3>2, <4>1, <4>3
        <3>3. CASE i + MaxFailures # Len(g) + 1
            <4>1. i \in 1 .. Len(g) - MaxFailures /\ i + MaxFailures \in 1 .. Len(g)
                BY <1>1, <2>2, <3>1, <3>3
            <4> QED
                BY <1>2, <2>2, <3>1, <4>1 DEF Sparse, d
        <3> QED
            BY <3>2, <3>3
    <2>5. Sparse(Append(g, tick))
        BY <2>2, <2>4 DEF Sparse, d
    <2> QED
        BY <1>10, <1>13, <2>1, <2>3, <2>5
<1>14. FailuresKept(a)'
    BY <1>7, <1>11, <1>12, <1>13
<1>15. ASSUME NEW j \in Addresses \ {a} PROVE FailuresKept(j)'
    <2>1. FailuresKept(j)
        BY DEF LimitsInv, Attempts
    <2> QED
        BY <1>5, <1>8, <2>1 DEF FailuresKept, Agree, Sparse, Times
<1>16. Attempts'
    BY <1>9, <1>14, <1>15 DEF Attempts
<1>17. Tracks' /\ tick' \in Nat
    BY <1>5 DEF LimitsInv, Tracks, HitsKept, Agree, Times
<1> QED
    BY <1>16, <1>17 DEF LimitsInv

\* What agrees on the window now does so later: nothing comes back into it.
LEMMA AgreesLater ==
    ASSUME NEW short, NEW long, NEW tk \in Int, Log(short, tk), Log(long, tk),
           NEW span \in Int, LeftAt(short, tk, span) = LeftAt(long, tk, span),
           NEW then \in Int, tk <= then
    PROVE  /\ Log(short, then) /\ Log(long, then)
           /\ LeftAt(short, then, span) = LeftAt(long, then, span)
<1>1. /\ LeftAt(LeftAt(short, tk, span), then, span) = LeftAt(short, then, span)
      /\ LeftAt(LeftAt(long, tk, span), then, span) = LeftAt(long, then, span)
    BY LeftTwice
<1>2. ASSUME NEW s, Log(s, tk) PROVE Log(s, then)
    <2>1. \A i \in 1 .. Len(s) : s[i] \in Int /\ s[i] <= tk
        BY <1>2 DEF Log
    <2>2. \A i \in 1 .. Len(s) : s[i] <= then
        BY <2>1
    <2> QED
        BY <1>2, <2>2 DEF Log
<1> QED
    BY <1>1, <1>2

LEMMA LaterKeeps ==
    ASSUME LimitsInv, Later
    PROVE  LimitsInv'
<1>1. /\ tick \in Int /\ tick + 1 \in Int /\ tick <= tick + 1 /\ tick' = tick + 1 /\ tick' \in Nat
      /\ UNCHANGED <<hits, granted, failures, failed>>
    BY DEF LimitsInv, Later
<1>2. ASSUME NEW k \in Buckets \X Callers PROVE HitsKept(k)'
    <2>1. Span[k[1]] \in Int /\ HitsKept(k)
        BY KeysCount DEF LimitsInv, Tracks
    <2>2. /\ Log(Times(hits, k), tick + 1) /\ Log(Times(granted, k), tick + 1)
          /\ LeftAt(Times(hits, k), tick + 1, Span[k[1]]) = LeftAt(Times(granted, k), tick + 1, Span[k[1]])
        BY <1>1, <2>1, AgreesLater DEF HitsKept, Agree
    <2> QED
        BY <1>1, <2>1, <2>2 DEF HitsKept, Agree, Times
<1>3. ASSUME NEW a \in Addresses PROVE FailuresKept(a)'
    <2>1. LoginSpan \in Int /\ FailuresKept(a)
        BY LimitsAssumption DEF LimitsAssumption, LimitsInv, Attempts
    <2>2. /\ Log(Times(failures, a), tick + 1) /\ Log(Times(failed, a), tick + 1)
          /\ LeftAt(Times(failures, a), tick + 1, LoginSpan) = LeftAt(Times(failed, a), tick + 1, LoginSpan)
        BY <1>1, <2>1, AgreesLater DEF FailuresKept, Agree
    <2> QED
        BY <1>1, <2>1, <2>2 DEF FailuresKept, Agree, Sparse, Times
<1>4. Tracks' /\ Attempts'
    BY <1>1, <1>2, <1>3 DEF LimitsInv, Tracks, Attempts
<1> QED
    BY <1>1, <1>4 DEF LimitsInv

\* Nothing remembered and nothing counted.
LEMMA NothingKept ==
    ASSUME tick \in Nat, hits = [k \in {} |-> 0], granted = [k \in {} |-> 0],
           failures = [k \in {} |-> 0], failed = [k \in {} |-> 0]
    PROVE  LimitsInv
<1>1. /\ \A k : Times(hits, k) = <<>> /\ Times(granted, k) = <<>>
      /\ \A k : Times(failures, k) = <<>> /\ Times(failed, k) = <<>>
    BY DEF Times
<1>2. Log(<<>>, tick) /\ Len(<<>>) = 0
    BY EmptyLog
<1>3. \A k \in Buckets \X Callers : HitsKept(k)
    BY <1>1, <1>2, KeysCount DEF HitsKept, Agree
<1>4. \A a \in Addresses : FailuresKept(a)
    <2>1. MaxFailures \in Nat /\ Sparse(<<>>)
        BY <1>2, LimitsAssumption DEF LimitsAssumption, Sparse
    <2> QED
        BY <1>1, <1>2, <2>1 DEF FailuresKept, Agree
<1> QED
    BY <1>3, <1>4 DEF LimitsInv, Tracks, Attempts

LEMMA ResetKeepsLimits ==
    ASSUME LimitsInv, ResetLimits
    PROVE  LimitsInv'
<1>1. /\ \A k : Times(hits', k) = <<>> /\ Times(granted', k) = <<>>
      /\ \A k : Times(failures', k) = <<>> /\ Times(failed', k) = <<>>
    BY DEF ResetLimits, Times
<1>2. Log(<<>>, tick) /\ Len(<<>>) = 0 /\ tick' = tick /\ tick \in Nat
    BY EmptyLog DEF LimitsInv, ResetLimits
<1>3. ASSUME NEW k \in Buckets \X Callers PROVE HitsKept(k)'
    BY <1>1, <1>2, KeysCount DEF HitsKept, Agree, Times
<1>4. ASSUME NEW a \in Addresses PROVE FailuresKept(a)'
    <2>1. MaxFailures \in Nat /\ Sparse(<<>>)
        BY <1>2, LimitsAssumption DEF LimitsAssumption, Sparse
    <2> QED
        BY <1>1, <1>2, <2>1 DEF FailuresKept, Agree, Sparse, Times
<1>5. /\ DOMAIN hits' = {} /\ DOMAIN granted' = {} /\ DOMAIN failures' = {} /\ DOMAIN failed' = {}
    BY DEF ResetLimits
<1> QED
    BY <1>2, <1>3, <1>4, <1>5 DEF LimitsInv, Tracks, Attempts

\* The invariant holds throughout.
LEMMA LimitsInvariant == LimitsSpec => []LimitsInv
<1>1. LimitsInit => LimitsInv
    BY NothingKept DEF LimitsInit
<1>2. LimitsInv /\ [LimitsNext]_limitVars => LimitsInv'
    <2> SUFFICES ASSUME LimitsInv, [LimitsNext]_limitVars PROVE LimitsInv'
        OBVIOUS
    <2>1. CASE UNCHANGED limitVars
        BY <2>1, NothingCounted DEF limitVars
    <2>2. ASSUME NEW c \in Callers, NEW b \in Buckets, Charge(b, c), UNCHANGED <<tick, failures, failed>>
          PROVE  LimitsInv'
        BY <2>2, ChargeKeeps
    <2>3. "download" \in Buckets
        BY LimitsAssumption DEF LimitsAssumption
    <2>4. CASE LimiterStep
        <3>1. ASSUME NEW c \in Callers, NEW b \in Buckets, Limited(c, b) PROVE LimitsInv'
            BY <2>2, <3>1 DEF Limited
        <3>2. ASSUME NEW c \in Callers, NEW s, DownloadPcap(c, s) PROVE LimitsInv'
            BY <2>2, <2>3, <3>2, NothingCounted DEF DownloadPcap
        <3>3. ASSUME NEW c \in Callers, NEW s, DownloadFile(c, s) PROVE LimitsInv'
            BY <2>2, <2>3, <3>3, NothingCounted DEF DownloadFile
        <3>4. ASSUME NEW c, NEW x, Arrive(c, x) \/ Faulted(c) \/ Configure(x) PROVE LimitsInv'
            BY <3>4, NothingCounted DEF Arrive, Faulted, Configure
        <3> QED
            BY <2>4, <3>1, <3>2, <3>3, <3>4 DEF LimiterStep
    <2> QED
        BY <2>1, <2>4, SignInKeeps, ResetKeepsLimits, LaterKeeps DEF LimitsNext
<1> QED
    BY <1>1, <1>2, PTL DEF LimitsSpec

-----------------------------------------------------------------------------
\* Rounding up, and what a caller is told to wait for.
LEMMA CeilDivCovers ==
    ASSUME NEW n \in Int, NEW d \in Nat \ {0}
    PROVE  CeilDiv(n, d) \in Int /\ CeilDiv(n, d) * d >= n
<1> DEFINE q == (-n) \div d
<1>1. q \in Int /\ d * q <= -n
    OBVIOUS
<1> HIDE DEF q
<1>2. d * q \in Int /\ (-q) * d = -(d * q)
    BY <1>1
<1>3. (-q) * d >= n /\ -q \in Int
    BY <1>1, <1>2
<1> QED
    BY <1>3 DEF CeilDiv, q

LEMMA LongerCovers ==
    ASSUME NEW n \in Int, NEW d \in Nat \ {0}
    PROVE  Longer(1, CeilDiv(n, d)) \in Int /\ Longer(1, CeilDiv(n, d)) * d >= n
<1> DEFINE c == CeilDiv(n, d)
<1>1. c \in Int /\ c * d >= n
    BY CeilDivCovers
<1> HIDE DEF c
<1>2. Longer(1, c) \in Int /\ Longer(1, c) >= c /\ (Longer(1, c) = c \/ Longer(1, c) = 1)
    BY <1>1 DEF Longer
<1>3. CASE Longer(1, c) = c
    BY <1>1, <1>3 DEF c
<1>4. CASE Longer(1, c) = 1
    <2>1. c <= 1 /\ d > 0
        BY <1>1, <1>2, <1>4
    <2>2. c * d <= d
        BY <1>1, <2>1
    <2>3. 1 * d = d /\ c * d \in Int
        BY <1>1
    <2> QED
        BY <1>1, <1>4, <2>2, <2>3 DEF c
<1> QED
    BY <1>2, <1>3, <1>4

\* Once the oldest of a full window has left it, there is room.
LEMMA RoomLater ==
    ASSUME NEW s, NEW tk \in Int, Log(s, tk), NEW most \in Nat \ {0}, Len(s) <= most,
           NEW span \in Int, NEW then \in Int, s # <<>> => then - s[1] >= span
    PROVE  Len(LeftAt(s, then, span)) < most
<1> DEFINE n == Passed(s, then, span)
<1>1. /\ n \in 0 .. Len(s) /\ (n < Len(s) => then - s[n + 1] < span)
      /\ Len(LeftAt(s, then, span)) = Len(s) - n
    BY LeftIs, PassedAt DEF Log
<1> HIDE DEF n
<1>2. s \in Seq(Int) /\ Len(s) \in Nat
    BY DEF Log
<1>3. CASE Len(s) = 0
    BY <1>1, <1>2, <1>3
<1>4. CASE Len(s) > 0
    <2>1. s # <<>> /\ s[1] \in Int
        BY <1>2, <1>4
    <2>2. n # 0
        BY <1>1, <1>4, <2>1
    <2> QED
        BY <1>1, <1>2, <2>2
<1> QED
    BY <1>2, <1>3, <1>4

\* Nobody is let through more often than the limit allows in any window, nor
\* fails more often, whatever is pruned and dropped; and a wait as long as
\* Retry-After is long enough (RateLimiter, LoginLimiter).
THEOREM WindowsHold == LimitsSpec => []WindowHolds
<1>1. ASSUME LimitsInv PROVE WindowHolds
    <2>1. ASSUME NEW k \in DOMAIN granted, NEW i \in 1 .. Len(granted[k]) - Most[k[1]]
          PROVE  granted[k][i + Most[k[1]]] - granted[k][i] >= Span[k[1]]
        <3>1. k \in Buckets \X Callers /\ HitsKept(k) /\ Times(granted, k) = granted[k]
            BY <1>1 DEF LimitsInv, Tracks, Times
        <3>2. Len(granted[k]) <= Most[k[1]] /\ Len(granted[k]) \in Nat /\ Most[k[1]] \in Nat
            BY <3>1, KeysCount DEF HitsKept, Log
        <3> QED
            BY <3>2
    <2>2. ASSUME NEW a \in DOMAIN failed
          PROVE  \A i \in 1 .. Len(failed[a]) - MaxFailures :
                    failed[a][i + MaxFailures] - failed[a][i] >= LoginSpan
        BY <1>1, <2>2 DEF LimitsInv, Attempts, FailuresKept, Sparse, Times
    <2>3. ASSUME NEW b \in Buckets, NEW c \in Callers
          PROVE  Len(LeftAt(Recent(b, c), tick + RetryAfter(b, c) * Second, Span[b])) < Most[b]
        <3> DEFINE k == <<b, c>>
                   r == Recent(b, c)
                   wait == RetryAfter(b, c)
        <3>1. /\ k \in Buckets \X Callers /\ k[1] = b /\ tick \in Int
              /\ Span[b] \in Int /\ Most[b] \in Nat \ {0} /\ Second \in Nat \ {0}
              /\ FixedRetry[b] \in Nat
              /\ FixedRetry[b] # 0 => FixedRetry[b] * Second >= Span[b]
            BY <1>1, LimitsAssumption DEF LimitsAssumption, LimitsInv
        <3>2. Log(r, tick) /\ Len(r) <= Most[b]
            <4> DEFINE t == Times(Tracked(hits), k)
            <4>1. Log(t, tick) /\ Len(t) <= Most[b]
                BY <1>1, <3>1, TrackedTells
            <4>2. r = LeftAt(t, tick, Span[b])
                BY DEF Recent, Within
            <4> HIDE DEF t, r
            <4>3. Log(r, tick) /\ Len(r) <= Len(t)
                BY <3>1, <4>1, <4>2, LeftIsLog
            <4>4. Len(t) \in Nat /\ Len(r) \in Nat
                BY <4>1, <4>3 DEF Log
            <4> QED
                BY <3>1, <4>1, <4>3, <4>4
        <3>3. r # <<>> => r[1] \in Int /\ r[1] <= tick /\ Head(r) = r[1]
            <4> HIDE DEF r
            <4>1. r # <<>> => 1 \in 1 .. Len(r) /\ r \in Seq(Int)
                BY <3>2 DEF Log
            <4> QED
                BY <3>2, <4>1 DEF Log
        <3>4. wait \in Int /\ (r # <<>> => tick + wait * Second - r[1] >= Span[b])
            <4>1. CASE FixedRetry[b] # 0
                <5>1. wait = FixedRetry[b]
                    BY <4>1 DEF RetryAfter
                <5>2. wait * Second >= Span[b] /\ wait * Second \in Int /\ wait \in Int
                    BY <3>1, <4>1, <5>1
                <5> HIDE DEF wait, r
                <5> QED
                    BY <3>1, <3>3, <5>2
            <4>2. CASE FixedRetry[b] = 0 /\ r = <<>>
                BY <4>2 DEF RetryAfter
            <4>3. CASE FixedRetry[b] = 0 /\ r # <<>>
                <5>1. wait = Longer(1, CeilDiv(r[1] + Span[b] - tick, Second))
                    BY <3>3, <4>3 DEF RetryAfter
                <5>2. r[1] + Span[b] - tick \in Int
                    BY <3>1, <3>3, <4>3
                <5>3. wait \in Int /\ wait * Second >= r[1] + Span[b] - tick
                    BY <3>1, <5>1, <5>2, LongerCovers
                <5> HIDE DEF wait, r
                <5>4. wait * Second \in Int
                    BY <3>1, <5>3
                <5> QED
                    BY <3>1, <3>3, <4>3, <5>3, <5>4
            <4> QED
                BY <3>1, <4>1, <4>2, <4>3
        <3> HIDE DEF wait, r
        <3>5. tick + wait * Second \in Int
            BY <3>1, <3>4
        <3>6. Len(LeftAt(r, tick + wait * Second, Span[b])) < Most[b]
            <4>1. PICK then \in Int : then = tick + wait * Second
                BY <3>5
            <4>2. ASSUME r # <<>> PROVE then - r[1] >= Span[b]
                <5>1. r[1] \in Int /\ tick \in Int /\ wait * Second \in Int
                    BY <3>1, <3>3, <3>4, <4>2 DEF r
                <5>2. tick + wait * Second - r[1] >= Span[b]
                    BY <3>4, <4>2
                <5> QED
                    BY <4>1, <5>1, <5>2
            <4>3. Len(LeftAt(r, then, Span[b])) < Most[b]
                BY <3>1, <3>2, <4>2, RoomLater
            <4> QED
                BY <4>1, <4>3
        <3> QED
            BY <3>6 DEF wait, r
    <2>4. ASSUME NEW e \in Addresses, ~LoginAllowed(e)
          PROVE  Len(LeftAt(RecentFailures(e), RetryAt(e) * Second - Skew, LoginSpan)) < MaxFailures
        <3> DEFINE r == RecentFailures(e)
        <3>1. /\ Normal[e] \in Addresses /\ tick \in Int /\ Skew \in Int /\ Second \in Nat \ {0}
              /\ LoginSpan \in Int /\ MaxFailures \in Nat \ {0}
            BY <1>1, LimitsAssumption DEF LimitsAssumption, LimitsInv
        <3>2. Log(r, tick) /\ Len(r) <= MaxFailures
            <4> DEFINE t == Times(failures, Normal[e])
            <4>1. Log(t, tick) /\ Len(t) <= MaxFailures
                BY <1>1, <3>1 DEF LimitsInv, Attempts, FailuresKept
            <4>2. r = LeftAt(t, tick, LoginSpan)
                BY DEF RecentFailures, Within
            <4> HIDE DEF t, r
            <4>3. Log(r, tick) /\ Len(r) <= Len(t)
                BY <3>1, <4>1, <4>2, LeftIsLog
            <4>4. Len(t) \in Nat /\ Len(r) \in Nat
                BY <4>1, <4>3 DEF Log
            <4> QED
                BY <3>1, <4>1, <4>3, <4>4
        <3>3. ~ (Len(r) < MaxFailures)
            BY <2>4 DEF LoginAllowed
        <3> DEFINE age == Head(r) + LoginSpan - tick
                   today == CeilDiv(tick + Skew, Second)
                   wait == Longer(1, CeilDiv(age, Second))
        <3>4. r[1] \in Int /\ Head(r) = r[1]
            <4> HIDE DEF r
            <4>1. 1 \in 1 .. Len(r) /\ r \in Seq(Int)
                BY <3>1, <3>2, <3>3 DEF Log
            <4> QED
                BY <4>1
        <3>5. RetryAt(e) = today + wait
            BY DEF RetryAt
        <3> HIDE DEF r
        <3>6. age \in Int /\ tick + Skew \in Int /\ age = r[1] + LoginSpan - tick
            BY <3>1, <3>4
        <3> HIDE DEF age
        <3>7. /\ today \in Int /\ wait \in Int
              /\ today * Second >= tick + Skew /\ wait * Second >= age
            BY <3>1, <3>6, CeilDivCovers, LongerCovers
        <3> HIDE DEF today, wait
        <3>8. /\ today * Second \in Int /\ wait * Second \in Int
              /\ (today + wait) * Second = today * Second + wait * Second
            BY <3>1, <3>7
        <3>9. /\ RetryAt(e) * Second - Skew \in Int
              /\ RetryAt(e) * Second - Skew - r[1] >= LoginSpan
            BY <3>1, <3>4, <3>5, <3>6, <3>7, <3>8
        <3> QED
            BY <3>1, <3>2, <3>9, RoomLater DEF r
    <2> QED
        BY <2>1, <2>2, <2>3, <2>4 DEF WindowHolds
<1> QED
    BY <1>1, LimitsInvariant, PTL

\* The chaos counters are counted up to one key more than are tracked, and
\* failures are kept under addresses as they are normalised.
Counted ==
    /\ IsFiniteSet(DOMAIN turns) /\ Cardinality(DOMAIN turns) <= MaxTracked + 1
    /\ DOMAIN failures \subseteq Range(Normal) /\ profile \in DOMAIN Profiles

LEMMA BumpedStaysSmall ==
    ASSUME IsFiniteSet(DOMAIN turns), Cardinality(DOMAIN turns) <= MaxTracked + 1, NEW c
    PROVE  IsFiniteSet(DOMAIN Bumped(c)) /\ Cardinality(DOMAIN Bumped(c)) <= MaxTracked + 1
<1> DEFINE D == DOMAIN turns
<1>1. MaxTracked \in Nat /\ Cardinality(D) \in Nat
    BY LimitsAssumption, FS_CardinalityType
<1>2. CASE Cardinality(D) > MaxTracked /\ c \notin D
    <2>1. DOMAIN Bumped(c) = {c}
        BY <1>2 DEF Bumped, With
    <2>2. IsFiniteSet({c}) /\ Cardinality({c}) = 1
        BY FS_Singleton
    <2> QED
        BY <1>1, <2>1, <2>2
<1>3. CASE ~ (Cardinality(D) > MaxTracked /\ c \notin D)
    <2>1. DOMAIN Bumped(c) = D \cup {c}
        BY <1>3 DEF Bumped, With
    <2>2. IsFiniteSet(D \cup {c}) /\ Cardinality(D \cup {c}) = IF c \in D THEN Cardinality(D) ELSE Cardinality(D) + 1
        BY FS_AddElement
    <2> QED
        BY <1>1, <1>3, <2>1, <2>2
<1> QED
    BY <1>2, <1>3

LEMMA CountedInvariant == LimitsSpec => []Counted
<1>1. LimitsInit => Counted
    <2> SUFFICES ASSUME LimitsInit PROVE Counted
        OBVIOUS
    <2>1. DOMAIN turns = {} /\ DOMAIN failures = {} /\ profile \in DOMAIN Profiles /\ MaxTracked \in Nat
        BY LimitsAssumption DEF LimitsInit
    <2> QED
        BY <2>1, FS_EmptySet DEF Counted
<1>2. Counted /\ [LimitsNext]_limitVars => Counted'
    <2> SUFFICES ASSUME Counted, [LimitsNext]_limitVars PROVE Counted'
        OBVIOUS
    <2>1. ASSUME NEW c, NEW fault, Arrive(c, fault) PROVE Counted'
        BY <2>1, BumpedStaysSmall DEF Arrive, Counted
    <2>2. ASSUME NEW p \in DOMAIN Profiles, Configure(p) PROVE Counted'
        BY <2>2 DEF Configure, Counted
    <2>3. ASSUME UNCHANGED <<turns, failures, profile>> PROVE Counted'
        BY <2>3 DEF Counted
    <2>4. CASE LimiterStep
        BY <2>1, <2>2, <2>3, <2>4 DEF LimiterStep, Faulted, Limited, DownloadPcap, DownloadFile
    <2>5. ASSUME NEW e \in Addresses, NEW right, SignIn(e, right) PROVE Counted'
        <3>1. Normal[e] \in Range(Normal)
            BY LimitsAssumption DEF LimitsAssumption, Range
        <3>2. DOMAIN failures' \subseteq DOMAIN failures \cup {Normal[e]}
            BY <2>5 DEF SignIn, With
        <3> QED
            BY <2>5, <3>1, <3>2 DEF Counted, SignIn
    <2>6. CASE ResetLimits
        <3>1. DOMAIN turns' = {} /\ DOMAIN failures' = {} /\ profile' = profile /\ MaxTracked \in Nat
            BY <2>6, LimitsAssumption DEF ResetLimits
        <3> QED
            BY <3>1, FS_EmptySet DEF Counted
    <2>7. CASE Later \/ UNCHANGED limitVars
        BY <2>3, <2>7 DEF Later, limitVars
    <2> QED
        BY <2>4, <2>5, <2>6, <2>7 DEF LimitsNext
<1> QED
    BY <1>1, <1>2, PTL DEF LimitsSpec

\* The deques are in the order of time and no longer than their limits, failures
\* are kept by normalised address, the chaos counters are bounded, and no
\* observer is given packets or files (ROLE_PERMISSIONS, deps.py).
THEOREM LimitsTyped == LimitsSpec => []LimitsTypeOK
<1>1. ASSUME LimitsInv, Counted PROVE LimitsTypeOK
    <2>1. ASSUME NEW s, Log(s, tick) PROVE Ascending(s)
        <3>1. s \in Seq(Int) /\ \A i, j \in 1 .. Len(s) : i <= j => s[i] <= s[j]
            BY <2>1 DEF Log
        <3>2. \A i \in 1 .. Len(s) - 1 : i \in 1 .. Len(s) /\ i + 1 \in 1 .. Len(s) /\ i <= i + 1
            BY <3>1
        <3> QED
            BY <3>1, <3>2 DEF Ascending
    <2>2. ASSUME NEW k \in DOMAIN hits PROVE Ascending(hits[k]) /\ Len(hits[k]) <= Most[k[1]]
        <3>1. HitsKept(k) /\ Times(hits, k) = hits[k]
            BY <1>1 DEF LimitsInv, Tracks, Times
        <3> QED
            BY <2>1, <3>1 DEF HitsKept
    <2>3. ASSUME NEW e \in DOMAIN failures PROVE e \in Range(Normal) /\ Ascending(failures[e])
        <3>1. FailuresKept(e) /\ Times(failures, e) = failures[e]
            BY <1>1 DEF LimitsInv, Attempts, Times
        <3> QED
            BY <1>1, <2>1, <3>1 DEF FailuresKept, Counted
    <2>4. ASSUME NEW c \in Callers, NEW s \in Packets,
                 PcapAnswer(c, s) = "packets" \/ FileAnswer(c, s) = s.file
          PROVE  RoleOf[c] = "analyst"
        <3>1. s.file \notin {"forbidden", "forbidden_sensor", "download_rate_limited"} /\ s.pcap # "packets"
            BY LimitsAssumption DEF LimitsAssumption
        <3>2. CASE PcapAnswer(c, s) = "packets"
            <4>1. "pcap:download" \in RolePermissions(RoleOf[c])
                BY <3>1, <3>2 DEF PcapAnswer
            <4> QED
                BY <4>1 DEF RolePermissions
        <3>3. CASE FileAnswer(c, s) = s.file
            <4>1. "files:download" \in RolePermissions(RoleOf[c])
                BY <3>1, <3>3 DEF FileAnswer
            <4> QED
                BY <4>1 DEF RolePermissions
        <3> QED
            BY <2>4, <3>2, <3>3
    <2>5. AccessTtl(profile) > 0
        BY <1>1, LimitsAssumption DEF AccessTtl, Counted, LimitsAssumption
    <2> QED
        BY <1>1, <2>2, <2>3, <2>4, <2>5 DEF LimitsTypeOK, Counted
<1> QED
    BY <1>1, LimitsInvariant, CountedInvariant, PTL

-----------------------------------------------------------------------------
\* The order of the sessions: strict, and total because ids differ.
YoungerIn(S, c) == {d \in S : Sooner(PlaceOf(c), PlaceOf(d))}

LEMMA LaterOrders ==
    ASSUME NEW a \in Rows, NEW b \in Rows, NEW c \in Rows
    PROVE  /\ ~Sooner(PlaceOf(a), PlaceOf(a))
           /\ a # b => Sooner(PlaceOf(a), PlaceOf(b)) \/ Sooner(PlaceOf(b), PlaceOf(a))
           /\ ~(Sooner(PlaceOf(a), PlaceOf(b)) /\ Sooner(PlaceOf(b), PlaceOf(a)))
           /\ Sooner(PlaceOf(a), PlaceOf(b)) /\ Sooner(PlaceOf(b), PlaceOf(c)) => Sooner(PlaceOf(a), PlaceOf(c))
<1>1. \A r \in Rows : r.id \in Nat /\ r.start \in Nat /\ PlaceOf(r) = <<r.start, r.id>>
    BY WorldAssumption DEF PlaceOf
<1>2. a # b => a.id # b.id
    BY WorldAssumption
<1> QED
    BY <1>1, <1>2 DEF Sooner

\* What is later than a later one is later, and there is less of it.
LEMMA YoungerShrinks ==
    ASSUME NEW S \in SUBSET Rows, NEW c \in S, NEW d \in S, Sooner(PlaceOf(c), PlaceOf(d))
    PROVE  /\ Cardinality(YoungerIn(S, c)) \in Nat /\ Cardinality(YoungerIn(S, d)) \in Nat
           /\ Cardinality(YoungerIn(S, d)) < Cardinality(YoungerIn(S, c))
<1>1. YoungerIn(S, d) \subseteq YoungerIn(S, c) /\ d \in YoungerIn(S, c) /\ d \notin YoungerIn(S, d)
    BY LaterOrders DEF YoungerIn
<1>2. YoungerIn(S, c) \subseteq Rows /\ IsFiniteSet(Rows)
    BY WorldAssumption DEF YoungerIn
<1>3. IsFiniteSet(YoungerIn(S, c))
    BY <1>2, FS_Subset
<1>4. /\ IsFiniteSet(YoungerIn(S, d)) /\ Cardinality(YoungerIn(S, d)) <= Cardinality(YoungerIn(S, c))
      /\ Cardinality(YoungerIn(S, c)) = Cardinality(YoungerIn(S, d)) => YoungerIn(S, c) = YoungerIn(S, d)
    BY <1>1, <1>3, FS_Subset
<1>5. Cardinality(YoungerIn(S, c)) \in Nat /\ Cardinality(YoungerIn(S, d)) \in Nat
    BY <1>3, <1>4, FS_CardinalityType
<1> QED
    BY <1>1, <1>4, <1>5

\* Of some sessions one is the soonest.
LEMMA SoonestOf ==
    ASSUME NEW S \in SUBSET Rows, S # {}
    PROVE  \E c \in S : \A d \in S : d = c \/ Sooner(PlaceOf(c), PlaceOf(d))
<1> DEFINE Ahead(c) == {d \in S : Sooner(PlaceOf(d), PlaceOf(c))}
           N == {Cardinality(Ahead(c)) : c \in S}
<1>1. \A c \in S : IsFiniteSet(Ahead(c)) /\ Cardinality(Ahead(c)) \in Nat
    <2> SUFFICES ASSUME NEW c \in S PROVE IsFiniteSet(Ahead(c)) /\ Cardinality(Ahead(c)) \in Nat
        OBVIOUS
    <2>1. Ahead(c) \in SUBSET Rows /\ IsFiniteSet(Rows)
        BY WorldAssumption
    <2> HIDE DEF Ahead
    <2> QED
        BY <2>1, FS_Subset, FS_CardinalityType
<1>2. N \in SUBSET Nat /\ N # {}
    BY <1>1
<1>3. PICK n \in N : \A m \in N : n <= m
    <2> HIDE DEF N
    <2> QED
        BY <1>2, LeastOf
<1>4. PICK c \in S : n = Cardinality(Ahead(c))
    OBVIOUS
<1>5. ASSUME NEW d \in S, Sooner(PlaceOf(d), PlaceOf(c)) PROVE FALSE
    <2>1. Ahead(d) \subseteq Ahead(c) /\ d \in Ahead(c) /\ d \notin Ahead(d)
        BY <1>5, LaterOrders
    <2>2. Cardinality(Ahead(d)) <= Cardinality(Ahead(c)) /\ Cardinality(Ahead(d)) # Cardinality(Ahead(c))
        <3> HIDE DEF Ahead
        <3> QED
            BY <1>1, <2>1, FS_Subset
    <2>3. Cardinality(Ahead(c)) <= Cardinality(Ahead(d))
        BY <1>3, <1>4
    <2>4. Cardinality(Ahead(d)) \in Nat /\ Cardinality(Ahead(c)) \in Nat
        BY <1>1
    <2> HIDE DEF Ahead
    <2> QED
        BY <2>2, <2>3, <2>4
<1> QED
    BY <1>5, LaterOrders

\* ... and one the latest.
LEMMA LatestOf ==
    ASSUME NEW S \in SUBSET Rows, S # {}
    PROVE  \E c \in S : YoungerIn(S, c) = {}
<1> DEFINE N == {Cardinality(YoungerIn(S, c)) : c \in S}
<1>1. \A c \in S : IsFiniteSet(YoungerIn(S, c)) /\ Cardinality(YoungerIn(S, c)) \in Nat
    <2> SUFFICES ASSUME NEW c \in S PROVE IsFiniteSet(YoungerIn(S, c)) /\ Cardinality(YoungerIn(S, c)) \in Nat
        OBVIOUS
    <2>1. YoungerIn(S, c) \in SUBSET Rows /\ IsFiniteSet(Rows)
        BY WorldAssumption DEF YoungerIn
    <2> QED
        BY <2>1, FS_Subset, FS_CardinalityType
<1>2. N \in SUBSET Nat /\ N # {}
    BY <1>1
<1>3. PICK n \in N : \A m \in N : n <= m
    <2> HIDE DEF N
    <2> QED
        BY <1>2, LeastOf
<1>4. PICK c \in S : n = Cardinality(YoungerIn(S, c))
    OBVIOUS
<1>5. ASSUME NEW d \in S, Sooner(PlaceOf(c), PlaceOf(d)) PROVE FALSE
    <2>1. Cardinality(YoungerIn(S, d)) < Cardinality(YoungerIn(S, c)) /\ Cardinality(YoungerIn(S, d)) \in Nat
          /\ Cardinality(YoungerIn(S, c)) \in Nat
        BY <1>5, YoungerShrinks
    <2>2. Cardinality(YoungerIn(S, c)) <= Cardinality(YoungerIn(S, d))
        BY <1>3, <1>4
    <2> QED
        BY <2>1, <2>2
<1> QED
    BY <1>5 DEF YoungerIn

\* A page: from what is left, the latest; what stays behind is sooner than the
\* cursor, and what is on the page is not.
LEMMA PageTakesLatest ==
    ASSUME NEW r, NEW half, NEW past, RelatedTo(r, half) \subseteq Rows
    PROVE  LET left == {c \in RelatedTo(r, half) : ~Past(c, past)}
               page == PageOf(r, half, past)
           IN /\ page.items \subseteq left
              /\ page.next = <<>> => page.items = left
              /\ page.next # <<>> => \E m \in page.items :
                    /\ page.next = PlaceOf(m)
                    /\ \A c \in page.items : ~Sooner(PlaceOf(c), PlaceOf(m))
                    /\ \A c \in left \ page.items : Sooner(PlaceOf(c), PlaceOf(m))
<1> DEFINE left == {c \in RelatedTo(r, half) : ~Past(c, past)}
           items == {c \in left : Cardinality(YoungerIn(left, c)) < RelatedPage}
           first == CHOOSE c \in items : \A d \in items : d = c \/ Sooner(PlaceOf(c), PlaceOf(d))
<1>1. left \in SUBSET Rows
    OBVIOUS
<1>2. PageOf(r, half, past) = [items |-> items, next |-> IF items = left THEN <<>> ELSE PlaceOf(first)]
    BY DEF PageOf, YoungerIn
<1> HIDE DEF left
<1>3. CASE items = left
    <2>1. PageOf(r, half, past) = [items |-> left, next |-> <<>>]
        BY <1>2, <1>3
    <2> QED
        BY <2>1 DEF left
<1>4. CASE items # left
    <2>1. left # {}
        BY <1>4
    <2>2. PICK l \in left : YoungerIn(left, l) = {}
        BY <1>1, <2>1, LatestOf
    <2>3. Cardinality(YoungerIn(left, l)) = 0
        BY <2>2, FS_EmptySet
    <2>4. l \in items
        BY <2>3, PagesAssumption
    <2>5. items \in SUBSET Rows
        BY <1>1
    <2>6. first \in items /\ \A d \in items : d = first \/ Sooner(PlaceOf(first), PlaceOf(d))
        <3> HIDE DEF items
        <3>1. \E c \in items : \A d \in items : d = c \/ Sooner(PlaceOf(c), PlaceOf(d))
            BY <2>4, <2>5, SoonestOf
        <3> QED
            BY <3>1
    <2> HIDE DEF first
    <2>7. \A c \in items : ~Sooner(PlaceOf(c), PlaceOf(first))
        BY <2>5, <2>6, LaterOrders
    <2>8. ASSUME NEW c \in left \ items PROVE Sooner(PlaceOf(c), PlaceOf(first))
        <3>1. first \in left /\ first # c /\ Cardinality(YoungerIn(left, first)) < RelatedPage
            BY <2>6
        <3>2. ~Sooner(PlaceOf(first), PlaceOf(c))
            <4> SUFFICES ASSUME Sooner(PlaceOf(first), PlaceOf(c)) PROVE FALSE
                OBVIOUS
            <4>1. /\ Cardinality(YoungerIn(left, c)) < Cardinality(YoungerIn(left, first))
                  /\ Cardinality(YoungerIn(left, c)) \in Nat /\ Cardinality(YoungerIn(left, first)) \in Nat
                BY <1>1, <3>1, YoungerShrinks
            <4>2. Cardinality(YoungerIn(left, c)) < RelatedPage
                BY <3>1, <4>1, PagesAssumption
            <4> QED
                BY <4>2
        <3> QED
            BY <1>1, <3>1, <3>2, LaterOrders
    <2>9. PageOf(r, half, past).items = items /\ PageOf(r, half, past).next = PlaceOf(first)
        BY <1>2, <1>4
    <2>10. PlaceOf(first) # <<>> /\ items \subseteq left
        BY DEF PlaceOf
    <2> HIDE DEF items
    <2> QED
        BY <2>6, <2>7, <2>8, <2>9, <2>10 DEF left
<1> QED
    BY <1>3, <1>4

\* The parts of the invariant: nothing is imported meanwhile; what was opened
\* is in sight; and of the sessions related at first, those the reader has not
\* got lie behind the cursor, of those it has got none does.
Between(mark, given, offered) ==
    \E m \in Rows : /\ mark = PlaceOf(m)
                    /\ \A c \in given : ~Sooner(PlaceOf(c), PlaceOf(m))
                    /\ \A c \in offered \ given : Sooner(PlaceOf(c), PlaceOf(m))
Sight(c) == c \in Rows /\ Lookup(c) = "found"
Turned ==
    /\ related.state \in {"none", "reading", "read", "invalid_cursor"}
    /\ related.state \in {"reading", "read"} =>
         /\ related = [state |-> related.state, row |-> related.row, half |-> related.half,
                       cursor |-> related.cursor, given |-> related.given, twice |-> related.twice,
                       offered |-> related.offered]
         /\ related.row \in Rows /\ related.half \in HalfWidths
         /\ related.cursor.for = <<related.row.id, related.half>>
         /\ related.twice = {}
         /\ \A c \in related.given : Sight(c)
         /\ related.offered \subseteq RelatedTo(related.row, related.half)
    /\ related.state = "reading" =>
         Between(related.cursor.place, related.given, related.offered)
    /\ related.state = "read" => related.offered \subseteq related.given
RelatedInv ==
    /\ clock \in Nat /\ imports = NoImports
    /\ \A r \in Rows : r.id \in opened => Lookup(r) = "found"
    /\ Turned

\* Without imports a session is in sight when its sensor has got so far.
LEMMA SightOf ==
    ASSUME imports = NoImports, NEW r \in Rows
    PROVE  /\ VisibleUntil(r.sensor) = Now - Lag[r.sensor] /\ r \in Stored(r.sensor)
           /\ RowVisible(r) <=> r.start <= Now - Lag[r.sensor]
           /\ Lookup(r) = "found" <=> r.start <= Now - Lag[r.sensor] /\ r.sensor \notin MayNotRead
<1>1. Imported = {}
    BY DEF Imported, NoImports
<1>2. r.sensor \in Sensors
    BY WorldAssumption
<1>3. VisibleUntil(r.sensor) = Now - Lag[r.sensor] /\ r \in Stored(r.sensor)
    BY <1>1, <1>2 DEF VisibleUntil, Stored
<1> QED
    BY <1>3 DEF RowVisible, Lookup

\* What is related to a session in sight is in sight, too.
LEMMA RelatedInSight ==
    ASSUME imports = NoImports, NEW r \in Rows, NEW half \in HalfWidths, Lookup(r) = "found",
           NEW c \in RelatedTo(r, half)
    PROVE  Sight(c)
<1>1. Imported = {} /\ r.sensor \in Sensors
    BY WorldAssumption DEF Imported, NoImports
<1>2. c \in Stored(r.sensor) /\ c.start <= VisibleUntil(r.sensor)
    BY <1>1 DEF RelatedTo, RowsIn, Known
<1>3. c \in Rows /\ c.sensor = r.sensor
    BY <1>1, <1>2 DEF Stored
<1> QED
    BY <1>2, <1>3, SightOf DEF Sight

\* What is in sight and what is related only grows.
LEMMA SightGrows ==
    ASSUME imports = NoImports, imports' = NoImports, clock \in Nat, clock' \in Nat, clock <= clock'
    PROVE  /\ \A r \in Rows : Lookup(r) = "found" => (Lookup(r) = "found")'
           /\ \A r \in Rows, half \in HalfWidths : RelatedTo(r, half) \subseteq RelatedTo(r, half)'
<1>1. \A r \in Rows : r.sensor \in Sensors /\ r.start \in Nat /\ Lag[r.sensor] \in Nat
    BY WorldAssumption
<1>2. Epoch \in Nat
    BY WorldAssumption
<1>3. PICK was, is : /\ was = Now /\ is = Now' /\ was \in Nat /\ is \in Nat /\ was <= is
    BY <1>2 DEF Now
<1>4. ASSUME NEW r \in Rows, Lookup(r) = "found" PROVE (Lookup(r) = "found")'
    <2>1. (Lookup(r) = "found")' <=> r.start <= Now' - Lag[r.sensor] /\ r.sensor \notin MayNotRead
        <3>1. Imported' = {} /\ r.sensor \in Sensors
            BY WorldAssumption DEF Imported, NoImports
        <3>2. VisibleUntil(r.sensor)' = Now' - Lag[r.sensor] /\ r \in Stored(r.sensor)'
            BY <3>1 DEF VisibleUntil, Stored
        <3> QED
            BY <3>2 DEF RowVisible, Lookup
    <2>2. r.start <= was - Lag[r.sensor] /\ r.sensor \notin MayNotRead
        BY <1>3, <1>4, SightOf
    <2>3. r.start <= is - Lag[r.sensor]
        BY <1>1, <1>3, <2>2
    <2> QED
        BY <1>3, <2>1, <2>2, <2>3
<1>5. ASSUME NEW r \in Rows, NEW half \in HalfWidths, NEW c \in RelatedTo(r, half)
      PROVE  c \in RelatedTo(r, half)'
    <2>0. Imported = {} /\ Imported' = {} /\ r.sensor \in Sensors
        BY WorldAssumption DEF Imported, NoImports
    <2>1. /\ Stored(r.sensor)' = Stored(r.sensor) /\ Known' = Known
          /\ VisibleUntil(r.sensor) = was - Lag[r.sensor] /\ VisibleUntil(r.sensor)' = is - Lag[r.sensor]
        BY <1>3, <2>0 DEF Stored, VisibleUntil, Known
    <2>2. c \in Rows /\ c.start \in Nat /\ Lag[r.sensor] \in Nat
        BY <1>1, <2>0, <1>5 DEF RelatedTo, RowsIn, Stored, Known
    <2>3. c \in RowsIn(r.sensor, r.start - half, r.start + half + 1) /\ c.id # r.id /\ Hosts[c.id] = Hosts[r.id]
        BY <1>5 DEF RelatedTo
    <2>4. c.start <= was - Lag[r.sensor] /\ c.start <= is - Lag[r.sensor]
        BY <1>3, <2>0, <2>1, <2>2, <2>3 DEF RowsIn, Known
    <2>5. c \in RowsIn(r.sensor, r.start - half, r.start + half + 1)'
        BY <2>0, <2>1, <2>3, <2>4 DEF RowsIn, Known
    <2> QED
        BY <2>3, <2>5 DEF RelatedTo
<1> QED
    BY <1>4, <1>5

\* Any page, asked for behind a session m or at the beginning.
GoesOn(page, given, offered) ==
    /\ given \cap page.items = {}
    /\ \A c \in given \cup page.items : Sight(c)
    /\ page.next = <<>> => offered \subseteq given \cup page.items
    /\ page.next # <<>> => Between(page.next, given \cup page.items, offered)

LEMMA PageTurns ==
    ASSUME RelatedInv, NEW r \in Rows, NEW half \in HalfWidths, Lookup(r) = "found",
           NEW past, NEW given, NEW offered,
           offered \subseteq RelatedTo(r, half), \A c \in given : Sight(c),
           \/ past = <<>> /\ given = {}
           \/ Between(past, given, offered)
    PROVE  GoesOn(PageOf(r, half, past), given, offered)
<1> DEFINE left == {c \in RelatedTo(r, half) : ~Past(c, past)}
           page == PageOf(r, half, past)
<1>1. RelatedTo(r, half) \subseteq Rows /\ \A c \in RelatedTo(r, half) : Sight(c)
    BY RelatedInSight DEF RelatedInv, Sight
<1>2. /\ page.items \subseteq left
      /\ page.next = <<>> => page.items = left
      /\ page.next # <<>> => \E m \in page.items :
            /\ page.next = PlaceOf(m)
            /\ \A c \in page.items : ~Sooner(PlaceOf(c), PlaceOf(m))
            /\ \A c \in left \ page.items : Sooner(PlaceOf(c), PlaceOf(m))
    BY <1>1, PageTakesLatest
<1>3. /\ \A c \in offered \ given : c \in left
      /\ \A c \in given, d \in left : c # d /\ ~Sooner(PlaceOf(c), PlaceOf(d))
    <2>1. CASE past = <<>> /\ given = {}
        BY <2>1 DEF Past
    <2>2. ASSUME NEW m \in Rows, past = PlaceOf(m), \A c \in given : ~Sooner(PlaceOf(c), PlaceOf(m)),
                 \A c \in offered \ given : Sooner(PlaceOf(c), PlaceOf(m))
          PROVE  /\ \A c \in offered \ given : c \in left
                 /\ \A c \in given, d \in left : c # d /\ ~Sooner(PlaceOf(c), PlaceOf(d))
        <3>1. ASSUME NEW c \in given, NEW d \in left PROVE c # d /\ ~Sooner(PlaceOf(c), PlaceOf(d))
            <4>1. Sooner(PlaceOf(d), PlaceOf(m)) /\ ~Sooner(PlaceOf(c), PlaceOf(m))
                BY <2>2 DEF Past, PlaceOf
            <4>2. c \in Rows /\ d \in Rows
                BY <1>1 DEF Sight
            <4> HIDE DEF left
            <4> QED
                BY <4>1, <4>2, LaterOrders
        <3>2. \A c \in offered \ given : c \in left
            BY <2>2 DEF Past
        <3> QED
            BY <3>1, <3>2
    <2> QED
        BY <2>1, <2>2 DEF Between
<1>4. left \subseteq RelatedTo(r, half)
    OBVIOUS
<1> HIDE DEF left, page
<1>5. given \cap page.items = {} /\ \A c \in given \cup page.items : Sight(c)
    BY <1>1, <1>2, <1>3, <1>4
<1>6. page.next = <<>> => offered \subseteq given \cup page.items
    BY <1>2, <1>3
<1>7. ASSUME page.next # <<>>
      PROVE  Between(page.next, given \cup page.items, offered)
    <2>1. PICK m \in page.items : /\ page.next = PlaceOf(m)
                                  /\ \A c \in page.items : ~Sooner(PlaceOf(c), PlaceOf(m))
                                  /\ \A c \in left \ page.items : Sooner(PlaceOf(c), PlaceOf(m))
        BY <1>2, <1>7
    <2>2. m \in left /\ m \in Rows
        BY <1>1, <1>2, <1>4
    <2> QED
        BY <1>3, <2>1, <2>2 DEF Between
<1> QED
    BY <1>5, <1>6, <1>7 DEF page, GoesOn

LEMMA PagesInvariant == RelatedSpec => []RelatedInv
<1>1. RelatedInit => RelatedInv
    BY DEF RelatedInit, WorldInit, RelatedInv, Turned, NoPages
<1>2. RelatedInv /\ [RelatedNext]_relatedVars => RelatedInv'
    <2> SUFFICES ASSUME RelatedInv, [RelatedNext]_relatedVars PROVE RelatedInv'
        OBVIOUS
    <2>0. ASSUME UNCHANGED worldVars
          PROVE  /\ \A r \in Rows : Lookup(r) = "found" => (Lookup(r) = "found")'
                 /\ \A r \in Rows, half \in HalfWidths : RelatedTo(r, half) \subseteq RelatedTo(r, half)'
        <3>1. clock' \in Nat /\ clock <= clock' /\ imports' = NoImports
            BY <2>0 DEF worldVars, RelatedInv
        <3> QED
            BY <3>1, SightGrows DEF RelatedInv
    <2>1. ASSUME UNCHANGED worldVars, opened' = opened, Turned' PROVE RelatedInv'
        <3>1. clock' = clock /\ imports' = imports
            BY <2>1 DEF worldVars
        <3> QED
            BY <2>0, <2>1, <3>1 DEF RelatedInv
    <2>2. ASSUME NEW r \in Rows, OpenSession(r) PROVE RelatedInv'
        <3>1. UNCHANGED <<worldVars, related>> /\ \A q \in Rows : q.id \in opened' => Lookup(q) = "found"
            BY <2>2, WorldAssumption DEF OpenSession, RelatedInv
        <3>2. clock' = clock /\ imports' = imports
            BY <3>1 DEF worldVars
        <3>3. Turned'
            BY <2>0, <3>1 DEF RelatedInv, Turned, Sight
        <3> QED
            BY <2>0, <3>1, <3>2, <3>3 DEF RelatedInv
    <2>3. ASSUME NEW r \in Rows, NEW half \in HalfWidths, FirstPage(r, half) PROVE RelatedInv'
        <3> DEFINE page == PageOf(r, half, <<>>)
                   offers == RelatedTo(r, half)
        <3>1. /\ Lookup(r) = "found" /\ UNCHANGED <<worldVars, opened>>
              /\ related' = [state |-> IF page.next = <<>> THEN "read" ELSE "reading", row |-> r, half |-> half,
                             cursor |-> Cursor(r, half, page.next), given |-> page.items, twice |-> {},
                             offered |-> offers]
            BY <2>3 DEF FirstPage
        <3>2. GoesOn(page, {}, offers)
            BY <3>1, PageTurns
        <3>3. clock' = clock /\ imports' = imports
            BY <3>1 DEF worldVars
        <3>4. PICK items, next, of : items = page.items /\ next = page.next /\ of = offers
            OBVIOUS
        <3>5. /\ related'.state = (IF next = <<>> THEN "read" ELSE "reading") /\ related'.row = r
              /\ related'.half = half /\ related'.cursor.for = <<r.id, half>> /\ related'.cursor.place = next
              /\ related'.given = items /\ related'.twice = {} /\ related'.offered = of
            BY <3>1, <3>4 DEF Cursor
        <3>6. of \subseteq RelatedTo(r, half)' /\ \A c \in items : Sight(c)'
            <4>1. \A c \in items : Sight(c)
                BY <3>2, <3>4 DEF GoesOn
            <4> QED
                BY <2>0, <3>1, <3>4, <4>1 DEF Sight
        <3>7. related' = [state |-> related'.state, row |-> related'.row, half |-> related'.half,
                       cursor |-> related'.cursor, given |-> related'.given, twice |-> related'.twice,
                       offered |-> related'.offered]
            BY <3>1
        <3> HIDE DEF page, offers
        <3>8. Turned'
            BY <3>2, <3>4, <3>5, <3>6, <3>7 DEF Turned, GoesOn
        <3> QED
            BY <2>1, <3>1, <3>8
    <2>4. ASSUME NEW r \in Rows, NEW half \in HalfWidths, NEW cursor \in {related.cursor} \cup ForeignCursors,
                 NextPage(r, half, cursor)
          PROVE  RelatedInv'
        <3> DEFINE page == PageOf(r, half, cursor.place)
        <3>1. /\ related.state = "reading" /\ Lookup(r) = "found" /\ UNCHANGED <<worldVars, opened>>
            BY <2>4 DEF NextPage
        <3>2. CASE ~Genuine(cursor, r, half)
            <4>1. related'.state = "invalid_cursor"
                BY <2>4, <3>1, <3>2 DEF NextPage
            <4> QED
                BY <2>1, <3>1, <4>1 DEF Turned
        <3>3. CASE Genuine(cursor, r, half)
            <4>1. cursor = related.cursor /\ r = related.row /\ half = related.half
                BY <3>1, <3>3, PagesAssumption, WorldAssumption DEF Genuine, RelatedInv, Turned
            <4>2. related' = [related EXCEPT !.state = IF page.next = <<>> THEN "read" ELSE "reading",
                                             !.cursor = Cursor(r, half, page.next),
                                             !.given = @ \cup page.items,
                                             !.twice = @ \cup (related.given \cap page.items)]
                BY <2>4, <3>1, <3>3 DEF NextPage
            <4>3. PICK given, of, row : given = related.given /\ of = related.offered /\ row = r
                OBVIOUS
            <4>4. Between(cursor.place, given, of)
                BY <3>1, <4>1, <4>3 DEF RelatedInv, Turned
            <4>5. of \subseteq RelatedTo(r, half) /\ (\A c \in given : Sight(c)) /\ related.twice = {}
                BY <3>1, <4>1, <4>3 DEF RelatedInv, Turned
            <4>6. GoesOn(page, given, of)
                BY <3>1, <4>4, <4>5, PageTurns
            <4>7. PICK items, next : items = page.items /\ next = page.next
                OBVIOUS
            <4>8. related' = [state |-> IF next = <<>> THEN "read" ELSE "reading", row |-> r, half |-> half,
                              cursor |-> Cursor(r, half, next), given |-> given \cup items, twice |-> {},
                              offered |-> of]
                <5>0. PICK was, at : was = related.state /\ at = related.cursor
                    OBVIOUS
                <5>1. related = [state |-> was, row |-> r, half |-> half,
                                 cursor |-> at, given |-> given, twice |-> {}, offered |-> of]
                    BY <3>1, <4>1, <4>3, <4>5, <5>0 DEF RelatedInv, Turned
                <5>2. given \cap items = {}
                    BY <4>6, <4>7 DEF GoesOn
                <5> HIDE DEF page
                <5>3. PICK state, mark : /\ state = (IF next = <<>> THEN "read" ELSE "reading")
                                          /\ mark = Cursor(r, half, next)
                    OBVIOUS
                <5>4. related' = [related EXCEPT !.state = state, !.cursor = mark,
                                                 !.given = given \cup items, !.twice = {}]
                    BY <4>2, <4>3, <4>5, <4>7, <5>2, <5>3
                <5>5. related' = [state |-> state, row |-> r, half |-> half, cursor |-> mark,
                                  given |-> given \cup items, twice |-> {}, offered |-> of]
                    BY <5>1, <5>4
                <5> QED
                    BY <5>3, <5>5
            <4>9. clock' = clock /\ imports' = imports
                BY <3>1 DEF worldVars
            <4>10. of \subseteq RelatedTo(r, half)' /\ \A c \in given \cup items : Sight(c)'
                <5>1. \A c \in given \cup items : Sight(c)
                    BY <4>6, <4>7 DEF GoesOn
                <5> QED
                    BY <2>0, <3>1, <4>5, <5>1 DEF Sight
            <4>11. /\ related'.state = (IF next = <<>> THEN "read" ELSE "reading") /\ related'.row = r
                   /\ related'.half = half /\ related'.cursor.for = <<r.id, half>> /\ related'.cursor.place = next
                   /\ related'.given = given \cup items /\ related'.twice = {} /\ related'.offered = of
                BY <4>8 DEF Cursor
            <4>12. related' = [state |-> related'.state, row |-> related'.row, half |-> related'.half,
                       cursor |-> related'.cursor, given |-> related'.given, twice |-> related'.twice,
                       offered |-> related'.offered]
                BY <4>8
            <4> HIDE DEF page
            <4>13. Turned'
                BY <4>6, <4>7, <4>10, <4>11, <4>12 DEF Turned, GoesOn
            <4> QED
                BY <2>1, <3>1, <4>13
        <3> QED
            BY <3>2, <3>3
    <2>5. ASSUME Passes PROVE RelatedInv'
        <3>1. clock' \in Nat /\ clock <= clock' /\ imports' = imports /\ opened' = opened /\ related' = related
            BY <2>5 DEF Passes, RelatedInv
        <3>2. /\ \A r \in Rows : Lookup(r) = "found" => (Lookup(r) = "found")'
              /\ \A r \in Rows, half \in HalfWidths : RelatedTo(r, half) \subseteq RelatedTo(r, half)'
            BY <3>1, SightGrows DEF RelatedInv
        <3>3. Turned'
            BY <3>1, <3>2 DEF RelatedInv, Turned, Sight
        <3> QED
            BY <3>1, <3>2, <3>3 DEF RelatedInv
    <2>6. CASE UNCHANGED relatedVars
        <3>1. UNCHANGED worldVars /\ opened' = opened /\ related' = related
            BY <2>6 DEF relatedVars
        <3>2. Turned'
            BY <2>0, <3>1 DEF RelatedInv, Turned, Sight
        <3> QED
            BY <2>1, <3>1, <3>2
    <2> QED
        BY <2>2, <2>3, <2>4, <2>5, <2>6 DEF RelatedNext
<1> QED
    BY <1>1, <1>2, PTL DEF RelatedSpec

\* Whoever turns the pages of related sessions gets each of those there were
\* at first once, and only what may be opened, although younger sessions come
\* into sight meanwhile (list_related_sessions, get_session).
THEOREM RelatedComeOnce == RelatedSpec => []RelatedOnce
<1>1. RelatedInv => RelatedOnce
    BY DEF RelatedInv, Turned, Sight, RelatedOnce
<1> QED
    BY <1>1, PagesInvariant, PTL

-----------------------------------------------------------------------------
\* A log that may have grown by one record, which is the last.
Grown(R, S) ==
    /\ IsFiniteSet(DOMAIN S) /\ DOMAIN S \subseteq Nat /\ DOMAIN R \subseteq DOMAIN S
    /\ \A i \in DOMAIN R : S[i] = R[i]
    /\ \A i \in DOMAIN R, j \in DOMAIN S \ DOMAIN R : i < j
    /\ \A i, j \in DOMAIN S \ DOMAIN R : i = j
\* ... and was written in the order of time, nothing of it from the future.
Timed(R, moment) ==
    /\ \A i \in DOMAIN R : R[i].t \in Nat /\ R[i].t <= moment
    /\ \A i, j \in DOMAIN R : i <= j => R[i].t <= R[j].t
\* A verdict that is no better than another.
Worse(before, later) ==
    /\ before = "fail" => later = "fail"
    /\ before = "warn" => later \in {"warn", "fail"}
    /\ before = "pass" => later # "n/a"

\* The checks whose parts are about single records.
LEMMA SingleSticks ==
    ASSUME NEW R, NEW S, Grown(R, S)
    PROVE  /\ Worse(RefreshReuse(R), RefreshReuse(S))
           /\ Worse(BearerFromBrowser(R), BearerFromBrowser(S))
           /\ Worse(SlotsExhausted(R), SlotsExhausted(S))
           /\ Worse(InvalidCursor(R), InvalidCursor(S))
           /\ Worse(LimitOverMax(R), LimitOverMax(S))
           /\ Worse(EstimateRate(R), EstimateRate(S))
           /\ Worse(IfMatch(R), IfMatch(S))
           /\ Worse(ImportChecksum(R), ImportChecksum(S))
<1>1. \A i \in DOMAIN R : i \in DOMAIN S /\ S[i] = R[i]
    BY DEF Grown
<1>2. /\ \A codes : HasCode(R, codes) => HasCode(S, codes)
      /\ \A path : HasPath(R, path) => HasPath(S, path)
      /\ \A method, path : Has(R, method, path) => Has(S, method, path)
    BY <1>1 DEF HasCode, HasPath, Has
<1>3. Worse(RefreshReuse(R), RefreshReuse(S))
    BY <1>2 DEF RefreshReuse, Judge, Worse
<1>4. Worse(BearerFromBrowser(R), BearerFromBrowser(S))
    BY <1>1 DEF BearerFromBrowser, Judge, Worse
<1>5. Worse(SlotsExhausted(R), SlotsExhausted(S))
    BY <1>2 DEF SlotsExhausted, Judge, Worse
<1>6. Worse(InvalidCursor(R), InvalidCursor(S))
    BY <1>1, <1>2 DEF InvalidCursor, Judge, Worse
<1>7. Worse(LimitOverMax(R), LimitOverMax(S))
    BY <1>1 DEF LimitOverMax, Judge, Worse
<1>8. Worse(EstimateRate(R), EstimateRate(S))
    BY <1>2 DEF EstimateRate, Judge, Worse
<1>9. Worse(IfMatch(R), IfMatch(S))
    BY <1>1 DEF IfMatch, Judge, Worse
<1>10. Worse(ImportChecksum(R), ImportChecksum(S))
    BY <1>2 DEF ImportChecksum, Judge, Worse
<1> QED
    BY <1>3, <1>4, <1>5, <1>6, <1>7, <1>8, <1>9, <1>10

\* Neighbours stay neighbours.
LEMMA PairsStay ==
    ASSUME NEW R, NEW S, Grown(R, S), NEW A, NEW B,
           A \subseteq DOMAIN R, A \subseteq B, B \subseteq DOMAIN S, B \cap DOMAIN R \subseteq A
    PROVE  \A p \in Pairwise(A) : /\ p \in Pairwise(B) /\ p[1] \in A /\ p[2] \in A
                                  /\ S[p[1]] = R[p[1]] /\ S[p[2]] = R[p[2]]
<1> SUFFICES ASSUME NEW i \in A, NEW j \in A, i < j, \A k \in A : k <= i \/ k >= j
             PROVE  \A k \in B : k <= i \/ k >= j
    BY DEF Pairwise, Grown
<1> SUFFICES ASSUME NEW k \in B \ A PROVE k >= j
    OBVIOUS
<1>1. k \in DOMAIN S \ DOMAIN R /\ j \in DOMAIN R
    OBVIOUS
<1>2. j < k /\ j \in Nat /\ k \in Nat
    BY <1>1 DEF Grown
<1> QED
    BY <1>2

LEMMA RefreshSticks ==
    ASSUME NEW R, NEW S, Grown(R, S)
    PROVE  Worse(RefreshSingleFlight(R), RefreshSingleFlight(S))
<1> DEFINE A == {i \in DOMAIN R : R[i].path = "refresh"}
           B == {i \in DOMAIN S : S[i].path = "refresh"}
<1>1. A \subseteq B /\ A \subseteq DOMAIN R /\ B \subseteq DOMAIN S /\ B \cap DOMAIN R \subseteq A
    BY DEF Grown
<1>2. RefreshSingleFlight(R) = Judge(A # {}, \E p \in Pairwise(A) : R[p[2]].t - R[p[1]].t < Gap.refresh, "fail")
    BY DEF RefreshSingleFlight
<1>3. RefreshSingleFlight(S) = Judge(B # {}, \E p \in Pairwise(B) : S[p[2]].t - S[p[1]].t < Gap.refresh, "fail")
    BY DEF RefreshSingleFlight
<1> HIDE DEF A, B
<1>4. \A p \in Pairwise(A) : p \in Pairwise(B) /\ S[p[1]] = R[p[1]] /\ S[p[2]] = R[p[2]]
    BY <1>1, PairsStay
<1> QED
    BY <1>1, <1>2, <1>3, <1>4 DEF Judge, Worse

LEMMA SseOpensStick ==
    ASSUME NEW R, NEW S, Grown(R, S)
    PROVE  Worse(SseDoubleOpen(R), SseDoubleOpen(S))
<1> DEFINE A == Happened(R, "sse", "open")
           B == Happened(S, "sse", "open")
<1>1. A \subseteq B /\ A \subseteq DOMAIN R /\ B \subseteq DOMAIN S /\ B \cap DOMAIN R \subseteq A
    BY DEF Grown, Happened
<1>2. SseDoubleOpen(R) = Judge(A # {}, \E p \in Pairwise(A) : R[p[2]].t - R[p[1]].t < Gap.sse, "fail")
    BY DEF SseDoubleOpen
<1>3. SseDoubleOpen(S) = Judge(B # {}, \E p \in Pairwise(B) : S[p[2]].t - S[p[1]].t < Gap.sse, "fail")
    BY DEF SseDoubleOpen
<1> HIDE DEF A, B
<1>4. \A p \in Pairwise(A) : p \in Pairwise(B) /\ S[p[1]] = R[p[1]] /\ S[p[2]] = R[p[2]]
    BY <1>1, PairsStay
<1> QED
    BY <1>1, <1>2, <1>3, <1>4 DEF Judge, Worse

\* The first revocation stays the first.
LEMMA LogoutSticks ==
    ASSUME NEW R, NEW S, Grown(R, S)
    PROVE  Worse(LogoutOnce(R), LogoutOnce(S))
<1> DEFINE Revokes(r) == (r.path = "logout" /\ r.status = 204) \/ r.code = "session_revoked"
           A == {i \in DOMAIN R : Revokes(R[i])}
           B == {i \in DOMAIN S : Revokes(S[i])}
           Calls(r) == r.auth /\ r.path \notin {"login", "refresh", "logout"}
           Offends(L, C) == \E j \in DOMAIN L : /\ Calls(L[j])
                                                /\ \A i \in C : (\A k \in C : i <= k) =>
                                                      L[j].t > L[i].t + Gap.grace
<1>1. A \subseteq B /\ A \subseteq DOMAIN R /\ B \subseteq DOMAIN S /\ B \cap DOMAIN R \subseteq A
    BY DEF Grown
<1>2. LogoutOnce(R) = Judge(A # {}, Offends(R, A), "fail") /\ LogoutOnce(S) = Judge(B # {}, Offends(S, B), "fail")
    BY DEF LogoutOnce
<1> HIDE DEF A, B
<1>3. ASSUME A # {}, NEW i \in B, \A k \in B : i <= k PROVE i \in A /\ \A k \in A : i <= k
    <2>1. PICK a \in A : TRUE
        BY <1>3
    <2>2. a \in B /\ a \in DOMAIN R /\ a \in Nat /\ i \in Nat /\ i <= a
        BY <1>1, <1>3, <2>1 DEF Grown
    <2>3. ~ a < i
        BY <2>2
    <2>4. i \in DOMAIN R
        BY <1>1, <2>2, <2>3 DEF Grown
    <2> QED
        BY <1>1, <1>3, <2>4
<1>4. A # {} /\ Offends(R, A) => Offends(S, B)
    <2> SUFFICES ASSUME A # {}, NEW j \in DOMAIN R, Calls(R[j]),
                        \A i \in A : (\A k \in A : i <= k) => R[j].t > R[i].t + Gap.grace
                 PROVE  Offends(S, B)
        OBVIOUS
    <2>1. j \in DOMAIN S /\ S[j] = R[j] /\ \A i \in A : S[i] = R[i]
        BY <1>1 DEF Grown
    <2>2. \A i \in B : (\A k \in B : i <= k) => S[j].t > S[i].t + Gap.grace
        BY <1>3, <2>1
    <2> QED
        BY <2>1, <2>2
<1>5. A # {} => B # {}
    BY <1>1
<1> HIDE DEF Offends
<1> QED
    BY <1>2, <1>4, <1>5 DEF Judge, Worse

LEMMA DuplicatesStick ==
    ASSUME NEW R, NEW S, Grown(R, S)
    PROVE  Worse(DuplicateJobs(R), DuplicateJobs(S))
<1>1. Creations(R) \subseteq Creations(S) /\ \A i \in Creations(R) : S[i] = R[i]
    BY DEF Grown, Creations
<1>2. IsFiniteSet(Creations(S))
    <2>1. Creations(S) \in SUBSET DOMAIN S /\ IsFiniteSet(DOMAIN S)
        BY DEF Creations, Grown
    <2> QED
        BY <2>1, FS_Subset
<1>3. /\ Cardinality(Creations(R)) <= Cardinality(Creations(S))
      /\ Cardinality(Creations(R)) \in Nat /\ Cardinality(Creations(S)) \in Nat
    BY <1>1, <1>2, FS_Subset, FS_CardinalityType
<1>4. Cardinality(Creations(R)) >= 2 => Cardinality(Creations(S)) >= 2
    BY <1>3
<1> QED
    BY <1>1, <1>4 DEF DuplicateJobs, Judge, Worse

\* A search once abandoned is: a DELETE that comes now is late, too.
AbandonedAt(R, moment) ==
    Judge(Made(R) # {},
          \E p \in Pairwise(Made(R)) :
            /\ moment - R[p[2]].t > Gap.abandoned
            /\ LET D == Deletes(R, R[p[1]].made)
               IN D = {} \/ \E k \in D : /\ \A d \in D : d <= k
                                         /\ R[k].t > R[p[2]].t + Gap.abandoned,
          "fail")

LEMMA AbandonedSticks ==
    ASSUME NEW R, NEW S, Grown(R, S), NEW was \in Nat, NEW is \in Nat, was <= is,
           Timed(R, was), \A j \in DOMAIN S \ DOMAIN R : S[j].t \in Nat /\ S[j].t >= was
    PROVE  Worse(AbandonedAt(R, was), AbandonedAt(S, is))
<1>1. /\ Made(R) \subseteq Made(S) /\ Made(R) \subseteq DOMAIN R /\ Made(S) \subseteq DOMAIN S
      /\ Made(S) \cap DOMAIN R \subseteq Made(R)
    BY DEF Grown, Made
<1>2. \A p \in Pairwise(Made(R)) : /\ p \in Pairwise(Made(S)) /\ p[1] \in Made(R) /\ p[2] \in Made(R)
                                   /\ S[p[1]] = R[p[1]] /\ S[p[2]] = R[p[2]]
    BY <1>1, PairsStay
<1>3. Gap.abandoned \in Nat
    BY ObserverAssumption
<1>4. ASSUME NEW p \in Pairwise(Made(R)), was - R[p[2]].t > Gap.abandoned, NEW id,
             \/ Deletes(R, id) = {}
             \/ \E k \in Deletes(R, id) : /\ \A d \in Deletes(R, id) : d <= k
                                          /\ R[k].t > R[p[2]].t + Gap.abandoned
      PROVE  /\ is - S[p[2]].t > Gap.abandoned
             /\ \/ Deletes(S, id) = {}
                \/ \E k \in Deletes(S, id) : /\ \A d \in Deletes(S, id) : d <= k
                                             /\ S[k].t > S[p[2]].t + Gap.abandoned
    <2>1. R[p[2]].t \in Nat /\ S[p[2]].t = R[p[2]].t
        BY <1>1, <1>2 DEF Timed
    <2>2. is - S[p[2]].t > Gap.abandoned
        BY <1>3, <1>4, <2>1
    <2>3. CASE \E k \in Deletes(S, id) : k \notin DOMAIN R
        <3>1. PICK k \in Deletes(S, id) : k \notin DOMAIN R
            BY <2>3
        <3>2. k \in DOMAIN S \ DOMAIN R /\ k \in Nat
            BY <3>1 DEF Deletes, Grown
        <3>3. \A d \in Deletes(S, id) : d <= k
            BY <3>2 DEF Deletes, Grown
        <3>4. S[k].t > S[p[2]].t + Gap.abandoned
            BY <1>3, <1>4, <2>1, <3>2
        <3> QED
            BY <2>2, <3>1, <3>3, <3>4
    <2>4. CASE \A k \in Deletes(S, id) : k \in DOMAIN R
        <3>1. Deletes(S, id) = Deletes(R, id)
            BY <2>4 DEF Deletes, Grown
        <3>2. \A k \in Deletes(R, id) : S[k] = R[k]
            BY DEF Deletes, Grown
        <3> QED
            BY <1>4, <2>1, <2>2, <3>1, <3>2
    <2> QED
        BY <2>3, <2>4
<1>5. ASSUME NEW p \in Pairwise(Made(R)),
             was - R[p[2]].t > Gap.abandoned,
             \/ Deletes(R, R[p[1]].made) = {}
             \/ \E k \in Deletes(R, R[p[1]].made) : /\ \A d \in Deletes(R, R[p[1]].made) : d <= k
                                                    /\ R[k].t > R[p[2]].t + Gap.abandoned
      PROVE  AbandonedAt(S, is) = "fail"
    <2>1. PICK id : id = R[p[1]].made /\ id = S[p[1]].made
        BY <1>2
    <2>2. /\ is - S[p[2]].t > Gap.abandoned
          /\ \/ Deletes(S, id) = {}
             \/ \E k \in Deletes(S, id) : /\ \A d \in Deletes(S, id) : d <= k
                                          /\ S[k].t > S[p[2]].t + Gap.abandoned
        BY <1>4, <1>5, <2>1
    <2>3. p \in Pairwise(Made(S)) /\ Made(S) # {}
        BY <1>1, <1>2
    <2> QED
        BY <2>1, <2>2, <2>3 DEF AbandonedAt, Judge
<1>6. AbandonedAt(R, was) = "fail" =>
        \E p \in Pairwise(Made(R)) :
            /\ was - R[p[2]].t > Gap.abandoned
            /\ \/ Deletes(R, R[p[1]].made) = {}
               \/ \E k \in Deletes(R, R[p[1]].made) : /\ \A d \in Deletes(R, R[p[1]].made) : d <= k
                                                      /\ R[k].t > R[p[2]].t + Gap.abandoned
    BY DEF AbandonedAt, Judge
<1>7. AbandonedAt(R, was) # "warn" /\ (AbandonedAt(R, was) = "pass" => Made(R) # {})
    BY DEF AbandonedAt, Judge
<1>8. Made(S) # {} => AbandonedAt(S, is) # "n/a"
    BY DEF AbandonedAt, Judge
<1> QED
    BY <1>1, <1>5, <1>6, <1>7, <1>8 DEF Worse

LEMMA RetriesStick ==
    ASSUME NEW R, NEW S, Grown(R, S)
    PROVE  Worse(RetryAfterViolations(R), RetryAfterViolations(S)) /\ Worse(Retried4xx(R), Retried4xx(S))
<1>1. \A i \in DOMAIN R : i \in DOMAIN S /\ S[i] = R[i]
    BY DEF Grown
<1> DEFINE Limits(L) == {i \in DOMAIN L : L[i].status \in {429, 503} /\ L[i].wait > 0}
           Early(L, i, j) == /\ i < j /\ L[i].path = L[j].path /\ L[j].t < L[i].t + L[i].wait
                             /\ \A k \in Limits(L) : k <= i \/ k >= j \/ L[k].path # L[i].path
           Denied(L) == {i \in DOMAIN L : L[i].status \in 400 .. 499 \ {401, 408, 409, 425, 429}}
<1>2. RetryAfterViolations(R) = Judge(Limits(R) # {}, \E i \in Limits(R), j \in DOMAIN R : Early(R, i, j), "fail")
    BY DEF RetryAfterViolations
<1>3. RetryAfterViolations(S) = Judge(Limits(S) # {}, \E i \in Limits(S), j \in DOMAIN S : Early(S, i, j), "fail")
    BY DEF RetryAfterViolations
<1>4. Limits(R) \subseteq Limits(S) /\ Limits(S) \cap DOMAIN R \subseteq Limits(R) /\ Limits(S) \subseteq DOMAIN S
    BY <1>1
<1>5. ASSUME NEW i \in Limits(R), NEW j \in DOMAIN R, Early(R, i, j) PROVE Early(S, i, j)
    <2>1. \A k \in Limits(S) \ DOMAIN R : k >= j
        <3> HIDE DEF Limits
        <3> SUFFICES ASSUME NEW k \in Limits(S) \ DOMAIN R PROVE k >= j
            OBVIOUS
        <3>1. j < k /\ j \in Nat /\ k \in Nat
            BY <1>4 DEF Grown
        <3> QED
            BY <3>1
    <2>2. \A k \in Limits(S) : k <= i \/ k >= j \/ S[k].path # S[i].path
        <3>1. \A k \in Limits(R) : k <= i \/ k >= j \/ R[k].path # R[i].path
            BY <1>5
        <3>2. i \in DOMAIN R /\ \A k \in Limits(R) : k \in DOMAIN R
            OBVIOUS
        <3> HIDE DEF Limits
        <3> QED
            BY <1>1, <1>4, <2>1, <3>1, <3>2
    <2>3. S[i] = R[i] /\ S[j] = R[j]
        BY <1>1
    <2> QED
        BY <1>5, <2>2, <2>3
<1>6. Worse(RetryAfterViolations(R), RetryAfterViolations(S))
    <2> HIDE DEF Limits, Early
    <2> QED
        BY <1>1, <1>2, <1>3, <1>4, <1>5 DEF Judge, Worse
<1>7. /\ Retried4xx(R) = Judge(Denied(R) # {}, \E i \in Denied(R), j \in DOMAIN R :
            i < j /\ Same(R[i], R[j]) /\ R[j].t - R[i].t < Gap.retry, "fail")
      /\ Retried4xx(S) = Judge(Denied(S) # {}, \E i \in Denied(S), j \in DOMAIN S :
            i < j /\ Same(S[i], S[j]) /\ S[j].t - S[i].t < Gap.retry, "fail")
    BY DEF Retried4xx
<1>8. Denied(R) \subseteq Denied(S) /\ Denied(R) \subseteq DOMAIN R
    BY <1>1
<1>9. Worse(Retried4xx(R), Retried4xx(S))
    <2> HIDE DEF Denied
    <2> QED
        BY <1>1, <1>7, <1>8 DEF Judge, Worse
<1> QED
    BY <1>6, <1>9

\* A set of records that only grows has no fewer members.
LEMMA CountsGrow ==
    ASSUME NEW L, IsFiniteSet(L), NEW A, NEW B, A \subseteq B, B \subseteq L
    PROVE  /\ Cardinality(A) \in Nat /\ Cardinality(B) \in Nat
           /\ Cardinality(A) <= Cardinality(B)
<1>1. IsFiniteSet(B)
    BY FS_Subset
<1> QED
    BY <1>1, FS_Subset, FS_CardinalityType

LEMMA DedupeSticks ==
    ASSUME NEW R, NEW S, Grown(R, S)
    PROVE  Worse(GetDedupe(R), GetDedupe(S))
<1> DEFINE Gets(L) == {i \in DOMAIN L : L[i].method = "GET"}
           Alike(L, i) == {j \in Gets(L) : j >= i /\ Same(L[i], L[j]) /\ L[j].t - L[i].t <= Gap.dedupe}
           Burst(L, i) == Cardinality(Alike(L, i))
<1>1. Gets(R) \subseteq Gets(S) /\ \A i \in Gets(R) : S[i] = R[i]
    BY DEF Grown
<1>2. ASSUME NEW i \in Gets(R)
      PROVE  Burst(R, i) \in Nat /\ Burst(S, i) \in Nat /\ Burst(R, i) <= Burst(S, i)
    <2>1. Alike(R, i) \subseteq Alike(S, i) /\ Alike(S, i) \subseteq DOMAIN S /\ IsFiniteSet(DOMAIN S)
        BY <1>1 DEF Grown
    <2> HIDE DEF Alike
    <2> QED
        BY <2>1, CountsGrow
<1>3. \A i \in Gets(S) : Burst(S, i) \in Nat
    <2> SUFFICES ASSUME NEW i \in Gets(S) PROVE Burst(S, i) \in Nat
        OBVIOUS
    <2>1. Alike(S, i) \subseteq DOMAIN S /\ IsFiniteSet(DOMAIN S)
        BY DEF Grown
    <2> HIDE DEF Alike
    <2> QED
        BY <2>1, CountsGrow
<1>4. /\ GetDedupe(R) = CASE Gets(R) = {} -> "n/a"
                          [] \E i \in Gets(R) : Burst(R, i) >= 5 -> "fail"
                          [] (\E i \in Gets(R) : Burst(R, i) > 2) /\ \A i \in Gets(R) : Burst(R, i) < 5 -> "warn"
                          [] OTHER -> "pass"
      /\ GetDedupe(S) = CASE Gets(S) = {} -> "n/a"
                          [] \E i \in Gets(S) : Burst(S, i) >= 5 -> "fail"
                          [] (\E i \in Gets(S) : Burst(S, i) > 2) /\ \A i \in Gets(S) : Burst(S, i) < 5 -> "warn"
                          [] OTHER -> "pass"
    BY DEF GetDedupe
<1> HIDE DEF Gets, Burst, Alike
<1>5. \A i \in Gets(R) : /\ Burst(R, i) >= 5 => Burst(S, i) >= 5
                         /\ Burst(R, i) > 2 => Burst(S, i) > 2
                         /\ ~(Burst(R, i) >= 5 /\ Burst(R, i) < 5)
    BY <1>2
<1>6. \A i \in Gets(S) : Burst(S, i) >= 5 <=> ~ Burst(S, i) < 5
    BY <1>3
<1>7. CASE GetDedupe(R) = "fail"
    <2>1. \E i \in Gets(R) : Burst(R, i) >= 5
        BY <1>4, <1>7
    <2>2. GetDedupe(S) = "fail"
        BY <1>1, <1>4, <1>5, <1>6, <2>1
    <2> QED
        BY <1>7, <2>2 DEF Worse
<1>8. CASE GetDedupe(R) = "warn"
    <2>1. \E i \in Gets(R) : Burst(R, i) > 2
        BY <1>4, <1>8
    <2>2. \E i \in Gets(S) : Burst(S, i) > 2
        BY <1>1, <1>5, <2>1
    <2>3. GetDedupe(S) \in {"warn", "fail"}
        BY <1>4, <1>6, <2>2
    <2> QED
        BY <1>8, <2>3 DEF Worse
<1>9. CASE GetDedupe(R) = "pass"
    <2>1. Gets(R) # {}
        BY <1>4, <1>9
    <2>2. GetDedupe(S) # "n/a"
        BY <1>1, <1>4, <1>6, <2>1
    <2> QED
        BY <1>9, <2>2 DEF Worse
<1> QED
    BY <1>7, <1>8, <1>9 DEF Worse

LEMMA PatchesStick ==
    ASSUME NEW R, NEW S, Grown(R, S)
    PROVE  Worse(MinimalPatch(R), MinimalPatch(S))
<1> DEFINE Patches(L) == {j \in DOMAIN L : L[j].method = "PATCH" /\ L[j].sent # {}}
           Shown(L, j) == {i \in DOMAIN L : i < j /\ L[i].path = L[j].path /\ L[i].item = L[j].item
                                              /\ L[i].shown # {}}
           Repeats(L, j) == \E i \in Shown(L, j) :
                              (\A k \in Shown(L, j) : k <= i) /\ L[j].sent \cap L[i].shown # {}
<1>1. /\ MinimalPatch(R) = Judge(Patches(R) # {}, \E j \in Patches(R) : Repeats(R, j), "warn")
      /\ MinimalPatch(S) = Judge(Patches(S) # {}, \E j \in Patches(S) : Repeats(S, j), "warn")
    BY DEF MinimalPatch
<1>2. Patches(R) \subseteq Patches(S) /\ Patches(R) \subseteq DOMAIN R
    BY DEF Grown
<1>3. ASSUME NEW j \in Patches(R), Repeats(R, j) PROVE Repeats(S, j)
    <2>1. j \in DOMAIN R /\ S[j] = R[j]
        BY DEF Grown
    <2>2. \A i \in DOMAIN S : i < j => i \in DOMAIN R
        <3> SUFFICES ASSUME NEW i \in DOMAIN S \ DOMAIN R, i < j PROVE FALSE
            OBVIOUS
        <3>1. j < i /\ j \in Nat /\ i \in Nat
            BY <2>1 DEF Grown
        <3> QED
            BY <3>1
    <2>3. Shown(S, j) = Shown(R, j) /\ \A i \in Shown(R, j) : S[i] = R[i]
        BY <2>1, <2>2 DEF Grown
    <2> HIDE DEF Shown
    <2> QED
        BY <1>3, <2>1, <2>3
<1> HIDE DEF Patches, Repeats
<1> QED
    BY <1>1, <1>2, <1>3 DEF Judge, Worse

LEMMA BurstsStick ==
    ASSUME NEW R, NEW S, Grown(R, S)
    PROVE  /\ Worse(DownloadSingleRequest(R), DownloadSingleRequest(S))
           /\ Worse(EnrichPerIpStorm(R), EnrichPerIpStorm(S))
<1> DEFINE Downloads(L) == {i \in DOMAIN L : L[i].file}
           Near(L, i) == {j \in Downloads(L) : j >= i /\ L[j].item = L[i].item /\ L[j].t - L[i].t <= Gap.download}
           Ips(L) == {i \in DOMAIN L : L[i].path = "enrich/ips/"}
           Storm(L, i) == {j \in Ips(L) : j >= i /\ L[j].t - L[i].t <= Gap.burst}
<1>1. /\ DownloadSingleRequest(R) = Judge(Downloads(R) # {}, \E i \in Downloads(R) : Cardinality(Near(R, i)) > 2, "fail")
      /\ DownloadSingleRequest(S) = Judge(Downloads(S) # {}, \E i \in Downloads(S) : Cardinality(Near(S, i)) > 2, "fail")
    BY DEF DownloadSingleRequest, Bursts
<1>2. /\ EnrichPerIpStorm(R) = Judge(Ips(R) # {}, \E i \in Ips(R) : Cardinality(Storm(R, i)) >= 5, "fail")
      /\ EnrichPerIpStorm(S) = Judge(Ips(S) # {}, \E i \in Ips(S) : Cardinality(Storm(S, i)) >= 5, "fail")
    BY DEF EnrichPerIpStorm
<1>3. Downloads(R) \subseteq Downloads(S) /\ Ips(R) \subseteq Ips(S)
    BY DEF Grown
<1>4. ASSUME NEW i \in Downloads(R), Cardinality(Near(R, i)) > 2 PROVE Cardinality(Near(S, i)) > 2
    <2>1. Near(R, i) \subseteq Near(S, i) /\ Near(S, i) \subseteq DOMAIN S /\ IsFiniteSet(DOMAIN S)
        BY DEF Grown
    <2> HIDE DEF Near
    <2>2. /\ Cardinality(Near(R, i)) \in Nat /\ Cardinality(Near(S, i)) \in Nat
          /\ Cardinality(Near(R, i)) <= Cardinality(Near(S, i))
        BY <2>1, CountsGrow
    <2> QED
        BY <1>4, <2>2
<1>5. ASSUME NEW i \in Ips(R), Cardinality(Storm(R, i)) >= 5 PROVE Cardinality(Storm(S, i)) >= 5
    <2>1. Storm(R, i) \subseteq Storm(S, i) /\ Storm(S, i) \subseteq DOMAIN S /\ IsFiniteSet(DOMAIN S)
        BY DEF Grown
    <2> HIDE DEF Storm
    <2>2. /\ Cardinality(Storm(R, i)) \in Nat /\ Cardinality(Storm(S, i)) \in Nat
          /\ Cardinality(Storm(R, i)) <= Cardinality(Storm(S, i))
        BY <2>1, CountsGrow
    <2> QED
        BY <1>5, <2>2
<1> HIDE DEF Downloads, Near, Ips, Storm
<1>6. Worse(DownloadSingleRequest(R), DownloadSingleRequest(S))
    BY <1>1, <1>3, <1>4 DEF Judge, Worse
<1>7. Worse(EnrichPerIpStorm(R), EnrichPerIpStorm(S))
    BY <1>2, <1>3, <1>5 DEF Judge, Worse
<1> QED
    BY <1>6, <1>7

\* A stream opened too soon after a close: one closed since, in the same
\* moment, is no better.
LEMMA StreamsStick ==
    ASSUME NEW R, NEW S, Grown(R, S), NEW was \in Nat, Timed(R, was),
           \A j \in DOMAIN S \ DOMAIN R : S[j].t \in Nat /\ S[j].t >= was
    PROVE  /\ Worse(SseReconnectBackoff(R), SseReconnectBackoff(S))
           /\ Worse(WsPongOk(R), WsPongOk(S))
           /\ Worse(WsTicketReuse(R), WsTicketReuse(S))
<1>1. \A kind, what : /\ Happened(R, kind, what) \subseteq Happened(S, kind, what)
                      /\ Happened(R, kind, what) \subseteq DOMAIN R
                      /\ Happened(S, kind, what) \cap DOMAIN R \subseteq Happened(R, kind, what)
    BY DEF Happened, Grown
<1>2. \A i \in DOMAIN R : S[i] = R[i]
    BY DEF Grown
<1>3. Worse(WsPongOk(R), WsPongOk(S))
    BY <1>1, <1>2 DEF WsPongOk, Judge, Worse
<1>4. Worse(WsTicketReuse(R), WsTicketReuse(S))
    <2>1. /\ Happened(R, "ws", "open") \subseteq Happened(S, "ws", "open")
          /\ Happened(R, "ws", "rejected") \subseteq Happened(S, "ws", "rejected")
          /\ Happened(R, "ws", "reused") \subseteq Happened(S, "ws", "reused")
        BY <1>1
    <2> QED
        BY <2>1 DEF WsTicketReuse, Judge, Worse
<1> DEFINE A == Happened(R, "sse", "close")
           B == Happened(S, "sse", "close")
           Soon(L, C, i, c) == /\ L[c].t <= L[i].t /\ L[i].t - L[c].t < Gap.sse
                               /\ \A d \in C : L[d].t <= L[i].t => d <= c
<1>5. /\ SseReconnectBackoff(R) = Judge(A # {}, \E i \in Happened(R, "sse", "open") : \E c \in A : Soon(R, A, i, c), "fail")
      /\ SseReconnectBackoff(S) = Judge(B # {}, \E i \in Happened(S, "sse", "open") : \E c \in B : Soon(S, B, i, c), "fail")
    BY DEF SseReconnectBackoff
<1>6. A \subseteq B /\ A \subseteq DOMAIN R /\ B \cap DOMAIN R \subseteq A /\ B \subseteq DOMAIN S
    BY <1>1 DEF Happened
<1> HIDE DEF A, B
<1>7. ASSUME NEW i \in DOMAIN R, NEW c \in A, Soon(R, A, i, c)
      PROVE  \E b \in B : Soon(S, B, i, b)
    <2>1. S[i] = R[i] /\ S[c] = R[c] /\ R[i].t \in Nat /\ R[c].t \in Nat /\ R[i].t <= was
        BY <1>2, <1>6 DEF Timed
    <2>2. CASE \E d \in B \ A : S[d].t <= S[i].t
        <3>1. PICK d \in B \ A : S[d].t <= S[i].t
            BY <2>2
        <3>2. d \in DOMAIN S \ DOMAIN R
            BY <1>6
        <3>3. S[d].t \in Nat /\ S[d].t >= was
            BY <3>2
        <3>4. S[d].t = S[i].t
            BY <2>1, <3>1, <3>3
        <3>5. Gap.sse \in Nat
            BY ObserverAssumption
        <3>6. S[i].t - S[d].t < Gap.sse
            BY <1>7, <2>1, <3>4, <3>5
        <3>7. \A e \in B : e <= d
            <4> SUFFICES ASSUME NEW e \in B PROVE e <= d
                OBVIOUS
            <4>1. e \in Nat /\ d \in Nat /\ (e = d \/ e < d)
                BY <1>6, <3>2 DEF Grown
            <4> QED
                BY <4>1
        <3> QED
            BY <3>1, <3>6, <3>7
    <2>3. CASE \A d \in B \ A : ~ S[d].t <= S[i].t
        <3>1. \A d \in B : S[d].t <= S[i].t => d <= c
            BY <1>2, <1>6, <1>7, <2>1, <2>3
        <3> QED
            BY <1>6, <1>7, <2>1, <3>1
    <2> QED
        BY <2>2, <2>3
<1> HIDE DEF Soon
<1>8. Worse(SseReconnectBackoff(R), SseReconnectBackoff(S))
    BY <1>1, <1>5, <1>6, <1>7 DEF Judge, Worse
<1> QED
    BY <1>3, <1>4, <1>8

\* The records of the stream events, which are kept in the same way.
StreamEvents ==
    [kind : Kinds, what : {"open", "close", "pong", "subscribe", "rejected", "reused"},
     resumed : BOOLEAN, code : {0} \cup CloseCodes]
\* What the rings hold: a record of a request or an event, with its number and
\* its time.
Entry(shape, number, moment) ==
    [k \in {"seq", "t"} \cup DOMAIN shape |->
        CASE k = "seq" -> number [] k = "t" -> moment [] OTHER -> shape[k]]
LogEntries ==
    UNION {{Entry(shape, number, moment) : number, moment \in Nat} : shape \in Shapes \cup StreamEvents}
\* A log after a step is the one before it, and what is new in it is not older.
Followed(R, S, moment) ==
    Grown(R, S) /\ \A j \in DOMAIN S \ DOMAIN R : S[j].t \in Nat /\ S[j].t >= moment

\* Where one log is a prefix of another, their entries agree.
LEMMA PrefixAgrees ==
    ASSUME NEW T, NEW R \in Seq(T), NEW S \in Seq(T), IsPrefix(R, S)
    PROVE  Len(R) <= Len(S) /\ \A i \in 1 .. Len(R) : S[i] = R[i]
<1>1. Len(R) <= Len(S) /\ SubSeq(R, 1, Len(R)) = SubSeq(S, 1, Len(R))
    BY DEF IsPrefix
<1>2. ASSUME NEW i \in 1 .. Len(R) PROVE S[i] = R[i]
    <2>1. SubSeq(R, 1, Len(R))[i] = R[i] /\ SubSeq(S, 1, Len(R))[i] = S[i]
        BY <1>1
    <2> QED
        BY <1>1, <2>1
<1> QED
    BY <1>1, <1>2

\* A record appended to a ring, kept or pushing out the oldest.
LEMMA RingKeeps ==
    ASSUME NEW T, NEW log \in Seq(T), NEW e \in T, NEW moment \in Nat,
           Len(log) <= Ring, Timed(log, moment), e.t = moment
    PROVE  /\ Kept(log, e) \in Seq(T) /\ Len(Kept(log, e)) <= Ring
           /\ Timed(Kept(log, e), moment)
           /\ IsPrefix(log, Kept(log, e)) => Followed(log, Kept(log, e), moment)
<1> DEFINE new == Kept(log, e)
<1>1. Ring \in Nat \ {0} /\ Len(log) \in Nat /\ DOMAIN log = 1 .. Len(log)
    BY ObserverAssumption
<1>2. CASE Len(log) = Ring
    <2>1. /\ new \in Seq(T) /\ Len(new) = Ring /\ new[Ring] = e
          /\ \A i \in 1 .. Ring - 1 : new[i] = log[i + 1]
        BY <1>1, <1>2 DEF Kept
    <2>2. DOMAIN new = 1 .. Ring
        BY <2>1
    <2> HIDE DEF new
    <2>3. Timed(new, moment)
        <3>1. \A i \in 1 .. Ring : new[i].t \in Nat /\ new[i].t <= moment
            <4>1. ASSUME NEW i \in 1 .. Ring - 1 PROVE new[i].t \in Nat /\ new[i].t <= moment
                <5>1. i + 1 \in DOMAIN log
                    BY <1>1, <1>2
                <5> QED
                    BY <2>1, <5>1 DEF Timed
            <4>2. \A i \in 1 .. Ring : i = Ring \/ i \in 1 .. Ring - 1
                BY <1>1
            <4> QED
                BY <2>1, <4>1, <4>2
        <3>2. ASSUME NEW i \in 1 .. Ring, NEW j \in 1 .. Ring, i <= j PROVE new[i].t <= new[j].t
            <4>1. CASE j = Ring
                BY <1>1, <2>1, <3>1, <4>1
            <4>2. CASE j # Ring
                <5>1. i \in 1 .. Ring - 1 /\ j \in 1 .. Ring - 1
                    BY <1>1, <3>2, <4>2
                <5>2. i + 1 \in DOMAIN log /\ j + 1 \in DOMAIN log /\ i + 1 <= j + 1
                    BY <1>1, <1>2, <3>2, <5>1
                <5> QED
                    BY <2>1, <5>1, <5>2 DEF Timed
            <4> QED
                BY <4>1, <4>2
        <3> QED
            BY <2>2, <3>1, <3>2 DEF Timed
    <2>4. ASSUME IsPrefix(log, new) PROVE Followed(log, new, moment)
        <3>1. \A i \in DOMAIN log : new[i] = log[i]
            BY <1>1, <2>1, <2>4, PrefixAgrees
        <3>2. DOMAIN new = DOMAIN log /\ IsFiniteSet(DOMAIN new) /\ DOMAIN new \subseteq Nat
            BY <1>1, <1>2, <2>2, FS_Interval
        <3> QED
            BY <3>1, <3>2 DEF Followed, Grown
    <2> QED
        BY <1>2, <2>1, <2>3, <2>4 DEF new
<1>3. CASE Len(log) # Ring
    <2>1. /\ new \in Seq(T) /\ Len(new) = Len(log) + 1 /\ new[Len(log) + 1] = e
          /\ \A i \in 1 .. Len(log) : new[i] = log[i]
        <3>1. new = Append(log, e)
            BY <1>3 DEF Kept
        <3> HIDE DEF new
        <3> QED
            BY <1>1, <3>1
    <2>2. DOMAIN new = 1 .. Len(log) + 1
        BY <2>1
    <2> HIDE DEF new
    <2>3. Timed(new, moment)
        <3>1. \A i \in 1 .. Len(log) + 1 : new[i].t \in Nat /\ new[i].t <= moment
            BY <1>1, <2>1 DEF Timed
        <3>2. ASSUME NEW i \in 1 .. Len(log) + 1, NEW j \in 1 .. Len(log) + 1, i <= j
              PROVE  new[i].t <= new[j].t
            <4>1. CASE j = Len(log) + 1
                BY <2>1, <3>1, <4>1
            <4>2. CASE j # Len(log) + 1
                <5>1. i \in 1 .. Len(log) /\ j \in 1 .. Len(log)
                    BY <1>1, <3>2, <4>2
                <5> QED
                    BY <1>1, <2>1, <3>2, <5>1 DEF Timed
            <4> QED
                BY <4>1, <4>2
        <3> QED
            BY <2>2, <3>1, <3>2 DEF Timed
    <2>4. Followed(log, new, moment)
        <3>1. IsFiniteSet(DOMAIN new)
            BY <1>1, <2>2, FS_Interval
        <3>2. /\ DOMAIN new \subseteq Nat /\ DOMAIN log \subseteq DOMAIN new
              /\ \A j \in DOMAIN new \ DOMAIN log : j = Len(log) + 1
            BY <1>1, <2>2
        <3>3. \A i \in DOMAIN log : new[i] = log[i] /\ i < Len(log) + 1
            BY <1>1, <2>1
        <3>4. Grown(log, new)
            BY <3>1, <3>2, <3>3 DEF Grown
        <3> QED
            BY <2>1, <3>2, <3>4 DEF Followed
    <2>5. new \in Seq(T) /\ Len(new) <= Ring
        <3>1. \A n \in Nat : n <= Ring /\ n # Ring => n + 1 <= Ring
            BY ObserverAssumption
        <3>2. Len(log) + 1 <= Ring
            BY <1>1, <1>3, <3>1
        <3> QED
            BY <2>1, <3>2
    <2> QED
        BY <2>3, <2>4, <2>5 DEF new
<1> QED
    BY <1>2, <1>3

ObserverInv ==
    /\ now \in Nat /\ seq \in Nat /\ sticky \in [Clients -> Logged]
    /\ requests \in [Logged -> Seq(LogEntries)] /\ events \in [Logged -> Seq(LogEntries)]
    /\ \A f \in Logged : /\ Len(requests[f]) <= Ring /\ Timed(requests[f], now)
                         /\ Len(events[f]) <= Ring /\ Timed(events[f], now)

\* What a step makes of the logs.
LogsFollow ==
    \A f \in Logged :
        /\ IsPrefix(requests[f], requests'[f]) => Followed(requests[f], requests'[f], now)
        /\ IsPrefix(events[f], events'[f]) => Followed(events[f], events'[f], now)

LEMMA SameFollows ==
    ASSUME NEW T, NEW log \in Seq(T), NEW moment PROVE Followed(log, log, moment)
<1>1. DOMAIN log = 1 .. Len(log) /\ Len(log) \in Nat
    OBVIOUS
<1>2. IsFiniteSet(DOMAIN log) /\ DOMAIN log \subseteq Nat
    BY <1>1, FS_Interval
<1> QED
    BY <1>2 DEF Followed, Grown

LEMMA FinishFollows ==
    ASSUME ObserverInv, NEW c \in Clients, NEW family \in Logged, NEW shape \in Shapes,
           Finish(c, family, shape)
    PROVE  ObserverInv' /\ LogsFollow
<1> DEFINE to == IF family # Anonymous THEN family ELSE sticky[c]
<1>1. /\ to \in Logged /\ sticky' \in [Clients -> Logged]
      /\ requests' = [requests EXCEPT ![to] = Kept(@, Stamped(shape))]
      /\ events' = events /\ now' = now /\ seq' = seq + 1
    BY DEF Finish, ObserverInv, Logged
<1> HIDE DEF to
<1>2. PICK e : e = Stamped(shape)
    OBVIOUS
<1>3. e \in LogEntries /\ e.t = now
    <2>1. e = Entry(shape, seq + 1, now)
        BY <1>2 DEF Stamped, Entry
    <2>2. e.t = now
        BY <2>1 DEF Entry
    <2>3. seq + 1 \in Nat /\ now \in Nat
        BY DEF ObserverInv
    <2> QED
        BY <2>1, <2>2, <2>3 DEF LogEntries
<1>4. /\ Kept(requests[to], e) \in Seq(LogEntries) /\ Len(Kept(requests[to], e)) <= Ring
      /\ Timed(Kept(requests[to], e), now)
      /\ IsPrefix(requests[to], Kept(requests[to], e)) => Followed(requests[to], Kept(requests[to], e), now)
    BY <1>1, <1>3, RingKeeps DEF ObserverInv
<1>5. \A f \in Logged : requests'[f] = IF f = to THEN Kept(requests[to], e) ELSE requests[f]
    BY <1>1, <1>2 DEF ObserverInv
<1>6. ObserverInv'
    BY <1>1, <1>2, <1>4, <1>5 DEF ObserverInv
<1>7. \A f \in Logged : events[f] = events'[f] /\ requests[f] \in Seq(LogEntries) /\ events[f] \in Seq(LogEntries)
    BY <1>1 DEF ObserverInv
<1>8. LogsFollow
    BY <1>4, <1>5, <1>7, SameFollows DEF LogsFollow
<1> QED
    BY <1>6, <1>8

LEMMA NoteFollows ==
    ASSUME ObserverInv, NEW family \in Logged, NEW event \in StreamEvents, Note(family, event)
    PROVE  ObserverInv' /\ LogsFollow
<1>1. /\ events' = [events EXCEPT ![family] = Kept(@, Stamped(event))]
      /\ requests' = requests /\ sticky' = sticky /\ now' = now /\ seq' = seq + 1
    BY DEF Note
<1>2. PICK e : e = Stamped(event)
    OBVIOUS
<1>3. e \in LogEntries /\ e.t = now
    <2>1. e = Entry(event, seq + 1, now)
        BY <1>2 DEF Stamped, Entry
    <2>2. e.t = now
        BY <2>1 DEF Entry
    <2>3. seq + 1 \in Nat /\ now \in Nat
        BY DEF ObserverInv
    <2> QED
        BY <2>1, <2>2, <2>3 DEF LogEntries
<1>4. /\ Kept(events[family], e) \in Seq(LogEntries) /\ Len(Kept(events[family], e)) <= Ring
      /\ Timed(Kept(events[family], e), now)
      /\ IsPrefix(events[family], Kept(events[family], e)) =>
            Followed(events[family], Kept(events[family], e), now)
    BY <1>1, <1>3, RingKeeps DEF ObserverInv
<1>5. \A f \in Logged : events'[f] = IF f = family THEN Kept(events[family], e) ELSE events[f]
    BY <1>1, <1>2 DEF ObserverInv
<1>6. ObserverInv'
    BY <1>1, <1>2, <1>4, <1>5 DEF ObserverInv
<1>7. \A f \in Logged : requests[f] = requests'[f] /\ requests[f] \in Seq(LogEntries) /\ events[f] \in Seq(LogEntries)
    BY <1>1 DEF ObserverInv
<1>8. LogsFollow
    BY <1>4, <1>5, <1>7, SameFollows DEF LogsFollow
<1> QED
    BY <1>6, <1>8

LEMMA ForgetFollows ==
    ASSUME ObserverInv, Forget
    PROVE  ObserverInv' /\ LogsFollow
<1>1. ASSUME NEW f \in Logged, NEW log \in Seq(LogEntries), IsPrefix(log, <<>>)
      PROVE  Followed(log, <<>>, now)
    <2>1. << >> \in Seq(LogEntries) /\ Len(log) \in Nat /\ Len(log) <= 0
        BY <1>1 DEF IsPrefix
    <2>2. log = << >>
        BY <2>1
    <2> QED
        BY <2>1, <2>2, SameFollows
<1>2. ObserverInv'
    BY ObserverAssumption DEF ObserverInv, Forget, Timed, Logged
<1>3. LogsFollow
    BY <1>1 DEF ObserverInv, Forget, LogsFollow
<1> QED
    BY <1>2, <1>3

EventOf(kind, what, resumed, code) ==
    [kind |-> kind, what |-> what, resumed |-> resumed, code |-> code]

LEMMA LogsOnlyGrow ==
    ASSUME ObserverInv, [ObserverNext]_observerVars
    PROVE  ObserverInv' /\ LogsFollow /\ now <= now'
<1>0. ASSUME now' = now PROVE now <= now'
    BY <1>0 DEF ObserverInv
<1>1. ASSUME NEW c \in Clients, NEW f \in Logged, NEW shape \in Shapes, Finish(c, f, shape)
      PROVE  ObserverInv' /\ LogsFollow /\ now <= now'
    <2>1. now' = now
        BY <1>1 DEF Finish
    <2> QED
        BY <1>0, <1>1, <2>1, FinishFollows
<1>2. CASE StreamStep
    <2> DEFINE Sse(f) == \E resumed \in BOOLEAN : Opened(f, "sse", resumed)
               Ended(f) == \E code \in CloseCodes : Closed(f, "ws", code)
               Told(f) == \E what \in {"pong", "subscribe", "rejected", "reused"} : Noted(f, what)
    <2>2. PICK f \in Families :
            Sse(f) \/ Opened(f, "ws", FALSE) \/ Closed(f, "sse", 0) \/ Ended(f) \/ Told(f)
        BY <1>2, Zenon DEF StreamStep
    <2> HIDE DEF Sse, Ended, Told
    <2>3. ASSUME NEW event \in StreamEvents, Note(f, event)
          PROVE  ObserverInv' /\ LogsFollow /\ now <= now'
        BY <1>0, <2>3, NoteFollows DEF Note, Logged
    <2>4. CASE Sse(f)
        <3>0. PICK resumed \in BOOLEAN : Opened(f, "sse", resumed)
            BY <2>4 DEF Sse
        <3>1. Note(f, EventOf("sse", "open", resumed, 0))
            BY <3>0 DEF Opened, EventOf
        <3>2. PICK event : event = EventOf("sse", "open", resumed, 0)
            OBVIOUS
        <3>3. event \in StreamEvents
            BY <3>0, <3>2 DEF EventOf, StreamEvents, Kinds
        <3> QED
            BY <2>3, <3>1, <3>2, <3>3
    <2>5. CASE Opened(f, "ws", FALSE)
        <3>1. Note(f, EventOf("ws", "open", FALSE, 0))
            BY <2>5 DEF Opened, EventOf
        <3>2. PICK event : event = EventOf("ws", "open", FALSE, 0)
            OBVIOUS
        <3>3. event \in StreamEvents
            BY <3>2 DEF EventOf, StreamEvents, Kinds
        <3> QED
            BY <2>3, <3>1, <3>2, <3>3
    <2>6. CASE Closed(f, "sse", 0)
        <3>1. Note(f, EventOf("sse", "close", FALSE, 0))
            BY <2>6 DEF Closed, EventOf
        <3>2. PICK event : event = EventOf("sse", "close", FALSE, 0)
            OBVIOUS
        <3>3. event \in StreamEvents
            BY <3>2 DEF EventOf, StreamEvents, Kinds
        <3> QED
            BY <2>3, <3>1, <3>2, <3>3
    <2>7. CASE Ended(f)
        <3>0. PICK code : code \in CloseCodes /\ Closed(f, "ws", code)
            BY <2>7 DEF Ended
        <3>1. Note(f, EventOf("ws", "close", FALSE, code))
            BY <3>0 DEF Closed, EventOf
        <3>2. PICK event : event = EventOf("ws", "close", FALSE, code)
            OBVIOUS
        <3>3. event \in StreamEvents
            BY <3>0, <3>2 DEF EventOf, StreamEvents, Kinds
        <3> QED
            BY <2>3, <3>1, <3>2, <3>3
    <2>8. CASE Told(f)
        <3>0. PICK what \in {"pong", "subscribe", "rejected", "reused"} : Noted(f, what)
            BY <2>8 DEF Told
        <3>1. Note(f, EventOf("ws", what, FALSE, 0))
            BY <3>0 DEF Noted, EventOf
        <3>2. PICK event : event = EventOf("ws", what, FALSE, 0)
            OBVIOUS
        <3>3. event \in StreamEvents
            BY <3>0, <3>2 DEF EventOf, StreamEvents, Kinds
        <3> QED
            BY <2>3, <3>1, <3>2, <3>3
    <2> QED
        BY <2>2, <2>4, <2>5, <2>6, <2>7, <2>8
<1>3. CASE Forget
    <2>1. now' = now
        BY <1>3 DEF Forget
    <2> QED
        BY <1>0, <1>3, <2>1, ForgetFollows
<1>4. CASE Age \/ UNCHANGED observerVars
    <2>1. requests' = requests /\ events' = events /\ sticky' = sticky /\ seq' = seq
        BY <1>4 DEF Age, observerVars
    <2>2. now' \in Nat /\ now <= now'
        BY <1>4 DEF Age, observerVars, ObserverInv
    <2>3. \A f \in Logged : Timed(requests[f], now') /\ Timed(events[f], now')
        BY <2>2 DEF Timed, ObserverInv
    <2>4. ObserverInv'
        BY <2>1, <2>2, <2>3 DEF ObserverInv
    <2>5. LogsFollow
        BY <2>1, SameFollows DEF LogsFollow, ObserverInv
    <2> QED
        BY <2>2, <2>4, <2>5
<1> QED
    BY <1>1, <1>2, <1>3, <1>4 DEF ObserverNext, RequestStep

\* The verdicts that do not improve, on the logs R and E at a moment.
GraveOn(R, E, moment) ==
    <<RefreshSingleFlight(R), RefreshReuse(R), LogoutOnce(R), BearerFromBrowser(R),
      DuplicateJobs(R), AbandonedAt(R, moment), SlotsExhausted(R), RetryAfterViolations(R),
      Retried4xx(R), GetDedupe(R), InvalidCursor(R), LimitOverMax(R), EstimateRate(R),
      IfMatch(R), MinimalPatch(R), DownloadSingleRequest(R), EnrichPerIpStorm(R),
      ImportChecksum(R), SseDoubleOpen(E), SseReconnectBackoff(E), WsPongOk(E),
      WsTicketReuse(E)>>

LEMMA VerdictsWorsen ==
    ASSUME NEW R, NEW S, NEW D, NEW E, NEW was \in Nat, NEW is \in Nat, was <= is,
           Timed(R, was), Timed(D, was), Followed(R, S, was), Followed(D, E, was)
    PROVE  NotBetter(GraveOn(R, D, was), GraveOn(S, E, is))
<1>1. /\ Grown(R, S) /\ \A j \in DOMAIN S \ DOMAIN R : S[j].t \in Nat /\ S[j].t >= was
      /\ Grown(D, E) /\ \A j \in DOMAIN E \ DOMAIN D : E[j].t \in Nat /\ E[j].t >= was
    BY DEF Followed
<1>2. /\ Worse(RefreshSingleFlight(R), RefreshSingleFlight(S))
      /\ Worse(RefreshReuse(R), RefreshReuse(S))
      /\ Worse(LogoutOnce(R), LogoutOnce(S))
      /\ Worse(BearerFromBrowser(R), BearerFromBrowser(S))
      /\ Worse(DuplicateJobs(R), DuplicateJobs(S))
      /\ Worse(AbandonedAt(R, was), AbandonedAt(S, is))
      /\ Worse(SlotsExhausted(R), SlotsExhausted(S))
      /\ Worse(RetryAfterViolations(R), RetryAfterViolations(S))
      /\ Worse(Retried4xx(R), Retried4xx(S))
      /\ Worse(GetDedupe(R), GetDedupe(S))
      /\ Worse(InvalidCursor(R), InvalidCursor(S))
    BY <1>1, RefreshSticks, SingleSticks, LogoutSticks, DuplicatesStick, AbandonedSticks,
       RetriesStick, DedupeSticks
<1>3. /\ Worse(LimitOverMax(R), LimitOverMax(S))
      /\ Worse(EstimateRate(R), EstimateRate(S))
      /\ Worse(IfMatch(R), IfMatch(S))
      /\ Worse(MinimalPatch(R), MinimalPatch(S))
      /\ Worse(DownloadSingleRequest(R), DownloadSingleRequest(S))
      /\ Worse(EnrichPerIpStorm(R), EnrichPerIpStorm(S))
      /\ Worse(ImportChecksum(R), ImportChecksum(S))
    BY <1>1, SingleSticks, PatchesStick, BurstsStick
<1>4. /\ Worse(SseDoubleOpen(D), SseDoubleOpen(E))
      /\ Worse(SseReconnectBackoff(D), SseReconnectBackoff(E))
      /\ Worse(WsPongOk(D), WsPongOk(E))
      /\ Worse(WsTicketReuse(D), WsTicketReuse(E))
    BY <1>1, SseOpensStick, StreamsStick
<1>5. PICK before, later : before = GraveOn(R, D, was) /\ later = GraveOn(S, E, is)
    OBVIOUS
<1>6. DOMAIN before = 1 .. 22
    BY <1>5 DEF GraveOn
<1>7. /\ Worse(before[1], later[1]) /\ Worse(before[2], later[2]) /\ Worse(before[3], later[3])
      /\ Worse(before[4], later[4]) /\ Worse(before[5], later[5]) /\ Worse(before[6], later[6])
      /\ Worse(before[7], later[7]) /\ Worse(before[8], later[8]) /\ Worse(before[9], later[9])
      /\ Worse(before[10], later[10]) /\ Worse(before[11], later[11])
    BY <1>2, <1>5 DEF GraveOn
<1>8. /\ Worse(before[12], later[12]) /\ Worse(before[13], later[13]) /\ Worse(before[14], later[14])
      /\ Worse(before[15], later[15]) /\ Worse(before[16], later[16]) /\ Worse(before[17], later[17])
      /\ Worse(before[18], later[18])
    BY <1>3, <1>5 DEF GraveOn
<1>9. /\ Worse(before[19], later[19]) /\ Worse(before[20], later[20]) /\ Worse(before[21], later[21])
      /\ Worse(before[22], later[22])
    BY <1>4, <1>5 DEF GraveOn
<1>10. \A i \in 1 .. 22 : Worse(before[i], later[i])
    BY <1>7, <1>8, <1>9
<1>11. NotBetter(before, later)
    BY <1>6, <1>10 DEF NotBetter, Worse
<1> QED
    BY <1>5, <1>11

\* observer.py judges by what was recorded and the records only accumulate: as
\* long as its ring drops nothing and nobody resets, a client's verdict on a
\* mistake never improves, for every ring size, threshold and kind of request.
THEOREM MistakesStick == ObserverSpec => VerdictsStick
<1>1. ObserverInit => ObserverInv
    BY ObserverAssumption DEF ObserverInit, ObserverInv, Timed, Logged
<1>2. ObserverInv /\ [ObserverNext]_observerVars => ObserverInv'
    BY LogsOnlyGrow
<1>3. ASSUME ObserverInv, [ObserverNext]_observerVars, NEW f \in Logged,
             IsPrefix(requests[f], requests'[f]), IsPrefix(events[f], events'[f])
      PROVE  NotBetter(Grave(f, -1), Grave(f, -1)')
    <2>1. ObserverInv' /\ LogsFollow /\ now <= now'
        BY <1>3, LogsOnlyGrow
    <2>2. PICK was, is, R, S, D, E :
              /\ was = now /\ is = now' /\ R = requests[f] /\ S = requests'[f]
              /\ D = events[f] /\ E = events'[f]
        OBVIOUS
    <2>3. /\ was \in Nat /\ is \in Nat /\ was <= is /\ Timed(R, was) /\ Timed(D, was)
          /\ Followed(R, S, was) /\ Followed(D, E, was)
        BY <1>3, <2>1, <2>2 DEF ObserverInv, LogsFollow
    <2>4. NotBetter(GraveOn(R, D, was), GraveOn(S, E, is))
        BY <2>3, VerdictsWorsen
    <2>5. Grave(f, -1) = GraveOn(R, D, was)
        BY <2>2 DEF Grave, GraveOn, Context, AbandonedSearches, AbandonedAt
    <2>6. Grave(f, -1)' = GraveOn(S, E, is)
        BY <2>2 DEF Grave, GraveOn, Context, AbandonedSearches, AbandonedAt
    <2> QED
        BY <2>4, <2>5, <2>6
<1>4. ObserverInv /\ [ObserverNext]_observerVars =>
        [\A f \in Logged :
            /\ IsPrefix(requests[f], requests'[f]) /\ IsPrefix(events[f], events'[f])
            => NotBetter(Grave(f, -1), Grave(f, -1)')]_observerVars
    BY <1>3
<1> QED
    BY <1>1, <1>2, <1>4, PTL DEF ObserverSpec, VerdictsStick

-----------------------------------------------------------------------------
\* The events of one kind in a log, from a place on.
Marked(log, kind, what, i) == {j \in i .. Len(log) : log[j].kind = kind /\ log[j].what = what}

LEMMA MarkedIsFinite ==
    ASSUME NEW log, Len(log) \in Nat, NEW kind, NEW what, NEW i \in Nat
    PROVE  /\ IsFiniteSet(Marked(log, kind, what, i))
           /\ Cardinality(Marked(log, kind, what, i)) \in Nat
<1>1. IsFiniteSet(i .. Len(log)) /\ Marked(log, kind, what, i) \in SUBSET (i .. Len(log))
    BY FS_Interval DEF Marked
<1> QED
    BY <1>1, FS_Subset, FS_CardinalityType

LEMMA ShiftedIsAsMany ==
    ASSUME NEW S \in SUBSET Int, IsFiniteSet(S), NEW T, T = {j - 1 : j \in S}
    PROVE  IsFiniteSet(T) /\ Cardinality(T) = Cardinality(S)
<1> DEFINE f == [j \in S |-> j - 1]
<1>1. f \in Bijection(S, T)
    <2>1. f \in [S -> T]
        OBVIOUS
    <2>2. \A a, b \in S : f[a] = f[b] => a = b
        OBVIOUS
    <2>3. \A t \in T : \E a \in S : f[a] = t
        OBVIOUS
    <2> HIDE DEF f
    <2> QED
        BY <2>1, <2>2, <2>3 DEF Bijection, Injection, Surjection, IsInjective
<1>2. ExistsBijection(S, T)
    BY <1>1 DEF ExistsBijection
<1> QED
    BY <1>2, FS_Bijection

\* From a place in the new ring on, there is of each kind what was from some
\* place in the old one on, and the record.
TakesOne(log, new, e, i) ==
    \E h \in 1 .. Len(log) + 1 : \A kind, what :
        Cardinality(Marked(new, kind, what, i)) =
          Cardinality(Marked(log, kind, what, h)) + (IF e.kind = kind /\ e.what = what THEN 1 ELSE 0)

\* A ring that takes a record does so from any of its places on.
LEMMA RingCounts ==
    ASSUME NEW T, NEW log \in Seq(T), NEW e \in T, Len(log) <= Ring,
           NEW new, new = Kept(log, e), NEW i \in 1 .. Len(new)
    PROVE  TakesOne(log, new, e, i)
<1>1. Ring \in Nat \ {0} /\ Len(log) \in Nat
    BY ObserverAssumption DEF ObserverAssumption
<1>2. CASE Len(log) = Ring
    <2>1. /\ new \in Seq(T) /\ Len(new) = Ring /\ new[Ring] = e
          /\ \A j \in 1 .. Ring - 1 : new[j] = log[j + 1]
        BY <1>1, <1>2 DEF Kept
    <2>2. i + 1 \in 1 .. Len(log) + 1 /\ i \in 1 .. Ring
        BY <1>1, <1>2, <2>1
    <2>3. ASSUME NEW kind, NEW what
          PROVE  Cardinality(Marked(new, kind, what, i)) =
                   Cardinality(Marked(log, kind, what, i + 1)) + (IF e.kind = kind /\ e.what = what THEN 1 ELSE 0)
        <3> DEFINE Old == Marked(log, kind, what, i + 1)
                   Shifted == {j - 1 : j \in Old}
        <3>1. Old \in SUBSET (i + 1 .. Ring) /\ Old \in SUBSET Int /\ IsFiniteSet(Old)
            <4>1. i + 1 \in Nat
                BY <1>1, <2>2
            <4>2. IsFiniteSet(Marked(log, kind, what, i + 1))
                BY <1>1, <4>1, MarkedIsFinite
            <4>3. Old \in SUBSET (i + 1 .. Ring)
                BY <1>2 DEF Marked
            <4>4. i + 1 .. Ring \in SUBSET Int
                OBVIOUS
            <4> QED
                BY <4>2, <4>3, <4>4
        <3>2. IsFiniteSet(Shifted) /\ Cardinality(Shifted) = Cardinality(Old)
            BY <3>1, ShiftedIsAsMany
        <3>3. Shifted = {j \in i .. Ring - 1 : new[j].kind = kind /\ new[j].what = what}
            <4>1. ASSUME NEW j \in i .. Ring - 1
                  PROVE  j \in Shifted <=> new[j].kind = kind /\ new[j].what = what
                <5>1. j + 1 \in i + 1 .. Ring /\ new[j] = log[j + 1] /\ (j + 1) - 1 = j
                    BY <1>1, <2>1, <2>2
                <5>2. j \in Shifted <=> j + 1 \in Old
                    BY <3>1, <5>1
                <5> QED
                    BY <1>2, <5>1, <5>2 DEF Marked
            <4>2. Shifted \subseteq i .. Ring - 1
                BY <1>1, <2>2, <3>1
            <4> QED
                BY <4>1, <4>2
        <3> HIDE DEF Shifted
        <3>4. Ring \notin Shifted
            BY <1>1, <2>2, <3>3
        <3>5. Marked(new, kind, what, i) =
                IF e.kind = kind /\ e.what = what THEN Shifted \cup {Ring} ELSE Shifted
            <4>1. \A j : j \in i .. Ring <=> j \in i .. Ring - 1 \/ j = Ring
                BY <1>1, <2>2
            <4> QED
                BY <2>1, <3>3, <4>1 DEF Marked
        <3>6. Cardinality(Shifted \cup {Ring}) = Cardinality(Shifted) + 1 /\ Cardinality(Shifted) \in Nat
            BY <3>2, <3>4, FS_AddElement, FS_CardinalityType
        <3> QED
            BY <3>2, <3>5, <3>6
    <2> QED
        BY <2>2, <2>3 DEF TakesOne
<1>3. CASE Len(log) # Ring
    <2>1. /\ new \in Seq(T) /\ Len(new) = Len(log) + 1 /\ new[Len(log) + 1] = e
          /\ \A j \in 1 .. Len(log) : new[j] = log[j]
        <3>1. new = Append(log, e)
            BY <1>3 DEF Kept
        <3> QED
            BY <1>1, <3>1
    <2>2. i \in 1 .. Len(log) + 1
        BY <2>1
    <2>3. ASSUME NEW kind, NEW what
          PROVE  Cardinality(Marked(new, kind, what, i)) =
                   Cardinality(Marked(log, kind, what, i)) + (IF e.kind = kind /\ e.what = what THEN 1 ELSE 0)
        <3> DEFINE Old == Marked(log, kind, what, i)
                   last == Len(log) + 1
        <3>1. IsFiniteSet(Old) /\ Cardinality(Old) \in Nat /\ last \notin Old
            <4>1. i \in Nat
                BY <1>1, <2>2
            <4>2. IsFiniteSet(Old) /\ Cardinality(Old) \in Nat
                BY <1>1, <4>1, MarkedIsFinite
            <4>3. last \notin Old
                BY <1>1 DEF Marked
            <4> QED
                BY <4>2, <4>3
        <3>2. Marked(new, kind, what, i) =
                IF e.kind = kind /\ e.what = what THEN Old \cup {last} ELSE Old
            <4>1. \A j : j \in i .. last <=> j \in i .. Len(log) \/ j = last
                BY <1>1, <2>2
            <4>2. \A j : j \in i .. Len(log) => j \in 1 .. Len(log)
                BY <1>1, <2>2
            <4> QED
                BY <2>1, <4>1, <4>2 DEF Marked
        <3>3. Cardinality(Old \cup {last}) = Cardinality(Old) + 1
            BY <3>1, FS_AddElement
        <3> QED
            BY <3>1, <3>2, <3>3
    <2> QED
        BY <2>2, <2>3 DEF TakesOne
<1> QED
    BY <1>2, <1>3

\* In what the ring still holds, from any place on, no more streams were opened
\* than were closed again or are open; and requests have their numbers.
Balanced(log, kind, open) ==
    \A i \in 1 .. Len(log) + 1 :
        Cardinality(Marked(log, kind, "open", i)) <= open + Cardinality(Marked(log, kind, "close", i))
Counts ==
    /\ live \in [Families \X Kinds -> Nat]
    /\ \A f \in Families, kind \in Kinds : Balanced(events[f], kind, live[<<f, kind>>])
NumberedLog(log) ==
    /\ \A i \in DOMAIN log : log[i].seq \in Nat /\ log[i].seq <= seq
    /\ \A i \in 1 .. Len(log) - 1 : log[i].seq < log[i + 1].seq
NumberedLogs == seq <= MaxSeq /\ now <= MaxNow /\ \A f \in Logged : NumberedLog(requests[f])

\* An event opens a stream, closes one, or does neither.
LEMMA NoteCounts ==
    ASSUME ObserverInv, Counts, NEW family \in Families, NEW event \in StreamEvents, Note(family, event),
           event.what \in {"open", "close"} =>
             live' = [live EXCEPT ![<<family, event.kind>>] = IF event.what = "open" THEN @ + 1 ELSE @ - 1],
           event.what = "close" => live[<<family, event.kind>>] > 0,
           event.what \notin {"open", "close"} => live' = live
    PROVE  Counts'
<1>1. events' = [events EXCEPT ![family] = Kept(@, Stamped(event))] /\ family \in Logged
    BY DEF Note, Logged
<1>2. PICK e : e = Stamped(event)
    OBVIOUS
<1>3. PICK new : new = Kept(events[family], e)
    OBVIOUS
<1>4. /\ event.kind \in Kinds /\ DOMAIN event = {"kind", "what", "resumed", "code"}
      /\ event.what \in {"open", "close", "pong", "subscribe", "rejected", "reused"}
    BY DEF StreamEvents
<1>5. e \in LogEntries /\ e.kind = event.kind /\ e.what = event.what
    <2>1. e = Entry(event, seq + 1, now) /\ seq + 1 \in Nat /\ now \in Nat
        BY <1>2 DEF Stamped, Entry, ObserverInv
    <2>2. e.kind = event.kind /\ e.what = event.what
        BY <1>4, <2>1 DEF Entry
    <2> QED
        BY <2>1, <2>2 DEF LogEntries
<1>6. events[family] \in Seq(LogEntries) /\ Len(events[family]) <= Ring /\ Len(events[family]) \in Nat
    BY <1>1 DEF ObserverInv
<1>7. \A f \in Families : events'[f] = IF f = family THEN new ELSE events[f]
    BY <1>1, <1>2, <1>3 DEF ObserverInv, Logged
<1>8. Len(new) \in Nat
    BY <1>5, <1>6, <1>3 DEF Kept
<1>9. live' \in [Families \X Kinds -> Nat]
    BY <1>4 DEF Counts
<1>10. \A f \in Families, kind \in Kinds :
         live'[<<f, kind>>] = IF f = family /\ kind = event.kind
                              THEN CASE event.what = "open" -> live[<<f, kind>>] + 1
                                     [] event.what = "close" -> live[<<f, kind>>] - 1
                                     [] OTHER -> live[<<f, kind>>]
                              ELSE live[<<f, kind>>]
    BY <1>4 DEF Counts
<1>11. ASSUME NEW kind \in Kinds, NEW i \in 1 .. Len(new) + 1,
              NEW was, was = live[<<family, kind>>], NEW is, is = live'[<<family, kind>>]
       PROVE  Cardinality(Marked(new, kind, "open", i)) <= is + Cardinality(Marked(new, kind, "close", i))
    <2>1. was \in Nat /\ is \in Nat
        BY <1>9, <1>11 DEF Counts
    <2>2. CASE i = Len(new) + 1
        <3>1. Marked(new, kind, "open", i) = {} /\ Marked(new, kind, "close", i) = {}
            BY <1>8, <2>2 DEF Marked
        <3>2. Cardinality({}) = 0
            BY FS_EmptySet
        <3>3. 0 <= is + 0
            BY <2>1
        <3> QED
            BY <3>1, <3>2, <3>3
    <2>3. CASE i # Len(new) + 1
        <3>1. i \in 1 .. Len(new)
            BY <1>8, <2>3
        <3>2. PICK h \in 1 .. Len(events[family]) + 1 : \A k, what :
                Cardinality(Marked(new, k, what, i)) =
                  Cardinality(Marked(events[family], k, what, h))
                    + (IF e.kind = k /\ e.what = what THEN 1 ELSE 0)
            <4> DEFINE old == events[family]
            <4>1. old \in Seq(LogEntries) /\ Len(old) <= Ring /\ new = Kept(old, e)
                BY <1>3, <1>6
            <4> HIDE DEF old
            <4>2. TakesOne(old, new, e, i)
                BY <1>5, <3>1, <4>1, RingCounts
            <4> QED
                BY <4>2 DEF TakesOne, old
        <3> DEFINE Opens == Cardinality(Marked(events[family], kind, "open", h))
                   Closes == Cardinality(Marked(events[family], kind, "close", h))
        <3>3. Opens \in Nat /\ Closes \in Nat
            <4>1. h \in Nat
                BY <1>6
            <4> QED
                BY <1>6, <4>1, MarkedIsFinite
        <3>4. Opens <= was + Closes
            BY <1>11 DEF Counts, Balanced
        <3>5. /\ Cardinality(Marked(new, kind, "open", i)) =
                   Opens + (IF event.kind = kind /\ event.what = "open" THEN 1 ELSE 0)
              /\ Cardinality(Marked(new, kind, "close", i)) =
                   Closes + (IF event.kind = kind /\ event.what = "close" THEN 1 ELSE 0)
            BY <1>5, <3>2
        <3> HIDE DEF Opens, Closes
        <3>6. /\ kind = event.kind /\ event.what = "open" => is = was + 1
              /\ kind = event.kind /\ event.what = "close" => is = was - 1
              /\ kind # event.kind \/ event.what \notin {"open", "close"} => is = was
            BY <1>10, <1>11
        <3>7. CASE kind = event.kind /\ event.what = "open"
            BY <2>1, <3>3, <3>4, <3>5, <3>6, <3>7
        <3>8. CASE kind = event.kind /\ event.what = "close"
            BY <2>1, <3>3, <3>4, <3>5, <3>6, <3>8
        <3>9. CASE kind # event.kind \/ event.what \notin {"open", "close"}
            BY <2>1, <3>3, <3>4, <3>5, <3>6, <3>9
        <3> QED
            BY <3>7, <3>8, <3>9
    <2> QED
        BY <2>2, <2>3
<1>12. ASSUME NEW f \in Families, f # family
       PROVE  events'[f] = events[f] /\ \A k \in Kinds : live'[<<f, k>>] = live[<<f, k>>]
    BY <1>7, <1>10, <1>12
<1>13. ASSUME NEW f \in Families, NEW kind \in Kinds PROVE Balanced(events'[f], kind, live'[<<f, kind>>])
    <2>1. CASE f = family
        BY <1>7, <1>11, <2>1 DEF Balanced
    <2>2. CASE f # family
        BY <1>12, <2>2 DEF Counts
    <2> QED
        BY <2>1, <2>2
<1> QED
    BY <1>9, <1>13 DEF Counts

LEMMA NumberedGrows ==
    ASSUME NEW log \in Seq(LogEntries), \A i \in DOMAIN log : log[i].seq \in Nat /\ log[i].seq <= seq,
           \A i \in 1 .. Len(log) - 1 : log[i].seq < log[i + 1].seq, seq \in Nat,
           Len(log) <= Ring, NEW e \in LogEntries, e.seq = seq + 1, NEW new, new = Kept(log, e)
    PROVE  /\ \A i \in DOMAIN new : new[i].seq \in Nat /\ new[i].seq <= seq + 1
           /\ \A i \in 1 .. Len(new) - 1 : new[i].seq < new[i + 1].seq
<1>1. Ring \in Nat \ {0} /\ Len(log) \in Nat /\ DOMAIN log = 1 .. Len(log)
    BY ObserverAssumption DEF ObserverAssumption
<1>2. CASE Len(log) = Ring
    <2>1. /\ new \in Seq(LogEntries) /\ Len(new) = Ring /\ new[Ring] = e
          /\ \A j \in 1 .. Ring - 1 : new[j] = log[j + 1]
        BY <1>1, <1>2 DEF Kept
    <2>2. DOMAIN new = 1 .. Ring
        BY <2>1
    <2>3. \A i \in 1 .. Ring - 1 : i + 1 \in DOMAIN log /\ new[i] = log[i + 1]
        BY <1>1, <1>2, <2>1
    <2>4. ASSUME NEW i \in 1 .. Ring PROVE new[i].seq \in Nat /\ new[i].seq <= seq + 1
        <3>1. CASE i = Ring
            BY <2>1, <3>1
        <3>2. CASE i # Ring
            <4>1. i \in 1 .. Ring - 1
                BY <1>1, <3>2
            <4>2. log[i + 1].seq \in Nat /\ log[i + 1].seq <= seq
                BY <2>3, <4>1
            <4> QED
                BY <2>3, <4>1, <4>2
        <3> QED
            BY <3>1, <3>2
    <2>5. ASSUME NEW i \in 1 .. Ring - 1 PROVE new[i].seq < new[i + 1].seq
        <3>1. CASE i + 1 = Ring
            <4>1. log[i + 1].seq \in Nat /\ log[i + 1].seq <= seq
                BY <2>3
            <4> QED
                BY <2>1, <2>3, <3>1, <4>1
        <3>2. CASE i + 1 # Ring
            <4>1. i + 1 \in 1 .. Ring - 1 /\ i + 1 \in 1 .. Len(log) - 1
                BY <1>1, <1>2, <3>2
            <4> QED
                BY <2>3, <4>1
        <3> QED
            BY <3>1, <3>2
    <2> QED
        BY <2>1, <2>2, <2>4, <2>5
<1>3. CASE Len(log) # Ring
    <2>0. PICK n \in Nat : n = Len(log)
        BY <1>1
    <2>1. /\ new \in Seq(LogEntries) /\ Len(new) = Len(log) + 1 /\ new[Len(log) + 1] = e
          /\ \A j \in 1 .. Len(log) : new[j] = log[j]
        <3>1. new = Append(log, e)
            BY <1>3 DEF Kept
        <3> QED
            BY <1>1, <3>1
    <2>2. DOMAIN new = 1 .. n + 1 /\ new[n + 1] = e
        BY <2>0, <2>1
    <2>3. ASSUME NEW i \in 1 .. n + 1 PROVE new[i].seq \in Nat /\ new[i].seq <= seq + 1
        <3>1. CASE i = n + 1
            BY <2>2, <3>1
        <3>2. CASE i # n + 1
            <4>1. i \in 1 .. n
                BY <2>0, <3>2
            <4>2. log[i].seq \in Nat /\ log[i].seq <= seq /\ new[i] = log[i]
                BY <1>1, <2>0, <2>1, <4>1
            <4> QED
                BY <4>2
        <3> QED
            BY <3>1, <3>2
    <2>4. ASSUME NEW i \in 1 .. Len(log) PROVE new[i].seq < new[i + 1].seq
        <3>1. log[i].seq \in Nat /\ log[i].seq <= seq /\ new[i] = log[i]
            BY <1>1, <2>1
        <3>2. CASE i = Len(log)
            BY <2>1, <3>1, <3>2
        <3>3. CASE i # Len(log)
            <4>1. i \in 1 .. Len(log) - 1 /\ i + 1 \in 1 .. Len(log)
                <5>1. \A j \in 1 .. n : j # n => j \in 1 .. n - 1 /\ j + 1 \in 1 .. n
                    BY <2>0
                <5> QED
                    BY <2>0, <3>3, <5>1
            <4> QED
                BY <2>1, <3>1, <4>1
        <3> QED
            BY <3>2, <3>3
    <2> QED
        BY <1>1, <2>1, <2>2, <2>3, <2>4
<1> QED
    BY <1>2, <1>3

LEMMA FinishCounts ==
    ASSUME ObserverInv, Counts, NumberedLogs, NEW c \in Clients, NEW family \in Logged, NEW shape \in Shapes,
           Finish(c, family, shape)
    PROVE  Counts' /\ NumberedLogs'
<1> DEFINE to == IF family # Anonymous THEN family ELSE sticky[c]
<1>1. /\ to \in Logged /\ events' = events /\ live' = live /\ now' = now /\ seq' = seq + 1 /\ seq < MaxSeq
      /\ requests' = [requests EXCEPT ![to] = Kept(@, Stamped(shape))]
    BY DEF Finish, ObserverInv, Logged
<1> HIDE DEF to
<1>2. PICK e : e = Stamped(shape)
    OBVIOUS
<1>3. PICK new : new = Kept(requests[to], e)
    OBVIOUS
<1>4. seq \in Nat /\ now \in Nat /\ MaxSeq \in Nat
    BY ObserverAssumption DEF ObserverInv, ObserverAssumption
<1>5. e \in LogEntries /\ e.seq = seq + 1
    <2>1. e = Entry(shape, seq + 1, now)
        BY <1>2 DEF Stamped, Entry
    <2>2. e.seq = seq + 1
        BY <2>1 DEF Entry
    <2>3. seq + 1 \in Nat
        BY <1>4
    <2> QED
        BY <1>4, <2>1, <2>2, <2>3 DEF LogEntries
<1>6. /\ \A i \in DOMAIN new : new[i].seq \in Nat /\ new[i].seq <= seq + 1
      /\ \A i \in 1 .. Len(new) - 1 : new[i].seq < new[i + 1].seq
    <2>1. requests[to] \in Seq(LogEntries) /\ Len(requests[to]) <= Ring /\ NumberedLog(requests[to])
        BY <1>1 DEF ObserverInv, NumberedLogs
    <2> QED
        BY <1>3, <1>4, <1>5, <2>1, NumberedGrows DEF NumberedLog
<1>7. \A f \in Logged : requests'[f] = IF f = to THEN new ELSE requests[f]
    BY <1>1, <1>2, <1>3 DEF ObserverInv
<1>8. ASSUME NEW f \in Logged PROVE NumberedLog(requests[f])'
    <2>1. CASE f = to
        BY <1>1, <1>6, <1>7, <2>1 DEF NumberedLog
    <2>2. CASE f # to
        <3>1. requests'[f] = requests[f] /\ NumberedLog(requests[f])
            BY <1>7, <2>2 DEF NumberedLogs
        <3>2. \A i \in DOMAIN requests[f] : requests[f][i].seq <= seq + 1
            BY <1>4, <3>1 DEF NumberedLog
        <3> QED
            BY <1>1, <3>1, <3>2 DEF NumberedLog
    <2> QED
        BY <2>1, <2>2
<1>9. NumberedLogs'
    BY <1>1, <1>4, <1>8 DEF NumberedLogs
<1>10. Counts'
    BY <1>1 DEF Counts
<1> QED
    BY <1>9, <1>10

LEMMA CountsStep ==
    ASSUME ObserverInv, Counts, NumberedLogs, [ObserverNext]_observerVars
    PROVE  Counts' /\ NumberedLogs'
<1>1. CASE RequestStep
    BY <1>1, FinishCounts DEF RequestStep
<1>2. CASE StreamStep
    <2> DEFINE Sse(f) == \E resumed \in BOOLEAN : Opened(f, "sse", resumed)
               Ended(f) == \E code \in CloseCodes : Closed(f, "ws", code)
               Told(f) == \E what \in {"pong", "subscribe", "rejected", "reused"} : Noted(f, what)
    <2>1. PICK f \in Families :
            Sse(f) \/ Opened(f, "ws", FALSE) \/ Closed(f, "sse", 0) \/ Ended(f) \/ Told(f)
        BY <1>2, Zenon DEF StreamStep
    <2> HIDE DEF Sse, Ended, Told
    <2>2. ASSUME NEW event, Note(f, event) PROVE NumberedLogs'
        <3>1. /\ seq' = seq + 1 /\ seq < MaxSeq /\ requests' = requests /\ now' = now
              /\ seq \in Nat /\ MaxSeq \in Nat
            BY <2>2, ObserverAssumption DEF Note, ObserverInv, ObserverAssumption
        <3>2. ASSUME NEW g \in Logged PROVE NumberedLog(requests[g])'
            <4>1. NumberedLog(requests[g]) /\ \A i \in DOMAIN requests[g] : requests[g][i].seq <= seq + 1
                BY <3>1 DEF NumberedLogs, NumberedLog
            <4> QED
                BY <3>1, <4>1 DEF NumberedLog
        <3> QED
            BY <3>1, <3>2 DEF NumberedLogs
    <2>3. ASSUME NEW kind \in Kinds, NEW resumed \in BOOLEAN, Opened(f, kind, resumed)
          PROVE  Counts' /\ NumberedLogs'
        <3>1. PICK event : event = EventOf(kind, "open", resumed, 0)
            OBVIOUS
        <3>2. /\ event \in StreamEvents /\ event.what = "open" /\ event.kind = kind
            BY <3>1 DEF EventOf, StreamEvents
        <3>3. Note(f, event) /\ live' = [live EXCEPT ![<<f, event.kind>>] = @ + 1]
            BY <2>3, <3>1, <3>2 DEF Opened, EventOf
        <3> QED
            BY <2>2, <3>2, <3>3, NoteCounts
    <2>4. ASSUME NEW kind \in Kinds, NEW code \in {0} \cup CloseCodes, Closed(f, kind, code)
          PROVE  Counts' /\ NumberedLogs'
        <3>1. PICK event : event = EventOf(kind, "close", FALSE, code)
            OBVIOUS
        <3>2. /\ event \in StreamEvents /\ event.what = "close" /\ event.kind = kind
            BY <3>1 DEF EventOf, StreamEvents
        <3>3. /\ Note(f, event) /\ live' = [live EXCEPT ![<<f, event.kind>>] = @ - 1]
              /\ live[<<f, event.kind>>] > 0
            BY <2>4, <3>1, <3>2 DEF Closed, EventOf
        <3> QED
            BY <2>2, <3>2, <3>3, NoteCounts
    <2>5. ASSUME NEW what \in {"pong", "subscribe", "rejected", "reused"}, Noted(f, what)
          PROVE  Counts' /\ NumberedLogs'
        <3>1. PICK event : event = EventOf("ws", what, FALSE, 0)
            OBVIOUS
        <3>2. /\ event \in StreamEvents /\ event.what \notin {"open", "close"} /\ event.kind = "ws"
            BY <3>1 DEF EventOf, StreamEvents, Kinds
        <3>3. Note(f, event) /\ live' = live
            BY <2>5, <3>1 DEF Noted, EventOf
        <3> QED
            BY <2>2, <3>2, <3>3, NoteCounts
    <2>6. "ws" \in Kinds /\ "sse" \in Kinds
        BY DEF Kinds
    <2> QED
        BY <2>1, <2>3, <2>4, <2>5, <2>6 DEF Sse, Ended, Told
<1>3. CASE Forget
    <2>1. /\ requests' = [f \in Logged |-> <<>>] /\ events' = [f \in Logged |-> <<>>] /\ seq' = 0
          /\ now' = now /\ live' = live /\ MaxSeq \in Nat
        BY <1>3, ObserverAssumption DEF Forget, ObserverAssumption
    <2>2. NumberedLogs'
        BY <2>1 DEF NumberedLogs, NumberedLog
    <2>3. ASSUME NEW kind, NEW open \in Nat PROVE Balanced(<<>>, kind, open)
        <3>1. ASSUME NEW i \in 1 .. 1, NEW what PROVE Cardinality(Marked(<<>>, kind, what, i)) = 0
            <4>1. Marked(<<>>, kind, what, i) = {}
                BY DEF Marked
            <4> QED
                BY <4>1, FS_EmptySet
        <3>2. Len(<<>>) + 1 = 1 /\ 0 <= open + 0
            OBVIOUS
        <3> QED
            BY <3>1, <3>2 DEF Balanced
    <2>4. Counts'
        BY <2>1, <2>3 DEF Counts, Logged
    <2> QED
        BY <2>2, <2>4
<1>4. CASE Age \/ UNCHANGED observerVars
    <2>1. requests' = requests /\ events' = events /\ seq' = seq /\ live' = live
        BY <1>4 DEF Age, observerVars
    <2>2. now' <= MaxNow
        BY <1>4, ObserverAssumption DEF Age, observerVars, NumberedLogs, ObserverInv, ObserverAssumption
    <2> QED
        BY <2>1, <2>2 DEF Counts, NumberedLogs, NumberedLog
<1> QED
    BY <1>1, <1>2, <1>3, <1>4 DEF ObserverNext

LEMMA NothingRecorded == ObserverInit => ObserverInv /\ Counts /\ NumberedLogs
<1> SUFFICES ASSUME ObserverInit PROVE ObserverInv /\ Counts /\ NumberedLogs
    OBVIOUS
<1>1. ObserverInv
    BY ObserverAssumption DEF ObserverInit, ObserverInv, Timed, Logged
<1>2. NumberedLogs
    BY ObserverAssumption DEF ObserverInit, ObserverAssumption, NumberedLogs, NumberedLog
<1>3. ASSUME NEW kind PROVE Balanced(<<>>, kind, 0)
    <2>1. Marked(<<>>, kind, "open", 1) = {} /\ Marked(<<>>, kind, "close", 1) = {}
        BY DEF Marked
    <2>2. Cardinality({}) = 0 /\ Len(<<>>) + 1 = 1
        BY FS_EmptySet
    <2>3. \A i \in 1 .. Len(<<>>) + 1 : i = 1
        BY <2>2
    <2>4. 0 <= 0 + 0
        OBVIOUS
    <2> QED
        BY <2>1, <2>2, <2>3, <2>4 DEF Balanced
<1>4. Counts
    BY <1>3 DEF ObserverInit, Counts, Logged
<1> QED
    BY <1>1, <1>2, <1>4

LEMMA VerdictsAreStatuses ==
    ASSUME NEW f PROVE ToSet(Passing(f, -1)) \subseteq Statuses
<1>1. HealthInterval(Context(requests[f], -1)) \in Statuses
    BY DEF HealthInterval, Statuses
<1>2. SseResume(Context(events[f], -1)) \in Statuses
    BY DEF SseResume, Statuses
<1>3. WsResubscribe(Context(events[f], -1)) \in Statuses
    BY DEF WsResubscribe, Judge, Statuses
<1>4. ToSet(Passing(f, -1)) = {HealthInterval(Context(requests[f], -1)), SseResume(Context(events[f], -1)),
                               WsResubscribe(Context(events[f], -1))}
    BY DEF ToSet, Passing
<1> QED
    BY <1>1, <1>2, <1>3, <1>4

\* GET /__admin/state never reports more open streams than there are, whatever
\* the rings have dropped and resets have forgotten; the records of a ring are
\* numbered upwards, and none is from the future (platform/observer.py).
THEOREM ObserverTyped == ObserverSpec => []ObserverTypeOK
<1>1. ObserverInv /\ Counts /\ NumberedLogs /\ [ObserverNext]_observerVars => (ObserverInv /\ Counts /\ NumberedLogs)'
    BY LogsOnlyGrow, CountsStep
<1>2. ASSUME ObserverInv, Counts, NumberedLogs PROVE ObserverTypeOK
    <2>1. seq \in 0 .. MaxSeq /\ now \in 0 .. MaxNow /\ sticky \in [Clients -> Logged]
        BY <1>2, ObserverAssumption DEF ObserverInv, NumberedLogs, ObserverAssumption
    <2>2. ASSUME NEW f \in Logged
          PROVE  /\ Len(requests[f]) <= Ring /\ Len(events[f]) <= Ring
                 /\ \A i \in DOMAIN requests[f] : requests[f][i].t <= now
                 /\ \A i \in 1 .. Len(requests[f]) - 1 : requests[f][i].seq < requests[f][i + 1].seq
        BY <1>2 DEF ObserverInv, Timed, NumberedLogs, NumberedLog
    <2>3. ASSUME NEW f \in Families, NEW kind \in Kinds PROVE Reported(f, kind) <= live[<<f, kind>>]
        <3>1. PICK log, open : log = events[f] /\ open = live[<<f, kind>>]
            OBVIOUS
        <3>2. log \in Seq(LogEntries) /\ Len(log) \in Nat /\ open \in Nat /\ Balanced(log, kind, open)
            BY <1>2, <3>1 DEF ObserverInv, Logged, Counts
        <3>3. \A what : EventsOf(f, kind, what) = Marked(log, kind, what, 1)
            BY <3>1, <3>2 DEF EventsOf, Marked
        <3>4. Cardinality(Marked(log, kind, "open", 1)) <= open + Cardinality(Marked(log, kind, "close", 1))
            BY <3>2 DEF Balanced
        <3>5. Cardinality(Marked(log, kind, "open", 1)) \in Nat /\ Cardinality(Marked(log, kind, "close", 1)) \in Nat
            BY <3>2, MarkedIsFinite
        <3>6. Reported(f, kind) = Cardinality(Marked(log, kind, "open", 1)) - Cardinality(Marked(log, kind, "close", 1))
            BY <3>3 DEF Reported
        <3> QED
            BY <3>1, <3>2, <3>4, <3>5, <3>6
    <2> QED
        BY <2>1, <2>2, <2>3, VerdictsAreStatuses DEF ObserverTypeOK
<1> QED
    BY <1>1, <1>2, NothingRecorded, PTL DEF ObserverSpec

-----------------------------------------------------------------------------
\* A list; the rows of a search in an order, as they are at a moment; and what
\* a moment may become: rows are only added, and none when the search is over.
IsList(s) == s \in Seq({s[i] : i \in DOMAIN s})
FoundIn(rows, by) == IF by = "-ts" THEN rows ELSE SortedRows(ToSet(rows), by)
Ended == Over \cup {"gone"}
Settled == {"done", "gone"}
Extends(rows, state, more, next) ==
    /\ IsList(rows) /\ IsList(more)
    /\ Len(rows) <= Len(more) /\ \A i \in 1 .. Len(rows) : more[i] = rows[i]
    /\ state \in Ended => next \in Ended /\ more = rows
    /\ state \in Settled => next \in Settled

\* A page is a piece of the rows there are, and says truly that it is the last
\* of them; in an order other than the scan's there is none before the end.
EndOf(page) == page.from + Len(page.items)
Fits(page, by, rows, state) ==
    /\ page.from \in Nat /\ Len(page.items) \in Nat
    /\ EndOf(page) <= Len(FoundIn(rows, by))
    /\ page.items = SubSeq(FoundIn(rows, by), page.from + 1, EndOf(page))
    /\ page.next \in {-1, EndOf(page)}
    /\ page.complete => state \in Ended /\ EndOf(page) = Len(FoundIn(rows, by))
    /\ by # "-ts" => state \in Settled
\* Pages that follow one another from the first row on.
Linked(list, by, rows, state) ==
    /\ IsList(list)
    /\ \A i \in 1 .. Len(list) : Fits(list[i], by, rows, state)
    /\ Len(list) > 0 => list[1].from = 0
    /\ \A i \in 1 .. Len(list) - 1 : list[i].next = list[i + 1].from

LEMMA ListLength ==
    ASSUME NEW s, IsList(s)
    PROVE  Len(s) \in Nat /\ DOMAIN s = 1 .. Len(s)
BY DEF IsList

LEMMA FiniteList ==
    ASSUME NEW s, IsFiniteSet(DOMAIN s), NEW S, S = {s[i] : i \in DOMAIN s}, s = [i \in DOMAIN s |-> s[i]]
    PROVE  IsFiniteSet(S)
<1>1. s \in [DOMAIN s -> S] /\ \A x \in S : \E i \in DOMAIN s : s[i] = x
    OBVIOUS
<1>2. s \in Surjection(DOMAIN s, S)
    BY <1>1 DEF Surjection
<1> QED
    BY <1>2, FS_Surjection

LEMMA SortedIsList ==
    ASSUME NEW S, IsFiniteSet(S), NEW by
    PROVE  IsList(SortedRows(S, by))
<1> DEFINE n == Cardinality(S)
           f == SortedRows(S, by)
<1>1. n \in Nat
    BY FS_CardinalityType
<1>2. f = [k \in 1 .. n |-> f[k]]
    <2> DEFINE At(k) == CHOOSE r \in S : Cardinality({q \in S : Precedes(q, r, by)}) = k - 1
    <2>1. f = [k \in 1 .. n |-> At(k)]
        BY DEF SortedRows
    <2> HIDE DEF At, n, f
    <2> QED
        BY <2>1
<1> HIDE DEF n, f
<1>3. DOMAIN f = 1 .. n /\ f \in Seq({f[k] : k \in 1 .. n})
    BY <1>1, <1>2
<1>4. IsList(f)
    BY <1>3 DEF IsList
<1> QED
    BY <1>4 DEF f

LEMMA FoundIsList ==
    ASSUME NEW rows, IsList(rows), NEW by
    PROVE  IsList(FoundIn(rows, by))
<1>1. Len(rows) \in Nat /\ DOMAIN rows = 1 .. Len(rows)
    BY ListLength
<1>2. CASE by = "-ts"
    BY <1>2 DEF FoundIn
<1>3. CASE by # "-ts"
    <2>1. IsFiniteSet(ToSet(rows))
        <3>1. IsFiniteSet(DOMAIN rows)
            BY <1>1, FS_Interval
        <3>2. ToSet(rows) = {rows[i] : i \in DOMAIN rows} /\ rows = [i \in DOMAIN rows |-> rows[i]]
            BY DEF ToSet, IsList
        <3> QED
            BY <3>1, <3>2, FiniteList
    <2> QED
        BY <1>3, <2>1, SortedIsList DEF FoundIn
<1> QED
    BY <1>2, <1>3

\* What is cut out of a list.
LEMMA SubList ==
    ASSUME NEW T, NEW s \in Seq(T), NEW m \in Nat, NEW n \in Nat, m <= n, n <= Len(s),
           NEW p, p = SubSeq(s, m + 1, n)
    PROVE  p \in Seq(T) /\ Len(p) = n - m /\ \A k \in 1 .. n - m : p[k] = s[m + k]
<1>1. Len(s) \in Nat /\ \A k \in 1 .. Len(s) : s[k] \in T
    OBVIOUS
<1>2. Len(p) = n - m /\ DOMAIN p = 1 .. n - m /\ \A k \in 1 .. n - m : p[k] = s[m + k]
    <2>1. p = [k \in 1 .. n - m |-> s[m + k]]
        <3>1. \A k \in Int : (m + 1) + k - 1 = m + k /\ n - (m + 1) + 1 = n - m
            OBVIOUS
        <3> QED
            BY <1>1, <3>1
    <2> QED
        BY <2>1
<1>3. p \in Seq(T)
    BY <1>1, <1>2
<1> QED
    BY <1>2, <1>3

LEMMA SamePiece ==
    ASSUME NEW s, NEW t, IsList(s), IsList(t), Len(s) <= Len(t),
           \A i \in 1 .. Len(s) : t[i] = s[i],
           NEW m \in Nat, NEW n \in Nat, m <= n, n <= Len(s)
    PROVE  SubSeq(s, m + 1, n) = SubSeq(t, m + 1, n)
<1>1. Len(s) \in Nat /\ Len(t) \in Nat
    BY ListLength
<1>2. PICK S, T : s \in Seq(S) /\ t \in Seq(T)
    BY DEF IsList
<1>3. \A k \in Int : (m + 1) + k - 1 = m + k /\ n - (m + 1) + 1 = n - m
    OBVIOUS
<1>4. SubSeq(s, m + 1, n) = [k \in 1 .. n - m |-> s[m + k]]
    BY <1>1, <1>2, <1>3
<1>5. SubSeq(t, m + 1, n) = [k \in 1 .. n - m |-> t[m + k]]
    BY <1>1, <1>2, <1>3
<1>6. \A k \in 1 .. n - m : s[m + k] = t[m + k]
    BY <1>1
<1> QED
    BY <1>4, <1>5, <1>6

\* The pages of a moment are pages of every later one.
LEMMA FitsStays ==
    ASSUME NEW rows, NEW state, NEW more, NEW next, Extends(rows, state, more, next),
           NEW by, NEW page, Fits(page, by, rows, state)
    PROVE  Fits(page, by, more, next)
<1>1. CASE by = "-ts"
    <2>1. Len(rows) \in Nat /\ Len(more) \in Nat /\ FoundIn(rows, by) = rows /\ FoundIn(more, by) = more
        BY <1>1, ListLength DEF Extends, FoundIn
    <2>2. PICK from \in Nat, end \in Nat :
            from = page.from /\ end = EndOf(page) /\ from <= end /\ end <= Len(rows)
        BY <1>1, <2>1 DEF Fits, EndOf
    <2>3. SubSeq(rows, from + 1, end) = SubSeq(more, from + 1, end)
        <3>1. /\ IsList(rows) /\ IsList(more) /\ Len(rows) <= Len(more)
              /\ \A i \in 1 .. Len(rows) : more[i] = rows[i]
            BY DEF Extends
        <3>2. from \in Nat /\ end \in Nat /\ from <= end /\ end <= Len(rows)
            BY <2>2
        <3>3. \A m, n \in Nat : m <= n /\ n <= Len(rows) => SubSeq(rows, m + 1, n) = SubSeq(more, m + 1, n)
            BY <3>1, SamePiece
        <3> QED
            BY <3>2, <3>3
    <2>4. page.items = SubSeq(rows, from + 1, end)
        BY <2>1, <2>2 DEF Fits
    <2>5. page.items = SubSeq(FoundIn(more, by), page.from + 1, EndOf(page))
        BY <2>1, <2>2, <2>3, <2>4
    <2>6. /\ EndOf(page) <= Len(more)
          /\ page.complete => next \in Ended /\ EndOf(page) = Len(more)
        BY <2>1, <2>2 DEF Fits, Extends
    <2> QED
        BY <1>1, <2>1, <2>5, <2>6 DEF Fits
<1>2. CASE by # "-ts"
    <2>1. state \in Settled /\ state \in Ended
        BY <1>2 DEF Fits, Settled, Ended, Over
    <2>2. more = rows /\ next \in Settled /\ next \in Ended
        BY <2>1 DEF Extends
    <2> QED
        BY <1>2, <2>2 DEF Fits
<1> QED
    BY <1>1, <1>2

LEMMA LinkedStays ==
    ASSUME NEW rows, NEW state, NEW more, NEW next, Extends(rows, state, more, next),
           NEW by, NEW list, Linked(list, by, rows, state)
    PROVE  Linked(list, by, more, next)
BY FitsStays DEF Linked

\* The next page, or a fresh last one, links up with the pages it is put to.
LEMMA LinkedGrows ==
    ASSUME NEW rows, NEW state, NEW by, NEW list, Linked(list, by, rows, state),
           NEW page, Fits(page, by, rows, state), page.from = NextOf(list)
    PROVE  Linked(Append(list, page), by, rows, state)
<1> DEFINE longer == Append(list, page)
           n == Len(list)
<1>1. n \in Nat /\ IsList(list)
    BY ListLength DEF Linked
<1>2. PICK T : list \in Seq(T) /\ page \in T
    <2>1. list \in Seq({list[i] : i \in DOMAIN list} \cup {page})
        BY <1>1 DEF IsList
    <2> QED
        BY <2>1
<1>3. longer \in Seq(T) /\ Len(longer) = n + 1 /\ longer[n + 1] = page /\ \A i \in 1 .. n : longer[i] = list[i]
    BY <1>2
<1>4. n > 0 => NextOf(list) = list[n].next
    BY <1>1, <1>2 DEF NextOf, Last
<1>5. n = 0 => NextOf(list) = 0
    BY <1>1, <1>2 DEF NextOf
<1> HIDE DEF longer, n
<1>6. IsList(longer)
    BY <1>3 DEF IsList
<1>7. \A i \in 1 .. n + 1 : Fits(longer[i], by, rows, state)
    BY <1>1, <1>3 DEF Linked, n
<1>8. longer[1].from = 0
    BY <1>1, <1>3, <1>5 DEF Linked, n
<1>9. ASSUME NEW i \in 1 .. n PROVE longer[i].next = longer[i + 1].from
    <2>1. CASE i = n
        BY <1>1, <1>3, <1>4, <1>9, <2>1
    <2>2. CASE i # n
        BY <1>1, <1>3, <2>2 DEF Linked, n
    <2> QED
        BY <2>1, <2>2
<1>10. Linked(longer, by, rows, state)
    BY <1>1, <1>3, <1>6, <1>7, <1>8, <1>9 DEF Linked
<1> QED
    BY <1>10 DEF longer

LEMMA LinkedRenews ==
    ASSUME NEW rows, NEW state, NEW by, NEW list, Linked(list, by, rows, state), list # <<>>,
           NEW page, Fits(page, by, rows, state), page.from = Last(list).from
    PROVE  Linked(Replaced(list, page), by, rows, state)
<1> DEFINE n == Len(list)
<1>1. n \in Nat \ {0} /\ IsList(list)
    BY ListLength DEF Linked, IsList
<1>2. PICK T : list \in Seq(T)
    BY <1>1 DEF IsList
<1>3. PICK front : front = Front(list)
    OBVIOUS
<1>4. front \in Seq(T) /\ Len(front) = n - 1 /\ \A i \in 1 .. n - 1 : front[i] = list[i]
    <2>1. front = SubSeq(list, 1, n - 1)
        BY <1>3 DEF Front
    <2>2. n - 1 \in Nat /\ 0 <= n - 1 /\ n - 1 <= Len(list) /\ 0 + 1 = 1 /\ (n - 1) - 0 = n - 1
        BY <1>1
    <2>3. \A k \in 1 .. n - 1 : 0 + k = k
        BY <1>1
    <2> HIDE DEF n
    <2>4. Len(front) = n - 1 /\ front \in Seq(T) /\ \A i \in 1 .. n - 1 : front[i] = list[0 + i]
        BY <1>2, <2>1, <2>2, SubList
    <2> QED
        BY <2>3, <2>4
<1>5. Linked(front, by, rows, state)
    <2>1. IsList(front)
        BY <1>4 DEF IsList
    <2> QED
        BY <1>1, <1>4, <2>1 DEF Linked
<1>6. NextOf(front) = Last(list).from
    <2>1. CASE n = 1
        BY <1>1, <1>2, <1>4, <2>1 DEF NextOf, Last, Linked
    <2>2. CASE n # 1
        <3>1. n - 1 \in 1 .. n - 1 /\ Len(front) = n - 1
            BY <1>1, <1>4, <2>2
        <3>3. front # <<>> /\ Last(front) = list[n - 1]
            <4>1. front # <<>>
                BY <3>1
            <4>2. front[n - 1] = list[n - 1]
                BY <1>4, <3>1
            <4> QED
                BY <3>1, <4>1, <4>2 DEF Last
        <3>2. list[n - 1].next = list[n].from
            <4>1. n - 1 \in 1 .. Len(list) - 1 /\ (n - 1) + 1 = n
                <5>1. n \in Nat \ {0} /\ n # 1 /\ n = Len(list)
                    BY <1>1, <2>2
                <5> HIDE DEF n
                <5> QED
                    BY <5>1
            <4> QED
                BY <4>1 DEF Linked
        <3> QED
            BY <3>3, <3>2 DEF NextOf, Last
    <2> QED
        BY <2>1, <2>2
<1> QED
    BY <1>3, <1>5, <1>6, LinkedGrows DEF Replaced

\* What results() answers is a page of what there is at that moment.
LEMMA PageFits ==
    ASSUME NEW by, NEW from \in Nat, from <= Len(FoundIn(job.rows, by)), IsList(job.rows),
           ~Refused(by), job.state # "gone"
    PROVE  Fits(ResultPage(from, by), by, job.rows, job.state) /\ ResultPage(from, by).from = from
<1>1. PICK rows : rows = FoundIn(job.rows, by) /\ rows = Found(by)
    BY DEF FoundIn, Found
<1>2. PICK len, S : len \in Nat /\ len = Len(rows) /\ rows \in Seq(S) /\ from <= len
    <2>1. IsList(rows) /\ from <= Len(rows)
        BY <1>1, FoundIsList
    <2>2. Len(rows) \in Nat
        BY <2>1, ListLength
    <2> QED
        BY <2>1, <2>2 DEF IsList
<1>3. PICK limit \in Nat \ {0} : limit = PageLimit
    BY PagerAssumption
<1>4. PICK end \in Nat : /\ end = (IF from + limit < len THEN from + limit ELSE len)
                         /\ from <= end /\ end <= len /\ (end = len \/ end < len)
    BY <1>2
<1>5. PICK items : items = SubSeq(rows, from + 1, end)
    OBVIOUS
<1>6. Len(items) = end - from /\ from + Len(items) = end
    <2>1. Len(items) = end - from
        BY <1>2, <1>4, <1>5, SubList
    <2> QED
        BY <2>1
<1>7. PICK page : page = [from |-> from, items |-> items, complete |-> Complete(end < len),
                          next |-> IF end < len THEN end ELSE -1]
    OBVIOUS
<1>8. ResultPage(from, by) = page
    BY <1>1, <1>2, <1>3, <1>4, <1>5, <1>6, <1>7 DEF ResultPage
<1>9. page.from = from /\ page.items = items /\ EndOf(page) = end
      /\ page.next \in {-1, end}
    BY <1>6, <1>7 DEF EndOf
<1>10. page.complete => job.state \in Over /\ ~ end < len
    BY <1>7 DEF Complete
<1>11. page.complete => job.state \in Ended /\ end = len
    BY <1>4, <1>10 DEF Ended
<1>12. by # "-ts" => job.state \in Settled
    BY DEF Refused, Settled
<1>13. Len(page.items) \in Nat
    BY <1>4, <1>6, <1>9
<1>14. Fits(page, by, job.rows, job.state)
    BY <1>1, <1>2, <1>4, <1>5, <1>9, <1>11, <1>12, <1>13 DEF Fits
<1> QED
    BY <1>8, <1>9, <1>14

\* Where a page links up there is such a place.
LEMMA NextIsThere ==
    ASSUME NEW rows, IsList(rows), NEW state, NEW by, NEW list, Linked(list, by, rows, state),
           NextOf(list) # -1
    PROVE  NextOf(list) \in Nat /\ NextOf(list) <= Len(FoundIn(rows, by))
<1>1. Len(list) \in Nat /\ Len(FoundIn(rows, by)) \in Nat
    BY FoundIsList, ListLength DEF Linked
<1>2. CASE list = <<>>
    BY <1>1, <1>2 DEF NextOf
<1>3. CASE list # <<>>
    <2>1. Len(list) \in 1 .. Len(list)
        BY <1>1, <1>3 DEF Linked, IsList
    <2>2. Fits(Last(list), by, rows, state)
        BY <2>1 DEF Linked, Last
    <2> QED
        BY <1>3, <2>2 DEF NextOf, Fits, EndOf
<1> QED
    BY <1>2, <1>3

LEMMA LastIsThere ==
    ASSUME NEW rows, IsList(rows), NEW state, NEW by, NEW list, Linked(list, by, rows, state),
           list # <<>>
    PROVE  /\ Fits(Last(list), by, rows, state)
           /\ Last(list).from \in Nat /\ Last(list).from <= Len(FoundIn(rows, by))
<1>1. Len(list) \in Nat /\ Len(FoundIn(rows, by)) \in Nat
    BY FoundIsList, ListLength DEF Linked
<1>2. Len(list) \in 1 .. Len(list)
    BY <1>1 DEF Linked, IsList
<1>3. Fits(Last(list), by, rows, state)
    BY <1>2 DEF Linked, Last
<1> QED
    BY <1>1, <1>3 DEF Fits, EndOf

\* Two pieces next to one another are one.
LEMMA PiecesJoin ==
    ASSUME NEW T, NEW s \in Seq(T), NEW m \in Nat, NEW n \in Nat, m <= n, n <= Len(s)
    PROVE  SubSeq(s, 1, n) = SubSeq(s, 1, m) \o SubSeq(s, m + 1, n)
<1>1. PICK a, b, c : /\ a = SubSeq(s, 0 + 1, n) /\ b = SubSeq(s, 0 + 1, m)
                     /\ c = SubSeq(s, m + 1, n)
    OBVIOUS
<1>2. 0 \in Nat /\ 0 <= n /\ 0 <= m /\ m <= Len(s) /\ n - 0 = n /\ m - 0 = m /\ 0 + 1 = 1
      /\ \A k \in Nat : 0 + k = k
    OBVIOUS
<1>3. a \in Seq(T) /\ Len(a) = n - 0 /\ \A k \in 1 .. n - 0 : a[k] = s[0 + k]
    BY <1>1, <1>2, SubList
<1>4. b \in Seq(T) /\ Len(b) = m - 0 /\ \A k \in 1 .. m - 0 : b[k] = s[0 + k]
    BY <1>1, <1>2, SubList
<1>5. c \in Seq(T) /\ Len(c) = n - m /\ \A k \in 1 .. n - m : c[k] = s[m + k]
    BY <1>1, SubList
<1>6. PICK d : d = b \o c
    OBVIOUS
<1>7. d \in Seq(T) /\ Len(d) = n
      /\ \A k \in 1 .. n : d[k] = IF k <= m THEN b[k] ELSE c[k - m]
    <2>1. Len(b) = m /\ Len(c) = n - m /\ m + (n - m) = n /\ m \in Nat /\ n - m \in Nat
        BY <1>2, <1>4, <1>5
    <2> QED
        BY <1>4, <1>5, <1>6, <2>1
<1>8. ASSUME NEW k \in 1 .. n PROVE d[k] = a[k]
    <2>1. CASE k <= m
        <3>1. k \in 1 .. m - 0 /\ k \in 1 .. n - 0
            BY <2>1
        <3> QED
            BY <1>3, <1>4, <1>7, <2>1, <3>1
    <2>2. CASE k > m
        <3>1. k - m \in 1 .. n - m /\ m + (k - m) = k
            BY <2>2
        <3>2. d[k] = c[k - m]
            BY <1>7, <2>2
        <3> QED
            BY <1>3, <1>5, <3>1, <3>2
    <2> QED
        BY <2>1, <2>2
<1>9. d = a
    <2>1. d \in Seq(T) /\ a \in Seq(T) /\ Len(d) = Len(a) /\ \A k \in 1 .. Len(d) : d[k] = a[k]
        BY <1>2, <1>3, <1>7, <1>8
    <2> QED
        BY <2>1, SeqEqual
<1>10. SubSeq(s, 1, n) = a /\ SubSeq(s, 1, m) = b
    BY <1>1, <1>2
<1> QED
    BY <1>1, <1>6, <1>9, <1>10

\* Pages that follow one another add up to the beginning of the rows.
Adjoin(parts, n, ends, s) ==
    /\ Len(parts) = n /\ ends \in [1 .. n -> Nat] /\ \A i \in 1 .. n : ends[i] <= Len(s)
    /\ parts[1] = SubSeq(s, 1, ends[1])
    /\ \A i \in 2 .. n : ends[i - 1] <= ends[i] /\ parts[i] = SubSeq(s, ends[i - 1] + 1, ends[i])
LEMMA PagesAddUp ==
    ASSUME NEW T, NEW s \in Seq(T), NEW n \in Nat \ {0}, NEW parts, NEW ends,
           Adjoin(parts, n, ends, s)
    PROVE  FlattenSeq(parts) = SubSeq(s, 1, ends[n])
<1> DEFINE Is(f) == f = [i \in 1 .. n |-> IF i = 1 THEN parts[i] ELSE f[i - 1] \o parts[i]]
           g == [i \in 1 .. n |-> SubSeq(s, 1, ends[i])]
           F == CHOOSE flatten : flatten = [i \in 1 .. n |->
                    IF i = 1 THEN parts[i] ELSE flatten[i - 1] \o parts[i]]
<1>0. /\ Len(parts) = n /\ ends \in [1 .. n -> Nat] /\ \A i \in 1 .. n : ends[i] <= Len(s)
      /\ parts[1] = SubSeq(s, 1, ends[1])
      /\ \A i \in 2 .. n : ends[i - 1] <= ends[i] /\ parts[i] = SubSeq(s, ends[i - 1] + 1, ends[i])
    BY DEF Adjoin
<1>1. Is(g)
    <2>1. \A i \in 2 .. n : i - 1 \in 1 .. n /\ g[i - 1] = SubSeq(s, 1, ends[i - 1])
        BY <1>0
    <2>2. ASSUME NEW i \in 1 .. n PROVE g[i] = IF i = 1 THEN parts[i] ELSE g[i - 1] \o parts[i]
        <3>1. CASE i = 1
            BY <1>0, <3>1
        <3>2. CASE i # 1
            <4>1. i \in 2 .. n /\ i - 1 \in 1 .. n
                BY <3>2
            <4>2. SubSeq(s, 1, ends[i]) = SubSeq(s, 1, ends[i - 1]) \o SubSeq(s, ends[i - 1] + 1, ends[i])
                <5>1. PICK a, z : a = ends[i - 1] /\ z = ends[i]
                    OBVIOUS
                <5>2. a \in Nat /\ z \in Nat /\ a <= z /\ z <= Len(s)
                    BY <1>0, <4>1, <5>1
                <5>3. SubSeq(s, 1, z) = SubSeq(s, 1, a) \o SubSeq(s, a + 1, z)
                    BY <5>2, PiecesJoin
                <5> QED
                    BY <5>1, <5>3
            <4>3. g[i] = SubSeq(s, 1, ends[i])
                OBVIOUS
            <4> QED
                BY <1>0, <2>1, <3>2, <4>1, <4>2, <4>3
        <3> QED
            BY <3>1, <3>2
    <2>3. g = [i \in 1 .. n |-> g[i]]
        OBVIOUS
    <2> HIDE DEF g
    <2> QED
        BY <2>2, <2>3
<1>2. Is(F)
    BY <1>1, Zenon
<1>3. FlattenSeq(parts) = F[n]
    <2>1. ~ Len(parts) = 0 /\ Len(parts) = n
        BY <1>0
    <2> QED
        BY <2>1, Zenon DEF FlattenSeq
<1>4. F[n] = g[n]
    <2> HIDE DEF F, g
    <2> DEFINE Bad == {i \in 1 .. n : F[i] # g[i]}
    <2>1. \A i \in 1 .. n : /\ F[i] = IF i = 1 THEN parts[i] ELSE F[i - 1] \o parts[i]
                            /\ g[i] = IF i = 1 THEN parts[i] ELSE g[i - 1] \o parts[i]
        <3>1. F = [i \in 1 .. n |-> IF i = 1 THEN parts[i] ELSE F[i - 1] \o parts[i]]
            BY <1>2
        <3>2. g = [i \in 1 .. n |-> IF i = 1 THEN parts[i] ELSE g[i - 1] \o parts[i]]
            BY <1>1
        <3> QED
            BY <3>1, <3>2
    <2>2. Bad = {}
        <3> SUFFICES ASSUME Bad # {} PROVE FALSE
            OBVIOUS
        <3>1. Bad \in SUBSET Nat
            OBVIOUS
        <3>2. PICK m \in Bad : \A k \in Bad : m <= k
            <4> HIDE DEF Bad
            <4> QED
                BY <3>1, LeastOf
        <3>3. m \in 1 .. n /\ F[m] # g[m]
            BY <3>2
        <3>4. m # 1
            BY <2>1, <3>3
        <3>5. m - 1 \in 1 .. n /\ ~ (m <= m - 1)
            BY <3>3, <3>4
        <3>6. F[m - 1] = g[m - 1]
            BY <3>2, <3>5
        <3> QED
            BY <2>1, <3>3, <3>4, <3>6
    <2>3. n \in 1 .. n
        OBVIOUS
    <2> QED
        BY <2>2, <2>3
<1>5. g[n] = SubSeq(s, 1, ends[n])
    BY <1>0
<1> HIDE DEF F, g
<1> QED
    BY <1>3, <1>4, <1>5

\* What the table shows, and that it is all once its last page says so.
LEMMA LinkedShows ==
    ASSUME NEW rows, IsList(rows), NEW state, NEW by, NEW list, Linked(list, by, rows, state),
           NEW all, all = FoundIn(rows, by),
           NEW shows, shows = FlattenSeq([i \in DOMAIN list |-> list[i].items])
    PROVE  /\ IsPrefix(shows, all)
           /\ list # <<>> /\ Last(list).complete => shows = all
<1>1. IsList(all) /\ Len(all) \in Nat
    BY FoundIsList, ListLength
<1>2. PICK T : all \in Seq(T)
    BY <1>1 DEF IsList
<1>3. PICK n \in Nat : n = Len(list) /\ DOMAIN list = 1 .. n
    BY ListLength DEF Linked
<1>4. CASE n = 0
    <2>1. shows = <<>>
        <3>1. PICK parts : parts = [i \in DOMAIN list |-> list[i].items]
            OBVIOUS
        <3>2. parts = <<>> /\ Len(parts) = 0
            BY <1>3, <1>4, <3>1
        <3> QED
            BY <3>1, <3>2 DEF FlattenSeq
    <2>2. list = <<>>
        BY <1>3, <1>4 DEF Linked, IsList
    <2>3. SubSeq(all, 1, 0) = <<>> /\ SubSeq(<<>>, 1, 0) = <<>>
        BY <1>2
    <2>4. Len(shows) = 0 /\ 0 <= Len(all) /\ SubSeq(shows, 1, 0) = SubSeq(all, 1, 0)
        BY <1>1, <2>1, <2>3
    <2>5. IsPrefix(shows, all)
        BY <2>4 DEF IsPrefix
    <2> QED
        BY <2>2, <2>5
<1>5. CASE n # 0
    <2>1. PICK parts, ends :
            /\ parts = [i \in 1 .. n |-> list[i].items]
            /\ ends = [i \in 1 .. n |-> EndOf(list[i])]
        OBVIOUS
    <2>2. \A i \in 1 .. n : Fits(list[i], by, rows, state)
        BY <1>3 DEF Linked
    <2>3. ends \in [1 .. n -> Nat] /\ \A i \in 1 .. n : ends[i] <= Len(all)
        <3>1. \A i \in 1 .. n : EndOf(list[i]) \in Nat /\ EndOf(list[i]) <= Len(all)
            BY <2>2 DEF Fits, EndOf
        <3> QED
            BY <2>1, <3>1
    <2>4. Len(parts) = n
        BY <2>1
    <2>5. \A i \in 1 .. n : /\ parts[i] = SubSeq(all, list[i].from + 1, ends[i])
                            /\ list[i].from \in Nat /\ list[i].from <= ends[i]
        BY <2>1, <2>2 DEF Fits, EndOf
    <2>6. parts[1] = SubSeq(all, 1, ends[1])
        <3>1. 1 \in 1 .. n /\ list[1].from = 0 /\ 0 + 1 = 1
            BY <1>3, <1>5 DEF Linked
        <3> QED
            BY <2>5, <3>1
    <2>7. ASSUME NEW i \in 2 .. n
          PROVE  ends[i - 1] <= ends[i] /\ parts[i] = SubSeq(all, ends[i - 1] + 1, ends[i])
        <3>1. i - 1 \in 1 .. n - 1 /\ i - 1 \in 1 .. n /\ i \in 1 .. n /\ (i - 1) + 1 = i
            OBVIOUS
        <3>2. list[i - 1].next = list[i].from
            BY <1>3, <3>1 DEF Linked
        <3>3. list[i - 1].next \in {-1, ends[i - 1]}
            BY <2>1, <2>2, <3>1 DEF Fits
        <3>4. list[i].from = ends[i - 1]
            BY <2>5, <3>1, <3>2, <3>3
        <3> QED
            BY <2>5, <3>1, <3>4
    <2>8. FlattenSeq(parts) = SubSeq(all, 1, ends[n])
        <3>1. n \in Nat \ {0} /\ all \in Seq(T)
            BY <1>2, <1>5
        <3>2. \A i \in 2 .. n : ends[i - 1] <= ends[i] /\ parts[i] = SubSeq(all, ends[i - 1] + 1, ends[i])
            BY <2>7
        <3>3. Adjoin(parts, n, ends, all)
            BY <2>3, <2>4, <2>6, <3>2 DEF Adjoin
        <3> QED
            BY <3>1, <3>3, PagesAddUp
    <2>9. shows = SubSeq(all, 1, ends[n])
        BY <1>3, <2>1, <2>8
    <2>10. PICK end \in Nat : end = ends[n] /\ end <= Len(all)
        BY <1>5, <2>3
    <2>11. Len(shows) = end /\ SubSeq(shows, 1, end) = shows
        BY <1>2, <2>9, <2>10
    <2>12. IsPrefix(shows, all)
        BY <2>9, <2>10, <2>11 DEF IsPrefix
    <2>13. ASSUME Last(list).complete PROVE shows = all
        <3>1. n \in 1 .. n /\ Last(list) = list[n]
            BY <1>3, <1>5 DEF Last
        <3>2. end = Len(all)
            BY <2>1, <2>2, <2>10, <2>13, <3>1 DEF Fits
        <3> QED
            BY <1>2, <2>9, <2>10, <3>2
    <2> QED
        BY <2>12, <2>13
<1> QED
    BY <1>4, <1>5

\* The parts of the invariant: the search has its rows; the pages stored, those
\* a fetch will be put behind and those a refetch began from all link up; and
\* what is on its way fits where it will be put.
JobFine ==
    /\ job = [state |-> job.state, scanned |-> job.scanned, rows |-> job.rows, failing |-> job.failing]
    /\ IsList(job.rows) /\ job.scanned \in Nat
PagesLink(all, rows, state) ==
    DOMAIN all = Orders /\ \A by \in Orders : Linked(all[by], by, rows, state)
FetchLinks(f, by, rows, state) ==
    /\ f.kind = "sent" =>
         Linked(f.base, by, rows, state) /\ f.from = NextOf(f.base) /\ f.from # -1
    /\ f.kind = "answered" =>
         Linked(f.base, by, rows, state) /\ Fits(f.page, by, rows, state) /\ f.page.from = NextOf(f.base)
CallLinks(call, rows, state) ==
    /\ {"by", "base", "page", "mine"} \subseteq DOMAIN call
    /\ call.by \in Orders
    /\ Linked(call.base, call.by, rows, state) /\ call.base # <<>>
    /\ call.page # NoFetch => Fits(call.page, call.by, rows, state) /\ call.page.from = Last(call.base).from
OrdersFine ==
    order \in Orders /\ "deps" \in DOMAIN effect /\ effect.deps.order \in Orders
PagerInv ==
    /\ JobFine /\ OrdersFine
    /\ PagesLink(pages, job.rows, job.state)
    /\ FetchLinks(fetch, order, job.rows, job.state)
    /\ \A call \in calls : CallLinks(call, job.rows, job.state)

LEMMA PagerInitially == PagerInit => PagerInv
<1> SUFFICES ASSUME PagerInit PROVE PagerInv
    OBVIOUS
<1>1. JobFine
    <2>1. job \in [state : {"queued"}, scanned : {0}, rows : {<<>>}, failing : BOOLEAN]
        BY DEF PagerInit
    <2>2. IsList(<<>>)
        BY DEF IsList
    <2> QED
        BY <2>1, <2>2 DEF JobFine
<1>2. order \in Orders /\ "deps" \in DOMAIN effect /\ effect.deps.order = order /\ calls = {} /\ fetch.kind = "none"
      /\ pages = [by \in Orders |-> <<>>]
    BY PagerAssumption DEF PagerInit, Deps, NoFetch
<1>3. \A by : Linked(<<>>, by, job.rows, job.state)
    BY DEF Linked, IsList
<1>4. PagesLink(pages, job.rows, job.state)
    BY <1>2, <1>3 DEF PagesLink
<1> QED
    BY <1>1, <1>2, <1>4 DEF PagerInv, OrdersFine, FetchLinks

\* The search goes on, ends, or is cancelled: its rows only ever grow.
LEMMA ScanIsList == IsList(ScanOrder) /\ Len(ScanOrder) \in Nat
BY PagerAssumption, SortedIsList, ListLength DEF ScanOrder

LEMMA SeqIsList ==
    ASSUME NEW T, NEW s \in Seq(T)
    PROVE  IsList(s)
<1>1. DOMAIN s = 1 .. Len(s) /\ Len(s) \in Nat /\ s = [i \in 1 .. Len(s) |-> s[i]]
    OBVIOUS
<1>2. [i \in 1 .. Len(s) |-> s[i]] \in Seq({s[i] : i \in 1 .. Len(s)})
    BY <1>1
<1> QED
    BY <1>1, <1>2 DEF IsList

LEMMA ListsJoin ==
    ASSUME NEW s, IsList(s), NEW t, IsList(t), NEW j, j = s \o t
    PROVE  IsList(j) /\ Len(s) <= Len(j) /\ \A i \in 1 .. Len(s) : j[i] = s[i]
<1>1. Len(s) \in Nat /\ Len(t) \in Nat
    BY ListLength
<1>2. PICK T : s \in Seq(T) /\ t \in Seq(T)
    <2>1. /\ s \in Seq({s[i] : i \in DOMAIN s} \cup {t[i] : i \in DOMAIN t})
          /\ t \in Seq({s[i] : i \in DOMAIN s} \cup {t[i] : i \in DOMAIN t})
        BY DEF IsList
    <2> QED
        BY <2>1
<1>3. j \in Seq(T) /\ Len(j) = Len(s) + Len(t) /\ \A i \in 1 .. Len(s) : j[i] = s[i]
    BY <1>2
<1>4. IsList(j)
    BY <1>3, SeqIsList
<1> QED
    BY <1>1, <1>3, <1>4

LEMMA ScanExtends ==
    ASSUME JobFine, Scan
    PROVE  JobFine' /\ Extends(job.rows, job.state, job'.rows, job'.state)
<1> DEFINE Scanning(upto) == SubSeq(ScanOrder, job.scanned + 1, upto)
           Hits(upto) == {r \in ToSet(Scanning(upto)) : r.matches}
           More(upto) == SortedRows(Hits(upto), "-ts")
<1>1. PICK upto, state :
        /\ upto \in Nat /\ job.state = "running"
        /\ job' = [job EXCEPT !.state = state, !.scanned = upto, !.rows = @ \o More(upto)]
    <2>1. Len(ScanOrder) \in Nat /\ ScanChunk \in Nat /\ job.scanned \in Nat
        BY ScanIsList, PagerAssumption DEF JobFine
    <2> DEFINE total == Len(ScanOrder)
               half == IF total < 2 THEN 1 ELSE total \div 2
               most == IF job.scanned + ScanChunk < total THEN job.scanned + ScanChunk ELSE total
               fails == job.failing /\ half <= most
               end == IF fails THEN half ELSE most
    <2>2. half \in Nat /\ most \in Nat
        BY <2>1
    <2>3. end \in Nat
        <3> HIDE DEF half, most, fails
        <3> QED
            BY <2>2
    <2>4. job.state = "running" /\ \E state :
            job' = [job EXCEPT !.state = state, !.scanned = end,
                               !.rows = @ \o More(end)]
        BY Zenon DEF Scan
    <2> HIDE DEF end, More
    <2> QED
        BY <2>3, <2>4
<1>2. PICK more, seen, S : more = More(upto) /\ seen = Scanning(upto) /\ S = Hits(upto)
    OBVIOUS
<1>3. IsFiniteSet(S)
    <2>1. PICK T : ScanOrder \in Seq(T)
        BY ScanIsList DEF IsList
    <2>2. PICK first \in Nat : first = job.scanned + 1
        BY DEF JobFine
    <2>3. PICK list : list = ScanOrder /\ seen = SubSeq(list, first, upto)
        BY <1>2, <2>2
    <2>4. seen = [i \in 1 .. (1 + upto - first) |-> list[i + first - 1]]
        BY <1>1, <2>1, <2>3
    <2>5. PICK z \in Int : DOMAIN seen = 1 .. z /\ seen = [i \in DOMAIN seen |-> seen[i]]
        BY <1>1, <2>4
    <2>6. IsFiniteSet(DOMAIN seen)
        <3>1. IsFiniteSet(1 .. z)
            BY FS_Interval
        <3> QED
            BY <2>5, <3>1
    <2>7. ToSet(seen) = {seen[i] : i \in DOMAIN seen}
        BY DEF ToSet
    <2>8. IsFiniteSet(ToSet(seen))
        BY <2>5, <2>6, <2>7, FiniteList
    <2>9. S \subseteq ToSet(seen)
        BY <1>2
    <2> QED
        BY <2>8, <2>9, FS_Subset
<1>4. IsList(more) /\ IsList(job.rows)
    BY <1>2, <1>3, SortedIsList DEF JobFine
<1> HIDE DEF Scanning, Hits, More
<1>5. PICK rows : rows = job.rows \o more
    OBVIOUS
<1>6. IsList(rows) /\ Len(job.rows) <= Len(rows) /\ \A i \in 1 .. Len(job.rows) : rows[i] = job.rows[i]
    BY <1>4, <1>5, ListsJoin
<1>7. job' = [state |-> state, scanned |-> upto, rows |-> rows, failing |-> job.failing]
    BY <1>1, <1>2, <1>5 DEF JobFine
<1>8. job.state \notin Ended /\ job.state \notin Settled
    BY <1>1 DEF Ended, Settled, Over
<1>9. job'.rows = rows /\ job'.state = state /\ job'.scanned = upto
      /\ job'.failing = job.failing
    BY <1>7
<1>10. JobFine'
    BY <1>1, <1>6, <1>7, <1>9 DEF JobFine
<1> QED
    BY <1>4, <1>6, <1>8, <1>9, <1>10 DEF Extends

LEMMA JobExtends ==
    ASSUME JobFine, [PagerNext]_pagerVars
    PROVE  JobFine' /\ Extends(job.rows, job.state, job'.rows, job'.state)
<1>1. Len(job.rows) \in Nat /\ IsList(job.rows)
    BY ListLength DEF JobFine
<1>2. ASSUME NEW state, job' = [job EXCEPT !.state = state], job.state \in Ended => state \in Ended,
             job.state \in Settled => state \in Settled
      PROVE  JobFine' /\ Extends(job.rows, job.state, job'.rows, job'.state)
    <2>1. job' = [state |-> state, scanned |-> job.scanned, rows |-> job.rows, failing |-> job.failing]
        BY <1>2 DEF JobFine
    <2> QED
        BY <1>1, <1>2, <2>1 DEF JobFine, Extends
<1>3. CASE job' = job
    BY <1>1, <1>3 DEF JobFine, Extends
<1>4. CASE Scan
    BY <1>4, ScanExtends
<1>5. CASE StartScan \/ EndScan \/ Cancel
    BY <1>2, <1>5 DEF StartScan, EndScan, Cancel, Ended, Settled, Over
<1>6. StartScan \/ Scan \/ EndScan \/ Cancel \/ job' = job
    BY DEF PagerNext, AskStatus, HearStatus, ChooseOrder, FetchFirst, Refocus, AnswerFetch, TakeFetch,
           RunEffect, TickNext, TickLast, AnswerLast, TakeLast, FailLast, pagerVars
<1> QED
    BY <1>3, <1>4, <1>5, <1>6

\* What was right stays right while the search moves on.
LEMMA FetchStays ==
    ASSUME NEW rows, NEW state, NEW more, NEW next, Extends(rows, state, more, next),
           NEW by, NEW f, FetchLinks(f, by, rows, state)
    PROVE  FetchLinks(f, by, more, next)
BY LinkedStays, FitsStays DEF FetchLinks

LEMMA CallStays ==
    ASSUME NEW rows, NEW state, NEW more, NEW next, Extends(rows, state, more, next),
           NEW call, CallLinks(call, rows, state)
    PROVE  CallLinks(call, more, next)
BY LinkedStays, FitsStays DEF CallLinks

LEMMA PagesStay ==
    ASSUME NEW rows, NEW state, NEW more, NEW next, Extends(rows, state, more, next),
           NEW all, PagesLink(all, rows, state)
    PROVE  PagesLink(all, more, next)
BY LinkedStays DEF PagesLink

LEMMA SearchKeeps ==
    ASSUME PagerInv, [PagerNext]_pagerVars, UNCHANGED <<order, pages, fetch, calls, effect>>
    PROVE  PagerInv'
<1>1. JobFine' /\ Extends(job.rows, job.state, job'.rows, job'.state)
    BY JobExtends DEF PagerInv
<1>2. PICK rows, state, more, next :
        /\ rows = job.rows /\ state = job.state /\ more = job'.rows /\ next = job'.state
        /\ Extends(rows, state, more, next)
    BY <1>1
<1>3. PagesLink(pages, more, next)
    BY <1>2, PagesStay DEF PagerInv
<1>4. FetchLinks(fetch, order, more, next)
    BY <1>2, FetchStays DEF PagerInv
<1>5. \A call \in calls : CallLinks(call, more, next)
    BY <1>2, CallStays DEF PagerInv
<1> QED
    BY <1>1, <1>2, <1>3, <1>4, <1>5 DEF PagerInv, OrdersFine

\* The query fetches, and is answered by what there is.
LEMMA FetchKeeps ==
    ASSUME PagerInv, FetchFirst \/ Refocus \/ AnswerFetch \/ TickNext \/ \E by \in Orders : ChooseOrder(by)
    PROVE  PagerInv'
<1> USE DEF PagerInv
<1>1. job' = job /\ pages' = pages /\ calls' = calls /\ JobFine' /\ OrdersFine'
    <2>1. job' = job /\ pages' = pages /\ calls' = calls /\ order' \in Orders
        BY DEF FetchFirst, Refocus, AnswerFetch, TickNext, ChooseOrder, OrdersFine
    <2>2. effect' = effect \/ effect' = [effect EXCEPT !.awaits = "page"]
        BY DEF FetchFirst, Refocus, AnswerFetch, TickNext, ChooseOrder
    <2>3. OrdersFine'
        BY <2>1, <2>2 DEF OrdersFine
    <2> QED
        BY <2>1, <2>3 DEF JobFine
<1>2. \A by : Linked(<<>>, by, job.rows, job.state) /\ NextOf(<<>>) = 0
    BY DEF Linked, IsList, NextOf
<1>3. PagesLink(pages, job.rows, job.state) /\ order \in Orders /\ Linked(pages[order], order, job.rows, job.state)
    BY DEF PagesLink, OrdersFine
<1>4. CASE FetchFirst \/ Refocus
    <2>1. order' = order /\ fetch'.kind = "sent" /\ fetch'.base = <<>> /\ fetch'.from = 0
        BY <1>4 DEF FetchFirst, Refocus
    <2> QED
        BY <1>1, <1>2, <1>3, <2>1 DEF FetchLinks
<1>5. CASE TickNext
    <2>1. order' = order /\ fetch'.kind = "sent" /\ fetch'.base = pages[order]
          /\ fetch'.from = NextOf(pages[order]) /\ NextOf(pages[order]) # -1
        BY <1>5 DEF TickNext
    <2> QED
        BY <1>1, <1>3, <2>1 DEF FetchLinks
<1>6. CASE \E by \in Orders : ChooseOrder(by)
    <2>1. fetch'.kind = "none"
        BY <1>6 DEF ChooseOrder, NoFetch
    <2> QED
        BY <1>1, <1>3, <2>1 DEF FetchLinks
<1>7. CASE AnswerFetch
    <2>1. CASE fetch' = [kind |-> "failed"]
        BY <1>1, <1>3, <1>7, <2>1 DEF AnswerFetch, FetchLinks
    <2>2. CASE fetch' # [kind |-> "failed"]
        <3>1. /\ job.state # "gone" /\ ~Refused(order) /\ fetch.kind = "sent" /\ order' = order
              /\ fetch'.kind = "answered" /\ fetch'.base = fetch.base
              /\ fetch'.page = ResultPage(fetch.from, order)
            BY <1>7, <2>2 DEF AnswerFetch
        <3>2. Linked(fetch.base, order, job.rows, job.state) /\ fetch.from = NextOf(fetch.base) /\ fetch.from # -1
            BY <3>1 DEF FetchLinks
        <3>3. IsList(job.rows)
            BY DEF JobFine
        <3>4. fetch.from \in Nat /\ fetch.from <= Len(FoundIn(job.rows, order))
            BY <3>2, <3>3, NextIsThere
        <3>5. Fits(fetch'.page, order, job.rows, job.state) /\ fetch'.page.from = fetch.from
            BY <3>1, <3>3, <3>4, PageFits
        <3> QED
            BY <1>1, <1>3, <3>1, <3>2, <3>5 DEF FetchLinks
    <2> QED
        BY <2>1, <2>2
<1> QED
    BY <1>4, <1>5, <1>6, <1>7

LEMMA TakeFetchKeeps == ASSUME PagerInv, TakeFetch PROVE PagerInv'
<1> USE DEF PagerInv
<1> DEFINE longer == Append(fetch.base, fetch.page)
<1>1. job' = job /\ order' = order /\ calls' = calls /\ JobFine' /\ OrdersFine'
    <2>1. job' = job /\ order' = order /\ calls' = calls
        BY DEF TakeFetch
    <2>2. effect' = effect \/ effect' = [effect EXCEPT !.awaits = "timer"]
        BY DEF TakeFetch
    <2>3. OrdersFine'
        BY <2>1, <2>2 DEF OrdersFine
    <2> QED
        BY <2>1, <2>3 DEF JobFine
<1>2. order \in Orders /\ PagesLink(pages, job.rows, job.state) /\ FetchLinks(fetch, order, job.rows, job.state)
    BY DEF OrdersFine
<1>3. fetch.kind = "answered" => Linked(longer, order, job.rows, job.state)
    <2>1. SUFFICES ASSUME fetch.kind = "answered" PROVE Linked(longer, order, job.rows, job.state)
        OBVIOUS
    <2>2. Linked(fetch.base, order, job.rows, job.state) /\ Fits(fetch.page, order, job.rows, job.state)
          /\ fetch.page.from = NextOf(fetch.base)
        BY <1>2, <2>1 DEF FetchLinks
    <2> QED
        BY <2>2, LinkedGrows
<1>4. CASE fetch.kind = "answered" /\ fetch.left > 0 /\ fetch.page.next # -1
    <2>1. fetch'.kind = "sent" /\ fetch'.base = longer /\ fetch'.from = fetch.page.next /\ pages' = pages
        BY <1>4 DEF TakeFetch
    <2>2. NextOf(longer) = fetch.page.next
        <3>1. PICK T : fetch.base \in Seq(T) /\ fetch.page \in T
            <4>1. fetch.base \in Seq({fetch.base[i] : i \in DOMAIN fetch.base} \cup {fetch.page})
                BY <1>2, <1>4 DEF FetchLinks, Linked, IsList
            <4> QED
                BY <4>1
        <3>2. longer # <<>> /\ longer[Len(longer)] = fetch.page
            BY <3>1
        <3> QED
            BY <3>2 DEF NextOf, Last
    <2> HIDE DEF longer
    <2> QED
        BY <1>1, <1>2, <1>3, <1>4, <2>1, <2>2 DEF FetchLinks
<1>5. CASE ~ (fetch.kind = "answered" /\ fetch.left > 0 /\ fetch.page.next # -1)
    <2>1. fetch'.kind = "none"
          /\ pages' = IF fetch.kind = "failed" THEN pages ELSE [pages EXCEPT ![order] = longer]
        BY <1>5 DEF TakeFetch, NoFetch
    <2>2. PagesLink(pages', job.rows, job.state)
        <3>1. fetch.kind # "failed" => fetch.kind = "answered"
            BY DEF TakeFetch
        <3> HIDE DEF longer
        <3> QED
            BY <1>2, <1>3, <2>1, <3>1 DEF PagesLink
    <2> QED
        BY <1>1, <1>2, <2>1, <2>2 DEF FetchLinks
<1> QED
    BY <1>4, <1>5

\* The effect and its refetches of the last page.
LEMMA CallsKeep ==
    ASSUME PagerInv, RunEffect \/ TickLast \/ AnswerLast \/ FailLast
    PROVE  PagerInv'
<1> USE DEF PagerInv
<1>1. job' = job /\ pages' = pages /\ fetch' = fetch /\ order' = order /\ JobFine'
    BY DEF RunEffect, TickLast, AnswerLast, FailLast, JobFine
<1>2. OrdersFine'
    <2>1. CASE RunEffect
        <3>1. effect' = [deps |-> Deps, awaits |-> "timer"] /\ Deps.order = order
            BY <2>1 DEF RunEffect, Deps
        <3> QED
            BY <1>1, <3>1 DEF OrdersFine
    <2>2. CASE ~ RunEffect
        <3>1. effect' = effect \/ effect' = [effect EXCEPT !.awaits = "last"]
            BY <2>2 DEF TickLast, AnswerLast, FailLast
        <3> QED
            BY <1>1, <3>1 DEF OrdersFine
    <2> QED
        BY <2>1, <2>2
<1>3. \A call \in calls' : CallLinks(call, job.rows, job.state)
    <2>1. CASE RunEffect
        <3>1. ASSUME NEW call \in calls PROVE CallLinks([call EXCEPT !.mine = FALSE], job.rows, job.state)
            <4>1. PICK c, no : c = [call EXCEPT !.mine = no] /\ c = [call EXCEPT !.mine = FALSE]
                OBVIOUS
            <4>2. /\ DOMAIN c = DOMAIN call
                  /\ c.by = call.by /\ c.base = call.base /\ c.page = call.page
                BY <4>1 DEF CallLinks
            <4>3. CallLinks(call, job.rows, job.state)
                OBVIOUS
            <4> QED
                BY <4>1, <4>2, <4>3 DEF CallLinks
        <3> QED
            BY <2>1, <3>1 DEF RunEffect
    <2>2. CASE TickLast
        <3>1. PICK by, base, yes, new :
                /\ by = effect.deps.order /\ base = pages[by] /\ base # <<>>
                /\ new = [id |-> asked, by |-> by, base |-> base, mine |-> yes, page |-> NoFetch]
                /\ calls' = calls \cup {new}
            BY <2>2, Zenon DEF TickLast
        <3>2. by \in Orders /\ Linked(base, by, job.rows, job.state)
            BY <3>1 DEF PagesLink, OrdersFine
        <3>3. /\ {"by", "base", "page", "mine"} \subseteq DOMAIN new
              /\ new.by = by /\ new.base = base /\ new.page = NoFetch
            BY <3>1
        <3>4. CallLinks(new, job.rows, job.state)
            BY <3>1, <3>2, <3>3 DEF CallLinks
        <3> QED
            BY <3>1, <3>4
    <2>3. CASE AnswerLast
        <3>1. PICK call, page :
                /\ call \in calls /\ job.state # "gone" /\ ~Refused(call.by)
                /\ page = ResultPage(Last(call.base).from, call.by)
                /\ calls' = (calls \ {call}) \cup {[call EXCEPT !.page = page]}
            BY <2>3 DEF AnswerLast
        <3>2. CallLinks(call, job.rows, job.state) /\ IsList(job.rows)
            BY <3>1 DEF JobFine
        <3>3. Last(call.base).from \in Nat /\ Last(call.base).from <= Len(FoundIn(job.rows, call.by))
            BY <3>2, LastIsThere DEF CallLinks
        <3>4. Fits(page, call.by, job.rows, job.state) /\ page.from = Last(call.base).from
            BY <3>1, <3>2, <3>3, PageFits
        <3>5. PICK c : c = [call EXCEPT !.page = page]
            OBVIOUS
        <3>6. DOMAIN c = DOMAIN call /\ c.by = call.by /\ c.base = call.base /\ c.page = page
            BY <3>2, <3>5 DEF CallLinks
        <3>7. CallLinks(c, job.rows, job.state)
            BY <3>2, <3>4, <3>6 DEF CallLinks
        <3> QED
            BY <3>1, <3>5, <3>7
    <2>4. CASE FailLast
        BY <2>4 DEF FailLast
    <2> QED
        BY <2>1, <2>2, <2>3, <2>4
<1> QED
    BY <1>1, <1>2, <1>3

LEMMA TakeLastKeeps == ASSUME PagerInv, TakeLast PROVE PagerInv'
<1> USE DEF PagerInv
<1>1. PICK call \in calls :
        /\ call.page # NoFetch
        /\ pages' = [pages EXCEPT ![call.by] = Replaced(call.base, call.page)]
        /\ calls' = calls \ {call}
    BY DEF TakeLast
<1>2. job' = job /\ fetch' = fetch /\ order' = order /\ JobFine' /\ OrdersFine'
    BY DEF TakeLast, JobFine, OrdersFine
<1>3. CallLinks(call, job.rows, job.state)
    OBVIOUS
<1>4. Linked(Replaced(call.base, call.page), call.by, job.rows, job.state)
    BY <1>1, <1>3, LinkedRenews DEF CallLinks
<1>5. PagesLink(pages', job.rows, job.state)
    BY <1>1, <1>3, <1>4 DEF PagesLink, CallLinks
<1> QED
    BY <1>1, <1>2, <1>5

LEMMA PagerStepKeeps == ASSUME PagerInv, [PagerNext]_pagerVars PROVE PagerInv'
<1>1. CASE StartScan \/ Scan \/ EndScan \/ Cancel \/ AskStatus \/ HearStatus \/ UNCHANGED pagerVars
    <2>1. UNCHANGED <<order, pages, fetch, calls, effect>>
        BY <1>1 DEF StartScan, Scan, EndScan, Cancel, AskStatus, HearStatus, pagerVars, clientVars
    <2> QED
        BY <2>1, SearchKeeps
<1> QED
    BY <1>1, FetchKeeps, TakeFetchKeeps, CallsKeep, TakeLastKeeps DEF PagerNext

\* The table shows a beginning of the matching rows in every order, and all of
\* them when its last page says so, for any rows, any size of pages and of the
\* scan's steps (results(), useSearchResults and refetchLastPage): whatever is
\* put behind pages was made for their end, and rows are only ever added.
THEOREM TableIsPrefix == PagerSpec => []RowsArePrefix
<1>1. PagerInv => RowsArePrefix
    <2> SUFFICES ASSUME PagerInv, NEW by \in Orders
                 PROVE  /\ IsPrefix(ShownRows(by), Found(by))
                        /\ pages[by] # <<>> /\ Last(pages[by]).complete => ShownRows(by) = Found(by)
        BY DEF RowsArePrefix
    <2>1. IsList(job.rows) /\ Linked(pages[by], by, job.rows, job.state)
        BY DEF PagerInv, JobFine, PagesLink
    <2>2. Found(by) = FoundIn(job.rows, by)
        BY DEF Found, FoundIn
    <2> QED
        BY <2>1, <2>2, LinkedShows DEF ShownRows
<1> QED
    BY <1>1, PagerInitially, PagerStepKeeps, PTL DEF PagerSpec

\* How far the scan is, and what the client shows: a search made to fail fails
\* before it passes the middle, and of what was scanned only what matches is a row.
Half == IF Len(ScanOrder) < 2 THEN 1 ELSE Len(ScanOrder) \div 2
Alive == {"queued", "running"}
Advanced ==
    /\ job.state \in Over \cup Alive \cup {"gone"}
    /\ job.scanned \in 0 .. Len(ScanOrder) /\ Len(job.rows) <= job.scanned
    /\ job.failing /\ job.state \in Alive => job.scanned < Half
Showing ==
    /\ shown \in Over \cup Alive /\ polls \subseteq Over \cup Alive
    /\ asked \in 0 .. MaxCalls
    /\ {"deps", "awaits"} \subseteq DOMAIN effect /\ effect.awaits \in {"timer", "page", "last"}

LEMMA NoMoreThanSeen ==
    ASSUME NEW T, NEW list \in Seq(T), NEW m \in Nat, NEW n \in Nat, m <= n, n <= Len(list),
           NEW S \in SUBSET ToSet(SubSeq(list, m + 1, n))
    PROVE  IsFiniteSet(S) /\ Cardinality(S) \in Nat /\ Cardinality(S) <= n - m
<1>1. PICK seen : seen = SubSeq(list, m + 1, n)
    OBVIOUS
<1>2. PICK k \in Nat : k = n - m
    OBVIOUS
<1>3. seen \in Seq(T) /\ Len(seen) = k
    BY <1>1, <1>2
<1>4. seen \in [1 .. k -> ToSet(seen)] /\ \A x \in ToSet(seen) : \E i \in 1 .. k : seen[i] = x
    BY <1>3 DEF ToSet
<1>5. seen \in Surjection(1 .. k, ToSet(seen))
    BY <1>4 DEF Surjection
<1>6. IsFiniteSet(1 .. k) /\ Cardinality(1 .. k) = k
    BY FS_Interval
<1>7. IsFiniteSet(ToSet(seen)) /\ Cardinality(ToSet(seen)) <= k
    BY <1>5, <1>6, FS_Surjection
<1>8. S \in SUBSET ToSet(seen)
    BY <1>1
<1>9. IsFiniteSet(S) /\ Cardinality(S) <= Cardinality(ToSet(seen))
    BY <1>7, <1>8, FS_Subset
<1>10. Cardinality(S) \in Nat /\ Cardinality(ToSet(seen)) \in Nat
    BY <1>7, <1>9, FS_CardinalityType
<1> QED
    BY <1>2, <1>7, <1>9, <1>10

LEMMA SortedLength ==
    ASSUME NEW S, IsFiniteSet(S), NEW by
    PROVE  Len(SortedRows(S, by)) = Cardinality(S)
<1> DEFINE At(k) == CHOOSE r \in S : Cardinality({q \in S : Precedes(q, r, by)}) = k - 1
<1>1. PICK n \in Nat : n = Cardinality(S)
    BY FS_CardinalityType
<1>2. SortedRows(S, by) = [k \in 1 .. n |-> At(k)]
    BY <1>1 DEF SortedRows
<1> HIDE DEF At
<1>3. Len([k \in 1 .. n |-> At(k)]) = n
    BY <1>1
<1> QED
    BY <1>1, <1>2, <1>3

LEMMA ScanAdvances ==
    ASSUME JobFine, Advanced, Scan
    PROVE  Advanced'
<1>1. PICK total \in Nat, before \in Nat, half \in Nat :
        total = Len(ScanOrder) /\ before = job.scanned /\ half = Half
    BY ScanIsList DEF JobFine, Half
<1> DEFINE Scanning(upto) == SubSeq(ScanOrder, before + 1, upto)
           Hits(upto) == {r \in ToSet(Scanning(upto)) : r.matches}
           More(upto) == SortedRows(Hits(upto), "-ts")
           most == IF before + ScanChunk < total THEN before + ScanChunk ELSE total
           fails == job.failing /\ half <= most
           end == IF fails THEN half ELSE most
<1>2. ScanChunk \in Nat /\ ScanChunk > 0 /\ most \in Nat
    BY PagerAssumption DEF PagerAssumption
<1>3. job.state = "running" /\ before < total /\ before <= total
    <2>1. job.state = "running" /\ job.scanned < Len(ScanOrder)
        BY Zenon DEF Scan
    <2> QED
        BY <1>1, <2>1
<1>4. PICK late : job' = [job EXCEPT !.state = IF fails \/ late THEN "failed" ELSE "running",
                                    !.scanned = end, !.rows = @ \o More(end)]
    BY <1>1, Zenon DEF Scan, Half
<1>5. end \in Nat /\ before <= end /\ end <= total /\ (~fails /\ job.failing => end < half)
    <2>1. before <= most /\ most <= total
        BY <1>1, <1>2, <1>3
    <2>2. job.failing => before < half
        BY <1>1, <1>3 DEF Advanced, Alive
    <2> HIDE DEF most
    <2> QED
        BY <1>1, <1>2, <2>1, <2>2
<1> HIDE DEF end, fails, most
<1>6. PICK upto, more, S : upto \in Nat /\ upto = end /\ more = More(upto) /\ S = Hits(upto)
    BY <1>5
<1>7. Len(more) \in Nat /\ Len(more) <= upto - before
    <2>1. PICK T : ScanOrder \in Seq(T)
        BY ScanIsList DEF IsList
    <2>2. S \in SUBSET ToSet(SubSeq(ScanOrder, before + 1, upto))
        BY <1>6
    <2>3. upto <= Len(ScanOrder)
        BY <1>1, <1>5, <1>6
    <2>4. IsFiniteSet(S) /\ Cardinality(S) \in Nat /\ Cardinality(S) <= upto - before
        BY <1>5, <1>6, <2>1, <2>2, <2>3, NoMoreThanSeen
    <2> QED
        BY <1>6, <2>4, SortedLength
<1>8. IsList(more)
    <2>1. PICK T : ScanOrder \in Seq(T)
        BY ScanIsList DEF IsList
    <2>2. S \in SUBSET ToSet(SubSeq(ScanOrder, before + 1, upto)) /\ upto <= Len(ScanOrder)
        BY <1>1, <1>5, <1>6
    <2>3. IsFiniteSet(S)
        BY <1>5, <1>6, <2>1, <2>2, NoMoreThanSeen
    <2> QED
        BY <1>6, <2>3, SortedIsList
<1> HIDE DEF Scanning, Hits, More
<1>9. PICK rows : rows = job.rows \o more
    OBVIOUS
<1>10. PICK a \in Nat, b \in Nat : a = Len(job.rows) /\ b = Len(more)
    BY <1>7, ListLength DEF JobFine
<1>11. Len(rows) = a + b /\ Len(rows) \in Nat
    <2>1. PICK T : job.rows \in Seq(T) /\ more \in Seq(T)
        <3>1. /\ job.rows \in Seq({job.rows[i] : i \in DOMAIN job.rows} \cup {more[i] : i \in DOMAIN more})
              /\ more \in Seq({job.rows[i] : i \in DOMAIN job.rows} \cup {more[i] : i \in DOMAIN more})
            BY <1>8 DEF IsList, JobFine
        <3> QED
            BY <3>1
    <2> QED
        BY <1>9, <1>10, <2>1
<1>12. a <= before
    BY <1>1, <1>10 DEF Advanced
<1>13. PICK state : state = IF fails \/ late THEN "failed" ELSE "running"
    OBVIOUS
<1>14. job' = [state |-> state, scanned |-> upto, rows |-> rows, failing |-> job.failing]
    BY <1>4, <1>6, <1>9, <1>13 DEF JobFine
<1>15. job'.state = state /\ job'.scanned = upto /\ job'.rows = rows /\ job'.failing = job.failing
    BY <1>14
<1>16. upto \in 0 .. total /\ Len(rows) <= upto
    BY <1>5, <1>6, <1>7, <1>10, <1>11, <1>12
<1>17. job.failing /\ state \in Alive => upto < half
    BY <1>5, <1>6, <1>13 DEF Alive
<1> QED
    BY <1>1, <1>13, <1>15, <1>16, <1>17 DEF Advanced, Alive, Over, Half

LEMMA JobAdvances ==
    ASSUME JobFine, Advanced, [PagerNext]_pagerVars
    PROVE  Advanced'
<1>1. ASSUME NEW state \in Over \cup Alive \cup {"gone"}, job' = [job EXCEPT !.state = state],
             state \in Alive => job.state \in Alive
      PROVE  Advanced'
    <2>1. job' = [state |-> state, scanned |-> job.scanned, rows |-> job.rows, failing |-> job.failing]
        BY <1>1 DEF JobFine
    <2> QED
        BY <1>1, <2>1 DEF Advanced, Half
<1>2. CASE job' = job
    BY <1>2 DEF Advanced, Half
<1>3. CASE Scan
    BY <1>3, ScanAdvances
<1>4. CASE StartScan \/ EndScan \/ Cancel
    BY <1>1, <1>4 DEF StartScan, EndScan, Cancel, Alive, Over
<1>5. StartScan \/ Scan \/ EndScan \/ Cancel \/ job' = job
    BY DEF PagerNext, AskStatus, HearStatus, ChooseOrder, FetchFirst, Refocus, AnswerFetch, TakeFetch,
           RunEffect, TickNext, TickLast, AnswerLast, TakeLast, FailLast, pagerVars
<1> QED
    BY <1>2, <1>3, <1>4, <1>5

LEMMA ShownFollows ==
    ASSUME Advanced, Showing, [PagerNext]_pagerVars
    PROVE  Showing'
<1>0. MaxCalls \in Nat /\ asked \in Nat /\ asked <= MaxCalls
    BY PagerAssumption DEF PagerAssumption, Showing
<1>1. CASE AskStatus
    BY <1>1 DEF AskStatus, Showing, Advanced
<1>2. CASE HearStatus
    BY <1>2 DEF HearStatus, Showing
<1>3. CASE Cancel
    BY <1>3 DEF Cancel, Showing, Over, Alive
<1>4. CASE \E by \in Orders : ChooseOrder(by)
    BY <1>4 DEF ChooseOrder, Showing
<1>5. CASE StartScan \/ Scan \/ EndScan \/ AnswerFetch \/ AnswerLast \/ FailLast \/ UNCHANGED pagerVars
    BY <1>5, Zenon DEF StartScan, Scan, EndScan, AnswerFetch, AnswerLast, FailLast, pagerVars, clientVars, Showing
<1>6. ASSUME asked < MaxCalls, asked' = asked + 1, effect' = effect, UNCHANGED <<shown, polls>> PROVE Showing'
    BY <1>0, <1>6 DEF Showing
<1>7. CASE FetchFirst \/ Refocus
    BY <1>6, <1>7 DEF FetchFirst, Refocus
<1>8. ASSUME NEW x \in {"timer", "page", "last"}, effect' = [effect EXCEPT !.awaits = x] PROVE
        {"deps", "awaits"} \subseteq DOMAIN effect' /\ effect'.awaits \in {"timer", "page", "last"}
    BY <1>8 DEF Showing
<1>9. CASE TickNext \/ TickLast
    BY <1>0, <1>8, <1>9 DEF TickNext, TickLast, Showing
<1>10. CASE TakeLast
    BY <1>8, <1>10 DEF TakeLast, Showing
<1>11. CASE TakeFetch
    <2>1. \/ asked < MaxCalls /\ asked' = asked + 1 /\ effect' = effect
          \/ asked' = asked /\ (effect' = [effect EXCEPT !.awaits = "timer"] \/ effect' = effect)
        BY <1>11, Zenon DEF TakeFetch
    <2>2. UNCHANGED <<shown, polls>>
        BY <1>11 DEF TakeFetch
    <2> QED
        BY <1>0, <1>8, <2>1, <2>2 DEF Showing
<1>12. CASE RunEffect
    <2>1. effect' = [deps |-> Deps, awaits |-> "timer"] /\ UNCHANGED <<shown, polls, asked>>
        BY <1>12 DEF RunEffect
    <2>2. {"deps", "awaits"} \subseteq DOMAIN effect' /\ effect'.awaits = "timer"
        BY <2>1
    <2> QED
        BY <2>1, <2>2 DEF Showing
<1> QED
    BY <1>1, <1>2, <1>3, <1>4, <1>5, <1>7, <1>9, <1>10, <1>11, <1>12 DEF PagerNext

\* The scan never runs past its rows nor gives more than it has read, a search
\* the client cancelled is not shown as gone, and every page stored was asked for
\* by the cursor of the one before it (search/jobs.py, use-search-results.ts).
THEOREM PagerTyped == PagerSpec => []PagerTypeOK
<1>1. PagerInit => PagerInv /\ Advanced /\ Showing
    <2> SUFFICES ASSUME PagerInit PROVE PagerInv /\ Advanced /\ Showing
        OBVIOUS
    <2>1. PICK total \in Nat : total = Len(ScanOrder)
        BY ScanIsList
    <2>2. Half > 0 /\ Half \in Nat
        BY <2>1 DEF Half
    <2>3. job.state = "queued" /\ job.scanned = 0 /\ job.rows = <<>>
        BY DEF PagerInit
    <2>4. Advanced
        BY <2>1, <2>2, <2>3 DEF Advanced, Alive
    <2>5. {"deps", "awaits"} \subseteq DOMAIN effect /\ effect.awaits = "timer"
        <3>1. effect = [deps |-> Deps, awaits |-> "timer"]
            BY DEF PagerInit
        <3> QED
            BY <3>1
    <2>6. Showing
        BY <2>5, PagerAssumption DEF PagerInit, Showing, Alive, PagerAssumption
    <2> QED
        BY <2>4, <2>6, PagerInitially
<1>2. PagerInv /\ Advanced /\ Showing /\ [PagerNext]_pagerVars => (PagerInv /\ Advanced /\ Showing)'
    BY PagerStepKeeps, JobAdvances, ShownFollows DEF PagerInv
<1>3. PagerInv /\ Advanced /\ Showing => PagerTypeOK
    BY DEF PagerInv, OrdersFine, PagesLink, Linked, Advanced, Showing, Alive, PagerTypeOK
<1> QED
    BY <1>1, <1>2, <1>3, PTL DEF PagerSpec

-----------------------------------------------------------------------------
\* A file's records, and where they begin.
Records(f) == f.records \in Seq([stamp : Nat, length : Nat])

LEMMA RecordsTyped ==
    ASSUME NEW f, Records(f)
    PROVE  /\ Len(f.records) \in Nat
           /\ \A k \in 1 .. Len(f.records) : f.records[k].stamp \in Nat /\ f.records[k].length \in Nat
<1>1. ASSUME NEW T, NEW r \in Seq(T), NEW k \in 1 .. Len(r)
      PROVE  r[k] \in T
    OBVIOUS
<1> DEFINE T == [stamp : Nat, length : Nat]
<1>2. f.records \in Seq(T)
    BY DEF Records
<1> HIDE DEF T
<1>3. Len(f.records) \in Nat /\ \A k \in 1 .. Len(f.records) : f.records[k] \in T
    BY <1>1, <1>2
<1> QED
    BY <1>3 DEF T

Placed(f, at, m) ==
    at = [i \in 1 .. m + 1 |-> IF i = 1 THEN HeaderSize ELSE at[i - 1] + RecordSize + f.records[i - 1].length]

LEMMA SizesAreNumbers ==
    /\ MagicSize \in Nat /\ HeaderSize \in Nat /\ RecordSize \in Nat /\ MaxUpload \in Nat /\ MaxPiece \in Nat
    /\ MagicSize > 0 /\ HeaderSize > 0 /\ RecordSize > 0 /\ MaxRecord \in Nat /\ MaxMeta \in Nat
    /\ MagicSize <= HeaderSize /\ MaxPiece + MagicSize <= MaxUpload
<1>1. /\ {MagicSize, HeaderSize, RecordSize, MaxUpload, MaxPiece} \subseteq Nat \ {0}
      /\ {MaxRecord, MaxMeta} \subseteq Nat
      /\ MagicSize <= HeaderSize /\ MaxPiece + MagicSize <= MaxUpload
    BY UploadAssumption, Zenon DEF UploadAssumption
<1> QED
    BY <1>1

LEMMA PlacedOn ==
    ASSUME NEW f, NEW m \in Nat, NEW at, Placed(f, at, m)
    PROVE  \E more : Placed(f, more, m + 1)
<1> DEFINE Then(i, x) == IF i = 1 THEN HeaderSize ELSE x + RecordSize + f.records[i - 1].length
<1> DEFINE more == [i \in 1 .. m + 2 |-> IF i = m + 2 THEN Then(m + 2, at[m + 1]) ELSE at[i]]
<1>1. \A i \in 1 .. m + 1 : more[i] = at[i] /\ at[i] = Then(i, at[i - 1])
    BY DEF Placed
<1> HIDE DEF Then
<1>2. ASSUME NEW i \in 1 .. m + 2 PROVE more[i] = Then(i, more[i - 1])
    <2>1. CASE i = m + 2
        <3>1. i - 1 = m + 1 /\ more[i] = Then(m + 2, at[m + 1]) /\ more[m + 1] = at[m + 1]
            BY <1>1, <2>1
        <3> QED
            BY <2>1, <3>1
    <2>2. CASE i = 1
        <3>1. i \in 1 .. m + 1
            BY <2>2
        <3> QED
            BY <1>1, <2>2, <3>1 DEF Then
    <2>3. CASE i \in 2 .. m + 1
        <3>1. i - 1 \in 1 .. m + 1 /\ i \in 1 .. m + 1
            BY <2>3
        <3> QED
            BY <1>1, <3>1
    <2> QED
        BY <2>1, <2>2, <2>3
<1>3. more = [i \in 1 .. (m + 1) + 1 |-> more[i]]
    BY (m + 1) + 1 = m + 2
<1> HIDE DEF more
<1>4. more = [i \in 1 .. (m + 1) + 1 |-> Then(i, more[i - 1])]
    BY <1>2, <1>3
<1> QED
    BY <1>4 DEF Placed, Then

LEMMA PlacedFor ==
    ASSUME NEW f, NEW n \in Nat
    PROVE  \E at : Placed(f, at, n)
<1> DEFINE Bad == {m \in Nat : ~ \E at : Placed(f, at, m)}
<1> SUFFICES ASSUME Bad # {} PROVE FALSE
    OBVIOUS
<1>1. Bad \in SUBSET Nat
    OBVIOUS
<1>2. PICK m \in Bad : \A k \in Bad : m <= k
    <2> HIDE DEF Bad
    <2> QED
        BY <1>1, LeastOf
<1>3. \E at : Placed(f, at, 0)
    <2>1. Placed(f, [i \in 1 .. 1 |-> HeaderSize], 0)
        BY DEF Placed
    <2> QED
        BY <2>1
<1>4. m - 1 \in Nat /\ (m - 1) + 1 = m /\ ~ (m <= m - 1)
    BY <1>3
<1>5. PICK at : Placed(f, at, m - 1)
    BY <1>2, <1>4
<1> HIDE DEF Bad
<1>6. \E more : Placed(f, more, (m - 1) + 1)
    BY <1>4, <1>5, PlacedOn
<1> QED
    BY <1>4, <1>6 DEF Bad

\* One record follows the other.
LEMMA RecordsFollow ==
    ASSUME NEW f, Records(f)
    PROVE  /\ RecordAt(f, 1) = HeaderSize
           /\ \A k \in 1 .. Len(f.records) + 1 : RecordAt(f, k) \in Nat
           /\ \A k \in 1 .. Len(f.records) :
                RecordAt(f, k + 1) = RecordAt(f, k) + RecordSize + f.records[k].length
<1> DEFINE n == Len(f.records)
           A == CHOOSE at : at = [i \in 1 .. n + 1 |-> IF i = 1 THEN HeaderSize
                                                       ELSE at[i - 1] + RecordSize + f.records[i - 1].length]
<1>1. n \in Nat /\ HeaderSize \in Nat /\ RecordSize \in Nat /\ \A k \in 1 .. n : f.records[k].length \in Nat
    BY SizesAreNumbers, RecordsTyped
<1>2. Placed(f, A, n)
    <2> HIDE DEF n
    <2>1. PICK at : Placed(f, at, n)
        BY <1>1, PlacedFor
    <2> QED
        BY <2>1, Zenon DEF Placed
<1>3. \A k : RecordAt(f, k) = A[k]
    BY DEF RecordAt
<1> HIDE DEF A, n
<1>4. /\ A[1] = HeaderSize
      /\ \A k \in 1 .. n : A[k + 1] = A[k] + RecordSize + f.records[k].length
    BY <1>1, <1>2 DEF Placed
<1>5. \A k \in 1 .. n + 1 : A[k] \in Nat
    <2> DEFINE Bad == {k \in 1 .. n + 1 : A[k] \notin Nat}
    <2> SUFFICES ASSUME Bad # {} PROVE FALSE
        OBVIOUS
    <2>1. Bad \in SUBSET Nat
        OBVIOUS
    <2>2. PICK k \in Bad : \A j \in Bad : k <= j
        <3> HIDE DEF Bad
        <3> QED
            BY <2>1, LeastOf
    <2>3. k # 1
        BY <1>1, <1>4
    <2>4. k - 1 \in 1 .. n /\ (k - 1) + 1 = k /\ ~ (k <= k - 1)
        BY <1>1, <2>3
    <2>5. A[k - 1] \in Nat
        BY <1>1, <2>2, <2>4
    <2> QED
        BY <1>1, <1>4, <2>4, <2>5
<1> QED
    BY <1>3, <1>4, <1>5 DEF n

\* An earlier record ends before a later one begins.
LEMMA RecordsApart ==
    ASSUME NEW f, Records(f), NEW k \in 1 .. Len(f.records), NEW j \in k + 1 .. Len(f.records) + 1
    PROVE  RecordAt(f, k) + RecordSize + f.records[k].length <= RecordAt(f, j)
<1> DEFINE n == Len(f.records)
           Bad == {i \in k + 1 .. n + 1 : ~ (RecordAt(f, k + 1) <= RecordAt(f, i))}
<1>1. n \in Nat /\ RecordSize \in Nat /\ \A i \in 1 .. n : f.records[i].length \in Nat
    BY SizesAreNumbers, RecordsTyped
<1> HIDE DEF n
<1>2. /\ \A i \in 1 .. n + 1 : RecordAt(f, i) \in Nat
      /\ \A i \in 1 .. n : RecordAt(f, i + 1) = RecordAt(f, i) + RecordSize + f.records[i].length
    BY RecordsFollow DEF n
<1>3. k \in 1 .. n /\ j \in k + 1 .. n + 1
    BY DEF n
<1>4. Bad = {}
    <2> SUFFICES ASSUME Bad # {} PROVE FALSE
        OBVIOUS
    <2>1. Bad \in SUBSET Nat
        BY <1>3
    <2>2. PICK i \in Bad : \A m \in Bad : i <= m
        <3> HIDE DEF Bad
        <3> QED
            BY <2>1, LeastOf
    <2>3. i # k + 1
        BY <1>2, <1>3
    <2>4. i - 1 \in k + 1 .. n + 1 /\ i - 1 \in 1 .. n /\ (i - 1) + 1 = i /\ ~ (i <= i - 1)
        BY <1>1, <1>3, <2>3
    <2>5. RecordAt(f, k + 1) <= RecordAt(f, i - 1)
        BY <2>2, <2>4
    <2>6. RecordAt(f, i - 1) <= RecordAt(f, i) /\ RecordAt(f, i) \in Nat /\ RecordAt(f, i - 1) \in Nat
        <3>1. i - 1 \in 1 .. n + 1 /\ i \in 1 .. n + 1 /\ f.records[i - 1].length \in Nat
            BY <1>1, <2>4
        <3>2. RecordAt(f, i) = RecordAt(f, i - 1) + RecordSize + f.records[i - 1].length
            BY <1>2, <2>4
        <3>3. RecordAt(f, i) \in Nat /\ RecordAt(f, i - 1) \in Nat
            BY <1>2, <3>1
        <3>4. \A a, b, l \in Nat : b = a + RecordSize + l => a <= b
            BY <1>1
        <3> QED
            BY <3>1, <3>2, <3>3, <3>4
    <2>7. RecordAt(f, k + 1) \in Nat
        BY <1>1, <1>2, <1>3
    <2>8. RecordAt(f, k + 1) <= RecordAt(f, i)
        BY <2>5, <2>6, <2>7
    <2> QED
        BY <2>8
<1>5. RecordAt(f, k + 1) <= RecordAt(f, j)
    BY <1>3, <1>4
<1> QED
    BY <1>2, <1>3, <1>5

-----------------------------------------------------------------------------
\* Between two handlers: the scanner knows what the records before the next
\* one say (Told), and holds back what it cannot read yet (Stands).
Scanners(f) ==
    [state : {"magic", "header", "record", "payload", "done"}, buffered : Nat, skip : Nat, size : Nat,
     kind : {"none", f.magic}, decided : BOOLEAN, next : Nat, first : Int, last : Int]
Told(f, n, first, last) ==
    /\ n \in 1 .. Len(f.records) + 1
    /\ \A i \in 1 .. n - 1 : f.records[i].length <= MaxRecord
    /\ n = 1 => first = -1 /\ last = -1
    /\ n > 1 => first = f.records[1].stamp /\ last = f.records[n - 1].stamp
Recognised(s, f) == s.decided /\ s.kind = f.magic /\ s.size >= MagicSize
Oversized(f, n) == n \in 1 .. Len(f.records) /\ f.records[n].length > MaxRecord
Stands(s, f) ==
    /\ s.state = "magic" => s.next = 1 /\ ~ s.decided /\ s.kind = "none" /\ s.buffered = s.size
    /\ s.state = "header" => s.next = 1 /\ Recognised(s, f) /\ f.magic = "pcap" /\ s.buffered = s.size
    /\ s.state = "record" => Recognised(s, f) /\ f.magic = "pcap" /\ s.buffered + RecordAt(f, s.next) = s.size
    /\ s.state = "payload" =>
         /\ Recognised(s, f) /\ f.magic = "pcap" /\ s.next > 1 /\ s.skip <= f.records[s.next - 1].length
         /\ s.buffered + RecordAt(f, s.next) = s.size + s.skip
    /\ s.state = "done" =>
         /\ Recognised(s, f)
         /\ \/ f.magic # "pcap" /\ s.next = 1
            \/ f.magic = "pcap" /\ Oversized(f, s.next) /\ RecordAt(f, s.next) + RecordSize <= s.size
MidScan(s, f) == s \in Scanners(f) /\ Told(f, s.next, s.first, s.last) /\ Stands(s, f)

\* When no handler goes on, each waits for more than there is.
Waits(s) ==
    /\ s.state = "magic" => s.size < MagicSize
    /\ s.state = "header" => s.buffered < HeaderSize
    /\ s.state = "record" => s.buffered < RecordSize
    /\ s.state = "payload" => s.buffered = 0 /\ s.skip > 0

\* What a scan has left to do; a handler that goes on leaves less.
Left(s) == 2 * s.buffered + (IF s.state = "magic" THEN 2 ELSE IF s.state \in {"header", "payload"} THEN 1 ELSE 0)
GoesWell(s, d, f) ==
    /\ MidScan(d.scan, f) /\ d.scan.size = s.size
    /\ IF d.go THEN Left(d.scan) < Left(s) ELSE Waits(d.scan)

\* The records of a file say all there is to read in it.
Legible(f) ==
    /\ f.size \in Nat /\ Records(f)
    /\ f.magic = "pcap" => \/ RecordAt(f, Len(f.records) + 1) + RecordSize > f.size
                           \/ \E i \in DOMAIN f.records : f.records[i].length > MaxRecord

LEMMA MagicGoesWell ==
    ASSUME NEW f, Legible(f), NEW s, MidScan(s, f), s.state = "magic"
    PROVE  GoesWell(s, ReadMagic(s, f), f)
<1>1. s \in Scanners(f) /\ s.next = 1 /\ ~ s.decided /\ s.kind = "none" /\ s.buffered = s.size
    BY DEF MidScan, Stands
<1>2. s.size \in Nat /\ s.buffered \in Nat
    BY <1>1 DEF Scanners
<1>3. CASE s.buffered < MagicSize
    <2>1. ReadMagic(s, f) = [scan |-> s, go |-> FALSE]
        BY <1>3 DEF ReadMagic, Halt
    <2>2. Waits(s)
        BY <1>1, <1>3 DEF Waits
    <2> QED
        BY <2>1, <2>2 DEF GoesWell
<1>4. CASE ~ (s.buffered < MagicSize)
    <2> DEFINE t == [s EXCEPT !.decided = TRUE, !.kind = f.magic,
                              !.state = IF f.magic = "pcap" THEN "header" ELSE "done"]
               pcap == f.magic = "pcap"
    <2>1. ReadMagic(s, f) = [scan |-> t, go |-> pcap]
        BY <1>4 DEF ReadMagic
    <2>2. /\ t \in Scanners(f) /\ t.decided /\ t.kind = f.magic /\ t.state = (IF pcap THEN "header" ELSE "done")
          /\ t.next = s.next /\ t.first = s.first /\ t.last = s.last /\ t.size = s.size /\ t.buffered = s.buffered
        BY <1>1 DEF Scanners
    <2> HIDE DEF t
    <2>3. MidScan(t, f)
        <3>1. Told(f, t.next, t.first, t.last)
            BY <2>2 DEF MidScan
        <3>2. Stands(t, f)
            BY <1>1, <1>2, <1>4, <2>2, SizesAreNumbers DEF Stands, Recognised
        <3> QED
            BY <2>2, <3>1, <3>2 DEF MidScan
    <2>4. Left(t) < Left(s) /\ (~ pcap => Waits(t))
        BY <1>1, <1>2, <2>2 DEF Left, Waits
    <2>5. CASE pcap
        <3>1. ReadMagic(s, f) = [scan |-> t, go |-> TRUE]
            BY <2>1, <2>5
        <3> QED
            BY <2>2, <2>3, <2>4, <3>1 DEF GoesWell
    <2>6. CASE ~ pcap
        <3>1. ReadMagic(s, f) = [scan |-> t, go |-> FALSE]
            BY <2>1, <2>6
        <3> QED
            BY <2>2, <2>3, <2>4, <2>6, <3>1 DEF GoesWell
    <2> QED
        BY <2>5, <2>6
<1> QED
    BY <1>3, <1>4

LEMMA HeaderGoesWell ==
    ASSUME NEW f, Legible(f), NEW s, MidScan(s, f), s.state = "header"
    PROVE  GoesWell(s, ReadHeader(s), f)
<1>1. s \in Scanners(f) /\ s.next = 1 /\ Recognised(s, f) /\ f.magic = "pcap" /\ s.buffered = s.size
    BY DEF MidScan, Stands
<1>2. s.size \in Nat /\ s.buffered \in Nat
    BY <1>1 DEF Scanners
<1>3. CASE s.buffered < HeaderSize
    <2>1. ReadHeader(s) = [scan |-> s, go |-> FALSE]
        BY <1>3 DEF ReadHeader, Halt
    <2>2. Waits(s)
        BY <1>1, <1>3 DEF Waits
    <2> QED
        BY <2>1, <2>2 DEF GoesWell
<1>4. CASE ~ (s.buffered < HeaderSize)
    <2> DEFINE t == [s EXCEPT !.buffered = @ - HeaderSize, !.state = "record"]
    <2>1. ReadHeader(s) = [scan |-> t, go |-> TRUE]
        BY <1>4 DEF ReadHeader, GoOn
    <2>2. s.buffered - HeaderSize \in Nat /\ RecordAt(f, 1) = HeaderSize
        BY <1>2, <1>4, SizesAreNumbers, RecordsFollow DEF Legible
    <2>3. /\ t \in Scanners(f) /\ t.state = "record" /\ t.buffered = s.buffered - HeaderSize
          /\ t.next = s.next /\ t.first = s.first /\ t.last = s.last /\ t.size = s.size
          /\ t.decided = s.decided /\ t.kind = s.kind
        BY <1>1, <2>2 DEF Scanners
    <2> HIDE DEF t
    <2>4. MidScan(t, f)
        <3>1. Told(f, t.next, t.first, t.last)
            BY <2>3 DEF MidScan
        <3>2. Recognised(t, f)
            BY <1>1, <2>3 DEF Recognised
        <3>3. Stands(t, f)
            BY <1>1, <1>2, <2>2, <2>3, <3>2, SizesAreNumbers DEF Stands
        <3> QED
            BY <2>3, <3>1, <3>3 DEF MidScan
    <2>5. Left(t) < Left(s)
        BY <1>2, <2>2, <2>3, SizesAreNumbers DEF Left
    <2> QED
        BY <2>1, <2>3, <2>4, <2>5 DEF GoesWell
<1> QED
    BY <1>3, <1>4

LEMMA RecordGoesWell ==
    ASSUME NEW f, Legible(f), NEW s, MidScan(s, f), s.size <= f.size, s.state = "record"
    PROVE  GoesWell(s, ReadRecord(s, f), f)
<1> DEFINE n == s.next
           at == RecordAt(f, s.next)
           r == f.records[n]
<1>1. s \in Scanners(f) /\ Recognised(s, f) /\ f.magic = "pcap" /\ s.buffered + at = s.size
    BY DEF MidScan, Stands
<1>2. s.size \in Nat /\ s.buffered \in Nat /\ n \in Nat
    BY <1>1 DEF Scanners
<1>3. CASE s.buffered < RecordSize
    <2>1. ReadRecord(s, f) = [scan |-> s, go |-> FALSE]
        BY <1>3 DEF ReadRecord, Halt
    <2>2. Waits(s)
        BY <1>3 DEF Waits
    <2> QED
        BY <2>1, <2>2 DEF GoesWell
<1>4. CASE ~ (s.buffered < RecordSize)
    <2>1. Told(f, n, s.first, s.last) /\ Records(f) /\ f.size \in Nat
        BY DEF MidScan, Legible
    <2>2. n \in 1 .. Len(f.records) /\ at \in Nat /\ Len(f.records) \in Nat
        <3>1. n \in 1 .. Len(f.records) + 1 /\ Len(f.records) \in Nat /\ at \in Nat
            BY <2>1, RecordsTyped, RecordsFollow DEF Told
        <3>2. ASSUME n = Len(f.records) + 1 PROVE FALSE
            <4>1. at + RecordSize <= f.size
                BY <1>1, <1>2, <1>4, <2>1, <3>1, SizesAreNumbers
            <4>2. \E i \in 1 .. Len(f.records) : f.records[i].length > MaxRecord
                <5>1. ~ (at + RecordSize > f.size)
                    BY <2>1, <3>1, <4>1, SizesAreNumbers
                <5>2. DOMAIN f.records = 1 .. Len(f.records)
                    BY <2>1 DEF Records
                <5> QED
                    BY <1>1, <3>2, <5>1, <5>2 DEF Legible
            <4>3. \A i \in 1 .. Len(f.records) : f.records[i].length <= MaxRecord
                BY <2>1, <3>1, <3>2 DEF Told
            <4> QED
                BY <2>1, <4>2, <4>3, RecordsTyped, SizesAreNumbers
        <3> QED
            BY <3>1, <3>2
    <2>3. /\ r.length \in Nat /\ r.stamp \in Nat /\ RecordAt(f, n + 1) = at + RecordSize + r.length
        BY <2>1, <2>2, RecordsTyped, RecordsFollow
    <2>4. CASE r.length > MaxRecord
        <3> DEFINE t == [s EXCEPT !.state = "done"]
        <3>1. ReadRecord(s, f) = [scan |-> t, go |-> FALSE]
            BY <1>4, <2>4 DEF ReadRecord, Halt
        <3>2. /\ t \in Scanners(f) /\ t.state = "done"
              /\ t.next = s.next /\ t.first = s.first /\ t.last = s.last /\ t.size = s.size
              /\ t.decided = s.decided /\ t.kind = s.kind
            BY <1>1 DEF Scanners
        <3> HIDE DEF t
        <3>3. Recognised(t, f) /\ Oversized(f, t.next) /\ RecordAt(f, t.next) + RecordSize <= t.size
            <4>1. Recognised(t, f)
                BY <1>1, <3>2 DEF Recognised
            <4>2. Oversized(f, t.next)
                BY <2>2, <2>4, <3>2 DEF Oversized
            <4>3. at + RecordSize <= s.size
                BY <1>1, <1>2, <1>4, <2>2, SizesAreNumbers
            <4> QED
                BY <3>2, <4>1, <4>2, <4>3
        <3>4. Stands(t, f) /\ Waits(t)
            BY <1>1, <3>2, <3>3 DEF Stands, Waits
        <3>5. Told(f, t.next, t.first, t.last)
            BY <2>1, <3>2
        <3> QED
            BY <3>1, <3>2, <3>4, <3>5 DEF MidScan, GoesWell
    <2>5. CASE ~ (r.length > MaxRecord)
        <3> DEFINE t == [s EXCEPT !.buffered = @ - RecordSize, !.skip = r.length, !.state = "payload",
                                  !.next = @ + 1, !.first = IF @ = -1 THEN r.stamp ELSE @, !.last = r.stamp]
        <3>1. ReadRecord(s, f) = [scan |-> t, go |-> TRUE]
            BY <1>4, <2>5 DEF ReadRecord, GoOn
        <3>2. s.buffered - RecordSize \in Nat
            BY <1>2, <1>4, SizesAreNumbers
        <3>3. /\ t \in Scanners(f) /\ t.state = "payload" /\ t.buffered = s.buffered - RecordSize
              /\ t.skip = r.length /\ t.next = n + 1 /\ t.last = r.stamp
              /\ t.first = (IF s.first = -1 THEN r.stamp ELSE s.first)
              /\ t.size = s.size /\ t.decided = s.decided /\ t.kind = s.kind
            <4>1. r.stamp \in Int /\ n + 1 \in Nat /\ (IF s.first = -1 THEN r.stamp ELSE s.first) \in Int
                BY <1>1, <1>2, <2>3 DEF Scanners
            <4> DEFINE u == [s EXCEPT !.buffered = @ - RecordSize, !.skip = r.length, !.state = "payload"]
                       began == IF s.first = -1 THEN r.stamp ELSE s.first
                       v == [u EXCEPT !.next = n + 1, !.first = began, !.last = r.stamp]
            <4>2. /\ u \in Scanners(f) /\ u.state = "payload" /\ u.buffered = s.buffered - RecordSize
                  /\ u.skip = r.length /\ u.next = n /\ u.first = s.first
                  /\ u.size = s.size /\ u.decided = s.decided /\ u.kind = s.kind
                BY <1>1, <2>3, <3>2 DEF Scanners
            <4>3. t = v
                BY <1>1 DEF Scanners
            <4> HIDE DEF t, u, began
            <4>4. /\ v \in Scanners(f) /\ v.state = u.state /\ v.buffered = u.buffered
                  /\ v.skip = u.skip /\ v.next = n + 1 /\ v.last = r.stamp /\ v.first = began
                  /\ v.size = u.size /\ v.decided = u.decided /\ v.kind = u.kind
                BY <4>1, <4>2 DEF Scanners, began
            <4> QED
                BY <4>2, <4>3, <4>4 DEF began
        <3> HIDE DEF t
        <3>4. Told(f, n + 1, t.first, t.last)
            <4>1. n + 1 \in 1 .. Len(f.records) + 1 /\ n + 1 > 1 /\ n + 1 # 1 /\ (n + 1) - 1 = n
                BY <2>2
            <4>2. \A i \in 1 .. n : f.records[i].length <= MaxRecord
                <5>1. \A i \in 1 .. n : i \in 1 .. n - 1 \/ i = n
                    BY <2>2
                <5> QED
                    BY <2>1, <2>3, <2>5, <5>1, SizesAreNumbers DEF Told
            <4>3. t.first = f.records[1].stamp
                <5>1. CASE n = 1
                    BY <2>1, <3>3, <5>1 DEF Told
                <5>2. CASE n # 1
                    <6>1. s.first = f.records[1].stamp /\ f.records[1].stamp \in Nat
                        BY <2>1, <2>2, <5>2, RecordsTyped DEF Told
                    <6> QED
                        BY <3>3, <6>1
                <5> QED
                    BY <5>1, <5>2
            <4> QED
                BY <3>3, <4>1, <4>2, <4>3 DEF Told
        <3>5. Stands(t, f)
            <4>1. Recognised(t, f)
                BY <1>1, <3>3 DEF Recognised
            <4>2. t.next > 1 /\ t.next - 1 = n /\ t.skip <= r.length
                BY <2>2, <2>3, <3>3
            <4>3. t.buffered + RecordAt(f, n + 1) = t.size + t.skip
                <5>1. \A a, b, m, l, z \in Int : b + a = z => (b - m) + (a + m + l) = z + l
                    OBVIOUS
                <5> QED
                    BY <1>1, <1>2, <2>2, <2>3, <3>3, <5>1, SizesAreNumbers
            <4> QED
                BY <1>1, <3>3, <4>1, <4>2, <4>3 DEF Stands
        <3>6. Left(t) < Left(s)
            BY <1>2, <3>2, <3>3, SizesAreNumbers DEF Left
        <3> QED
            BY <3>1, <3>3, <3>4, <3>5, <3>6 DEF MidScan, GoesWell
    <2> QED
        BY <2>4, <2>5
<1> QED
    BY <1>3, <1>4

LEMMA PayloadGoesWell ==
    ASSUME NEW f, Legible(f), NEW s, MidScan(s, f), s.state = "payload"
    PROVE  GoesWell(s, ReadPayload(s), f)
<1> DEFINE take == Fewer(s.skip, s.buffered)
           left == [s EXCEPT !.buffered = @ - take, !.skip = @ - take]
           at == RecordAt(f, s.next)
<1>1. /\ s \in Scanners(f) /\ Recognised(s, f) /\ f.magic = "pcap" /\ s.next > 1
      /\ s.skip <= f.records[s.next - 1].length /\ s.buffered + at = s.size + s.skip
    BY DEF MidScan, Stands
<1>2. s.size \in Nat /\ s.buffered \in Nat /\ s.next \in Nat /\ s.skip \in Nat
    BY <1>1 DEF Scanners
<1>3. s.next - 1 \in 1 .. Len(f.records) /\ at \in Nat /\ f.records[s.next - 1].length \in Nat
    <2>1. s.next \in 1 .. Len(f.records) + 1 /\ Records(f) /\ Len(f.records) \in Nat
        BY RecordsTyped DEF MidScan, Told, Legible
    <2>2. s.next - 1 \in 1 .. Len(f.records)
        BY <1>1, <1>2, <2>1
    <2> QED
        BY <2>1, <2>2, RecordsTyped, RecordsFollow
<1>4. take \in Nat /\ s.buffered - take \in Nat /\ s.skip - take \in Nat /\ (take = s.skip \/ take = s.buffered)
    BY <1>2 DEF Fewer
<1> HIDE DEF take
<1>5. /\ left \in Scanners(f) /\ left.buffered = s.buffered - take /\ left.skip = s.skip - take
      /\ left.state = "payload" /\ left.next = s.next /\ left.first = s.first /\ left.last = s.last
      /\ left.size = s.size /\ left.decided = s.decided /\ left.kind = s.kind
    BY <1>1, <1>4 DEF Scanners
<1>6. ReadPayload(s) = IF left.skip > 0 THEN [scan |-> left, go |-> FALSE]
                       ELSE [scan |-> [left EXCEPT !.state = "record"], go |-> TRUE]
    BY DEF ReadPayload, Halt, GoOn, take
<1> HIDE DEF left
<1>7. Told(f, left.next, left.first, left.last) /\ Recognised(left, f)
    BY <1>1, <1>5 DEF Recognised, MidScan
<1>8. CASE left.skip > 0
    <2>1. left.buffered = 0 /\ left.skip <= s.skip /\ left.skip \in Nat
        BY <1>2, <1>4, <1>5, <1>8
    <2>2. left.buffered + at = left.size + left.skip /\ left.skip <= f.records[s.next - 1].length
        <3>1. \A a, b, k, z, u \in Int : b + a = z + k => (b - u) + a = z + (k - u)
            OBVIOUS
        <3>2. left.buffered + at = left.size + left.skip
            <4>1. s.buffered + at = s.size + s.skip
                BY <1>1
            <4>2. s.buffered \in Int /\ at \in Int /\ s.size \in Int /\ s.skip \in Int /\ take \in Int
                BY <1>2, <1>3, <1>4
            <4>3. left.buffered = s.buffered - take /\ left.skip = s.skip - take /\ left.size = s.size
                BY <1>5
            <4> HIDE DEF at
            <4>4. (s.buffered - take) + at = s.size + (s.skip - take)
                BY <3>1, <4>1, <4>2
            <4> QED
                BY <4>3, <4>4
        <3> QED
            BY <1>1, <1>2, <1>3, <2>1, <3>2
    <2>3. Stands(left, f) /\ Waits(left)
        BY <1>1, <1>5, <1>7, <1>8, <2>1, <2>2 DEF Stands, Waits
    <2> QED
        BY <1>5, <1>6, <1>7, <1>8, <2>3 DEF MidScan, GoesWell
<1>9. CASE ~ (left.skip > 0)
    <2> DEFINE t == [left EXCEPT !.state = "record"]
    <2>1. /\ t \in Scanners(f) /\ t.state = "record" /\ t.buffered = left.buffered
          /\ t.next = s.next /\ t.first = s.first /\ t.last = s.last
          /\ t.size = s.size /\ t.decided = s.decided /\ t.kind = s.kind
        BY <1>5 DEF Scanners
    <2>2. ReadPayload(s) = [scan |-> t, go |-> TRUE]
        BY <1>6, <1>9
    <2> HIDE DEF t
    <2>3. t.buffered + at = t.size
        <3>1. \A a, b, k, z \in Int : b + a = z + k => (b - k) + a = z
            OBVIOUS
        <3>2. take = s.skip
            BY <1>2, <1>4, <1>5, <1>9
        <3>3. s.buffered + at = s.size + s.skip
            BY <1>1
        <3>4. s.buffered \in Int /\ at \in Int /\ s.size \in Int /\ s.skip \in Int
            BY <1>2, <1>3
        <3>5. t.buffered = s.buffered - s.skip /\ t.size = s.size
            BY <1>5, <2>1, <3>2
        <3> HIDE DEF at
        <3>6. (s.buffered - s.skip) + at = s.size
            BY <3>1, <3>3, <3>4
        <3> QED
            BY <3>5, <3>6
    <2>4. Recognised(t, f) /\ Told(f, t.next, t.first, t.last)
        BY <1>5, <1>7, <2>1 DEF Recognised
    <2>5. Stands(t, f)
        BY <1>1, <2>1, <2>3, <2>4 DEF Stands
    <2>6. Left(t) < Left(s)
        BY <1>2, <1>4, <1>5, <2>1 DEF Left
    <2> QED
        BY <2>1, <2>2, <2>4, <2>5, <2>6 DEF MidScan, GoesWell
<1> QED
    BY <1>8, <1>9

-----------------------------------------------------------------------------
LEMMA HandledGoesWell ==
    ASSUME NEW f, Legible(f), NEW s, MidScan(s, f), s.size <= f.size
    PROVE  GoesWell(s, Handled(s, f), f)
<1>1. s.state \in {"magic", "header", "record", "payload", "done"}
    BY DEF MidScan, Scanners
<1>2. CASE s.state = "magic"
    BY <1>2, MagicGoesWell DEF Handled
<1>3. CASE s.state = "header"
    BY <1>3, HeaderGoesWell DEF Handled
<1>4. CASE s.state = "record"
    BY <1>4, RecordGoesWell DEF Handled
<1>5. CASE s.state = "payload"
    BY <1>5, PayloadGoesWell DEF Handled
<1>6. CASE s.state = "done"
    <2>1. Handled(s, f) = [scan |-> s, go |-> FALSE] /\ Waits(s)
        BY <1>6 DEF Handled, Halt, Waits
    <2> QED
        BY <2>1 DEF GoesWell
<1> QED
    BY <1>1, <1>2, <1>3, <1>4, <1>5, <1>6

\* What is done after so many handlers: as long as one goes on, each has left
\* less to do.
DoneAfter(s, d, f, i) ==
    /\ MidScan(d.scan, f) /\ d.scan.size = s.size
    /\ IF d.go THEN Left(d.scan) + i <= Left(s) ELSE Waits(d.scan)

LEMMA LeftIsNumber ==
    ASSUME NEW f, NEW s \in Scanners(f)
    PROVE  Left(s) \in Nat /\ Left(s) <= 2 * s.buffered + 2 /\ s.buffered \in Nat
<1>1. s.buffered \in Nat
    BY DEF Scanners
<1> QED
    BY <1>1 DEF Left

LEMMA ContinuedGoesWell ==
    ASSUME NEW f, Legible(f), NEW s \in Scanners(f), s.size <= f.size, NEW d, NEW i \in Nat, DoneAfter(s, d, f, i)
    PROVE  DoneAfter(s, Continued(d, f), f, i + 1)
<1>1. CASE ~ d.go
    BY <1>1 DEF DoneAfter, Continued
<1>2. CASE d.go
    <2>1. MidScan(d.scan, f) /\ d.scan.size <= f.size /\ d.scan.size = s.size /\ Left(d.scan) + i <= Left(s)
        BY <1>2 DEF DoneAfter
    <2>2. PICK e : e = Handled(d.scan, f)
        OBVIOUS
    <2>3. GoesWell(d.scan, e, f)
        BY <2>1, <2>2, HandledGoesWell
    <2>4. Continued(d, f) = e
        BY <1>2, <2>2 DEF Continued
    <2>5. CASE ~ e.go
        BY <2>1, <2>3, <2>4, <2>5 DEF GoesWell, DoneAfter
    <2>6. CASE e.go
        <3>1. MidScan(e.scan, f) /\ e.scan.size = s.size /\ Left(e.scan) < Left(d.scan)
            BY <2>1, <2>3, <2>6 DEF GoesWell
        <3>2. Left(e.scan) \in Nat /\ Left(d.scan) \in Nat /\ Left(s) \in Nat
            BY <2>1, <3>1, LeftIsNumber DEF MidScan
        <3>3. Left(e.scan) + (i + 1) <= Left(s)
            BY <2>1, <3>1, <3>2
        <3> QED
            BY <2>4, <2>6, <3>1, <3>3 DEF DoneAfter
    <2> QED
        BY <2>5, <2>6
<1> QED
    BY <1>1, <1>2

\* The handlers one after the other.
Ran(s, f, run, m) == run = [i \in 0 .. m |-> IF i = 0 THEN GoOn(s) ELSE Continued(run[i - 1], f)]

LEMMA RanOn ==
    ASSUME NEW s, NEW f, NEW m \in Nat, NEW run, Ran(s, f, run, m)
    PROVE  \E more : Ran(s, f, more, m + 1)
<1> DEFINE Then(i, d) == IF i = 0 THEN GoOn(s) ELSE Continued(d, f)
<1> DEFINE more == [i \in 0 .. m + 1 |-> IF i = m + 1 THEN Then(m + 1, run[m]) ELSE run[i]]
<1>1. \A i \in 0 .. m : more[i] = run[i] /\ run[i] = Then(i, run[i - 1])
    BY DEF Ran
<1> HIDE DEF Then
<1>2. ASSUME NEW i \in 0 .. m + 1 PROVE more[i] = Then(i, more[i - 1])
    <2>1. CASE i = m + 1
        <3>1. i - 1 = m /\ more[i] = Then(m + 1, run[m]) /\ more[m] = run[m]
            BY <1>1, <2>1
        <3> QED
            BY <2>1, <3>1
    <2>2. CASE i = 0
        <3>1. i \in 0 .. m
            BY <2>2
        <3> QED
            BY <1>1, <2>2, <3>1 DEF Then
    <2>3. CASE i \in 1 .. m
        <3>1. i - 1 \in 0 .. m /\ i \in 0 .. m
            BY <2>3
        <3> QED
            BY <1>1, <3>1
    <2> QED
        BY <2>1, <2>2, <2>3
<1>3. more = [i \in 0 .. m + 1 |-> more[i]]
    OBVIOUS
<1> HIDE DEF more
<1>4. more = [i \in 0 .. m + 1 |-> Then(i, more[i - 1])]
    BY <1>2, <1>3
<1> QED
    BY <1>4 DEF Ran, Then

LEMMA RanFor ==
    ASSUME NEW s, NEW f, NEW n \in Nat
    PROVE  \E run : Ran(s, f, run, n)
<1> DEFINE Bad == {m \in Nat : ~ \E run : Ran(s, f, run, m)}
<1> SUFFICES ASSUME Bad # {} PROVE FALSE
    OBVIOUS
<1>1. Bad \in SUBSET Nat
    OBVIOUS
<1>2. PICK m \in Bad : \A k \in Bad : m <= k
    <2> HIDE DEF Bad
    <2> QED
        BY <1>1, LeastOf
<1>3. \E run : Ran(s, f, run, 0)
    <2>1. Ran(s, f, [i \in 0 .. 0 |-> GoOn(s)], 0)
        BY DEF Ran
    <2> QED
        BY <2>1
<1>4. m - 1 \in Nat /\ (m - 1) + 1 = m /\ ~ (m <= m - 1)
    BY <1>3
<1>5. PICK run : Ran(s, f, run, m - 1)
    BY <1>2, <1>4
<1> HIDE DEF Bad
<1>6. \E more : Ran(s, f, more, (m - 1) + 1)
    BY <1>4, <1>5, RanOn
<1> QED
    BY <1>4, <1>6 DEF Bad

\* A scan that knows what it has read, and waits.
AtRest(s, f) == MidScan(s, f) /\ Waits(s)

LEMMA ParsedComesToRest ==
    ASSUME NEW f, Legible(f), NEW s, MidScan(s, f), s.size <= f.size
    PROVE  AtRest(ParsedScan(s, f), f) /\ ParsedScan(s, f).size = s.size
<1> DEFINE n == 2 * s.buffered + 3
           R == CHOOSE run : run = [i \in 0 .. n |-> IF i = 0 THEN GoOn(s) ELSE Continued(run[i - 1], f)]
<1>1. s \in Scanners(f) /\ Left(s) \in Nat /\ Left(s) < n /\ n \in Nat
    <2>1. s \in Scanners(f)
        BY DEF MidScan
    <2> QED
        BY <2>1, LeftIsNumber
<1>2. ParsedScan(s, f) = R[n].scan
    BY DEF ParsedScan
<1> HIDE DEF n
<1>3. Ran(s, f, R, n)
    <2>1. PICK run : Ran(s, f, run, n)
        BY <1>1, RanFor
    <2> QED
        BY <2>1, Zenon DEF Ran
<1> HIDE DEF R
<1>4. R[0] = GoOn(s) /\ \A i \in 1 .. n : R[i] = Continued(R[i - 1], f)
    BY <1>1, <1>3 DEF Ran
<1>5. DoneAfter(s, R[0], f, 0)
    <2>1. R[0] = [scan |-> s, go |-> TRUE]
        BY <1>4 DEF GoOn
    <2> QED
        BY <1>1, <2>1 DEF DoneAfter
<1>6. DoneAfter(s, R[n], f, n)
    <2> DEFINE Bad == {i \in 0 .. n : ~ DoneAfter(s, R[i], f, i)}
    <2> SUFFICES ASSUME Bad # {} PROVE FALSE
        BY <1>1
    <2>1. Bad \in SUBSET Nat
        BY <1>1
    <2>2. PICK i \in Bad : \A j \in Bad : i <= j
        <3> HIDE DEF Bad
        <3> QED
            BY <2>1, LeastOf
    <2>3. i - 1 \in Nat /\ i \in 1 .. n /\ i - 1 \in 0 .. n /\ (i - 1) + 1 = i /\ ~ (i <= i - 1)
        BY <1>1, <1>5
    <2>4. DoneAfter(s, R[i - 1], f, i - 1)
        BY <2>2, <2>3
    <2> HIDE DEF Bad
    <2>5. DoneAfter(s, Continued(R[i - 1], f), f, (i - 1) + 1)
        BY <1>1, <2>3, <2>4, ContinuedGoesWell
    <2> QED
        BY <1>4, <2>2, <2>3, <2>5 DEF Bad
<1>7. ~ R[n].go
    <2> SUFFICES ASSUME R[n].go PROVE FALSE
        OBVIOUS
    <2>1. Left(R[n].scan) + n <= Left(s) /\ MidScan(R[n].scan, f)
        BY <1>6 DEF DoneAfter
    <2>2. Left(R[n].scan) \in Nat
        BY <2>1, LeftIsNumber DEF MidScan
    <2> QED
        BY <1>1, <2>1, <2>2
<1> QED
    BY <1>2, <1>6, <1>7 DEF DoneAfter, AtRest

LEMMA FedComesToRest ==
    ASSUME NEW f, Legible(f), NEW s, AtRest(s, f), NEW n \in Nat, s.size + n <= f.size
    PROVE  AtRest(Fed(s, f, n), f) /\ Fed(s, f, n).size = s.size + n
<1>1. s \in Scanners(f) /\ s.size \in Nat /\ s.buffered \in Nat
    BY DEF AtRest, MidScan, Scanners
<1> DEFINE counted == [s EXCEPT !.size = @ + n]
           more == [counted EXCEPT !.buffered = @ + n]
<1>2. Fed(s, f, n) = IF s.state = "done" THEN counted ELSE ParsedScan(more, f)
    BY DEF Fed
<1>3. /\ counted \in Scanners(f) /\ counted.size = s.size + n /\ counted.buffered = s.buffered
      /\ counted.state = s.state /\ counted.skip = s.skip /\ counted.kind = s.kind
      /\ counted.decided = s.decided /\ counted.next = s.next /\ counted.first = s.first /\ counted.last = s.last
    BY <1>1 DEF Scanners
<1> HIDE DEF counted
<1>4. /\ more \in Scanners(f) /\ more.size = counted.size /\ more.buffered = counted.buffered + n
      /\ more.state = counted.state /\ more.skip = counted.skip /\ more.kind = counted.kind
      /\ more.decided = counted.decided /\ more.next = counted.next
      /\ more.first = counted.first /\ more.last = counted.last
    BY <1>1, <1>3 DEF Scanners
<1> HIDE DEF more
<1>5. Told(f, s.next, s.first, s.last) /\ Stands(s, f)
    BY DEF AtRest, MidScan
<1>6. s.next \in 1 .. Len(f.records) + 1 /\ RecordAt(f, s.next) \in Nat
    BY <1>5, RecordsFollow DEF Told, Legible
<1>7. CASE s.state = "done"
    <2>1. Stands(counted, f)
        <3>1. Recognised(s, f) => Recognised(counted, f)
            BY <1>1, <1>3, SizesAreNumbers DEF Recognised
        <3>2. RecordAt(f, s.next) + RecordSize <= s.size => RecordAt(f, counted.next) + RecordSize <= counted.size
            BY <1>1, <1>3, <1>6, SizesAreNumbers
        <3> QED
            BY <1>3, <1>5, <1>7, <3>1, <3>2 DEF Stands
    <2>2. Waits(counted)
        BY <1>3, <1>7 DEF Waits
    <2> QED
        BY <1>2, <1>3, <1>5, <1>7, <2>1, <2>2 DEF AtRest, MidScan
<1>8. CASE s.state # "done"
    <2>1. Stands(more, f)
        <3>1. Recognised(s, f) => Recognised(more, f)
            BY <1>1, <1>3, <1>4, SizesAreNumbers DEF Recognised
        <3>2. /\ more.state = s.state /\ more.next = s.next /\ more.skip = s.skip /\ more.decided = s.decided
              /\ more.kind = s.kind /\ more.size = s.size + n /\ more.buffered = s.buffered + n
            BY <1>3, <1>4
        <3>3. CASE s.state \in {"magic", "header"}
            BY <1>1, <1>5, <1>8, <3>1, <3>2, <3>3 DEF Stands
        <3>4. CASE s.state = "record"
            BY <1>1, <1>5, <1>6, <3>1, <3>2, <3>4 DEF Stands
        <3>5. CASE s.state = "payload"
            <4>1. s.skip \in Nat
                BY <1>1 DEF Scanners
            <4>2. s.buffered + RecordAt(f, s.next) = s.size + s.skip
                BY <1>5, <3>5 DEF Stands
            <4>3. more.buffered + RecordAt(f, s.next) = more.size + s.skip
                <5>1. \A a, b, k, z, m \in Int : b + a = z + k => (b + m) + a = (z + m) + k
                    OBVIOUS
                <5>2. (s.buffered + n) + RecordAt(f, s.next) = (s.size + n) + s.skip
                    BY <1>1, <1>6, <4>1, <4>2, <5>1
                <5> QED
                    BY <3>2, <5>2
            <4> QED
                BY <1>5, <3>1, <3>2, <3>5, <4>3 DEF Stands
        <3> QED
            BY <1>1, <1>8, <3>3, <3>4, <3>5 DEF Scanners
    <2>2. MidScan(more, f)
        BY <1>3, <1>4, <1>5, <2>1 DEF MidScan
    <2>3. more.size = s.size + n /\ more.size <= f.size
        BY <1>3, <1>4
    <2>4. AtRest(ParsedScan(more, f), f) /\ ParsedScan(more, f).size = more.size
        BY <2>2, <2>3, ParsedComesToRest
    <2> QED
        BY <1>2, <1>8, <2>3, <2>4
<1> QED
    BY <1>7, <1>8

LEMMA NewIsAtRest ==
    ASSUME NEW f, Legible(f)
    PROVE  AtRest(NewScanner, f) /\ NewScanner.size = 0
<1>1. NewScanner \in Scanners(f)
    BY DEF NewScanner, Scanners
<1>2. Told(f, 1, -1, -1)
    BY RecordsTyped DEF Told, Legible
<1>3. Stands(NewScanner, f) /\ Waits(NewScanner)
    BY SizesAreNumbers DEF Stands, Waits, NewScanner
<1> QED
    BY <1>1, <1>2, <1>3 DEF AtRest, MidScan, NewScanner

-----------------------------------------------------------------------------
\* Of the records, those before the next one and no other can be read.
LEMMA ReadableAre ==
    ASSUME NEW f, Legible(f), NEW s, AtRest(s, f), f.magic = "pcap", s.decided
    PROVE  ReadableIn(f, s.size) = 1 .. s.next - 1
<1> DEFINE n == s.next
<1>1. /\ s \in Scanners(f) /\ s.size \in Nat /\ s.buffered \in Nat /\ n \in 1 .. Len(f.records) + 1
      /\ Records(f) /\ Len(f.records) \in Nat /\ DOMAIN f.records = 1 .. Len(f.records)
      /\ \A i \in 1 .. n - 1 : f.records[i].length <= MaxRecord
    BY RecordsTyped DEF AtRest, MidScan, Scanners, Told, Legible, Records
<1>2. /\ \A k \in 1 .. Len(f.records) + 1 : RecordAt(f, k) \in Nat
      /\ \A k \in 1 .. Len(f.records) : f.records[k].length \in Nat
      /\ RecordAt(f, 1) = HeaderSize
      /\ RecordSize \in Nat /\ RecordSize > 0 /\ HeaderSize \in Nat /\ MaxRecord \in Nat
    BY <1>1, RecordsTyped, RecordsFollow, SizesAreNumbers
<1>3. n > 1 => RecordAt(f, n - 1) + RecordSize <= s.size
    <2> SUFFICES ASSUME n > 1 PROVE RecordAt(f, n - 1) + RecordSize <= s.size
        OBVIOUS
    <2>1. n - 1 \in 1 .. Len(f.records) /\ n \in (n - 1) + 1 .. Len(f.records) + 1
        BY <1>1
    <2>2. RecordAt(f, n - 1) + RecordSize + f.records[n - 1].length <= RecordAt(f, n)
        BY <1>1, <2>1, RecordsApart
    <2>3. PICK a \in Nat : a = RecordAt(f, n - 1)
        BY <1>1, <1>2, <2>1
    <2>4. PICK b \in Nat : b = RecordAt(f, n)
        BY <1>1, <1>2
    <2>5. PICK l \in Nat : l = f.records[n - 1].length
        BY <1>2, <2>1
    <2>6. a + RecordSize + l <= b
        BY <2>2, <2>3, <2>4, <2>5
    <2>7. s.skip \in Nat /\ s.state \in {"magic", "header", "record", "payload", "done"}
        BY <1>1 DEF Scanners
    <2>8. CASE s.state = "record"
        <3>1. s.buffered + b = s.size
            BY <2>4, <2>8 DEF AtRest, MidScan, Stands
        <3>2. a + RecordSize <= s.size
            BY <1>1, <1>2, <2>6, <3>1
        <3> QED
            BY <2>3, <3>2
    <2>9. CASE s.state = "payload"
        <3>1. 0 + b = s.size + s.skip /\ s.skip <= l
            BY <2>4, <2>5, <2>9 DEF AtRest, MidScan, Stands, Waits
        <3>2. a + RecordSize <= s.size
            BY <1>1, <1>2, <2>6, <2>7, <3>1
        <3> QED
            BY <2>3, <3>2
    <2>10. CASE s.state = "done"
        <3>1. b + RecordSize <= s.size
            BY <2>4, <2>10 DEF AtRest, MidScan, Stands
        <3>2. a + RecordSize <= s.size
            BY <1>1, <1>2, <2>6, <3>1
        <3> QED
            BY <2>3, <3>2
    <2> QED
        BY <2>7, <2>8, <2>9, <2>10 DEF AtRest, MidScan, Stands
<1>4. n <= Len(f.records) => RecordAt(f, n) + RecordSize > s.size \/ f.records[n].length > MaxRecord
    <2> SUFFICES ASSUME n <= Len(f.records)
                 PROVE  RecordAt(f, n) + RecordSize > s.size \/ f.records[n].length > MaxRecord
        OBVIOUS
    <2>1. RecordAt(f, n) \in Nat
        BY <1>1, <1>2
    <2>2. s.skip \in Nat /\ s.state \in {"magic", "header", "record", "payload", "done"}
        BY <1>1 DEF Scanners
    <2>3. CASE s.state = "header"
        <3>1. n = 1 /\ s.buffered = s.size /\ s.buffered < HeaderSize
            BY <2>3 DEF AtRest, MidScan, Stands, Waits
        <3> QED
            BY <1>1, <1>2, <3>1
    <2>4. CASE s.state = "record"
        <3>1. s.buffered + RecordAt(f, n) = s.size /\ s.buffered < RecordSize
            BY <2>4 DEF AtRest, MidScan, Stands, Waits
        <3> HIDE DEF n
        <3> QED
            BY <1>1, <1>2, <2>1, <3>1
    <2>5. CASE s.state = "payload"
        <3>1. s.buffered + RecordAt(f, n) = s.size + s.skip /\ s.buffered = 0 /\ s.skip > 0
            BY <2>5 DEF AtRest, MidScan, Stands, Waits
        <3> HIDE DEF n
        <3> QED
            BY <1>1, <1>2, <2>1, <2>2, <3>1
    <2>6. CASE s.state = "done"
        BY <2>6 DEF AtRest, MidScan, Stands, Oversized
    <2> QED
        BY <2>2, <2>3, <2>4, <2>5, <2>6 DEF AtRest, MidScan, Stands
<1>5. ASSUME NEW k \in 1 .. n - 1 PROVE k \in ReadableIn(f, s.size)
    <2>1. n > 1 /\ n - 1 \in 1 .. Len(f.records) /\ k \in 1 .. Len(f.records)
        BY <1>1
    <2>2. RecordAt(f, k) <= RecordAt(f, n - 1)
        <3>1. CASE k = n - 1
            BY <1>2, <2>1, <3>1
        <3>2. CASE k # n - 1
            <4>1. n - 1 \in k + 1 .. Len(f.records) + 1
                BY <1>1, <2>1, <3>2
            <4>2. RecordAt(f, k) + RecordSize + f.records[k].length <= RecordAt(f, n - 1)
                BY <1>1, <2>1, <4>1, RecordsApart
            <4>3. RecordAt(f, k) \in Nat /\ RecordAt(f, n - 1) \in Nat /\ f.records[k].length \in Nat
                BY <1>1, <1>2, <2>1
            <4> HIDE DEF n
            <4> QED
                BY <1>2, <4>2, <4>3
        <3> QED
            BY <3>1, <3>2
    <2>3. RecordAt(f, k) + RecordSize <= s.size
        <3>1. RecordAt(f, k) \in Nat /\ RecordAt(f, n - 1) \in Nat
            BY <1>1, <1>2, <2>1
        <3> HIDE DEF n
        <3> QED
            BY <1>1, <1>2, <1>3, <2>1, <2>2, <3>1
    <2>4. \A i \in 1 .. k : f.records[i].length <= MaxRecord
        BY <1>1
    <2> QED
        BY <1>1, <2>1, <2>3, <2>4 DEF ReadableIn
<1>6. ASSUME NEW k \in ReadableIn(f, s.size), ~ (k \in 1 .. n - 1) PROVE FALSE
    <2>1. /\ k \in 1 .. Len(f.records) /\ RecordAt(f, k) + RecordSize <= s.size
          /\ \A i \in 1 .. k : f.records[i].length <= MaxRecord
        BY <1>1 DEF ReadableIn
    <2>2. n \in 1 .. k /\ n <= Len(f.records)
        BY <1>1, <1>6, <2>1
    <2>3. f.records[n].length <= MaxRecord /\ f.records[n].length \in Nat
        BY <1>1, <1>2, <2>1, <2>2
    <2>4. RecordAt(f, n) + RecordSize > s.size
        BY <1>2, <1>4, <2>2, <2>3
    <2>5. RecordAt(f, n) <= RecordAt(f, k)
        <3>1. CASE k = n
            BY <1>2, <2>1, <3>1
        <3>2. CASE k # n
            <4>1. k \in n + 1 .. Len(f.records) + 1 /\ n \in 1 .. Len(f.records)
                BY <1>1, <2>1, <2>2, <3>2
            <4>2. RecordAt(f, n) + RecordSize + f.records[n].length <= RecordAt(f, k)
                BY <1>1, <4>1, RecordsApart
            <4>3. RecordAt(f, n) \in Nat /\ RecordAt(f, k) \in Nat
                BY <1>1, <1>2, <2>1
            <4> HIDE DEF n
            <4> QED
                BY <1>2, <2>3, <4>2, <4>3
        <3> QED
            BY <3>1, <3>2
    <2>6. RecordAt(f, n) \in Nat /\ RecordAt(f, k) \in Nat
        BY <1>1, <1>2, <2>1
    <2> HIDE DEF n
    <2> QED
        BY <1>1, <1>2, <2>1, <2>4, <2>5, <2>6
<1> QED
    BY <1>5, <1>6

\* What a scan says of a file whose first bytes it has been given.
Tells(s, f) ==
    LET seen == ReadableIn(f, s.size)
    IN /\ s.decided = (s.size >= MagicSize)
       /\ s.kind = IF s.decided THEN f.magic ELSE "none"
       /\ s.first = IF s.kind # "pcap" \/ seen = {} THEN -1 ELSE f.records[1].stamp
       /\ s.last = IF s.kind # "pcap" \/ seen = {} THEN -1
                   ELSE f.records[CHOOSE j \in seen : \A i \in seen : i <= j].stamp

LEMMA RestTells ==
    ASSUME NEW f, Legible(f), NEW s, AtRest(s, f)
    PROVE  Tells(s, f)
<1>1. s \in Scanners(f) /\ Told(f, s.next, s.first, s.last) /\ Stands(s, f) /\ Waits(s)
    BY DEF AtRest, MidScan
<1>2. /\ s.size \in Nat /\ s.decided \in BOOLEAN /\ s.state \in {"magic", "header", "record", "payload", "done"}
      /\ s.next \in Nat
    BY <1>1 DEF Scanners
<1>3. s.decided <=> s.size >= MagicSize
    BY <1>1, <1>2, SizesAreNumbers DEF Stands, Waits, Recognised
<1>4. s.kind = IF s.decided THEN f.magic ELSE "none"
    BY <1>1, <1>2 DEF Stands, Recognised
<1>5. s.kind # "pcap" => s.first = -1 /\ s.last = -1
    <2> SUFFICES ASSUME s.kind # "pcap" PROVE s.next = 1
        BY <1>1 DEF Told
    <2> QED
        BY <1>1, <1>2 DEF Stands, Recognised
<1>6. ASSUME s.kind = "pcap"
      PROVE  LET seen == ReadableIn(f, s.size)
             IN /\ s.first = IF seen = {} THEN -1 ELSE f.records[1].stamp
                /\ s.last = IF seen = {} THEN -1
                            ELSE f.records[CHOOSE j \in seen : \A i \in seen : i <= j].stamp
    <2>1. s.decided /\ f.magic = "pcap"
        BY <1>4, <1>6
    <2> DEFINE seen == ReadableIn(f, s.size)
               top == CHOOSE j \in seen : \A i \in seen : i <= j
    <2>2. seen = 1 .. s.next - 1
        BY <2>1, ReadableAre
    <2>3. CASE s.next = 1
        BY <1>1, <2>2, <2>3 DEF Told
    <2>4. CASE s.next # 1
        <3>0. s.next \in Nat /\ s.next > 1
            BY <1>1, <1>2, <2>4 DEF Told
        <3>1. seen # {} /\ s.next - 1 \in seen /\ \A i \in seen : i <= s.next - 1
            BY <2>2, <3>0
        <3>2. top = s.next - 1
            <4>1. \A j \in seen : (\A i \in seen : i <= j) => j = s.next - 1
                BY <2>2, <3>0, <3>1
            <4> HIDE DEF seen
            <4> QED
                BY <3>1, <4>1
        <3> QED
            BY <1>1, <3>0, <3>1, <3>2 DEF Told
    <2> QED
        BY <2>3, <2>4
<1>7. s.decided = (s.size >= MagicSize)
    BY <1>2, <1>3
<1> QED
    BY <1>4, <1>5, <1>6, <1>7 DEF Tells

-----------------------------------------------------------------------------
\* A body with more than one file is read as one file with all their bytes,
\* and what its parts say on their own says nothing of that.
OneFile == \A j, k \in DOMAIN body.parts : body.parts[j].name = "file" /\ body.parts[k].name = "file" => j = k

\* The invariant: where the body is read, what the scanner has been given of a
\* file, and what has been found in order so far.
AtPart ==
    /\ body \in Bodies
    /\ place[1] \in 1 .. Len(body.parts) + 1 /\ place[2] \in Nat
    /\ place[1] \in DOMAIN body.parts => place[2] <= body.parts[place[1]].size
Come(k) == IF k < place[1] THEN body.parts[k].size ELSE IF k = place[1] THEN place[2] ELSE 0
SoFar(k) ==
    LET p == body.parts[k]
    IN /\ k < place[1] => Fault(p) = "none"
       /\ p.name = "file" => /\ scanner.size = Come(k) /\ Come(k) <= MaxUpload
                             /\ Come(k) >= MagicSize => p.magic # "none"
       /\ p.name = "meta" /\ k = place[1] => meta = place[2] /\ meta <= MaxMeta
       /\ p.name = "broken" => Come(k) = 0
Reads ==
    verdict = "reading" => body.declared <= MaxUpload /\ \A k \in DOMAIN body.parts : SoFar(k)
Scanned == \A k \in DOMAIN body.parts : body.parts[k].name = "file" => AtRest(scanner, body.parts[k])
Answered(b, v) ==
    v \notin {"reading", "missing"} =>
        LET faulty == {k \in DOMAIN b.parts : Fault(b.parts[k]) # "none"}
        IN v = CASE b.declared > MaxUpload -> "too_large"
                 [] b.declared <= MaxUpload /\ faulty # {} ->
                      Fault(b.parts[CHOOSE k \in faulty : \A j \in faulty : k <= j])
                 [] OTHER -> "read"
UploadInv == AtPart /\ Scanned /\ Reads /\ Answered(body, verdict)

LEMMA PartsAreFine ==
    ASSUME NEW b \in Bodies
    PROVE  /\ b.declared \in Nat /\ Len(b.parts) \in Nat /\ DOMAIN b.parts = 1 .. Len(b.parts)
           /\ \A k \in DOMAIN b.parts :
                /\ b.parts[k].size \in Nat /\ (b.parts[k].name = "broken" => b.parts[k].size > 0)
                /\ Legible(b.parts[k])
    BY UploadAssumption, Zenon DEF UploadAssumption, Legible, Records

\* The first fault is the answer.
LEMMA FirstFault ==
    ASSUME NEW b \in Bodies, NEW v, b.declared <= MaxUpload, NEW k \in DOMAIN b.parts, v = Fault(b.parts[k]), v # "none",
           \A j \in DOMAIN b.parts : j < k => Fault(b.parts[j]) = "none"
    PROVE  Answered(b, v)
<1> DEFINE faulty == {j \in DOMAIN b.parts : Fault(b.parts[j]) # "none"}
           first == CHOOSE i \in faulty : \A j \in faulty : i <= j
<1>1. b.declared \in Nat /\ MaxUpload \in Nat /\ DOMAIN b.parts \in SUBSET Int
    BY PartsAreFine, SizesAreNumbers
<1>2. k \in faulty /\ \A j \in faulty : k <= j
    BY <1>1
<1>3. \A i \in faulty : (\A j \in faulty : i <= j) => i = k
    BY <1>1, <1>2
<1>4. ~ (b.declared > MaxUpload)
    BY <1>1
<1>5. first = k
    <2> HIDE DEF faulty
    <2> QED
        BY <1>2, <1>3
<1>6. faulty # {}
    BY <1>2
<1> HIDE DEF faulty, first
<1>7. v = CASE b.declared > MaxUpload -> "too_large"
            [] b.declared <= MaxUpload /\ faulty # {} -> Fault(b.parts[first])
            [] OTHER -> "read"
    BY <1>4, <1>5, <1>6
<1> QED
    BY <1>7 DEF Answered, faulty, first

LEMMA NoFault ==
    ASSUME NEW b \in Bodies, b.declared <= MaxUpload, \A j \in DOMAIN b.parts : Fault(b.parts[j]) = "none"
    PROVE  Answered(b, "read")
<1>1. b.declared \in Nat /\ MaxUpload \in Nat
    BY PartsAreFine, SizesAreNumbers
<1>2. ~ (b.declared > MaxUpload) /\ {j \in DOMAIN b.parts : Fault(b.parts[j]) # "none"} = {}
    BY <1>1
<1> QED
    BY <1>2 DEF Answered

\* A piece of the file: it is scanned, or refused for what is at fault in it.
LEMMA FilePieceKeeps ==
    ASSUME UploadInv, OneFile, verdict = "reading", body' = body, meta' = meta, NEW k \in DOMAIN body.parts, k = place[1],
           body.parts[k].name = "file", NEW n \in 1 .. Fewer(MaxPiece, body.parts[k].size - place[2]),
           place' = <<k, place[2] + n>>, TakeFile(body.parts[k], n)
    PROVE  UploadInv'
<1> DEFINE f == body.parts[k]
           fed == Fed(scanner, f, n)
           c == place[2] + n
<1>1. /\ Legible(f) /\ f.size \in Nat /\ place[2] \in Nat /\ n \in Nat /\ c \in Nat /\ c <= f.size /\ n <= MaxPiece
      /\ body.declared <= MaxUpload /\ k \in Nat
    <2>1. Legible(f) /\ f.size \in Nat /\ place[2] \in Nat /\ place[2] <= f.size /\ body.declared <= MaxUpload
        BY PartsAreFine DEF UploadInv, AtPart, Reads
    <2>2. k \in Nat
        BY PartsAreFine DEF UploadInv, AtPart
    <2> HIDE DEF f
    <2>3. n \in 1 .. Fewer(MaxPiece, f.size - place[2])
        BY DEF f
    <2> QED
        BY <2>1, <2>2, <2>3, SizesAreNumbers DEF Fewer
<1>2. AtRest(scanner, f) /\ scanner.size = place[2] /\ place[2] <= MaxUpload
      /\ (place[2] >= MagicSize => f.magic # "none") /\ \A j \in DOMAIN body.parts : SoFar(j)
    <2>1. \A j \in DOMAIN body.parts : SoFar(j)
        BY DEF UploadInv, Reads
    <2>2. Come(k) = place[2]
        BY <1>1 DEF Come
    <2> QED
        BY <2>1, <2>2 DEF SoFar, UploadInv, Scanned
<1>3. /\ \A j \in DOMAIN body.parts : j < k => Fault(body.parts[j]) = "none"
      /\ \A j \in DOMAIN body.parts : body.parts[j].name = "file" => j = k
    BY <1>2 DEF SoFar, OneFile
<1>4. AtRest(fed, f) /\ fed.size = c /\ Tells(fed, f)
    <2>1. scanner.size + n <= f.size
        BY <1>1, <1>2
    <2> HIDE DEF f
    <2> QED
        BY <1>1, <1>2, <2>1, FedComesToRest, RestTells
<1>5. place'[1] = k /\ place'[2] = c
    OBVIOUS
<1>6. AtPart'
    BY <1>1, <1>5 DEF UploadInv, AtPart
<1>7. CASE scanner.size + n > MaxUpload
    <2>1. verdict' = "too_large" /\ scanner' = scanner
        BY <1>7 DEF TakeFile
    <2>2. Fault(f) = "too_large"
        <3>1. f.size > MaxUpload /\ f.magic # "none"
            BY <1>1, <1>2, <1>7, SizesAreNumbers
        <3> QED
            BY <3>1 DEF Fault
    <2>3. Answered(body, "too_large")
        BY <1>1, <1>3, <2>2, FirstFault DEF UploadInv, AtPart
    <2> QED
        BY <1>6, <2>1, <2>3 DEF UploadInv, Reads, Scanned
<1>8. CASE ~ (scanner.size + n > MaxUpload)
    <2>1. scanner' = fed /\ verdict' = IF fed.decided /\ fed.kind = "none" THEN "not_a_capture" ELSE "reading"
        BY <1>8 DEF TakeFile
    <2>2. (fed.decided <=> c >= MagicSize) /\ (fed.decided => fed.kind = f.magic)
        BY <1>4 DEF Tells
    <2>3. Scanned'
        BY <1>3, <1>4, <2>1 DEF Scanned
    <2>4. CASE fed.decided /\ fed.kind = "none"
        <3>1. Fault(f) = "not_a_capture"
            BY <1>1, <2>2, <2>4, SizesAreNumbers DEF Fault
        <3>2. Answered(body, "not_a_capture")
            BY <1>1, <1>3, <3>1, FirstFault DEF UploadInv, AtPart
        <3> QED
            BY <1>6, <2>1, <2>3, <2>4, <3>2 DEF UploadInv, Reads
    <2>5. CASE ~ (fed.decided /\ fed.kind = "none")
        <3>1. verdict' = "reading" /\ (c >= MagicSize => f.magic # "none") /\ c <= MaxUpload
            BY <1>1, <1>2, <1>8, <2>1, <2>2, <2>5, SizesAreNumbers
        <3>2. ASSUME NEW j \in DOMAIN body.parts PROVE SoFar(j)'
            <4>1. CASE j = k
                <5>1. Come(j)' = c /\ ~ (j < place'[1])
                    BY <1>1, <1>5, <4>1 DEF Come
                <5> QED
                    BY <1>4, <2>1, <3>1, <4>1, <5>1 DEF SoFar
            <4>2. CASE j # k
                <5>1. Come(j)' = Come(j) /\ body.parts[j].name # "file" /\ j # place'[1] /\ (j < place'[1] <=> j < place[1])
                    BY <1>3, <1>5, <4>2 DEF Come
                <5> QED
                    BY <1>2, <5>1 DEF SoFar
            <4> QED
                BY <4>1, <4>2
        <3>3. Reads'
            BY <1>1, <3>2 DEF Reads
        <3>4. Answered(body, "reading")
            BY DEF Answered
        <3> QED
            BY <1>6, <2>3, <3>1, <3>3, <3>4 DEF UploadInv
    <2> QED
        BY <2>4, <2>5
<1> QED
    BY <1>7, <1>8

\* A piece of another part.
LEMMA OtherPieceKeeps ==
    ASSUME UploadInv, verdict = "reading", body' = body, scanner' = scanner, NEW k \in DOMAIN body.parts, k = place[1],
           body.parts[k].name # "file", NEW n \in 1 .. Fewer(MaxPiece, body.parts[k].size - place[2]),
           place' = <<k, place[2] + n>>,
           \/ body.parts[k].name = "meta" /\ TakeMeta(n)
           \/ body.parts[k].name = "broken" /\ verdict' = "bad_multipart"
           \/ body.parts[k].name \notin {"meta", "broken"} /\ verdict' = verdict
    PROVE  UploadInv'
<1> DEFINE p == body.parts[k]
           c == place[2] + n
<1>1. /\ p.size \in Nat /\ place[2] \in Nat /\ n \in Nat /\ n > 0 /\ c \in Nat /\ c <= p.size
      /\ body.declared <= MaxUpload /\ k \in Nat
    <2>1. p.size \in Nat /\ place[2] \in Nat /\ place[2] <= p.size /\ body.declared <= MaxUpload /\ k \in Nat
        BY PartsAreFine DEF UploadInv, AtPart, Reads
    <2> HIDE DEF p
    <2>2. n \in 1 .. Fewer(MaxPiece, p.size - place[2])
        BY DEF p
    <2> QED
        BY <2>1, <2>2, SizesAreNumbers DEF Fewer
<1>2. \A j \in DOMAIN body.parts : SoFar(j)
    BY DEF UploadInv, Reads
<1>3. \A j \in DOMAIN body.parts : j < k => Fault(body.parts[j]) = "none"
    BY <1>2 DEF SoFar
<1>4. place'[1] = k /\ place'[2] = c
    OBVIOUS
<1>5. AtPart' /\ Scanned'
    BY <1>1, <1>4 DEF UploadInv, AtPart, Scanned
<1>6. ASSUME verdict' = "reading", p.name = "meta" => meta' = c /\ c <= MaxMeta, p.name # "broken"
      PROVE  UploadInv'
    <2>1. ASSUME NEW j \in DOMAIN body.parts PROVE SoFar(j)'
        <3>1. CASE j = k
            <4>1. ~ (j < place'[1])
                BY <1>1, <1>4, <3>1
            <4> QED
                BY <1>4, <1>6, <3>1, <4>1 DEF SoFar
        <3>2. CASE j # k
            <4>1. Come(j)' = Come(j) /\ j # place'[1] /\ (j < place'[1] <=> j < place[1])
                BY <1>4, <3>2 DEF Come
            <4> QED
                BY <1>2, <4>1 DEF SoFar
        <3> QED
            BY <3>1, <3>2
    <2>2. Reads' /\ Answered(body, "reading")
        BY <1>1, <2>1 DEF Reads, Answered
    <2> QED
        BY <1>5, <1>6, <2>2 DEF UploadInv
<1>7. ASSUME NEW v, verdict' = v, v = Fault(p), v \notin {"none", "reading"} PROVE UploadInv'
    <2>1. Answered(body, v)
        BY <1>1, <1>3, <1>7, FirstFault DEF UploadInv, AtPart
    <2> QED
        BY <1>5, <1>7, <2>1 DEF UploadInv, Reads
<1>8. CASE p.name = "meta" /\ TakeMeta(n)
    <2>1. meta = place[2]
        BY <1>2, <1>8 DEF SoFar
    <2>2. CASE meta + n > MaxMeta
        <3>1. p.size > MaxMeta
            BY <1>1, <2>1, <2>2, SizesAreNumbers
        <3>2. Fault(p) = "bad_meta"
            BY <1>8, <3>1 DEF Fault
        <3> QED
            BY <1>7, <1>8, <2>2, <3>2 DEF TakeMeta
    <2>3. CASE ~ (meta + n > MaxMeta)
        <3>1. c <= MaxMeta
            BY <1>1, <2>1, <2>3, SizesAreNumbers
        <3> QED
            BY <1>6, <1>8, <2>1, <2>3, <3>1 DEF TakeMeta
    <2> QED
        BY <2>2, <2>3
<1>9. CASE p.name = "broken" /\ verdict' = "bad_multipart"
    <2>1. Fault(p) = "bad_multipart"
        BY <1>9 DEF Fault
    <2> QED
        BY <1>7, <1>9, <2>1
<1>10. CASE p.name \notin {"meta", "broken"} /\ verdict' = verdict
    BY <1>6, <1>10
<1> QED
    BY <1>8, <1>9, <1>10

LEMMA NextPartKeeps ==
    ASSUME UploadInv, OneFile, NextPart
    PROVE  UploadInv'
<1> DEFINE k == place[1]
           p == body.parts[k]
<1>1. /\ verdict = "reading" /\ body' = body /\ scanner' = scanner /\ verdict' = verdict
      /\ place'[1] = k + 1 /\ place'[2] = 0 /\ place[2] = p.size /\ k <= Len(body.parts)
      /\ meta' = IF StartsMeta(k + 1) THEN 0 ELSE meta
    BY DEF NextPart
<1>2. /\ k \in DOMAIN body.parts /\ DOMAIN body.parts = 1 .. Len(body.parts) /\ Len(body.parts) \in Nat /\ k \in Nat
      /\ \A j \in DOMAIN body.parts : body.parts[j].size \in Nat
      /\ p.name = "broken" => p.size > 0
    BY <1>1, PartsAreFine DEF UploadInv, AtPart
<1>3. (\A j \in DOMAIN body.parts : SoFar(j)) /\ body.declared <= MaxUpload
    BY <1>1 DEF UploadInv, Reads
<1>4. Fault(p) = "none"
    <2>1. Come(k) = p.size
        BY <1>1, <1>2 DEF Come
    <2>2. p.size \in Nat
        BY <1>2
    <2>3. SoFar(k)
        BY <1>2, <1>3
    <2>4. /\ p.name = "file" => p.size <= MaxUpload /\ (p.size >= MagicSize => p.magic # "none")
          /\ p.name = "meta" => p.size <= MaxMeta
        BY <1>1, <2>1, <2>3 DEF SoFar
    <2>5. p.name # "broken"
        BY <1>2, <2>1, <2>2, <2>3 DEF SoFar
    <2> HIDE DEF p
    <2> QED
        BY <2>2, <2>4, <2>5, SizesAreNumbers DEF Fault
<1>5. AtPart' /\ Scanned'
    <2>1. place'[1] \in 1 .. Len(body.parts) + 1 /\ \A j \in DOMAIN body.parts : 0 <= body.parts[j].size
        BY <1>1, <1>2
    <2> QED
        BY <1>1, <2>1 DEF UploadInv, AtPart, Scanned
<1>6. ASSUME NEW j \in DOMAIN body.parts PROVE SoFar(j)'
    <2>1. SoFar(j) /\ j \in Nat
        BY <1>2, <1>3
    <2>2. Come(j)' = Come(j)
        BY <1>1, <1>2, <2>1 DEF Come
    <2>3. j < place'[1] => Fault(body.parts[j]) = "none"
        BY <1>1, <1>2, <1>4, <2>1 DEF SoFar
    <2>4. body.parts[j].name = "meta" /\ j = place'[1] => meta' = 0
        BY <1>1, <1>2 DEF StartsMeta
    <2> QED
        BY <1>1, <2>1, <2>2, <2>3, <2>4, SizesAreNumbers DEF SoFar
<1>7. Reads' /\ Answered(body, verdict)
    BY <1>1, <1>3, <1>6 DEF Reads, UploadInv
<1> QED
    BY <1>1, <1>5, <1>7 DEF UploadInv

LEMMA EndOfBodyKeeps ==
    ASSUME UploadInv, EndOfBody
    PROVE  UploadInv'
<1>1. /\ verdict = "reading" /\ body' = body /\ place' = place /\ scanner' = scanner /\ place[1] > Len(body.parts)
      /\ verdict' \in {"missing", "read"}
    BY DEF EndOfBody
<1>2. body \in Bodies /\ body.declared <= MaxUpload /\ \A k \in DOMAIN body.parts : Fault(body.parts[k]) = "none"
    <2>1. (\A j \in DOMAIN body.parts : SoFar(j)) /\ body.declared <= MaxUpload /\ body \in Bodies
        BY <1>1 DEF UploadInv, Reads, AtPart
    <2>2. \A j \in DOMAIN body.parts : j < place[1]
        BY <1>1, <2>1, PartsAreFine DEF UploadInv, AtPart
    <2> QED
        BY <2>1, <2>2 DEF SoFar
<1>3. Answered(body, "read") /\ Answered(body, "missing")
    BY <1>2, NoFault DEF Answered
<1>4. AtPart' /\ Scanned' /\ Reads'
    BY <1>1 DEF UploadInv, AtPart, Scanned, Reads
<1> QED
    BY <1>1, <1>3, <1>4 DEF UploadInv

\* However the network cuts an upload with one file, what the scan says of it
\* at every moment is what a reader of the whole file would say of the bytes
\* that have come, and the answer to the request is that of the first part at
\* fault (workspace/imports.py: CaptureScanner, UploadCollector).
THEOREM UploadsAreWhole == UploadSpec => [](OneFile => UploadIsWhole)
<1>1. UploadInit => (OneFile => UploadInv)
    <2> SUFFICES ASSUME UploadInit PROVE UploadInv
        OBVIOUS
    <2>1. body \in Bodies /\ place[1] = 1 /\ place[2] = 0 /\ scanner = NewScanner
        BY DEF UploadInit
    <2>2. /\ body.declared \in Nat /\ Len(body.parts) \in Nat /\ DOMAIN body.parts = 1 .. Len(body.parts)
          /\ \A k \in DOMAIN body.parts : body.parts[k].size \in Nat /\ Legible(body.parts[k])
        BY <2>1, PartsAreFine
    <2>3. AtPart
        BY <2>1, <2>2 DEF AtPart
    <2>4. Scanned
        BY <2>1, <2>2, NewIsAtRest DEF Scanned
    <2>5. Reads
        <3> SUFFICES ASSUME verdict = "reading" PROVE Reads
            BY DEF Reads
        <3>1. body.declared <= MaxUpload
            BY <2>2, SizesAreNumbers DEF UploadInit
        <3>2. ASSUME NEW k \in DOMAIN body.parts PROVE SoFar(k)
            <4>1. Come(k) = 0 /\ ~ (k < place[1])
                BY <2>1, <2>2 DEF Come
            <4>2. body.parts[k].name = "meta" /\ k = place[1] => meta = 0
                BY <2>1, <2>2 DEF UploadInit, StartsMeta
            <4> QED
                BY <2>1, <4>1, <4>2, SizesAreNumbers DEF SoFar, NewScanner
        <3> QED
            BY <3>1, <3>2 DEF Reads
    <2>6. Answered(body, verdict)
        <3>1. CASE body.declared > MaxUpload
            <4>1. verdict = "too_large"
                BY <3>1 DEF UploadInit
            <4>2. ~ (body.declared <= MaxUpload)
                BY <2>2, <3>1, SizesAreNumbers
            <4> QED
                BY <3>1, <4>1, <4>2 DEF Answered
        <3>2. CASE ~ (body.declared > MaxUpload)
            <4>1. verdict = "reading"
                BY <3>2 DEF UploadInit
            <4> QED
                BY <4>1 DEF Answered
        <3> QED
            BY <3>1, <3>2
    <2> QED
        BY <2>3, <2>4, <2>5, <2>6 DEF UploadInv
<1>2. (OneFile => UploadInv) /\ [UploadNext]_uploadVars => (OneFile => UploadInv)'
    <2> SUFFICES ASSUME OneFile, UploadInv, [UploadNext]_uploadVars PROVE UploadInv'
        <3>1. [UploadNext]_uploadVars => body' = body
            BY DEF UploadNext, uploadVars, Piece, NextPart, EndOfBody
        <3> QED
            BY <3>1 DEF OneFile
    <2>1. CASE Piece
        <3>1. PICK k, n : /\ k = place[1] /\ k <= Len(body.parts) /\ verdict = "reading" /\ body' = body
                          /\ n \in 1 .. Fewer(MaxPiece, body.parts[k].size - place[2])
                          /\ place' = <<k, place[2] + n>>
                          /\ CASE body.parts[k].name = "file" -> TakeFile(body.parts[k], n) /\ UNCHANGED meta
                               [] body.parts[k].name = "meta" -> TakeMeta(n) /\ UNCHANGED scanner
                               [] body.parts[k].name = "broken" ->
                                    verdict' = "bad_multipart" /\ UNCHANGED <<scanner, meta>>
                               [] OTHER -> UNCHANGED <<scanner, meta, verdict>>
            BY <2>1, Zenon DEF Piece
        <3>2. k \in DOMAIN body.parts
            BY <3>1, PartsAreFine DEF UploadInv, AtPart
        <3>3. CASE body.parts[k].name = "file"
            <4>1. TakeFile(body.parts[k], n) /\ meta' = meta
                BY <3>1, <3>3
            <4> QED
                BY <3>1, <3>2, <3>3, <4>1, FilePieceKeeps
        <3>4. CASE body.parts[k].name # "file"
            <4>1. /\ scanner' = scanner
                  /\ \/ body.parts[k].name = "meta" /\ TakeMeta(n)
                     \/ body.parts[k].name = "broken" /\ verdict' = "bad_multipart"
                     \/ body.parts[k].name \notin {"meta", "broken"} /\ verdict' = verdict
                BY <3>1, <3>4
            <4> QED
                BY <3>1, <3>2, <3>4, <4>1, OtherPieceKeeps
        <3> QED
            BY <3>3, <3>4
    <2>2. CASE NextPart
        BY <2>2, NextPartKeeps
    <2>3. CASE EndOfBody
        BY <2>3, EndOfBodyKeeps
    <2>4. CASE UNCHANGED uploadVars
        BY <2>4 DEF uploadVars, UploadInv, AtPart, Scanned, Reads, SoFar, Come
    <2> QED
        BY <2>1, <2>2, <2>3, <2>4 DEF UploadNext
<1>3. OneFile /\ UploadInv => UploadIsWhole
    <2> SUFFICES ASSUME UploadInv PROVE UploadIsWhole
        OBVIOUS
    <2>1. ASSUME NEW k \in DOMAIN body.parts, body.parts[k].name = "file"
          PROVE  Tells(scanner, body.parts[k])
        BY <2>1, PartsAreFine, RestTells DEF UploadInv, AtPart, Scanned
    <2>2. ScanExact
        BY <2>1, Zenon DEF ScanExact, Tells
    <2>3. AnswerExact
        BY Zenon DEF UploadInv, Answered, AnswerExact
    <2> QED
        BY <2>2, <2>3 DEF UploadIsWhole
<1> QED
    BY <1>1, <1>2, <1>3, PTL DEF UploadSpec

-----------------------------------------------------------------------------
\* Remainders, by any divisor.
LEMMA ModIs ==
    ASSUME NEW a \in Int, NEW m \in Nat \ {0}
    PROVE  a = m * (a \div m) + (a % m) /\ a % m \in 0 .. m - 1 /\ a \div m \in Int
<1>1. a \div m \in Int /\ a % m \in 0 .. m - 1
    OBVIOUS
<1>2. a = m * (a \div m) + (a % m)
    OBVIOUS
<1> QED
    BY <1>1, <1>2

LEMMA ModOnce ==
    ASSUME NEW m \in Nat \ {0}, NEW q \in Int, NEW r \in 0 .. m - 1
    PROVE  (m * q + r) % m = r
    OBVIOUS

LEMMA ModAdds ==
    ASSUME NEW a \in Int, NEW t \in Int, NEW m \in Nat \ {0}
    PROVE  ((a % m) + t) % m = (a + t) % m
<1> DEFINE q == a \div m
           r == a % m
           b == r + t
           p == b \div m
           c == b % m
<1>1. a = m * q + r /\ q \in Int /\ r \in 0 .. m - 1
    BY ModIs
<1> HIDE DEF q, r
<1>2. b \in Int
    BY <1>1
<1>3. b = m * p + c /\ p \in Int /\ c \in 0 .. m - 1
    <2> HIDE DEF b
    <2> QED
        BY <1>2, ModIs
<1> HIDE DEF p, c
<1>4. a + t = m * (q + p) + c
    <2>1. a + t = m * q + (m * p + c)
        BY <1>1, <1>3
    <2>2. m * (q + p) = m * q + m * p
        BY <1>1, <1>3
    <2>3. m * q \in Int /\ m * p \in Int
        BY <1>1, <1>3
    <2> QED
        BY <1>3, <2>1, <2>2, <2>3
<1>5. (m * (q + p) + c) % m = c
    <2>1. q + p \in Int
        BY <1>1, <1>3
    <2> QED
        BY <1>3, <2>1, ModOnce
<1> QED
    BY <1>4, <1>5 DEF r, c

-----------------------------------------------------------------------------
\* What is defined step by step over the first numbers exists.
HasRun(n, X, a, step) ==
    \E run \in [0 .. n -> X] : run = [k \in 0 .. n |-> IF k = 0 THEN a ELSE step[k][run[k - 1]]]
LEMMA StepByStep ==
    ASSUME NEW n \in Nat, NEW X, NEW a \in X, NEW step \in [1 .. n -> [X -> X]]
    PROVE  HasRun(n, X, a, step)
<1> DEFINE Is(run, m) == /\ run \in [0 .. m -> X] /\ run[0] = a
                         /\ \A k \in 1 .. m : run[k] = step[k][run[k - 1]]
           Bad == {m \in 0 .. n : ~ \E run : Is(run, m)}
<1>1. Is([k \in 0 .. 0 |-> a], 0)
    OBVIOUS
<1>2. ASSUME NEW m \in Nat, m < n, NEW run, Is(run, m) PROVE \E more : Is(more, m + 1)
    <2> DEFINE more == [k \in 0 .. m + 1 |-> IF k = m + 1 THEN step[m + 1][run[m]] ELSE run[k]]
    <2>1. step[m + 1][run[m]] \in X
        BY <1>2
    <2>2. more \in [0 .. m + 1 -> X]
        BY <1>2, <2>1
    <2>3. more[0] = a
        BY <1>2
    <2>4. \A k \in 1 .. m + 1 : more[k] = step[k][more[k - 1]]
        BY <1>2
    <2> HIDE DEF more
    <2> QED
        BY <2>2, <2>3, <2>4
<1>3. Bad = {}
    <2> SUFFICES ASSUME Bad # {} PROVE FALSE
        OBVIOUS
    <2>1. Bad \in SUBSET Nat
        OBVIOUS
    <2> HIDE DEF Is
    <2>2. PICK m \in Bad : \A k \in Bad : m <= k
        <3> HIDE DEF Bad
        <3> QED
            BY <2>1, LeastOf
    <2>3. m - 1 \in 0 .. n /\ (m - 1) + 1 = m /\ ~ (m <= m - 1) /\ m - 1 < n /\ m - 1 \in Nat
        BY <1>1
    <2>4. PICK run : Is(run, m - 1)
        BY <2>2, <2>3
    <2>5. \E more : Is(more, (m - 1) + 1)
        BY <1>2, <2>3, <2>4
    <2> QED
        BY <2>3, <2>5
<1>4. PICK run : Is(run, n)
    <2> HIDE DEF Is
    <2> QED
        BY <1>3
<1>5. run = [k \in 0 .. n |-> IF k = 0 THEN a ELSE step[k][run[k - 1]]]
    <2>1. run = [k \in 0 .. n |-> run[k]]
        BY <1>4
    <2>2. \A k \in 0 .. n : run[k] = IF k = 0 THEN a ELSE step[k][run[k - 1]]
        BY <1>4
    <2> QED
        BY <2>1, <2>2
<1> QED
    BY <1>4, <1>5 DEF HasRun

\* Sums, of the beginnings of a list.
Sums(s) == CHOOSE sum : sum = [k \in 0 .. Len(s) |-> IF k = 0 THEN 0 ELSE sum[k - 1] + s[k]]

LEMMA SumsAdd ==
    ASSUME NEW s \in Seq(Int)
    PROVE  /\ SumOf(s) = Sums(s)[Len(s)]
           /\ Sums(s)[0] = 0 /\ \A k \in 1 .. Len(s) : Sums(s)[k] = Sums(s)[k - 1] + s[k]
<1> DEFINE n == Len(s)
           step == [k \in 1 .. n |-> [x \in Int |-> x + s[k]]]
<1>1. n \in Nat /\ \A k \in 1 .. n : s[k] \in Int
    OBVIOUS
<1>2. step \in [1 .. n -> [Int -> Int]]
    BY <1>1
<1>3. \E sum : sum = [k \in 0 .. n |-> IF k = 0 THEN 0 ELSE sum[k - 1] + s[k]]
    <2> HIDE DEF n
    <2>1. \A k \in 1 .. n, x \in Int : step[k][x] = x + s[k]
        OBVIOUS
    <2> HIDE DEF step
    <2>2. 0 \in Int
        OBVIOUS
    <2>3. HasRun(n, Int, 0, step)
        BY <1>1, <1>2, <2>2, StepByStep
    <2>0. PICK sum \in [0 .. n -> Int] : sum = [k \in 0 .. n |-> IF k = 0 THEN 0 ELSE step[k][sum[k - 1]]]
        BY <2>3 DEF HasRun
    <2>4. \A k \in 0 .. n : sum[k] = IF k = 0 THEN 0 ELSE sum[k - 1] + s[k]
        <3>1. \A k \in 0 .. n : k # 0 => k \in 1 .. n /\ sum[k - 1] \in Int
            BY <1>1, <2>0
        <3>2. \A k \in 0 .. n : sum[k] = IF k = 0 THEN 0 ELSE step[k][sum[k - 1]]
            BY <2>0
        <3> QED
            BY <2>1, <3>1, <3>2
    <2>5. sum = [k \in 0 .. n |-> IF k = 0 THEN 0 ELSE sum[k - 1] + s[k]]
        <3>1. sum = [k \in 0 .. n |-> sum[k]]
            BY <2>0
        <3> QED
            BY <3>1, <2>4
    <2> QED
        BY <2>5
<1>4. Sums(s) = [k \in 0 .. n |-> IF k = 0 THEN 0 ELSE Sums(s)[k - 1] + s[k]]
    BY <1>3, Zenon DEF Sums
<1>5. SumOf(s) = Sums(s)[n]
    BY DEF SumOf, Sums
<1> HIDE DEF n
<1>6. Sums(s)[0] = 0 /\ \A k \in 1 .. n : Sums(s)[k] = Sums(s)[k - 1] + s[k]
    BY <1>1, <1>4
<1> QED
    BY <1>5, <1>6 DEF n

LEMMA SumsAgree ==
    ASSUME NEW s \in Seq(Int), NEW t \in Seq(Int), NEW n \in Nat, n <= Len(s), n <= Len(t),
           \A k \in 1 .. n : s[k] = t[k]
    PROVE  Sums(s)[n] = Sums(t)[n]
<1> DEFINE Bad == {k \in 0 .. n : Sums(s)[k] # Sums(t)[k]}
<1>1. Bad = {}
    <2> SUFFICES ASSUME Bad # {} PROVE FALSE
        OBVIOUS
    <2>1. Bad \in SUBSET Nat
        OBVIOUS
    <2>2. PICK k \in Bad : \A j \in Bad : k <= j
        <3> HIDE DEF Bad
        <3> QED
            BY <2>1, LeastOf
    <2>3. k # 0
        BY SumsAdd
    <2>4. k \in 1 .. n /\ k \in 1 .. Len(s) /\ k \in 1 .. Len(t) /\ k - 1 \in 0 .. n /\ ~ (k <= k - 1)
        BY <2>3
    <2>5. Sums(s)[k - 1] = Sums(t)[k - 1]
        BY <2>2, <2>4
    <2> QED
        BY <2>4, <2>5, SumsAdd
<1> QED
    BY <1>1

LEMMA SumIsNumber ==
    ASSUME NEW s \in Seq(Nat)
    PROVE  SumOf(s) \in Nat
<1> DEFINE Bad == {k \in 0 .. Len(s) : Sums(s)[k] \notin Nat}
<1>1. s \in Seq(Int) /\ Len(s) \in Nat /\ \A k \in 1 .. Len(s) : s[k] \in Nat
    OBVIOUS
<1>2. Bad = {}
    <2> SUFFICES ASSUME Bad # {} PROVE FALSE
        OBVIOUS
    <2>1. Bad \in SUBSET Nat
        OBVIOUS
    <2>2. PICK k \in Bad : \A j \in Bad : k <= j
        <3> HIDE DEF Bad
        <3> QED
            BY <2>1, LeastOf
    <2>3. k # 0
        BY <1>1, SumsAdd
    <2>4. k \in 1 .. Len(s) /\ k - 1 \in 0 .. Len(s) /\ ~ (k <= k - 1)
        BY <2>3
    <2>5. Sums(s)[k - 1] \in Nat
        BY <2>2, <2>4
    <2>6. Sums(s)[k] = Sums(s)[k - 1] + s[k]
        BY <1>1, <2>4, SumsAdd
    <2> QED
        BY <1>1, <2>4, <2>5, <2>6
<1> QED
    BY <1>1, <1>2, SumsAdd

\* A sum grows by what is added to the list.
LEMMA SumOfMore ==
    ASSUME NEW n \in Nat, NEW s \in [1 .. n -> Int], NEW t \in [1 .. n + 1 -> Int], \A k \in 1 .. n : t[k] = s[k]
    PROVE  SumOf(t) = SumOf(s) + t[n + 1]
<1>1. s \in Seq(Int) /\ t \in Seq(Int) /\ Len(s) = n /\ Len(t) = n + 1
    BY SeqDef, LenProperties
<1>2. Sums(t)[n] = Sums(s)[n]
    BY <1>1, SumsAgree
<1>3. Sums(t)[n + 1] = Sums(t)[n] + t[n + 1]
    <2>1. n + 1 \in 1 .. Len(t) /\ (n + 1) - 1 = n
        BY <1>1
    <2> QED
        BY <1>1, <2>1, SumsAdd
<1> QED
    BY <1>1, <1>2, <1>3, SumsAdd

LEMMA SumOfNone == ASSUME NEW s \in Seq(Int), Len(s) = 0 PROVE SumOf(s) = 0
    BY SumsAdd

-----------------------------------------------------------------------------
\* The conversation as it can be.
FlagNames == {"SYN", "ACK", "FIN", "PSH"}
PacketSet == [way : Ways, flags : SUBSET FlagNames, size : Nat, seq : Nat, ack : Nat, at : Int]
FlowSet == [packets : Seq(PacketSet), seq : [Ways -> 0 .. SeqRange - 1], sent : [Ways -> Nat], clock : Int]

\* What the first k packets carry one way.
CarriedBy(f, k, way) ==
    [i \in 1 .. k |-> IF f.packets[i].way = way THEN Takes(f.packets[i].flags, f.packets[i].size) ELSE 0]
Carried(f, k, way) == SumOf(CarriedBy(f, k, way))

\* Between two packets there is always the same time.
StampedFlow(f) ==
    /\ Len(f.packets) <= MaxPackets
    /\ f.clock = session.start * Micros + Len(f.packets) * StepMicros
    /\ \A k \in 1 .. Len(f.packets) : f.packets[k].at = session.start * Micros + (k - 1) * StepMicros

\* Where each side's stream is is what its packets have carried.
FollowsOn(f, k, p) ==
    /\ p.seq = (session.first[p.way] + Carried(f, k - 1, p.way)) % SeqRange
    /\ "ACK" \in p.flags => p.ack = (session.first[Back(p.way)] + Carried(f, k - 1, Back(p.way))) % SeqRange
Reassembles(f) ==
    /\ \A w \in Ways : f.seq[w] = (session.first[w] + Carried(f, Len(f.packets), w)) % SeqRange
    /\ \A k \in 1 .. Len(f.packets) : FollowsOn(f, k, f.packets[k])

LEMMA SessionFacts ==
    ASSUME session \in Captures
    PROVE  /\ session.up \in Nat /\ session.down \in Nat /\ session.start \in Nat /\ session.end \in Int
           /\ session.first \in [Ways -> 0 .. SeqRange - 1]
<1>0. \A c \in Captures : /\ {c.up, c.down, c.start} \subseteq Nat /\ c.end \in Int
                          /\ c.first \in [Ways -> 0 .. SeqRange - 1]
    BY PacketAssumption, Zenon DEF PacketAssumption
<1>1. /\ {session.up, session.down, session.start} \subseteq Nat /\ session.end \in Int
      /\ session.first \in [Ways -> 0 .. SeqRange - 1]
    BY <1>0
<1> QED
    BY <1>1

LEMMA StepsForward ==
    ASSUME session \in Captures
    PROVE  /\ SpanMicros \in Nat /\ StepMicros \in Nat \ {0} /\ session.start \in Nat /\ Micros \in Nat
           /\ \A n \in 0 .. MaxPackets : n * StepMicros <= SpanMicros
<1> DEFINE m == MaxPackets
           q == SpanMicros \div MaxPackets
           len == Larger(1, session.end - session.start)
<1>1. /\ m \in Nat \ {0} /\ Micros \in Nat \ {0} /\ LongestStep \in Nat \ {0} /\ m <= Micros
      /\ session.start \in Nat /\ session.end \in Int
    <2>1. {m, Micros, LongestStep} \subseteq Nat \ {0} /\ m <= Micros
        BY PacketAssumption DEF PacketAssumption
    <2> QED
        BY <2>1, SessionFacts
<1>2. len \in Nat /\ len >= 1
    BY <1>1 DEF Larger
<1> HIDE DEF len
<1>3. SpanMicros = len * Micros
    BY DEF SpanMicros, len
<1>4. SpanMicros \in Nat /\ SpanMicros >= Micros
    <2>1. \A a, b \in Nat : a >= 1 => a * b \in Nat /\ a * b >= b
        OBVIOUS
    <2> QED
        BY <1>1, <1>2, <1>3, <2>1
<1>5. q \in Nat /\ q * m <= SpanMicros
    <2>1. \A a \in Nat, b \in Nat \ {0} : a \div b \in Nat /\ (a \div b) * b <= a
        OBVIOUS
    <2> QED
        BY <1>1, <1>4, <2>1
<1>6. StepMicros = Larger(1, IF q > LongestStep THEN LongestStep ELSE q)
    BY DEF StepMicros
<1> HIDE DEF q, m
<1>7. StepMicros \in Nat \ {0} /\ (StepMicros <= q \/ StepMicros = 1)
    BY <1>1, <1>5, <1>6 DEF Larger
<1>8. ASSUME NEW n \in 0 .. MaxPackets PROVE n * StepMicros <= SpanMicros
    <2>1. n \in Nat /\ n <= m
        BY <1>1 DEF m
    <2>2. CASE StepMicros = 1
        <3>1. n * 1 = n
            BY <2>1
        <3> QED
            BY <1>1, <1>4, <2>1, <2>2, <3>1
    <2>3. CASE StepMicros <= q
        <3>1. \A a, b, c, d \in Nat : a <= c /\ b <= d => a * b <= d * c
            <4>1. \A a, b, c \in Nat : a <= c => a * b <= c * b
                OBVIOUS
            <4>2. \A b, c, d \in Nat : b <= d => c * b <= c * d
                OBVIOUS
            <4>3. \A c, d \in Nat : c * d = d * c /\ c * d \in Nat
                OBVIOUS
            <4> QED
                <5> TAKE a, b, c, d \in Nat
                <5> HAVE a <= c /\ b <= d
                <5>1. a * b <= c * b /\ c * b <= c * d /\ c * d = d * c
                    BY <4>1, <4>2, <4>3
                <5>2. a * b \in Nat /\ c * b \in Nat /\ c * d \in Nat
                    BY <4>3
                <5> QED
                    BY <5>1, <5>2
        <3>2. n * StepMicros <= q * m
            BY <1>1, <1>5, <1>7, <2>1, <2>3, <3>1
        <3>3. n * StepMicros \in Nat /\ q * m \in Nat
            BY <1>1, <1>5, <1>7, <2>1
        <3> QED
            BY <1>4, <1>5, <3>2, <3>3
    <2> QED
        BY <1>7, <2>2, <2>3
<1> QED
    BY <1>1, <1>4, <1>7, <1>8

\* A packet that finds room is the last of the file.
SameUpto(f, g, n) == \A k \in 1 .. n : g.packets[k] = f.packets[k]
Wrote(f, g, way, flags, size) ==
    LET n == Len(f.packets)
    IN /\ g \in FlowSet /\ Len(g.packets) = n + 1 /\ SameUpto(f, g, n)
       /\ g.packets[n + 1] = [way |-> way, flags |-> flags, size |-> size, seq |-> f.seq[way],
                              ack |-> IF "ACK" \in flags THEN f.seq[Back(way)] ELSE 0, at |-> f.clock]
       /\ g.clock = f.clock + StepMicros
       /\ g.seq = [f.seq EXCEPT ![way] = (@ + Takes(flags, size)) % SeqRange]
       /\ g.sent = [f.sent EXCEPT ![way] = @ + size]
LEMMA SegmentWrites ==
    ASSUME session \in Captures, NEW f \in FlowSet, NEW way \in Ways, NEW flags \in SUBSET FlagNames, NEW size \in Nat,
           ~ FullFile(f)
    PROVE  Wrote(f, Segment(f, way, flags, size), way, flags, size)
<1> DEFINE p == [way |-> way, flags |-> flags, size |-> size, seq |-> f.seq[way],
                 ack |-> IF "ACK" \in flags THEN f.seq[Back(way)] ELSE 0, at |-> f.clock]
           g == Segment(f, way, flags, size)
           n == Len(f.packets)
<1>1. SeqRange \in Nat \ {0}
    BY PacketAssumption DEF PacketAssumption
<1>2. /\ f.packets \in Seq(PacketSet) /\ f.seq \in [Ways -> 0 .. SeqRange - 1] /\ f.sent \in [Ways -> Nat]
      /\ f.clock \in Int
    BY DEF FlowSet
<1>3. f.seq[way] \in 0 .. SeqRange - 1 /\ f.seq[Back(way)] \in 0 .. SeqRange - 1 /\ f.sent[way] \in Nat
    BY <1>2 DEF Ways, Back
<1>4. p \in PacketSet
    BY <1>1, <1>2, <1>3 DEF PacketSet
<1>5. Takes(flags, size) \in Nat
    BY DEF Takes
<1>6. (f.seq[way] + Takes(flags, size)) % SeqRange \in 0 .. SeqRange - 1
    BY <1>1, <1>3, <1>5
<1>7. g = [f EXCEPT !.packets = Append(@, p), !.clock = @ + StepMicros,
                    !.seq[way] = (@ + Takes(flags, size)) % SeqRange, !.sent[way] = @ + size]
    BY DEF Segment, Written
<1> HIDE DEF p
<1>8. /\ g.packets = Append(f.packets, p) /\ g.clock = f.clock + StepMicros
      /\ g.seq = [f.seq EXCEPT ![way] = (@ + Takes(flags, size)) % SeqRange]
      /\ g.sent = [f.sent EXCEPT ![way] = @ + size]
    BY <1>7 DEF FlowSet
<1>9. /\ Append(f.packets, p) \in Seq(PacketSet) /\ Len(Append(f.packets, p)) = n + 1
      /\ \A k \in 1 .. n : Append(f.packets, p)[k] = f.packets[k]
      /\ Append(f.packets, p)[n + 1] = p
    BY <1>2, <1>4, AppendProperties
<1>10. [f.seq EXCEPT ![way] = (@ + Takes(flags, size)) % SeqRange] \in [Ways -> 0 .. SeqRange - 1]
    BY <1>2, <1>6
<1>11. [f.sent EXCEPT ![way] = @ + size] \in [Ways -> Nat]
    BY <1>2, <1>3
<1>12. g \in FlowSet
    <2>1. StepMicros \in Nat
        BY StepsForward
    <2>2. g.clock \in Int
        BY <1>2, <1>8, <2>1
    <2>3. g = [packets |-> g.packets, seq |-> g.seq, sent |-> g.sent, clock |-> g.clock]
        BY <1>7 DEF FlowSet
    <2> HIDE DEF g
    <2> QED
        BY <1>8, <1>9, <1>10, <1>11, <2>2, <2>3 DEF FlowSet
<1> QED
    BY <1>8, <1>9, <1>12 DEF p, Wrote, SameUpto

LEMMA CarriedIsNumber ==
    ASSUME NEW f \in FlowSet, NEW k \in 0 .. Len(f.packets), NEW w \in Ways
    PROVE  CarriedBy(f, k, w) \in [1 .. k -> Nat] /\ Carried(f, k, w) \in Nat
<1>1. f.packets \in Seq(PacketSet) /\ k \in Nat /\ Len(f.packets) \in Nat
    BY DEF FlowSet
<1>2. \A i \in 1 .. k : f.packets[i] \in PacketSet
    BY <1>1
<1>3. \A i \in 1 .. k : Takes(f.packets[i].flags, f.packets[i].size) \in Nat
    BY <1>2 DEF PacketSet, Takes
<1>4. CarriedBy(f, k, w) \in [1 .. k -> Nat]
    BY <1>3 DEF CarriedBy
<1>5. CarriedBy(f, k, w) \in Seq(Nat)
    BY <1>1, <1>4
<1> QED
    BY <1>4, <1>5, SumIsNumber DEF Carried

LEMMA CarriedStays ==
    ASSUME NEW f, NEW g, NEW n \in Nat, SameUpto(f, g, n), NEW k \in 0 .. n, NEW w
    PROVE  Carried(g, k, w) = Carried(f, k, w)
<1>1. \A i \in 1 .. k : g.packets[i] = f.packets[i]
    BY DEF SameUpto
<1>2. CarriedBy(g, k, w) = CarriedBy(f, k, w)
    BY <1>1 DEF CarriedBy
<1> QED
    BY <1>2 DEF Carried

LEMMA CarriedAdds ==
    ASSUME NEW f \in FlowSet, NEW g \in FlowSet, NEW n \in Nat, n = Len(f.packets), Len(g.packets) = n + 1,
           SameUpto(f, g, n), NEW w \in Ways
    PROVE  Carried(g, n + 1, w) = Carried(f, n, w) + (IF g.packets[n + 1].way = w
                                                      THEN Takes(g.packets[n + 1].flags, g.packets[n + 1].size) ELSE 0)
<1> DEFINE s == CarriedBy(f, n, w)
           t == CarriedBy(g, n + 1, w)
<1>1. s \in [1 .. n -> Nat] /\ t \in [1 .. n + 1 -> Nat]
    <2>1. n \in 0 .. Len(f.packets) /\ n + 1 \in 0 .. Len(g.packets)
        OBVIOUS
    <2> QED
        BY <2>1, CarriedIsNumber
<1>2. s \in [1 .. n -> Int] /\ t \in [1 .. n + 1 -> Int]
    BY <1>1
<1>3. \A k \in 1 .. n : t[k] = s[k]
    BY DEF CarriedBy, SameUpto
<1>4. t[n + 1] = IF g.packets[n + 1].way = w THEN Takes(g.packets[n + 1].flags, g.packets[n + 1].size) ELSE 0
    BY DEF CarriedBy
<1> HIDE DEF s, t
<1>5. SumOf(t) = SumOf(s) + t[n + 1]
    BY <1>2, <1>3, SumOfMore
<1> QED
    BY <1>4, <1>5 DEF Carried, s, t

\* What a segment leaves is a conversation again.
MadeFlow(f) == f \in FlowSet /\ StampedFlow(f)

LEMMA SegmentStamped ==
    ASSUME session \in Captures, NEW f, MadeFlow(f), NEW way \in Ways, NEW flags \in SUBSET FlagNames, NEW size \in Nat
    PROVE  MadeFlow(Segment(f, way, flags, size))
<1>1. CASE FullFile(f)
    <2>1. Segment(f, way, flags, size) = f
        BY <1>1 DEF Segment
    <2> QED
        BY <2>1
<1>2. CASE ~ FullFile(f)
    <2> DEFINE g == Segment(f, way, flags, size)
               n == Len(f.packets)
    <2>0. f \in FlowSet
        BY DEF MadeFlow
    <2>1. /\ g \in FlowSet /\ Len(g.packets) = n + 1
          /\ \A k \in 1 .. n : g.packets[k] = f.packets[k]
          /\ g.packets[n + 1].at = f.clock /\ g.clock = f.clock + StepMicros
        <3>1. Wrote(f, g, way, flags, size)
            BY <1>2, <2>0, SegmentWrites
        <3> HIDE DEF g
        <3> QED
            BY <3>1 DEF Wrote, SameUpto
    <2> HIDE DEF g
    <2>2. n \in Nat /\ ~ (n >= MaxPackets) /\ MaxPackets \in Nat /\ StepMicros \in Nat /\ session.start * Micros \in Int
        <3>1. n \in Nat
            BY <2>0 DEF FlowSet
        <3>2. MaxPackets \in Nat
            BY PacketAssumption DEF PacketAssumption
        <3>3. StepMicros \in Nat /\ session.start \in Nat /\ Micros \in Nat
            BY StepsForward
        <3>4. session.start * Micros \in Int
            BY <3>3
        <3> QED
            BY <1>2, <3>1, <3>2, <3>3, <3>4 DEF FullFile
    <2>3. /\ f.clock = session.start * Micros + n * StepMicros
          /\ \A k \in 1 .. n : f.packets[k].at = session.start * Micros + (k - 1) * StepMicros
        BY DEF MadeFlow, StampedFlow
    <2>4. g.clock = session.start * Micros + (n + 1) * StepMicros
        <3>1. (n + 1) * StepMicros = n * StepMicros + StepMicros /\ n * StepMicros \in Int
            BY <2>2
        <3> QED
            BY <2>1, <2>2, <2>3, <3>1
    <2>5. ASSUME NEW k \in 1 .. n + 1 PROVE g.packets[k].at = session.start * Micros + (k - 1) * StepMicros
        <3>1. CASE k \in 1 .. n
            BY <2>1, <2>3, <3>1
        <3>2. CASE k = n + 1
            <4>1. k - 1 = n
                BY <2>2, <3>2
            <4> QED
                BY <2>1, <2>3, <3>2, <4>1
        <3> QED
            BY <2>2, <3>1, <3>2
    <2>6. Len(g.packets) <= MaxPackets
        BY <2>1, <2>2
    <2>7. MadeFlow(g)
        BY <2>1, <2>4, <2>5, <2>6 DEF MadeFlow, StampedFlow
    <2> QED
        BY <2>7 DEF g
<1> QED
    BY <1>1, <1>2

LEMMA SegmentReassembles ==
    ASSUME session \in Captures, NEW f, MadeFlow(f), Reassembles(f),
           NEW way \in Ways, NEW flags \in SUBSET FlagNames, NEW size \in Nat
    PROVE  Reassembles(Segment(f, way, flags, size))
<1>1. CASE FullFile(f)
    <2>1. Segment(f, way, flags, size) = f
        BY <1>1 DEF Segment
    <2> QED
        BY <2>1
<1>2. CASE ~ FullFile(f)
    <2> DEFINE g == Segment(f, way, flags, size)
               n == Len(f.packets)
               p == g.packets[n + 1]
               took == Takes(flags, size)
    <2>0. f \in FlowSet /\ n \in Nat /\ f.seq \in [Ways -> 0 .. SeqRange - 1]
        BY DEF MadeFlow, FlowSet
    <2>1. /\ g \in FlowSet /\ Len(g.packets) = n + 1
          /\ SameUpto(f, g, n) /\ \A k \in 1 .. n : g.packets[k] = f.packets[k]
          /\ p = [way |-> way, flags |-> flags, size |-> size, seq |-> f.seq[way],
                  ack |-> IF "ACK" \in flags THEN f.seq[Back(way)] ELSE 0, at |-> f.clock]
          /\ g.seq = [f.seq EXCEPT ![way] = (@ + took) % SeqRange]
        <3>1. Wrote(f, g, way, flags, size)
            BY <1>2, <2>0, SegmentWrites
        <3> HIDE DEF g
        <3> QED
            BY <3>1 DEF Wrote, SameUpto
    <2>2. took \in Nat
        BY DEF Takes
    <2>3. /\ p.way = way /\ p.flags = flags /\ p.size = size /\ p.seq = f.seq[way]
          /\ "ACK" \in flags => p.ack = f.seq[Back(way)]
        BY <2>1
    <2>4. SeqRange \in Nat \ {0} /\ session.first \in [Ways -> 0 .. SeqRange - 1]
        <3>1. SeqRange \in Nat \ {0}
            BY PacketAssumption DEF PacketAssumption
        <3> QED
            BY <3>1, SessionFacts
    <2>5. /\ \A w \in Ways : f.seq[w] = (session.first[w] + Carried(f, n, w)) % SeqRange
          /\ \A k \in 1 .. n : FollowsOn(f, k, f.packets[k])
        BY DEF Reassembles
    <2> HIDE DEF g, p, took
    <2>6. ASSUME NEW w \in Ways, NEW k \in 0 .. n PROVE Carried(g, k, w) = Carried(f, k, w)
        BY <2>0, <2>1, CarriedStays
    <2>7. ASSUME NEW w \in Ways PROVE Carried(g, n + 1, w) = Carried(f, n, w) + (IF way = w THEN took ELSE 0)
        <3>1. Carried(g, n + 1, w) = Carried(f, n, w) + (IF g.packets[n + 1].way = w
                THEN Takes(g.packets[n + 1].flags, g.packets[n + 1].size) ELSE 0)
            BY <2>0, <2>1, CarriedAdds
        <3> QED
            BY <2>3, <3>1 DEF p, took
    <2>8. ASSUME NEW w \in Ways PROVE g.seq[w] = (session.first[w] + Carried(g, n + 1, w)) % SeqRange
        <3>1. Carried(f, n, w) \in Nat /\ session.first[w] \in Int
            <4>1. n \in 0 .. Len(f.packets)
                BY <2>0
            <4>2. Carried(f, n, w) \in Nat
                BY <2>0, <4>1, CarriedIsNumber
            <4> QED
                BY <2>4, <4>2
        <3>2. CASE w = way
            <4> DEFINE a == session.first[w] + Carried(f, n, w)
            <4>1. g.seq[w] = ((a % SeqRange) + took) % SeqRange
                BY <2>0, <2>1, <2>5, <3>2
            <4>0. took \in Int
                BY <2>2
            <4>2. a \in Int /\ session.first[w] + Carried(g, n + 1, w) = a + took
                BY <2>2, <2>7, <3>1, <3>2
            <4> HIDE DEF a
            <4>3. ((a % SeqRange) + took) % SeqRange = (a + took) % SeqRange
                BY <2>4, <4>0, <4>2, ModAdds, Zenon
            <4> QED
                BY <4>1, <4>2, <4>3
        <3>3. CASE w # way
            <4>1. g.seq[w] = f.seq[w]
                BY <2>0, <2>1, <3>3
            <4>2. Carried(g, n + 1, w) = Carried(f, n, w)
                BY <2>7, <3>1, <3>3
            <4> QED
                BY <2>5, <4>1, <4>2
        <3> QED
            BY <3>2, <3>3
    <2>9. ASSUME NEW k \in 1 .. n + 1 PROVE FollowsOn(g, k, g.packets[k])
        <3>0. Back(g.packets[k].way) \in Ways /\ g.packets[k].way \in Ways
            <4>1. g.packets[k] \in PacketSet
                BY <2>0, <2>1 DEF FlowSet
            <4> QED
                BY <4>1 DEF PacketSet, Back, Ways
        <3>1. CASE k \in 1 .. n
            <4>1. g.packets[k] = f.packets[k] /\ FollowsOn(f, k, f.packets[k]) /\ k - 1 \in 0 .. n
                BY <2>0, <2>1, <2>5, <3>1
            <4> QED
                BY <2>6, <3>0, <4>1 DEF FollowsOn
        <3>2. CASE k = n + 1
            <4>1. k - 1 = n /\ n \in 0 .. n /\ g.packets[k] = p
                BY <2>0, <3>2 DEF p
            <4>2. Carried(g, k - 1, way) = Carried(f, n, way) /\ Carried(g, k - 1, Back(way)) = Carried(f, n, Back(way))
                BY <2>3, <2>6, <3>0, <4>1
            <4>3. /\ f.seq[way] = (session.first[way] + Carried(f, n, way)) % SeqRange
                  /\ f.seq[Back(way)] = (session.first[Back(way)] + Carried(f, n, Back(way))) % SeqRange
                BY <2>3, <2>5, <3>0, <4>1
            <4> QED
                BY <2>3, <4>1, <4>2, <4>3 DEF FollowsOn
        <3> QED
            BY <2>0, <3>1, <3>2
    <2>10. Reassembles(g)
        BY <2>1, <2>8, <2>9 DEF Reassembles
    <2> QED
        BY <2>10 DEF g
<1> QED
    BY <1>1, <1>2

-----------------------------------------------------------------------------
\* Conversations, and what they have sent unless the file is full.
TcpFlows == {f \in FlowSet : MadeFlow(f) /\ Reassembles(f)}
Added(f, way, size) == [f.sent EXCEPT ![way] = @ + size]
Follows(f, g, way, flags, size) ==
    \/ FullFile(g)
    \/ /\ ~ FullFile(f) /\ g.sent = Added(f, way, size)
       /\ Len(g.packets) = Len(f.packets) + 1 /\ SameUpto(f, g, Len(f.packets))
       /\ g.packets[Len(g.packets)].way = way /\ g.packets[Len(g.packets)].flags = flags

LEMMA SegmentFollows ==
    ASSUME session \in Captures, NEW f \in TcpFlows, NEW way \in Ways, NEW flags \in SUBSET FlagNames, NEW size \in Nat
    PROVE  LET g == Segment(f, way, flags, size) IN g \in TcpFlows /\ Follows(f, g, way, flags, size)
<1> DEFINE g == Segment(f, way, flags, size)
<1>0. f \in FlowSet /\ MadeFlow(f) /\ Reassembles(f)
    BY DEF TcpFlows
<1>1. MadeFlow(g) /\ Reassembles(g)
    BY <1>0, SegmentStamped, SegmentReassembles
<1>2. g \in TcpFlows
    BY <1>1 DEF TcpFlows, MadeFlow
<1>3. CASE FullFile(f)
    <2>1. g = f
        BY <1>3 DEF Segment
    <2> HIDE DEF g
    <2>2. Follows(f, g, way, flags, size)
        BY <1>3, <2>1 DEF Follows
    <2> QED
        BY <1>2, <2>2 DEF g
<1>4. CASE ~ FullFile(f)
    <2>1. Wrote(f, g, way, flags, size)
        BY <1>0, <1>4, SegmentWrites
    <2> HIDE DEF g
    <2>2. Follows(f, g, way, flags, size)
        BY <1>4, <2>1 DEF Wrote, Follows, Added
    <2> QED
        BY <1>2, <2>2 DEF g
<1> QED
    BY <1>3, <1>4

\* A segment and its acknowledgement.
WithAck(f, way, flags, size) == Segment(Segment(f, way, flags, size), Back(way), {"ACK"}, 0)
Delivered(f, g, way, size) == FullFile(g) \/ (~ FullFile(f) /\ g.sent = Added(f, way, size))

LEMMA SegmentDelivered ==
    ASSUME session \in Captures, NEW f \in TcpFlows, NEW way \in Ways, NEW flags \in SUBSET FlagNames, NEW size \in Nat
    PROVE  LET g == WithAck(f, way, flags, size) IN g \in TcpFlows /\ Delivered(f, g, way, size)
<1> DEFINE e == Segment(f, way, flags, size)
           g == Segment(e, Back(way), {"ACK"}, 0)
<1>1. e \in TcpFlows /\ Follows(f, e, way, flags, size)
    BY SegmentFollows
<1> HIDE DEF e
<1>2. Back(way) \in Ways /\ {"ACK"} \in SUBSET FlagNames /\ 0 \in Nat
    BY DEF Back, Ways, FlagNames
<1>3. g \in TcpFlows /\ Follows(e, g, Back(way), {"ACK"}, 0)
    BY <1>1, <1>2, SegmentFollows
<1> HIDE DEF g
<1>4. Added(e, Back(way), 0) = e.sent
    <2>1. e.sent \in [Ways -> Nat]
        BY <1>1 DEF TcpFlows, FlowSet
    <2>2. e.sent[Back(way)] + 0 = e.sent[Back(way)]
        BY <1>2, <2>1
    <2> QED
        BY <1>2, <2>1, <2>2 DEF Added
<1>5. Delivered(f, g, way, size)
    BY <1>1, <1>3, <1>4 DEF Delivered, Follows
<1> QED
    BY <1>3, <1>5 DEF WithAck, e, g

-----------------------------------------------------------------------------
\* A message is cut into parts that add up to it.
PartSize(size, k) == IF k = MessageParts(size) THEN size - (k - 1) * Mss ELSE Mss
SentBy(size, k) == IF k = MessageParts(size) THEN size ELSE k * Mss

LEMMA PartsAddUp ==
    ASSUME NEW size \in Nat
    PROVE  /\ MessageParts(size) \in Nat /\ SentBy(size, 0) = 0
           /\ \A k \in 1 .. MessageParts(size) :
                /\ PartSize(size, k) \in Nat /\ SentBy(size, k - 1) \in Nat
                /\ SentBy(size, k) = SentBy(size, k - 1) + PartSize(size, k)
<1> DEFINE n == MessageParts(size)
<1>1. Mss \in Nat /\ Mss >= 1
    BY PacketAssumption DEF PacketAssumption
<1>2. n \in Nat /\ n * Mss <= size + Mss - 1 /\ n * Mss \in Nat /\ (n = 0 => size = 0)
    <2>1. \A a \in Nat, b \in Nat \ {0} : (a \div b) \in Nat /\ (a \div b) * b <= a /\ (a \div b) * b \in Nat
                                       /\ (a >= b => a \div b # 0)
        OBVIOUS
    <2>2. size + Mss - 1 \in Nat /\ Mss \in Nat \ {0} /\ (size # 0 => size + Mss - 1 >= Mss)
        BY <1>1
    <2> DEFINE a == size + Mss - 1
    <2>3. a \in Nat /\ n = a \div Mss
        BY <2>2 DEF MessageParts
    <2> HIDE DEF n, a
    <2>4. n \in Nat /\ n * Mss <= a /\ n * Mss \in Nat /\ (a >= Mss => n # 0)
        BY <2>1, <2>2, <2>3
    <2> QED
        BY <2>2, <2>4 DEF a
<1>3. SentBy(size, 0) = 0
    <2>1. 0 * Mss = 0
        BY <1>1
    <2> QED
        BY <1>2, <2>1 DEF SentBy
<1>4. ASSUME NEW k \in 1 .. n
      PROVE  /\ PartSize(size, k) \in Nat /\ SentBy(size, k - 1) \in Nat
             /\ SentBy(size, k) = SentBy(size, k - 1) + PartSize(size, k)
    <2> HIDE DEF n
    <2>1. k \in Nat /\ k - 1 \in Nat /\ k <= n /\ k - 1 # n
        BY <1>2
    <2>2. (k - 1) * Mss \in Nat /\ k * Mss = (k - 1) * Mss + Mss /\ k * Mss \in Nat
        <3>1. \A a, b \in Nat : a * b \in Nat /\ (a + 1) * b = a * b + b
            OBVIOUS
        <3>2. (k - 1) + 1 = k
            BY <2>1
        <3> QED
            BY <1>1, <2>1, <3>1, <3>2
    <2>3. SentBy(size, k - 1) = (k - 1) * Mss
        BY <2>1 DEF SentBy, n
    <2>4. CASE k = n
        <3>1. PartSize(size, k) = size - (k - 1) * Mss /\ SentBy(size, k) = size
            BY <2>4 DEF PartSize, SentBy, n
        <3>2. (k - 1) * Mss <= size
            BY <1>1, <1>2, <2>2, <2>4
        <3> QED
            BY <2>2, <2>3, <3>1, <3>2
    <2>5. CASE k # n
        <3>1. PartSize(size, k) = Mss /\ SentBy(size, k) = k * Mss
            BY <2>5 DEF PartSize, SentBy, n
        <3> QED
            BY <1>1, <2>2, <2>3, <3>1
    <2> QED
        BY <2>4, <2>5
<1> QED
    BY <1>2, <1>3, <1>4

LEMMA PartDelivered ==
    ASSUME session \in Captures, NEW f \in TcpFlows, NEW way \in Ways, NEW size \in Nat, NEW k \in 1 .. MessageParts(size)
    PROVE  LET g == SendPart(f, way, size, k) IN g \in TcpFlows /\ Delivered(f, g, way, PartSize(size, k))
<1> DEFINE flags == IF k = MessageParts(size) THEN {"PSH", "ACK"} ELSE {"ACK"}
           share == PartSize(size, k)
<1>1. SendPart(f, way, size, k) = WithAck(f, way, flags, share)
    BY DEF SendPart, WithAck, PartSize
<1>2. flags \in SUBSET FlagNames
    BY DEF FlagNames
<1>3. share \in Nat
    BY PartsAddUp
<1> HIDE DEF flags, share
<1>4. WithAck(f, way, flags, share) \in TcpFlows /\ Delivered(f, WithAck(f, way, flags, share), way, share)
    BY <1>2, <1>3, SegmentDelivered
<1> QED
    BY <1>1, <1>4 DEF share

Message(f, way, size) ==
    CHOOSE sent : sent = [k \in 0 .. MessageParts(size) |-> IF k = 0 THEN f ELSE SendPart(sent[k - 1], way, size, k)]

LEMMA MessageRuns ==
    ASSUME session \in Captures, NEW f \in TcpFlows, NEW way \in Ways, NEW size \in Nat
    PROVE  LET n == MessageParts(size)
               sent == Message(f, way, size)
           IN /\ SentMessage(f, way, size) = sent[n] /\ sent[0] = f
              /\ \A k \in 1 .. n : sent[k] = SendPart(sent[k - 1], way, size, k)
<1> DEFINE n == MessageParts(size)
           step == [k \in 1 .. n |-> [x \in TcpFlows |-> SendPart(x, way, size, k)]]
<1>1. n \in Nat
    BY PartsAddUp
<1>2. step \in [1 .. n -> [TcpFlows -> TcpFlows]]
    <2>1. \A k \in 1 .. n, x \in TcpFlows : SendPart(x, way, size, k) \in TcpFlows
        BY PartDelivered
    <2> QED
        BY <2>1
<1>3. \E sent : sent = [k \in 0 .. n |-> IF k = 0 THEN f ELSE SendPart(sent[k - 1], way, size, k)]
    <2> HIDE DEF n
    <2>1. \A k \in 1 .. n, x \in TcpFlows : step[k][x] = SendPart(x, way, size, k)
        OBVIOUS
    <2> HIDE DEF step
    <2>2. HasRun(n, TcpFlows, f, step)
        BY <1>1, <1>2, StepByStep
    <2>3. PICK sent \in [0 .. n -> TcpFlows] : sent = [k \in 0 .. n |-> IF k = 0 THEN f ELSE step[k][sent[k - 1]]]
        BY <2>2 DEF HasRun
    <2>4. \A k \in 0 .. n : sent[k] = IF k = 0 THEN f ELSE SendPart(sent[k - 1], way, size, k)
        <3>1. \A k \in 0 .. n : k # 0 => k \in 1 .. n /\ sent[k - 1] \in TcpFlows
            BY <1>1, <2>3
        <3>2. \A k \in 0 .. n : sent[k] = IF k = 0 THEN f ELSE step[k][sent[k - 1]]
            BY <2>3
        <3> QED
            BY <2>1, <3>1, <3>2
    <2>5. sent = [k \in 0 .. n |-> IF k = 0 THEN f ELSE SendPart(sent[k - 1], way, size, k)]
        <3>1. sent = [k \in 0 .. n |-> sent[k]]
            BY <2>3
        <3> QED
            BY <3>1, <2>4
    <2> QED
        BY <2>5
<1> DEFINE sent == Message(f, way, size)
<1>4. sent = [k \in 0 .. n |-> IF k = 0 THEN f ELSE SendPart(sent[k - 1], way, size, k)]
    BY <1>3, Zenon DEF Message
<1>5. SentMessage(f, way, size) = sent[n]
    BY DEF SentMessage, Message
<1> HIDE DEF n, sent
<1>6. sent[0] = f /\ \A k \in 1 .. n : sent[k] = SendPart(sent[k - 1], way, size, k)
    BY <1>1, <1>4
<1> QED
    BY <1>5, <1>6 DEF n, sent

LEMMA MessageDelivered ==
    ASSUME session \in Captures, NEW f \in TcpFlows, NEW way \in Ways, NEW size \in Nat
    PROVE  LET g == SentMessage(f, way, size) IN g \in TcpFlows /\ Delivered(f, g, way, size)
<1> DEFINE n == MessageParts(size)
           sent == Message(f, way, size)
           Well(k) == sent[k] \in TcpFlows /\ Delivered(f, sent[k], way, SentBy(size, k))
           Bad == {k \in 0 .. n : ~ Well(k)}
<1>1. /\ SentMessage(f, way, size) = sent[n] /\ sent[0] = f
      /\ \A k \in 1 .. n : sent[k] = SendPart(sent[k - 1], way, size, k)
    BY MessageRuns
<1>2. n \in Nat /\ SentBy(size, 0) = 0
    BY PartsAddUp
<1>3. f.sent \in [Ways -> Nat]
    BY DEF TcpFlows, FlowSet
<1> HIDE DEF n, sent
<1>4. Well(0)
    <2>1. f.sent[way] + 0 = f.sent[way]
        BY <1>3
    <2>2. Added(f, way, 0) = f.sent
        BY <1>3, <2>1 DEF Added
    <2> QED
        BY <1>1, <1>2, <2>2 DEF Delivered
<1>5. ASSUME NEW k \in 1 .. n, Well(k - 1) PROVE Well(k)
    <2> DEFINE e == sent[k - 1]
               g == sent[k]
               share == PartSize(size, k)
    <2>1. e \in TcpFlows /\ g = SendPart(e, way, size, k)
        BY <1>1, <1>5
    <2> HIDE DEF g
    <2>2. g \in TcpFlows /\ Delivered(e, g, way, share)
        <3> HIDE DEF e
        <3> QED
            BY <2>1, PartDelivered DEF n
    <2>3. share \in Nat /\ SentBy(size, k - 1) \in Nat /\ SentBy(size, k) = SentBy(size, k - 1) + share
        BY PartsAddUp DEF n
    <2>4. CASE FullFile(g)
        BY <2>2, <2>4 DEF g, Delivered
    <2>5. CASE ~ FullFile(g)
        <3>1. ~ FullFile(e) /\ g.sent = Added(e, way, share)
            BY <2>2, <2>5 DEF Delivered
        <3>2. ~ FullFile(f) /\ e.sent = Added(f, way, SentBy(size, k - 1))
            BY <1>5, <3>1 DEF Delivered
        <3> HIDE DEF e, share
        <3>3. g.sent = [e.sent EXCEPT ![way] = @ + share] /\ e.sent = [f.sent EXCEPT ![way] = @ + SentBy(size, k - 1)]
            BY <3>1, <3>2 DEF Added
        <3>4. f.sent[way] \in Nat /\ (f.sent[way] + SentBy(size, k - 1)) + share = f.sent[way] + SentBy(size, k)
            BY <1>3, <2>3
        <3>5. g.sent = [f.sent EXCEPT ![way] = @ + SentBy(size, k)]
            BY <1>3, <3>3, <3>4
        <3> QED
            BY <2>2, <3>2, <3>5 DEF Added, Delivered, g
    <2> QED
        BY <2>4, <2>5
<1>6. Bad = {}
    <2> SUFFICES ASSUME Bad # {} PROVE FALSE
        OBVIOUS
    <2>1. Bad \in SUBSET Nat
        BY <1>2
    <2> HIDE DEF Well
    <2>2. PICK k \in Bad : \A j \in Bad : k <= j
        <3> HIDE DEF Bad
        <3> QED
            BY <2>1, LeastOf
    <2>3. k # 0 /\ k \in 0 .. n /\ ~ Well(k)
        BY <1>4, <2>2
    <2>4. k \in 1 .. n /\ k - 1 \in 0 .. n /\ ~ (k <= k - 1)
        BY <1>2, <2>3
    <2>5. Well(k - 1)
        BY <2>2, <2>4
    <2> QED
        BY <1>5, <2>3, <2>4, <2>5
<1>7. Well(n)
    BY <1>2, <1>6
<1>8. SentBy(size, n) = size
    BY DEF SentBy, n
<1> QED
    BY <1>1, <1>7, <1>8

-----------------------------------------------------------------------------
\* Two datagrams are stamped like any packets.
LEMMA DatagramStamped ==
    ASSUME session \in Captures, NEW f, MadeFlow(f), NEW way \in Ways, NEW size \in Nat
    PROVE  MadeFlow(Datagram(f, way, size))
<1> DEFINE p == [way |-> way, flags |-> {}, size |-> size, seq |-> 0, ack |-> 0, at |-> f.clock]
           g == Datagram(f, way, size)
           n == Len(f.packets)
<1>0. /\ f \in FlowSet /\ f.packets \in Seq(PacketSet) /\ f.seq \in [Ways -> 0 .. SeqRange - 1]
      /\ f.sent \in [Ways -> Nat] /\ f.clock \in Int /\ n \in Nat
    BY DEF MadeFlow, FlowSet
<1>1. CASE FullFile(f)
    <2>1. g = f
        BY <1>1 DEF Datagram
    <2> QED
        BY <2>1
<1>2. CASE ~ FullFile(f)
    <2>1. g = [f EXCEPT !.packets = Append(@, p), !.clock = @ + StepMicros, !.sent[way] = @ + size]
        BY <1>2 DEF Datagram, Written
    <2>2. p \in PacketSet
        BY <1>0 DEF PacketSet
    <2>3. p.at = f.clock
        OBVIOUS
    <2> HIDE DEF p
    <2>4. /\ g.packets = Append(f.packets, p) /\ g.clock = f.clock + StepMicros /\ g.seq = f.seq
          /\ g.sent = [f.sent EXCEPT ![way] = @ + size]
          /\ g = [packets |-> g.packets, seq |-> g.seq, sent |-> g.sent, clock |-> g.clock]
        BY <1>0, <2>1 DEF FlowSet
    <2> HIDE DEF g
    <2>5. /\ g.packets \in Seq(PacketSet) /\ Len(g.packets) = n + 1
          /\ \A k \in 1 .. n : g.packets[k] = f.packets[k]
          /\ g.packets[n + 1] = p
        BY <1>0, <2>2, <2>4, AppendProperties
    <2>6. StepMicros \in Nat /\ session.start \in Nat /\ Micros \in Nat /\ MaxPackets \in Nat
        <3>1. MaxPackets \in Nat
            BY PacketAssumption DEF PacketAssumption
        <3> QED
            BY <3>1, StepsForward
    <2>7. session.start * Micros \in Int
        BY <2>6
    <2>8. g \in FlowSet
        <3>1. g.clock \in Int
            BY <1>0, <2>4, <2>6
        <3>2. g.sent \in [Ways -> Nat]
            <4>1. f.sent[way] + size \in Nat
                BY <1>0
            <4> QED
                BY <1>0, <2>4, <4>1
        <3> QED
            BY <1>0, <2>4, <2>5, <3>1, <3>2 DEF FlowSet
    <2>9. /\ f.clock = session.start * Micros + n * StepMicros /\ n <= MaxPackets
          /\ \A k \in 1 .. n : f.packets[k].at = session.start * Micros + (k - 1) * StepMicros
        BY DEF MadeFlow, StampedFlow
    <2>10. g.clock = session.start * Micros + (n + 1) * StepMicros
        <3>1. (n + 1) * StepMicros = n * StepMicros + StepMicros /\ n * StepMicros \in Int
            BY <1>0, <2>6
        <3>2. g.clock = f.clock + StepMicros /\ f.clock = session.start * Micros + n * StepMicros
            BY <2>4, <2>9
        <3> QED
            BY <2>6, <2>7, <3>1, <3>2
    <2>11. ASSUME NEW k \in 1 .. n + 1 PROVE g.packets[k].at = session.start * Micros + (k - 1) * StepMicros
        <3>1. CASE k \in 1 .. n
            BY <2>5, <2>9, <3>1
        <3>2. CASE k = n + 1
            <4>1. k - 1 = n
                BY <1>0, <3>2
            <4> QED
                BY <2>3, <2>5, <2>9, <3>2, <4>1
        <3> QED
            BY <1>0, <3>1, <3>2
    <2>12. Len(g.packets) <= MaxPackets
        BY <1>0, <1>2, <2>5, <2>6 DEF FullFile
    <2>13. MadeFlow(g)
        BY <2>5, <2>8, <2>10, <2>11, <2>12 DEF MadeFlow, StampedFlow
    <2> QED
        BY <2>13 DEF g
<1> QED
    BY <1>1, <1>2

\* Three segments open a conversation, and close it.
Three(f, a, b, c) == Segment(Segment(Segment(f, "up", a, 0), "down", b, 0), "up", c, 0)
Carries(f, way, flags) == \E k \in 1 .. Len(f.packets) : f.packets[k].way = way /\ f.packets[k].flags = flags

LEMMA NothingAdded ==
    ASSUME NEW f \in TcpFlows, NEW way \in Ways
    PROVE  Added(f, way, 0) = f.sent
<1>1. f.sent \in [Ways -> Nat]
    BY DEF TcpFlows, FlowSet
<1>2. f.sent[way] + 0 = f.sent[way]
    BY <1>1
<1> QED
    BY <1>1, <1>2 DEF Added

LEMMA FollowsCarries ==
    ASSUME NEW f \in TcpFlows, NEW g \in TcpFlows, NEW way, NEW flags, NEW size, Follows(f, g, way, flags, size), ~ FullFile(g)
    PROVE  /\ ~ FullFile(f) /\ g.sent = Added(f, way, size) /\ Len(g.packets) = Len(f.packets) + 1
           /\ Carries(g, way, flags)
           /\ \A w, s : Carries(f, w, s) => Carries(g, w, s)
<1>1. Len(f.packets) \in Nat /\ Len(g.packets) \in Nat
    BY DEF TcpFlows, FlowSet
<1>2. /\ ~ FullFile(f) /\ g.sent = Added(f, way, size)
      /\ Len(g.packets) = Len(f.packets) + 1 /\ \A k \in 1 .. Len(f.packets) : g.packets[k] = f.packets[k]
      /\ g.packets[Len(g.packets)].way = way /\ g.packets[Len(g.packets)].flags = flags
    BY DEF Follows, SameUpto
<1>3. Carries(g, way, flags)
    <2>1. Len(g.packets) \in 1 .. Len(g.packets)
        BY <1>1, <1>2
    <2> QED
        BY <1>2, <2>1 DEF Carries
<1>4. ASSUME NEW w, NEW s, Carries(f, w, s) PROVE Carries(g, w, s)
    <2>1. PICK k \in 1 .. Len(f.packets) : f.packets[k].way = w /\ f.packets[k].flags = s
        BY <1>4 DEF Carries
    <2>2. k \in 1 .. Len(g.packets) /\ g.packets[k] = f.packets[k]
        BY <1>1, <1>2
    <2> QED
        BY <2>1, <2>2 DEF Carries
<1> QED
    BY <1>2, <1>3, <1>4

LEMMA ThreeFollow ==
    ASSUME session \in Captures, NEW f \in TcpFlows,
           NEW a \in SUBSET FlagNames, NEW b \in SUBSET FlagNames, NEW c \in SUBSET FlagNames
    PROVE  LET g == Three(f, a, b, c)
           IN /\ g \in TcpFlows
              /\ \/ FullFile(g)
                 \/ /\ ~ FullFile(f) /\ g.sent = f.sent /\ Len(g.packets) = Len(f.packets) + 3
                    /\ Carries(g, "up", a) /\ Carries(g, "down", b)
<1> DEFINE d == Segment(f, "up", a, 0)
           e == Segment(d, "down", b, 0)
           g == Segment(e, "up", c, 0)
<1>0. "up" \in Ways /\ "down" \in Ways /\ 0 \in Nat
    BY DEF Ways
<1>1. d \in TcpFlows /\ Follows(f, d, "up", a, 0)
    BY <1>0, SegmentFollows
<1> HIDE DEF d
<1>2. e \in TcpFlows /\ Follows(d, e, "down", b, 0)
    BY <1>0, <1>1, SegmentFollows
<1> HIDE DEF e
<1>3. g \in TcpFlows /\ Follows(e, g, "up", c, 0)
    BY <1>0, <1>2, SegmentFollows
<1> HIDE DEF g
<1>4. g = Three(f, a, b, c)
    BY DEF Three, d, e, g
<1>5. CASE ~ FullFile(g)
    <2>1. ~ FullFile(e) /\ g.sent = Added(e, "up", 0) /\ Len(g.packets) = Len(e.packets) + 1
          /\ \A w, s : Carries(e, w, s) => Carries(g, w, s)
        BY <1>2, <1>3, <1>5, FollowsCarries
    <2>2. ~ FullFile(d) /\ e.sent = Added(d, "down", 0) /\ Len(e.packets) = Len(d.packets) + 1
          /\ Carries(e, "down", b) /\ \A w, s : Carries(d, w, s) => Carries(e, w, s)
        BY <1>1, <1>2, <2>1, FollowsCarries
    <2>3. ~ FullFile(f) /\ d.sent = Added(f, "up", 0) /\ Len(d.packets) = Len(f.packets) + 1 /\ Carries(d, "up", a)
        BY <1>1, <2>2, FollowsCarries
    <2>4. g.sent = e.sent /\ e.sent = d.sent /\ d.sent = f.sent
        BY <1>0, <1>1, <1>2, <2>1, <2>2, <2>3, NothingAdded
    <2>5. Len(f.packets) \in Nat
        BY DEF TcpFlows, FlowSet
    <2> QED
        BY <1>3, <1>4, <2>1, <2>2, <2>3, <2>4, <2>5
<1>6. CASE FullFile(g)
    BY <1>3, <1>4, <1>6
<1> QED
    BY <1>5, <1>6

-----------------------------------------------------------------------------
\* What the protocol has said of its first k messages.
SaidBy(x, k, way) == [i \in 1 .. k |-> IF x[i].way = way THEN x[i].size ELSE 0]
Said(x, k, way) == SumOf(SaidBy(x, k, way))
Sayings == [way : Ways, size : Nat]
Exchanges == Seq(Sayings)

LEMMA SaidIsNumber ==
    ASSUME NEW x \in Exchanges, NEW k \in 0 .. Len(x), NEW w
    PROVE  SaidBy(x, k, w) \in [1 .. k -> Nat] /\ Said(x, k, w) \in Nat
<1>1. k \in Nat /\ \A i \in 1 .. k : x[i] \in Sayings
    <2>1. Len(x) \in Nat /\ \A i \in 1 .. Len(x) : x[i] \in Sayings
        BY DEF Exchanges
    <2> QED
        BY <2>1
<1>2. SaidBy(x, k, w) \in [1 .. k -> Nat]
    <2>1. \A i \in 1 .. k : x[i].size \in Nat
        BY <1>1 DEF Sayings
    <2> QED
        BY <2>1 DEF SaidBy
<1>3. SaidBy(x, k, w) \in Seq(Nat)
    BY <1>1, <1>2
<1> QED
    BY <1>2, <1>3, SumIsNumber DEF Said

LEMMA SaidAdds ==
    ASSUME NEW x \in Exchanges, NEW k \in 1 .. Len(x), NEW w
    PROVE  Said(x, k, w) = Said(x, k - 1, w) + (IF x[k].way = w THEN x[k].size ELSE 0)
<1> DEFINE n == k - 1
           s == SaidBy(x, n, w)
           t == SaidBy(x, n + 1, w)
<1>1. n \in Nat /\ n \in 0 .. Len(x) /\ n + 1 \in 0 .. Len(x) /\ n + 1 = k
    BY DEF Exchanges
<1> HIDE DEF n
<1>2. s \in [1 .. n -> Nat] /\ t \in [1 .. n + 1 -> Nat]
    BY <1>1, SaidIsNumber
<1>3. s \in [1 .. n -> Int] /\ t \in [1 .. n + 1 -> Int]
    BY <1>2
<1>4. \A i \in 1 .. n : t[i] = s[i]
    BY <1>1 DEF SaidBy
<1>5. t[n + 1] = IF x[k].way = w THEN x[k].size ELSE 0
    BY <1>1 DEF SaidBy
<1> HIDE DEF s, t
<1>6. SumOf(t) = SumOf(s) + t[n + 1]
    BY <1>1, <1>3, <1>4, SumOfMore
<1> QED
    BY <1>1, <1>5, <1>6 DEF Said, s, t, n

LEMMA SaidNothing ==
    ASSUME NEW x \in Exchanges, NEW w
    PROVE  Said(x, 0, w) = 0
<1>1. 0 \in 0 .. Len(x)
    BY DEF Exchanges
<1>2. SaidBy(x, 0, w) \in [1 .. 0 -> Nat]
    BY <1>1, SaidIsNumber
<1>3. SaidBy(x, 0, w) \in Seq(Int) /\ Len(SaidBy(x, 0, w)) = 0
    BY <1>2
<1> QED
    BY <1>3, SumOfNone DEF Said

-----------------------------------------------------------------------------
RowBytes(way) == IF way = "up" THEN session.up ELSE session.down
Owed(way) == Larger(RowBytes(way), Said(TcpExchange(session), Len(TcpExchange(session)), way))

\* What is sent at each stage: what the protocol has said, and at most what
\* the row asks for where that is more.
AtOpen(f) == Len(f.packets) = 0 /\ f.sent = [w \in Ways |-> 0]
AtTalk(f, t) ==
    LET x == TcpExchange(session)
    IN \E d \in 0 .. Len(x) : /\ t \in Seq(Sayings) /\ Len(t) = Len(x) - d
                              /\ \A i \in 1 .. Len(t) : t[i] = x[d + i]
                              /\ FullFile(f) \/ \A w \in Ways : f.sent[w] = Said(x, d, w)
AtFill(f) ==
    FullFile(f) \/ \A w \in Ways : /\ Said(TcpExchange(session), Len(TcpExchange(session)), w) <= f.sent[w]
                                   /\ f.sent[w] <= Owed(w)
AtDone(f) ==
    FullFile(f) \/ /\ \A w \in Ways : f.sent[w] = Owed(w)
                   /\ \A w \in Ways : Carries(f, w, {"FIN", "ACK"})
Staged(f, t, s) ==
    CASE s = "open" -> AtOpen(f)
      [] s = "talk" -> AtTalk(f, t)
      [] s = "fill" -> AtFill(f)
      [] OTHER -> s = "done" /\ AtDone(f)

CaptureInv ==
    /\ session \in Captures /\ MadeFlow(flow)
    /\ session.transport = "tcp" => Reassembles(flow) /\ Staged(flow, todo, stage)
    /\ session.transport # "tcp" => stage \in {"open", "done"}

LEMMA ExchangeFacts ==
    ASSUME session \in Captures, session.transport = "tcp"
    PROVE  TcpExchange(session) \in Exchanges /\ TcpExchange(session) \in Seq(Sayings) /\ Len(TcpExchange(session)) \in Nat
<1>1. \A c \in Captures : c.transport = "tcp" => TcpExchange(c) \in Seq([way : Ways, size : Nat])
    BY PacketAssumption, Zenon DEF PacketAssumption
<1>2. TcpExchange(session) \in Exchanges
    BY <1>1, Zenon DEF Exchanges, Sayings
<1>3. TcpExchange(session) \in Seq(Sayings)
    BY <1>2 DEF Exchanges
<1> QED
    BY <1>2, <1>3

\* Before the next thing is said, and after it.
LEMMA OneMoreSaid ==
    ASSUME session \in Captures, session.transport = "tcp", NEW f \in TcpFlows, NEW t, AtTalk(f, t), t # <<>>
    PROVE  /\ Head(t).way \in Ways /\ Head(t).size \in Nat
           /\ \A g \in TcpFlows : (FullFile(g) \/ (~ FullFile(f) /\ g.sent = Added(f, Head(t).way, Head(t).size)))
                                  => AtTalk(g, Tail(t))
<1> DEFINE x == TcpExchange(session)
<1>1. x \in Exchanges /\ x \in Seq(Sayings) /\ Len(x) \in Nat
    BY ExchangeFacts
<1>2. PICK d \in 0 .. Len(x) : /\ t \in Seq(Sayings) /\ Len(t) = Len(x) - d
                               /\ \A i \in 1 .. Len(t) : t[i] = x[d + i]
                               /\ FullFile(f) \/ \A w \in Ways : f.sent[w] = Said(x, d, w)
    BY DEF AtTalk
<1> HIDE DEF x
<1>3. /\ Len(t) \in Nat \ {0} /\ Head(t) = t[1] /\ t[1] \in Sayings
      /\ Tail(t) \in Seq(Sayings) /\ Len(Tail(t)) = Len(t) - 1
      /\ \A i \in 1 .. Len(Tail(t)) : Tail(t)[i] = t[i + 1]
    <2>1. t \in Seq(Sayings) /\ t # <<>>
        BY <1>2
    <2> QED
        BY <2>1
<1>4. d + 1 \in 1 .. Len(x) /\ t[1] = x[d + 1]
    BY <1>1, <1>2, <1>3
<1>5. \A i \in 1 .. Len(Tail(t)) : Tail(t)[i] = x[(d + 1) + i]
    <2> TAKE i \in 1 .. Len(Tail(t))
    <2>1. i + 1 \in 1 .. Len(t) /\ d + (i + 1) = (d + 1) + i
        BY <1>1, <1>2, <1>3
    <2> QED
        BY <1>2, <1>3, <2>1
<1>6. Head(t).way \in Ways /\ Head(t).size \in Nat
    BY <1>3 DEF Sayings
<1>7. ASSUME NEW g \in TcpFlows, ~ FullFile(f), g.sent = Added(f, Head(t).way, Head(t).size), NEW w \in Ways
      PROVE  g.sent[w] = Said(x, d + 1, w)
    <2>1. f.sent[w] = Said(x, d, w) /\ f.sent \in [Ways -> Nat]
        BY <1>2, <1>7 DEF TcpFlows, FlowSet
    <2>2. Said(x, d + 1, w) = Said(x, d, w) + (IF x[d + 1].way = w THEN x[d + 1].size ELSE 0)
        <3>1. (d + 1) - 1 = d
            BY <1>1
        <3> QED
            BY <1>1, <1>4, <3>1, SaidAdds
    <2>3. Head(t) = x[d + 1]
        BY <1>3, <1>4
    <2> QED
        BY <1>6, <1>7, <2>1, <2>2, <2>3 DEF Added
<1>8. ASSUME NEW g \in TcpFlows, FullFile(g) \/ (~ FullFile(f) /\ g.sent = Added(f, Head(t).way, Head(t).size))
      PROVE  AtTalk(g, Tail(t))
    <2>1. d + 1 \in 0 .. Len(x) /\ Len(Tail(t)) = Len(x) - (d + 1)
        BY <1>1, <1>2, <1>3, <1>4
    <2>2. FullFile(g) \/ \A w \in Ways : g.sent[w] = Said(x, d + 1, w)
        BY <1>7, <1>8
    <2> QED
        BY <1>3, <1>5, <2>1, <2>2 DEF AtTalk, x
<1> QED
    BY <1>6, <1>8

LEMMA SameSession ==
    ASSUME session' = session
    PROVE  StepMicros' = StepMicros /\ \A w : RowBytes(w)' = RowBytes(w) /\ Owed(w)' = Owed(w)
<1>1. SpanMicros' = SpanMicros
    BY DEF SpanMicros
<1>2. StepMicros' = StepMicros
    BY <1>1 DEF StepMicros
<1>3. \A w : RowBytes(w)' = RowBytes(w)
    BY DEF RowBytes
<1>4. \A w : Owed(w)' = Owed(w)
    BY <1>3 DEF Owed
<1> QED
    BY <1>2, <1>3, <1>4

\* The next state's invariant, of what the step leaves.
LEMMA CaptureNow ==
    ASSUME session' = session, session \in Captures, MadeFlow(flow'),
           session.transport = "tcp" => Reassembles(flow') /\ Staged(flow', todo', stage'),
           session.transport # "tcp" => stage' \in {"open", "done"}
    PROVE  CaptureInv'
<1>1. MadeFlow(flow)'
    BY SameSession DEF MadeFlow, StampedFlow
<1>2. session.transport = "tcp" => Reassembles(flow)'
    BY DEF Reassembles, FollowsOn
<1>3. session.transport = "tcp" => Staged(flow, todo, stage)'
    BY SameSession DEF Staged, AtOpen, AtTalk, AtFill, AtDone
<1> QED
    BY <1>1, <1>2, <1>3 DEF CaptureInv

LEMMA CaptureStarts == PacketInit => CaptureInv
<1> SUFFICES ASSUME PacketInit PROVE CaptureInv
    OBVIOUS
<1>1. /\ session \in Captures
      /\ flow = [packets |-> <<>>, seq |-> session.first, sent |-> [w \in Ways |-> 0], clock |-> session.start * Micros]
      /\ stage = "open"
    BY DEF PacketInit
<1>2. session.start \in Nat /\ session.first \in [Ways -> 0 .. SeqRange - 1] /\ Micros \in Nat /\ StepMicros \in Nat
      /\ MaxPackets \in Nat
    <2>1. MaxPackets \in Nat
        BY PacketAssumption DEF PacketAssumption
    <2> QED
        BY <1>1, <2>1, SessionFacts, StepsForward
<1>3. session.start * Micros \in Int /\ 0 * StepMicros = 0
    BY <1>2
<1>4. /\ flow.packets = <<>> /\ flow.seq = session.first /\ flow.sent = [w \in Ways |-> 0]
      /\ flow.clock = session.start * Micros /\ Len(flow.packets) = 0 /\ flow.packets \in Seq(PacketSet)
    BY <1>1
<1>5. flow \in FlowSet
    BY <1>1, <1>2, <1>3 DEF FlowSet
<1>6. MadeFlow(flow)
    BY <1>2, <1>3, <1>4, <1>5 DEF MadeFlow, StampedFlow
<1>7. Reassembles(flow)
    <2>1. ASSUME NEW w \in Ways PROVE flow.seq[w] = (session.first[w] + Carried(flow, Len(flow.packets), w)) % SeqRange
        <3>1. Carried(flow, 0, w) = 0
            <4>1. 0 \in 0 .. Len(flow.packets)
                BY <1>4
            <4>2. CarriedBy(flow, 0, w) \in [1 .. 0 -> Nat]
                BY <1>5, <4>1, CarriedIsNumber
            <4>3. CarriedBy(flow, 0, w) \in Seq(Int) /\ Len(CarriedBy(flow, 0, w)) = 0
                BY <4>2
            <4> QED
                BY <4>3, SumOfNone DEF Carried
        <3>2. SeqRange \in Nat \ {0}
            BY PacketAssumption DEF PacketAssumption
        <3>3. session.first[w] \in 0 .. SeqRange - 1
            BY <1>2
        <3>4. \A m \in Nat \ {0} : \A r \in 0 .. m - 1 : (r + 0) % m = r
            OBVIOUS
        <3> QED
            BY <1>4, <3>1, <3>2, <3>3, <3>4
    <2>2. \A k \in 1 .. Len(flow.packets) : FollowsOn(flow, k, flow.packets[k])
        BY <1>4
    <2> QED
        BY <2>1, <2>2 DEF Reassembles
<1>8. Staged(flow, todo, stage)
    BY <1>1, <1>4 DEF Staged, AtOpen
<1> QED
    BY <1>1, <1>6, <1>7, <1>8 DEF CaptureInv

LEMMA OpenTcpKeeps ==
    ASSUME CaptureInv, OpenTcp
    PROVE  CaptureInv'
<1> DEFINE g == Three(flow, {"SYN"}, {"SYN", "ACK"}, {"ACK"})
           x == TcpExchange(session)
<1>1. /\ session \in Captures /\ session.transport = "tcp" /\ session' = session /\ stage = "open"
      /\ flow' = g /\ todo' = x /\ stage' = IF MaxPackets < 3 THEN "done" ELSE "talk"
    BY DEF CaptureInv, OpenTcp, Three
<1>2. flow \in TcpFlows /\ AtOpen(flow)
    BY <1>1 DEF CaptureInv, TcpFlows, MadeFlow, Staged
<1>3. g \in TcpFlows /\ (FullFile(g) \/ (g.sent = flow.sent /\ Len(g.packets) = Len(flow.packets) + 3))
    <2>1. {"SYN"} \in SUBSET FlagNames /\ {"SYN", "ACK"} \in SUBSET FlagNames /\ {"ACK"} \in SUBSET FlagNames
        BY DEF FlagNames
    <2> QED
        BY <1>1, <1>2, <2>1, ThreeFollow
<1> HIDE DEF g
<1>4. x \in Exchanges /\ x \in Seq(Sayings) /\ Len(x) \in Nat
    BY <1>1, ExchangeFacts
<1> HIDE DEF x
<1>5. CASE MaxPackets < 3
    <2>1. FullFile(g)
        <3>1. MaxPackets \in Nat
            BY PacketAssumption DEF PacketAssumption
        <3>2. Len(flow.packets) = 0
            BY <1>2 DEF AtOpen
        <3>3. FullFile(g) \/ Len(g.packets) = 3
            <4>1. FullFile(g) \/ Len(g.packets) = Len(flow.packets) + 3
                BY <1>3
            <4> QED
                BY <3>2, <4>1
        <3>4. Len(g.packets) = 3 => Len(g.packets) >= MaxPackets
            BY <1>5, <3>1
        <3> QED
            BY <3>3, <3>4 DEF FullFile
    <2> QED
        BY <1>1, <1>3, <1>5, <2>1, CaptureNow DEF TcpFlows, Staged, AtDone
<1>6. CASE ~ (MaxPackets < 3)
    <2>1. ASSUME ~ FullFile(g), NEW w \in Ways PROVE g.sent[w] = Said(x, 0, w)
        BY <1>2, <1>3, <1>4, <2>1, SaidNothing DEF AtOpen
    <2>2. AtTalk(g, x)
        <3>1. 0 \in 0 .. Len(x) /\ Len(x) = Len(x) - 0 /\ \A i \in 1 .. Len(x) : x[i] = x[0 + i]
            BY <1>4
        <3> QED
            BY <1>4, <2>1, <3>1 DEF AtTalk, x
    <2> QED
        BY <1>1, <1>3, <1>6, <2>2, CaptureNow DEF TcpFlows, Staged
<1> QED
    BY <1>5, <1>6

LEMMA ExchangeUdpKeeps ==
    ASSUME CaptureInv, ExchangeUdp
    PROVE  CaptureInv'
<1> DEFINE says == UdpExchange(session)
<1>1. /\ session \in Captures /\ session.transport = "udp" /\ session' = session /\ stage' = "done" /\ MadeFlow(flow)
      /\ flow' = Datagram(Datagram(flow, says[1].way, says[1].size), says[2].way, says[2].size)
    BY DEF CaptureInv, ExchangeUdp
<1>2. \A c \in Captures : c.transport = "udp" => UdpExchange(c) \in [1 .. 2 -> [way : Ways, size : Nat]]
    BY PacketAssumption, Zenon DEF PacketAssumption
<1>3. says \in [1 .. 2 -> [way : Ways, size : Nat]]
    BY <1>1, <1>2, Zenon
<1> HIDE DEF says
<1>4. says[1] \in [way : Ways, size : Nat] /\ says[2] \in [way : Ways, size : Nat]
    BY <1>3
<1>5. says[1].way \in Ways /\ says[1].size \in Nat /\ says[2].way \in Ways /\ says[2].size \in Nat
    BY <1>4
<1>6. MadeFlow(flow')
    <2> DEFINE d == Datagram(flow, says[1].way, says[1].size)
    <2>1. MadeFlow(d)
        BY <1>1, <1>5, DatagramStamped
    <2> HIDE DEF d
    <2>2. MadeFlow(Datagram(d, says[2].way, says[2].size))
        BY <1>1, <1>5, <2>1, DatagramStamped
    <2> QED
        BY <1>1, <2>2 DEF d
<1> QED
    BY <1>1, <1>6, CaptureNow

LEMMA TalkKeeps ==
    ASSUME CaptureInv, Talk
    PROVE  CaptureInv'
<1>1. /\ session \in Captures /\ session' = session /\ stage = "talk" /\ stage' = "talk" /\ todo # <<>>
      /\ flow' = SentMessage(flow, Head(todo).way, Head(todo).size) /\ todo' = Tail(todo)
    BY DEF CaptureInv, Talk
<1>2. session.transport = "tcp" /\ flow \in TcpFlows /\ AtTalk(flow, todo)
    BY <1>1 DEF CaptureInv, TcpFlows, MadeFlow, Staged
<1>3. Head(todo).way \in Ways /\ Head(todo).size \in Nat
    BY <1>1, <1>2, OneMoreSaid
<1> DEFINE g == SentMessage(flow, Head(todo).way, Head(todo).size)
<1>4. g \in TcpFlows /\ (FullFile(g) \/ (~ FullFile(flow) /\ g.sent = Added(flow, Head(todo).way, Head(todo).size)))
    BY <1>1, <1>2, <1>3, MessageDelivered DEF Delivered
<1> HIDE DEF g
<1>5. AtTalk(g, Tail(todo))
    BY <1>1, <1>2, <1>4, OneMoreSaid
<1>6. flow' = g
    BY <1>1 DEF g
<1> QED
    BY <1>1, <1>2, <1>4, <1>5, <1>6, CaptureNow DEF TcpFlows, Staged

LEMMA EndTalkKeeps ==
    ASSUME CaptureInv, EndTalk
    PROVE  CaptureInv'
<1> DEFINE x == TcpExchange(session)
<1>1. /\ session \in Captures /\ session' = session /\ stage = "talk" /\ stage' = "fill" /\ todo = <<>>
      /\ flow' = flow /\ todo' = todo
    BY DEF CaptureInv, EndTalk
<1>2. session.transport = "tcp" /\ flow \in TcpFlows /\ AtTalk(flow, todo)
    BY <1>1 DEF CaptureInv, TcpFlows, MadeFlow, Staged
<1>3. x \in Exchanges /\ Len(x) \in Nat
    BY <1>1, <1>2, ExchangeFacts
<1>4. ASSUME ~ FullFile(flow), NEW w \in Ways PROVE Said(x, Len(x), w) <= flow.sent[w] /\ flow.sent[w] <= Owed(w)
    <2>1. PICK d \in 0 .. Len(x) : Len(todo) = Len(x) - d /\ \A v \in Ways : flow.sent[v] = Said(x, d, v)
        BY <1>2, <1>4 DEF AtTalk
    <2>2. d = Len(x)
        BY <1>1, <1>3, <2>1
    <2>3. flow.sent[w] = Said(x, Len(x), w)
        BY <2>1, <2>2
    <2> HIDE DEF x
    <2>4. Said(x, Len(x), w) \in Nat
        BY <1>3, SaidIsNumber
    <2>5. RowBytes(w) \in Nat
        BY <1>1, SessionFacts DEF RowBytes
    <2> QED
        BY <2>3, <2>4, <2>5 DEF Owed, Larger, x
<1>5. AtFill(flow)
    BY <1>4 DEF AtFill
<1> QED
    BY <1>1, <1>2, <1>5, CaptureNow DEF TcpFlows, Staged

\* What a side lacks of what it owes.
LEMMA LacksIs ==
    ASSUME session \in Captures, session.transport = "tcp", flow \in TcpFlows, NEW w \in Ways
    PROVE  /\ Lacks(w) = Larger(0, RowBytes(w) - flow.sent[w]) /\ RowBytes(w) \in Nat /\ flow.sent[w] \in Nat
           /\ Said(TcpExchange(session), Len(TcpExchange(session)), w) \in Nat
<1>1. flow.sent[w] \in Nat
    BY DEF TcpFlows, FlowSet
<1>2. RowBytes(w) \in Nat
    BY SessionFacts DEF RowBytes
<1>3. Said(TcpExchange(session), Len(TcpExchange(session)), w) \in Nat
    <2> DEFINE x == TcpExchange(session)
    <2>1. x \in Exchanges /\ Len(x) \in 0 .. Len(x)
        BY ExchangeFacts
    <2> HIDE DEF x
    <2>2. Said(x, Len(x), w) \in Nat
        BY <2>1, SaidIsNumber
    <2> QED
        BY <2>2 DEF x
<1> QED
    BY <1>1, <1>2, <1>3 DEF Lacks, RowBytes

LEMMA FillKeeps ==
    ASSUME CaptureInv, Fill
    PROVE  CaptureInv'
<1> DEFINE way == IF Lacks("up") >= Lacks("down") THEN "up" ELSE "down"
           size == IF Lacks(way) > Mss THEN Mss ELSE Lacks(way)
           g == WithAck(flow, way, {"PSH", "ACK"}, size)
           said(w) == Said(TcpExchange(session), Len(TcpExchange(session)), w)
<1>1. /\ session \in Captures /\ session' = session /\ stage = "fill" /\ stage' = "fill" /\ ~ FullFile(flow)
      /\ flow' = g /\ todo' = todo /\ \E w \in Ways : Lacks(w) > 0
    BY DEF CaptureInv, Fill, WithAck
<1>2. session.transport = "tcp" /\ flow \in TcpFlows /\ AtFill(flow)
    BY <1>1 DEF CaptureInv, TcpFlows, MadeFlow, Staged
<1>3. \A w \in Ways : /\ Lacks(w) = Larger(0, RowBytes(w) - flow.sent[w]) /\ RowBytes(w) \in Nat /\ flow.sent[w] \in Nat
                      /\ said(w) \in Nat /\ Owed(w) = Larger(RowBytes(w), said(w))
                      /\ said(w) <= flow.sent[w] /\ flow.sent[w] <= Owed(w)
    BY <1>1, <1>2, LacksIs DEF AtFill, Owed
<1>4. way \in Ways /\ Lacks(way) > 0
    <2>1. "up" \in Ways /\ "down" \in Ways /\ \A w \in Ways : w = "up" \/ w = "down"
        BY DEF Ways
    <2>2. Lacks("up") \in Nat /\ Lacks("down") \in Nat
        BY <1>3, <2>1 DEF Larger
    <2> QED
        BY <1>1, <2>1, <2>2
<1> HIDE DEF way, said
<1>5. size \in Nat /\ flow.sent[way] + size <= RowBytes(way)
    <2>1. Mss \in Nat
        BY PacketAssumption DEF PacketAssumption
    <2>2. Lacks(way) = RowBytes(way) - flow.sent[way] /\ RowBytes(way) \in Nat /\ flow.sent[way] \in Nat
        BY <1>3, <1>4 DEF Larger
    <2> QED
        BY <1>4, <2>1, <2>2
<1> HIDE DEF size
<1>6. g \in TcpFlows /\ Delivered(flow, g, way, size)
    <2>1. {"PSH", "ACK"} \in SUBSET FlagNames
        BY DEF FlagNames
    <2> QED
        BY <1>1, <1>2, <1>4, <1>5, <2>1, SegmentDelivered
<1> HIDE DEF g
<1>7. ASSUME ~ FullFile(g), NEW w \in Ways PROVE said(w) <= g.sent[w] /\ g.sent[w] <= Owed(w)
    <2>1. g.sent = [flow.sent EXCEPT ![way] = @ + size] /\ flow.sent \in [Ways -> Nat]
        BY <1>2, <1>6, <1>7 DEF Delivered, Added, TcpFlows, FlowSet
    <2>2. CASE w = way
        <3>1. g.sent[w] = flow.sent[w] + size
            BY <2>1, <2>2
        <3>2. Owed(w) \in Nat /\ RowBytes(w) <= Owed(w)
            BY <1>3 DEF Larger
        <3> QED
            BY <1>3, <1>5, <2>2, <3>1, <3>2
    <2>3. CASE w # way
        <3>1. g.sent[w] = flow.sent[w]
            BY <2>1, <2>3
        <3> QED
            BY <1>3, <3>1
    <2> QED
        BY <2>2, <2>3
<1>8. AtFill(g)
    BY <1>7 DEF AtFill, said
<1> QED
    BY <1>1, <1>2, <1>6, <1>8, CaptureNow DEF TcpFlows, Staged

LEMMA FinalizeKeeps ==
    ASSUME CaptureInv, Finalize
    PROVE  CaptureInv'
<1> DEFINE g == Three(flow, {"FIN", "ACK"}, {"FIN", "ACK"}, {"ACK"})
           said(w) == Said(TcpExchange(session), Len(TcpExchange(session)), w)
<1>1. /\ session \in Captures /\ session' = session /\ stage = "fill" /\ stage' = "done"
      /\ flow' = g /\ todo' = todo /\ (FullFile(flow) \/ \A w \in Ways : Lacks(w) = 0)
    BY DEF CaptureInv, Finalize, Three
<1>2. session.transport = "tcp" /\ flow \in TcpFlows /\ AtFill(flow)
    BY <1>1 DEF CaptureInv, TcpFlows, MadeFlow, Staged
<1>3. /\ g \in TcpFlows
      /\ \/ FullFile(g)
         \/ /\ ~ FullFile(flow) /\ g.sent = flow.sent
            /\ Carries(g, "up", {"FIN", "ACK"}) /\ Carries(g, "down", {"FIN", "ACK"})
    <2>1. {"FIN", "ACK"} \in SUBSET FlagNames /\ {"ACK"} \in SUBSET FlagNames
        BY DEF FlagNames
    <2> QED
        BY <1>1, <1>2, <2>1, ThreeFollow
<1> HIDE DEF g
<1>4. ASSUME ~ FullFile(g), NEW w \in Ways PROVE g.sent[w] = Owed(w)
    <2>1. Lacks(w) = 0 /\ g.sent = flow.sent /\ said(w) <= flow.sent[w] /\ flow.sent[w] <= Owed(w)
        BY <1>1, <1>2, <1>3, <1>4 DEF AtFill
    <2>2. /\ Lacks(w) = Larger(0, RowBytes(w) - flow.sent[w]) /\ RowBytes(w) \in Nat /\ flow.sent[w] \in Nat
          /\ said(w) \in Nat /\ Owed(w) = Larger(RowBytes(w), said(w))
        BY <1>1, <1>2, LacksIs DEF Owed
    <2> HIDE DEF said
    <2> QED
        BY <2>1, <2>2 DEF Larger
<1>5. AtDone(g)
    BY <1>3, <1>4 DEF AtDone, Ways
<1> QED
    BY <1>1, <1>2, <1>3, <1>5, CaptureNow DEF TcpFlows, Staged

-----------------------------------------------------------------------------
\* The carry is brought round in two turns, of words of any width.
FoldedBy(a, w) == LET once == (a % w) + (a \div w) IN (once % w) + (once \div w)

LEMMA DividesAs ==
    ASSUME NEW w \in Nat \ {0}, NEW q \in Int, NEW r \in 0 .. w - 1
    PROVE  (w * q + r) % w = r /\ (w * q + r) \div w = q
    OBVIOUS

Splits(a, w, q, r) == a = w * q + r /\ q \in Nat /\ r \in 0 .. w - 1
FoldsTo(a, w, q, r) ==
    /\ q + r < w => FoldedBy(a, w) = q + r
    /\ q + r >= w /\ q < w => FoldedBy(a, w) = q + r - (w - 1)
LEMMA FoldedAs ==
    ASSUME NEW w \in Nat \ {0}, NEW a, NEW q, NEW r, Splits(a, w, q, r)
    PROVE  FoldsTo(a, w, q, r)
<1>0. a = w * q + r /\ q \in Nat /\ r \in 0 .. w - 1
    BY DEF Splits
<1>1. a % w = r /\ a \div w = q
    <2>1. (w * q + r) % w = r /\ (w * q + r) \div w = q
        BY <1>0, DividesAs
    <2> QED
        BY <1>0, <2>1
<1> DEFINE once == r + q
<1>2. FoldedBy(a, w) = (once % w) + (once \div w)
    BY <1>1 DEF FoldedBy
<1>3. CASE once < w
    <2>1. once = w * 0 + once /\ once \in 0 .. w - 1 /\ 0 \in Int
        BY <1>0, <1>3
    <2> HIDE DEF once
    <2>2. once % w = once /\ once \div w = 0
        <3>1. (w * 0 + once) % w = once /\ (w * 0 + once) \div w = 0
            BY <2>1, DividesAs
        <3> QED
            BY <2>1, <3>1
    <2>3. FoldedBy(a, w) = once
        BY <1>2, <2>1, <2>2
    <2> QED
        BY <1>0, <1>3, <2>3 DEF once, FoldsTo
<1>4. CASE once >= w /\ q < w
    <2> DEFINE rest == once - w
    <2>1. once = w * 1 + rest /\ rest \in 0 .. w - 1 /\ 1 \in Int /\ rest \in Int
        BY <1>0, <1>4
    <2> HIDE DEF once, rest
    <2>2. once % w = rest /\ once \div w = 1
        <3>1. (w * 1 + rest) % w = rest /\ (w * 1 + rest) \div w = 1
            BY <2>1, DividesAs
        <3> QED
            BY <2>1, <3>1
    <2>3. FoldedBy(a, w) = rest + 1
        BY <1>2, <2>2
    <2> QED
        BY <1>0, <1>4, <2>1, <2>3 DEF once, rest, FoldsTo
<1>5. CASE once >= w /\ ~ (q < w)
    BY <1>0, <1>5 DEF FoldsTo
<1> QED
    BY <1>0, <1>3, <1>4, <1>5

LEMMA ComplementFolds ==
    ASSUME NEW w \in Nat, w >= 2, NEW total \in Nat, total \div w <= w - 1
    PROVE  LET sum == (w - 1) - FoldedBy(total, w) IN sum \in Int /\ FoldedBy(total + sum, w) = w - 1
<1> DEFINE h == total \div w
           l == total % w
           sum == (w - 1) - FoldedBy(total, w)
<1>1. total = w * h + l /\ h \in Nat /\ h <= w - 1 /\ l \in 0 .. w - 1 /\ w \in Nat \ {0} /\ w * h \in Nat
    <2>1. \A a \in Nat, m \in Nat \ {0} : /\ a \div m \in Nat /\ a % m \in 0 .. m - 1
                                        /\ a = m * (a \div m) + (a % m) /\ m * (a \div m) \in Nat
        OBVIOUS
    <2>2. w \in Nat \ {0}
        OBVIOUS
    <2>3. /\ total \div w \in Nat /\ total % w \in 0 .. w - 1
          /\ total = w * (total \div w) + (total % w) /\ w * (total \div w) \in Nat
        BY <2>1, <2>2
    <2> QED
        BY <2>2, <2>3
<1> HIDE DEF h, l
<1>7. FoldsTo(total, w, h, l)
    <2>1. Splits(total, w, h, l)
        BY <1>1 DEF Splits
    <2> QED
        BY <1>1, <2>1, FoldedAs
<1>2. h + l < w => FoldedBy(total, w) = h + l
    BY <1>7 DEF FoldsTo
<1>3. h + l >= w => FoldedBy(total, w) = h + l - (w - 1)
    <2>1. h < w
        BY <1>1
    <2> QED
        BY <1>7, <2>1 DEF FoldsTo
<1>4. CASE h + l < w
    <2>1. sum = (w - 1) - (h + l)
        BY <1>2, <1>4
    <2> HIDE DEF sum
    <2>2. sum \in Int /\ total + sum = w * h + (w - 1 - h) /\ w - 1 - h \in 0 .. w - 1 /\ h + (w - 1 - h) = w - 1
        BY <1>1, <2>1
    <2>3. FoldedBy(total + sum, w) = w - 1
        <3> DEFINE r == w - 1 - h
                   a == total + sum
        <3>1. r \in 0 .. w - 1 /\ a = w * h + r /\ h + r = w - 1 /\ h + r < w
            BY <1>1, <2>2
        <3> HIDE DEF r, a
        <3>2. FoldsTo(a, w, h, r)
            <4>1. Splits(a, w, h, r)
                BY <1>1, <3>1 DEF Splits
            <4> QED
                BY <1>1, <4>1, FoldedAs
        <3>3. FoldedBy(a, w) = h + r
            BY <3>1, <3>2 DEF FoldsTo
        <3> QED
            BY <3>1, <3>3 DEF a
    <2> QED
        BY <2>2, <2>3 DEF sum
<1>5. CASE h + l >= w /\ h < w - 1
    <2>1. sum = (w - 1) - (h + l - (w - 1))
        BY <1>3, <1>5
    <2> HIDE DEF sum
    <2> DEFINE q == h + 1
               r == w - 2 - h
               a == total + sum
    <2>2. sum \in Int /\ a = w * h + w + r /\ r \in 0 .. w - 1 /\ q \in Nat /\ q + r = w - 1 /\ q + r < w
        BY <1>1, <1>5, <2>1
    <2>3. w * q = w * h + w
        BY <1>1
    <2> HIDE DEF q, r, a
    <2>4. a = w * q + r
        BY <2>2, <2>3
    <2>5. FoldedBy(a, w) = q + r
        <3>1. Splits(a, w, q, r)
            BY <2>2, <2>4 DEF Splits
        <3>2. FoldsTo(a, w, q, r)
            BY <1>1, <3>1, FoldedAs
        <3> QED
            BY <2>2, <3>2 DEF FoldsTo
    <2> QED
        BY <2>2, <2>5 DEF a, sum
<1>6. CASE h + l >= w /\ h = w - 1
    <2>1. sum = (w - 1) - (h + l - (w - 1))
        BY <1>3, <1>6
    <2> HIDE DEF sum
    <2> DEFINE r == w - 1
               a == total + sum
    <2>2. sum \in Int /\ a = w * h + r /\ r \in 0 .. w - 1 /\ h + r >= w /\ h < w /\ h + r - (w - 1) = w - 1
        BY <1>1, <1>6, <2>1
    <2> HIDE DEF r, a
    <2>3. FoldedBy(a, w) = h + r - (w - 1)
        <3>1. Splits(a, w, h, r)
            BY <1>1, <2>2 DEF Splits
        <3>2. FoldsTo(a, w, h, r)
            BY <1>1, <3>1, FoldedAs
        <3> QED
            BY <2>2, <3>2 DEF FoldsTo
    <2> QED
        BY <2>2, <2>3 DEF a, sum
<1> QED
    BY <1>1, <1>4, <1>5, <1>6

\* The padding of an offer, and the checksum of what carries its own.
Word == 65536
LEMMA SumsOnWire == WireSums
<1>1. \A n \in 0 .. 24 : KexPadding(n) \in 4 .. 11 /\ (5 + n + KexPadding(n)) % 8 = 0
    BY DEF KexPadding
<1>2. Word \in Nat /\ Word >= 2
    BY SMT DEF Word
<1>3. \A a : Folded(a) = FoldedBy(a, Word)
    BY SMT DEF Folded, FoldedBy, Word
<1>4. \A words : Checksum(words) = (Word - 1) - Folded(SumOf(words))
    BY SMT DEF Checksum, Word
<1>5. \A words \in ByteSums : words \in Seq(0 .. Word - 1) /\ SumOf(words) \div Word <= Word - 1
    <2>1. \A words \in ByteSums : Summable(words)
        BY PacketAssumption, Zenon DEF PacketAssumption
    <2>2. Word - 1 = 65535 /\ Word = 65536
        BY SMT DEF Word
    <2>3. \A words : Summable(words) => words \in Seq(0 .. Word - 1) /\ SumOf(words) \div Word <= Word - 1
        BY <2>2, SMT DEF Summable
    <2> QED
        BY <2>1, <2>3
<1>6. ASSUME NEW words \in ByteSums PROVE Checksum(Append(words, Checksum(words))) = 0
    <2> DEFINE total == SumOf(words)
               sum == Checksum(words)
               words16 == 0 .. Word - 1
    <2>1. words \in Seq(words16)
        BY <1>5
    <2>2. words16 \subseteq Nat
        BY <1>2
    <2> HIDE DEF words16
    <2>3. words \in Seq(Nat) /\ words \in Seq(Int)
        <3>1. Len(words) \in Nat /\ words \in [1 .. Len(words) -> words16]
            BY <2>1
        <3>2. words \in [1 .. Len(words) -> Nat] /\ words \in [1 .. Len(words) -> Int]
            <4>1. \A k \in 1 .. Len(words) : words[k] \in Nat
                BY <2>2, <3>1
            <4>2. words = [k \in 1 .. Len(words) |-> words[k]]
                BY <3>1
            <4> DEFINE f == [k \in 1 .. Len(words) |-> words[k]]
            <4>3. f \in [1 .. Len(words) -> Nat] /\ f \in [1 .. Len(words) -> Int]
                BY <4>1
            <4> QED
                BY <4>2, <4>3
        <3> QED
            BY <3>1, <3>2
    <2>4. total \in Nat
        BY <2>3, SumIsNumber
    <2>5. sum = (Word - 1) - FoldedBy(total, Word)
        BY <1>3, <1>4
    <2>6. total \div Word <= Word - 1
        BY <1>5
    <2> HIDE DEF total, sum
    <2>7. sum \in Int /\ FoldedBy(total + sum, Word) = Word - 1
        BY <1>2, <2>4, <2>5, <2>6, ComplementFolds
    <2>8. SumOf(Append(words, sum)) = total + sum
        <3> DEFINE n == Len(words)
                   t == Append(words, sum)
        <3>1. /\ n \in Nat /\ words \in [1 .. n -> Int] /\ t \in [1 .. n + 1 -> Int]
              /\ \A k \in 1 .. n : t[k] = words[k] /\ t[n + 1] = sum
            <4>1. t \in Seq(Int) /\ Len(t) = n + 1 /\ (\A k \in 1 .. n : t[k] = words[k]) /\ t[n + 1] = sum
                BY <2>3, <2>7, AppendProperties
            <4> HIDE DEF t
            <4> QED
                BY <2>3, <4>1
        <3> HIDE DEF n, t
        <3>2. SumOf(t) = SumOf(words) + t[n + 1]
            BY <3>1, SumOfMore
        <3> QED
            BY <3>1, <3>2 DEF t, total
    <2>9. Checksum(Append(words, sum)) = (Word - 1) - FoldedBy(total + sum, Word)
        BY <1>3, <1>4, <2>8
    <2> QED
        BY <1>2, <2>7, <2>9 DEF sum
<1> QED
    BY <1>1, <1>6 DEF WireSums

LEMMA StreamFollows ==
    ASSUME CaptureInv
    PROVE  StreamHolds
<1> SUFFICES ASSUME session.transport = "tcp", NEW k \in DOMAIN Frames
             PROVE  /\ Frames[k].seq = (session.first[Frames[k].way] + Upto(k - 1, Frames[k].way)) % SeqRange
                    /\ "ACK" \in Frames[k].flags =>
                         Frames[k].ack = (session.first[Back(Frames[k].way)] + Upto(k - 1, Back(Frames[k].way))) % SeqRange
    BY DEF StreamHolds
<1>1. flow.packets \in Seq(PacketSet) /\ Reassembles(flow)
    BY DEF CaptureInv, MadeFlow, FlowSet
<1>2. k \in 1 .. Len(flow.packets)
    BY <1>1 DEF Frames
<1>3. FollowsOn(flow, k, flow.packets[k])
    BY <1>1, <1>2 DEF Reassembles
<1>4. \A w : Upto(k - 1, w) = Carried(flow, k - 1, w)
    BY DEF Upto, Carried, CarriedBy, Frames
<1> QED
    BY <1>3, <1>4 DEF FollowsOn, Frames

LEMMA FileIsComplete ==
    ASSUME CaptureInv
    PROVE  FileComplete
<1>1. session \in Captures /\ flow \in FlowSet /\ Len(Frames) <= MaxPackets
    BY DEF CaptureInv, MadeFlow, StampedFlow, Frames
<1>2. ASSUME stage = "done", session.transport = "tcp", ~ FullFile(flow)
      PROVE  /\ \A w \in Ways :
                   flow.sent[w] = Larger(IF w = "up" THEN session.up ELSE session.down,
                                         SumOf([i \in DOMAIN TcpExchange(session) |->
                                                   IF TcpExchange(session)[i].way = w
                                                   THEN TcpExchange(session)[i].size ELSE 0]))
             /\ \A w \in Ways : \E p \in Range(Frames) : p.way = w /\ "FIN" \in p.flags
    <2>1. AtDone(flow)
        BY <1>2 DEF CaptureInv, Staged
    <2>2. \A w \in Ways : flow.sent[w] = Owed(w) /\ Carries(flow, w, {"FIN", "ACK"})
        BY <1>2, <2>1 DEF AtDone
    <2>3. DOMAIN TcpExchange(session) = 1 .. Len(TcpExchange(session))
        BY <1>1, <1>2, ExchangeFacts
    <2>4. ASSUME NEW w \in Ways PROVE \E p \in Range(Frames) : p.way = w /\ "FIN" \in p.flags
        <3>1. PICK k \in 1 .. Len(flow.packets) : flow.packets[k].way = w /\ flow.packets[k].flags = {"FIN", "ACK"}
            BY <2>2 DEF Carries
        <3>2. k \in DOMAIN Frames
            BY <1>1, <3>1 DEF FlowSet, Frames
        <3>3. Frames[k] \in Range(Frames)
            BY <3>2 DEF Range
        <3> QED
            BY <3>1, <3>3 DEF Frames
    <2>5. \A w \in Ways : flow.sent[w] = Larger(IF w = "up" THEN session.up ELSE session.down,
                                         SumOf([i \in DOMAIN TcpExchange(session) |->
                                                   IF TcpExchange(session)[i].way = w
                                                   THEN TcpExchange(session)[i].size ELSE 0]))
        BY <2>2, <2>3 DEF Owed, RowBytes, Said, SaidBy
    <2> QED
        BY <2>4, <2>5
<1> QED
    BY <1>1, <1>2 DEF FileComplete

LEMMA StampsAreWithin ==
    ASSUME CaptureInv
    PROVE  StampsWithin
<1> SUFFICES ASSUME NEW k \in DOMAIN Frames
             PROVE  /\ k > 1 => Frames[k - 1].at < Frames[k].at
                    /\ Frames[k].at >= session.start * Micros
                    /\ Frames[k].at <= session.start * Micros + SpanMicros
    BY DEF StampsWithin
<1>1. session \in Captures /\ flow.packets \in Seq(PacketSet) /\ StampedFlow(flow)
    BY DEF CaptureInv, MadeFlow, FlowSet
<1>2. k \in 1 .. Len(flow.packets) /\ Len(flow.packets) \in Nat
    BY <1>1 DEF Frames
<1>3. /\ SpanMicros \in Nat /\ StepMicros \in Nat \ {0} /\ session.start \in Nat /\ Micros \in Nat
      /\ \A n \in 0 .. MaxPackets : n * StepMicros <= SpanMicros
    BY <1>1, StepsForward
<1>4. Len(flow.packets) <= MaxPackets /\ MaxPackets \in Nat
    BY <1>1, PacketAssumption DEF PacketAssumption, StampedFlow
<1>5. \A j \in 1 .. Len(flow.packets) : Frames[j].at = session.start * Micros + (j - 1) * StepMicros
    BY <1>1 DEF StampedFlow, Frames
<1>6. session.start * Micros \in Int
    BY <1>3
<1> DEFINE from == session.start * Micros
           n == k - 1
<1>7. n \in 0 .. MaxPackets /\ n \in Nat
    BY <1>2, <1>4
<1>8. Frames[k].at = from + n * StepMicros /\ n * StepMicros \in Nat /\ n * StepMicros <= SpanMicros
    <2>1. n * StepMicros \in Nat
        BY <1>3, <1>7
    <2> QED
        BY <1>2, <1>3, <1>5, <1>7, <2>1
<1>9. ASSUME k > 1 PROVE Frames[k - 1].at = from + (n - 1) * StepMicros /\ n * StepMicros = (n - 1) * StepMicros + StepMicros
                         /\ (n - 1) * StepMicros \in Nat
    <2>1. n \in 1 .. Len(flow.packets) /\ n - 1 \in Nat /\ (n - 1) + 1 = n
        BY <1>2, <1>9
    <2>2. \A a, b \in Nat : (a + 1) * b = a * b + b /\ a * b \in Nat
        OBVIOUS
    <2>3. ((n - 1) + 1) * StepMicros = (n - 1) * StepMicros + StepMicros /\ (n - 1) * StepMicros \in Nat
        BY <1>3, <2>1, <2>2
    <2> QED
        BY <1>5, <2>1, <2>3
<1> HIDE DEF n, from
<1>10. k > 1 => Frames[k - 1].at < Frames[k].at
    BY <1>3, <1>6, <1>8, <1>9 DEF from
<1>11. Frames[k].at >= from /\ Frames[k].at <= from + SpanMicros
    BY <1>3, <1>6, <1>8 DEF from
<1> QED
    BY <1>10, <1>11 DEF from

\* A packet file is a conversation somebody could have had: its streams have
\* neither hole nor overlap across the wrap of the sequence numbers, the row's
\* bytes are in it unless it is full, its stamps lie in order within the
\* session, and paddings and checksums come out (world/pcap.py).
THEOREM CapturesAreWhole == PacketSpec => []CaptureHolds
<1>1. PacketInit => CaptureInv
    BY CaptureStarts
<1>2. CaptureInv /\ [PacketNext]_packetVars => CaptureInv'
    <2> SUFFICES ASSUME CaptureInv, [PacketNext]_packetVars PROVE CaptureInv'
        OBVIOUS
    <2>1. CASE OpenTcp
        BY <2>1, OpenTcpKeeps
    <2>2. CASE ExchangeUdp
        BY <2>2, ExchangeUdpKeeps
    <2>3. CASE Talk
        BY <2>3, TalkKeeps
    <2>4. CASE EndTalk
        BY <2>4, EndTalkKeeps
    <2>5. CASE Fill
        BY <2>5, FillKeeps
    <2>6. CASE Finalize
        BY <2>6, FinalizeKeeps
    <2>7. CASE UNCHANGED packetVars
        <3>1. session' = session /\ flow' = flow /\ todo' = todo /\ stage' = stage
            BY <2>7 DEF packetVars
        <3> QED
            BY <3>1, CaptureNow DEF CaptureInv
    <2> QED
        BY <2>1, <2>2, <2>3, <2>4, <2>5, <2>6, <2>7 DEF PacketNext
<1>3. CaptureInv => CaptureHolds
    BY StreamFollows, FileIsComplete, StampsAreWithin, SumsOnWire DEF CaptureHolds
<1> QED
    BY <1>1, <1>2, <1>3, PTL DEF PacketSpec

-----------------------------------------------------------------------------
\* The parts without a type of their own.
Untyped == {"poller", "charts", "related", "filters", "blocks", "packets", "samples", "uploads"}

\* A step of the services is one of the part that moves.
LEMMA OnePartMoves ==
    ASSUME [ServicesNext]_servicesVars
    PROVE  /\ part' = part
           /\ part \in {"cases", "titles"} => [CasesNext]_casesVars
           /\ part = "exports" => [ExportsNext]_<<casesVars, exportVars>>
           /\ part = "hunts" => [HuntsNext]_huntVars
           /\ part = "imports" => [QueueNext]_importVars
           /\ part \in {"limits", "logins"} => [LimitsNext]_limitVars
           /\ part \in {"requests", "streams"} => [ObserverNext]_observerVars
           /\ part = "pager" => [PagerNext]_pagerVars
<1>1. CASE UNCHANGED servicesVars
    BY <1>1 DEF servicesVars, workspaceVars, captureVars, guardVars, importVars
<1>2. CASE UNCHANGED part /\ WorkspaceNext
    BY <1>2 DEF WorkspaceNext
<1>3. CASE UNCHANGED part /\ CaptureNext
    BY <1>3 DEF CaptureNext, importVars
<1>4. CASE UNCHANGED part /\ GuardNext
    BY <1>4 DEF GuardNext
<1>5. CASE UNCHANGED part /\ PagesNext
    BY <1>5 DEF PagesNext
<1>6. CASE UNCHANGED part /\ EvidenceNext
    BY <1>6 DEF EvidenceNext
<1> QED
    BY <1>1, <1>2, <1>3, <1>4, <1>5, <1>6 DEF ServicesNext

\* The part that moves does what it does on its own, from the same beginning.
LEMMA PartsAlone ==
    ServicesSpec => \/ [](part \in {"cases", "titles"}) /\ CasesSpec
                    \/ [](part = "exports") /\ ExportsSpec
                    \/ [](part = "hunts") /\ HuntsSpec
                    \/ [](part = "imports") /\ QueueSpec
                    \/ [](part \in {"limits", "logins"}) /\ LimitsSpec
                    \/ [](part \in {"requests", "streams"}) /\ ObserverSpec
                    \/ [](part = "pager") /\ PagerSpec
                    \/ [](part \in Untyped)
<1>1. ServicesInit =>
        /\ CasesInit /\ ExportsInit /\ HuntsInit /\ QueueInit /\ LimitsInit /\ ObserverInit /\ PagerInit
        /\ \/ part \in {"cases", "titles"} \/ part = "exports" \/ part = "hunts" \/ part = "imports"
           \/ part \in {"limits", "logins"} \/ part \in {"requests", "streams"} \/ part = "pager" \/ part \in Untyped
    BY DEF ServicesInit, ExportsInit, Parts, Untyped
<1>2. ASSUME [ServicesNext]_servicesVars
      PROVE  /\ part \in {"cases", "titles"} => (part \in {"cases", "titles"})'
             /\ part = "exports" => (part = "exports")'
             /\ part = "hunts" => (part = "hunts")'
             /\ part = "imports" => (part = "imports")'
             /\ part \in {"limits", "logins"} => (part \in {"limits", "logins"})'
             /\ part \in {"requests", "streams"} => (part \in {"requests", "streams"})'
             /\ part = "pager" => (part = "pager")'
             /\ part \in Untyped => (part \in Untyped)'
    BY <1>2, OnePartMoves DEF Untyped
<1> QED
    BY <1>1, <1>2, OnePartMoves, PTL
       DEF ServicesSpec, CasesSpec, ExportsSpec, HuntsSpec, QueueSpec, LimitsSpec, ObserverSpec, PagerSpec

\* Each service keeps its types whichever of them moves, for any contents of
\* all: titles free when taken, percentages that tell, deques in order, counters
\* that add up, pages that link.
THEOREM ServicesTyped == ServicesSpec => []ServicesTypeOK
<1>1. part \in {"cases", "titles"} /\ CasesTypeOK => ServicesTypeOK
    BY DEF ServicesTypeOK, Parts
<1>2. part = "exports" /\ ExportsTypeOK => ServicesTypeOK
    BY DEF ServicesTypeOK, Parts
<1>3. part = "hunts" /\ HuntsTypeOK /\ TabsAreTrue => ServicesTypeOK
    BY DEF ServicesTypeOK, Parts
<1>4. part = "imports" /\ QueueTypeOK => ServicesTypeOK
    BY DEF ServicesTypeOK, Parts
<1>5. part \in {"limits", "logins"} /\ LimitsTypeOK => ServicesTypeOK
    BY DEF ServicesTypeOK, Parts
<1>6. part \in {"requests", "streams"} /\ ObserverTypeOK => ServicesTypeOK
    BY DEF ServicesTypeOK, Parts
<1>7. part = "pager" /\ PagerTypeOK => ServicesTypeOK
    BY DEF ServicesTypeOK, Parts
<1>8. part \in Untyped => ServicesTypeOK
    BY DEF ServicesTypeOK, Parts, Untyped
<1> QED
    BY <1>1, <1>2, <1>3, <1>4, <1>5, <1>6, <1>7, <1>8, PartsAlone, CasesTyped, ExportsTyped, HuntsTyped, VersionsTell,
       QueueTyped, LimitsTyped, ObserverTyped, PagerTyped, PTL
=============================================================================
