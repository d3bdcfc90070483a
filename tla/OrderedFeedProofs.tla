-------------------------- MODULE OrderedFeedProofs --------------------------
(***************************************************************************)
(* Proofs about OrderedFeed, for any readers and any bound on the numbers. *)
(* The invariant is that what a reader received is increasing and lies at  *)
(* or below the number it has reached, so that a delivery, which is above  *)
(* it, extends the sequence.                                               *)
(***************************************************************************)
EXTENDS OrderedFeed, TLAPS

\* The variables have their types.
FeedTypeOK ==
    /\ seen \in [Readers -> Nat]
    /\ got \in [Readers -> Seq(Nat)]

\* Nothing received is beyond the number reached.
Below == \A r \in Readers : \A i \in DOMAIN got[r] : got[r][i] <= seen[r]

FeedInv == FeedTypeOK /\ Below /\ InOrderOnce

\* Appending n to an increasing sequence of numbers below n gives an
\* increasing sequence of numbers up to n.
LEMMA AppendAbove ==
    ASSUME NEW q \in Seq(Nat), NEW n \in Nat,
           \A i \in DOMAIN q : q[i] < n,
           \A i, j \in DOMAIN q : i < j => q[i] < q[j]
    PROVE  /\ Append(q, n) \in Seq(Nat)
           /\ \A i \in DOMAIN Append(q, n) : Append(q, n)[i] <= n
           /\ \A i, j \in DOMAIN Append(q, n) :
                 i < j => Append(q, n)[i] < Append(q, n)[j]
<1> DEFINE a == Append(q, n)
<1>1. /\ a \in Seq(Nat) /\ DOMAIN a = 1 .. Len(q) + 1 /\ DOMAIN q = 1 .. Len(q)
      /\ Len(q) \in Nat /\ a[Len(q) + 1] = n /\ \A i \in 1 .. Len(q) : a[i] = q[i]
  OBVIOUS
<1>2. \A i \in DOMAIN a : a[i] <= n
  <2> SUFFICES ASSUME NEW i \in DOMAIN a PROVE a[i] <= n
    OBVIOUS
  <2>1. CASE i = Len(q) + 1
    BY <1>1, <2>1
  <2>2. CASE i \in 1 .. Len(q)
    <3>1. q[i] \in Nat /\ q[i] < n
      BY <1>1, <2>2
    <3> QED
      BY <3>1, <1>1, <2>2
  <2> QED
    BY <1>1, <2>1, <2>2
<1>3. ASSUME NEW i \in DOMAIN a, NEW j \in DOMAIN a, i < j
      PROVE  a[i] < a[j]
  <2>1. i \in 1 .. Len(q)
    BY <1>1, <1>3
  <2>2. a[i] = q[i] /\ q[i] < n
    BY <2>1, <1>1
  <2>3. CASE j = Len(q) + 1
    BY <2>2, <2>3, <1>1
  <2>4. CASE j \in 1 .. Len(q)
    <3>1. a[j] = q[j] /\ q[i] < q[j]
      BY <2>1, <2>4, <1>1, <1>3
    <3> QED
      BY <3>1, <2>2
  <2> QED
    BY <1>1, <2>3, <2>4
<1> QED
  BY <1>1, <1>2, <1>3

\* The invariant holds at the start.
LEMMA InitInv == FeedInit => FeedInv
BY DEF FeedInit, FeedInv, FeedTypeOK, Below, InOrderOnce

\* Every step keeps it, reader by reader.
LEMMA StepInv == FeedInv /\ [FeedNext]_feedVars => FeedInv'
<1> SUFFICES ASSUME FeedInv, [FeedNext]_feedVars PROVE FeedInv'
  OBVIOUS
<1> USE DEF FeedInv
<1>1. CASE UNCHANGED feedVars
  BY <1>1 DEF feedVars, FeedTypeOK, Below, InOrderOnce
<1>2. CASE FeedNext
  <2>1. FeedTypeOK'
    <3>1. seen' \in [Readers -> 0 .. MaxSeq] /\ got' \in [Readers -> Seq(1 .. MaxSeq)]
      BY <1>2 DEF FeedNext
    <3>2. ASSUME NEW r \in Readers PROVE seen'[r] \in Nat /\ got'[r] \in Seq(Nat)
      <4>1. CASE Stay(r)
        BY <4>1 DEF Stay, FeedTypeOK
      <4>2. ASSUME NEW n \in 1 .. MaxSeq, Deliver(r, n) PROVE seen'[r] \in Nat /\ got'[r] \in Seq(Nat)
        BY <4>2 DEF Deliver, FeedTypeOK
      <4>3. ASSUME NEW n \in 1 .. MaxSeq, Rebase(r, n) PROVE seen'[r] \in Nat /\ got'[r] \in Seq(Nat)
        BY <4>3 DEF Rebase, FeedTypeOK
      <4> QED
        BY <1>2, <4>1, <4>2, <4>3 DEF FeedNext
    <3> QED
      BY <3>1, <3>2 DEF FeedTypeOK
  <2>2. ASSUME NEW r \in Readers
        PROVE  /\ \A i \in DOMAIN got'[r] : got'[r][i] <= seen'[r]
               /\ \A i, j \in DOMAIN got'[r] : i < j => got'[r][i] < got'[r][j]
    <3> DEFINE Good == /\ \A i \in DOMAIN got'[r] : got'[r][i] <= seen'[r]
                       /\ \A i, j \in DOMAIN got'[r] : i < j => got'[r][i] < got'[r][j]
    <3>0. /\ got[r] \in Seq(Nat) /\ seen[r] \in Nat
          /\ \A i \in DOMAIN got[r] : got[r][i] \in Nat /\ got[r][i] <= seen[r]
          /\ \A i, j \in DOMAIN got[r] : i < j => got[r][i] < got[r][j]
      BY DEF FeedTypeOK, Below, InOrderOnce
    <3>1. CASE Stay(r)
      BY <3>0, <3>1 DEF Stay
    <3>2. ASSUME NEW n \in 1 .. MaxSeq, Deliver(r, n) PROVE Good
      <4>1. n \in Nat /\ seen'[r] = n /\ got'[r] = Append(got[r], n) /\ n > seen[r]
        BY <3>2 DEF Deliver
      <4>2. \A i \in DOMAIN got[r] : got[r][i] < n
        BY <3>0, <4>1
      <4> HIDE DEF Good
      <4> QED
        BY <3>0, <4>1, <4>2, AppendAbove DEF Good
    <3>3. ASSUME NEW n \in 1 .. MaxSeq, Rebase(r, n) PROVE Good
      <4>1. n \in Nat /\ seen'[r] = n /\ got'[r] = got[r] /\ n > seen[r]
        BY <3>3 DEF Rebase
      <4>2. \A i \in DOMAIN got[r] : got[r][i] <= n
        BY <3>0, <4>1
      <4> QED
        BY <3>0, <4>1, <4>2
    <3> HIDE DEF Good
    <3>4. Good
      BY <1>2, <3>1, <3>2, <3>3 DEF FeedNext, Good
    <3> QED
      BY <3>4 DEF Good
  <2> QED
    BY <2>1, <2>2 DEF Below, InOrderOnce
<1> QED
  BY <1>1, <1>2

\* No detection reaches a reader twice or after a later one, over all its
\* connections, whatever is lost and however often it is told to begin again.
THEOREM FeedIsOrdered == FeedSpec => []InOrderOnce
<1>1. FeedInv => InOrderOnce
  BY DEF FeedInv
<1> QED
  BY InitInv, StepInv, <1>1, PTL DEF FeedSpec
=============================================================================
