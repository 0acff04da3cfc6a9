------------------------- MODULE WatchpointsProofs -------------------------
(***************************************************************************)
(* What is proved of the break/watchpoint array for every array and every  *)
(* access: editing keeps it sorted and free of duplicates, and on a sorted *)
(* array the scan that gives up early sees all that matters.               *)
(***************************************************************************)
EXTENDS Watchpoints, SequenceTheorems, WellFoundedInduction, TLAPS

\* The minimum of a set of naturals is in the set and below its elements.
LEMMA MinIsLeast ==
  ASSUME NEW S \in SUBSET Nat, S # {}
  PROVE  /\ Min(S) \in S
         /\ \A x \in S : Min(S) <= x
<1> DEFINE R == {p \in Nat \X Nat : p[1] < p[2]}
<1>1. IsWellFoundedOn(R, Nat)
  BY NatLessThanWellFounded DEF OpToRel
<1> HIDE DEF R
<1>2. PICK m \in S : \A x \in S : ~(<<x, m>> \in R)
  BY <1>1, WFMin
<1>3. ASSUME NEW x \in S
      PROVE  m <= x
  <2>1. <<x, m>> \notin R
    BY <1>2
  <2>2. ~(x < m)
    BY <2>1 DEF R
  <2> QED
    BY <2>2
<1>4. \E y \in S : \A x \in S : y =< x
  BY <1>3
<1> QED
  BY <1>4 DEF Min

\* Where the search for a watchpoint stops: everything before starts no higher
\* than the watchpoint and differs from it, and what stands there is the watchpoint
\* or starts higher.
LEMMA SearchStops ==
  ASSUME NEW wps \in Seq(Watchpoint), NEW key \in Watchpoint
  PROVE  LET i == findMatchingOrHigherWatchpoint(wps, key)
         IN  /\ i \in 1 .. Len(wps) + 1
             /\ \A j \in 1 .. i - 1 : /\ wps[j] # key
                                      /\ wps[j].startAddress <= key.startAddress
             /\ i <= Len(wps) => \/ wps[i] = key
                                 \/ key.startAddress < wps[i].startAddress
<1> DEFINE S == MatchingOrHigher(wps, key)
           i == findMatchingOrHigherWatchpoint(wps, key)
<1>1. /\ Len(wps) \in Nat
      /\ DOMAIN wps = 1 .. Len(wps)
      /\ S \in SUBSET (1 .. Len(wps))
  BY LenProperties DEF MatchingOrHigher
<1>2. \A j \in 1 .. Len(wps) : wps[j].startAddress \in Int
  <2>1. \A j \in 1 .. Len(wps) : wps[j] \in Watchpoint
    BY ElementOfSeq
  <2> QED
    BY <2>1, AddressLimitAssumption, SMTT(20) DEF Watchpoint, Address
<1>3. key.startAddress \in Int
  BY AddressLimitAssumption DEF Watchpoint, Address
<1>4. CASE S = {}
  <2>1. i = Len(wps) + 1
    BY <1>4 DEF findMatchingOrHigherWatchpoint
  <2>2. \A j \in 1 .. Len(wps) : /\ wps[j] # key
                                 /\ ~(key.startAddress < wps[j].startAddress)
    BY <1>4, <1>1 DEF MatchingOrHigher
  <2> QED
    BY <2>1, <2>2, <1>1, <1>2, <1>3
<1>5. CASE S # {}
  <2>1. i = Min(S)
    BY <1>5 DEF findMatchingOrHigherWatchpoint
  <2>2. S \in SUBSET Nat
    BY <1>1
  <2>3. i \in S /\ \A x \in S : i <= x
    BY <2>1, <2>2, <1>5, MinIsLeast
  <2>4. i \in 1 .. Len(wps) /\ (wps[i] = key \/ key.startAddress < wps[i].startAddress)
    BY <2>3, <1>1 DEF MatchingOrHigher
  <2>5. ASSUME NEW j \in 1 .. i - 1
        PROVE  wps[j] # key /\ wps[j].startAddress <= key.startAddress
    <3>1. j \in 1 .. Len(wps) /\ j \notin S
      BY <2>3, <2>4, <1>1
    <3>2. wps[j] # key /\ ~(key.startAddress < wps[j].startAddress)
      BY <3>1, <1>1 DEF MatchingOrHigher
    <3> QED
      BY <3>1, <3>2, <1>2, <1>3
  <2> QED
    BY <2>4, <2>5, <1>1
<1> QED
  BY <1>4, <1>5

\* The elements of an array with one element inserted.
LEMMA InsertAtElements ==
  ASSUME NEW S, NEW seq \in Seq(S), NEW e \in S, NEW i \in 1 .. Len(seq) + 1
  PROVE  /\ InsertAt(seq, i, e) \in Seq(S)
         /\ Len(InsertAt(seq, i, e)) = Len(seq) + 1
         /\ \A k \in 1 .. Len(seq) + 1 :
              InsertAt(seq, i, e)[k] = IF k < i THEN seq[k]
                                       ELSE IF k = i THEN e ELSE seq[k - 1]
<1> DEFINE front == SubSeq(seq, 1, i - 1)
           back  == SubSeq(seq, i, Len(seq))
<1>1. Len(seq) \in Nat /\ \A k \in 1 .. Len(seq) : seq[k] \in S
  BY LenProperties, ElementOfSeq
<1>2. /\ front \in Seq(S) /\ Len(front) = i - 1
      /\ \A k \in 1 .. i - 1 : front[k] = seq[k]
  <2>1. /\ front \in Seq(S) /\ Len(front) = IF 1 <= i - 1 THEN (i - 1) - 1 + 1 ELSE 0
        /\ \A k \in 1 .. (i - 1) - 1 + 1 : front[k] = seq[1 + k - 1]
    <3>1. 1 \in Int /\ i - 1 \in Int /\ \A k \in 1 .. i - 1 : seq[k] \in S
      BY <1>1
    <3> QED
      BY <3>1, SubSeqProperties
  <2> QED
    BY <2>1, <1>1
<1>3. /\ back \in Seq(S) /\ Len(back) = Len(seq) - i + 1
      /\ \A k \in 1 .. Len(seq) - i + 1 : back[k] = seq[i + k - 1]
  <2>1. /\ back \in Seq(S) /\ Len(back) = IF i <= Len(seq) THEN Len(seq) - i + 1 ELSE 0
        /\ \A k \in 1 .. Len(seq) - i + 1 : back[k] = seq[i + k - 1]
    <3>1. i \in Int /\ Len(seq) \in Int /\ \A k \in i .. Len(seq) : seq[k] \in S
      BY <1>1
    <3> QED
      BY <3>1, SubSeqProperties
  <2> QED
    BY <2>1, <1>1
<1> HIDE DEF front, back
<1>4. <<e>> \in Seq(S) /\ Len(<<e>>) = 1 /\ <<e>>[1] = e
  OBVIOUS
<1> DEFINE middle == front \o <<e>>
<1>5. /\ middle \in Seq(S) /\ Len(middle) = i
      /\ \A k \in 1 .. i : middle[k] = IF k < i THEN seq[k] ELSE e
  <2>1. /\ middle \in Seq(S) /\ Len(middle) = Len(front) + Len(<<e>>)
        /\ \A k \in 1 .. Len(front) + Len(<<e>>) :
             middle[k] = IF k <= Len(front) THEN front[k] ELSE <<e>>[k - Len(front)]
    BY <1>2, <1>4, ConcatProperties
  <2>2. Len(middle) = i
    BY <2>1, <1>1, <1>2, <1>4
  <2>3. ASSUME NEW k \in 1 .. i - 1
        PROVE  middle[k] = seq[k]
    BY <2>1, <1>1, <1>2, <1>4
  <2>4. middle[i] = e
    <3>1. middle[i] = <<e>>[i - Len(front)]
      BY <2>1, <1>1, <1>2, <1>4
    <3>2. i - Len(front) = 1
      BY <1>1, <1>2
    <3> QED
      BY <3>1, <3>2
  <2>5. \A k \in 1 .. i : k = i \/ (k \in 1 .. i - 1 /\ k < i)
    BY <1>1
  <2> QED
    BY <2>1, <2>2, <2>3, <2>4, <2>5
<1> HIDE DEF middle
<1>6. /\ middle \o back \in Seq(S) /\ Len(middle \o back) = Len(middle) + Len(back)
      /\ \A k \in 1 .. Len(middle) + Len(back) :
           (middle \o back)[k] = IF k <= Len(middle) THEN middle[k]
                                                     ELSE back[k - Len(middle)]
  BY <1>3, <1>5, ConcatProperties
<1>7. InsertAt(seq, i, e) = middle \o back
  BY DEF InsertAt, middle, front, back
<1>8. Len(middle) + Len(back) = Len(seq) + 1
  BY <1>1, <1>3, <1>5
<1>9. ASSUME NEW k \in 1 .. Len(seq) + 1
      PROVE  (middle \o back)[k] = IF k < i THEN seq[k]
                                   ELSE IF k = i THEN e ELSE seq[k - 1]
  <2>1. CASE k <= i
    BY <2>1, <1>1, <1>5, <1>6, <1>8
  <2>2. CASE k > i
    <3>1. k - i \in 1 .. Len(seq) - i + 1 /\ i + (k - i) - 1 = k - 1
      BY <2>2, <1>1
    <3>2. (middle \o back)[k] = back[k - i]
      BY <2>2, <1>1, <1>5, <1>6, <1>8
    <3> QED
      BY <3>1, <3>2, <2>2, <1>1, <1>3
  <2>3. k <= i \/ k > i
    BY <1>1
  <2> QED
    BY <2>1, <2>2, <2>3
<1> QED
  BY <1>6, <1>7, <1>8, <1>9

\* The elements of an array with one element removed.
LEMMA RemoveAtElements ==
  ASSUME NEW S, NEW seq \in Seq(S), NEW i \in 1 .. Len(seq)
  PROVE  /\ RemoveAt(seq, i) \in Seq(S)
         /\ Len(RemoveAt(seq, i)) = Len(seq) - 1
         /\ \A k \in 1 .. Len(seq) - 1 :
              RemoveAt(seq, i)[k] = IF k < i THEN seq[k] ELSE seq[k + 1]
<1> DEFINE front == SubSeq(seq, 1, i - 1)
           back  == SubSeq(seq, i + 1, Len(seq))
<1>1. Len(seq) \in Nat /\ \A k \in 1 .. Len(seq) : seq[k] \in S
  BY LenProperties, ElementOfSeq
<1>2. /\ front \in Seq(S) /\ Len(front) = i - 1
      /\ \A k \in 1 .. i - 1 : front[k] = seq[k]
  <2>1. /\ front \in Seq(S) /\ Len(front) = IF 1 <= i - 1 THEN (i - 1) - 1 + 1 ELSE 0
        /\ \A k \in 1 .. (i - 1) - 1 + 1 : front[k] = seq[1 + k - 1]
    <3>1. 1 \in Int /\ i - 1 \in Int /\ \A k \in 1 .. i - 1 : seq[k] \in S
      BY <1>1
    <3> QED
      BY <3>1, SubSeqProperties
  <2> QED
    BY <2>1, <1>1
<1>3. /\ back \in Seq(S) /\ Len(back) = Len(seq) - i
      /\ \A k \in 1 .. Len(seq) - i : back[k] = seq[i + k]
  <2>1. /\ back \in Seq(S)
        /\ Len(back) = IF i + 1 <= Len(seq) THEN Len(seq) - (i + 1) + 1 ELSE 0
        /\ \A k \in 1 .. Len(seq) - (i + 1) + 1 : back[k] = seq[(i + 1) + k - 1]
    <3>1. i + 1 \in Int /\ Len(seq) \in Int /\ \A k \in i + 1 .. Len(seq) : seq[k] \in S
      BY <1>1
    <3> QED
      BY <3>1, SubSeqProperties
  <2> QED
    BY <2>1, <1>1
<1> HIDE DEF front, back
<1>4. /\ front \o back \in Seq(S) /\ Len(front \o back) = Len(front) + Len(back)
      /\ \A k \in 1 .. Len(front) + Len(back) :
           (front \o back)[k] = IF k <= Len(front) THEN front[k] ELSE back[k - Len(front)]
  BY <1>2, <1>3, ConcatProperties
<1>5. RemoveAt(seq, i) = front \o back
  BY DEF RemoveAt, front, back
<1>6. Len(front) + Len(back) = Len(seq) - 1
  BY <1>1, <1>2, <1>3
<1>7. ASSUME NEW k \in 1 .. Len(seq) - 1
      PROVE  (front \o back)[k] = IF k < i THEN seq[k] ELSE seq[k + 1]
  <2>1. CASE k < i
    BY <2>1, <1>1, <1>2, <1>4, <1>6
  <2>2. CASE k >= i
    <3>1. k - (i - 1) \in 1 .. Len(seq) - i /\ i + (k - (i - 1)) = k + 1
      BY <2>2, <1>1
    <3>2. (front \o back)[k] = back[k - (i - 1)]
      BY <2>2, <1>1, <1>2, <1>4, <1>6
    <3> QED
      BY <3>1, <3>2, <2>2, <1>1, <1>3
  <2>3. k < i \/ k >= i
    BY <1>1
  <2> QED
    BY <2>1, <2>2, <2>3
<1> QED
  BY <1>4, <1>5, <1>6, <1>7

\* Typing facts that the arithmetic steps below share.
LEMMA WatchpointStarts ==
  ASSUME NEW wps \in Seq(Watchpoint)
  PROVE  /\ Len(wps) \in Nat
         /\ DOMAIN wps = 1 .. Len(wps)
         /\ \A k \in 1 .. Len(wps) : /\ wps[k] \in Watchpoint
                                    /\ wps[k].startAddress \in Int
<1>1. /\ Len(wps) \in Nat /\ DOMAIN wps = 1 .. Len(wps)
      /\ \A k \in 1 .. Len(wps) : wps[k] \in Watchpoint
  BY LenProperties, ElementOfSeq
<1>2. \A wp \in Watchpoint : wp.startAddress \in Int
  BY AddressLimitAssumption DEF Watchpoint, Address
<1> QED
  BY <1>1, <1>2

\* setWatchpoint keeps an array sorted and free of duplicates.  Freedom from
\* duplicates needs the order: the search stops at the first higher start, and only
\* in a sorted array can the watchpoint not stand behind it.
THEOREM SetKeepsOrder ==
  ASSUME NEW wps \in Seq(Watchpoint), NEW key \in Watchpoint,
         IsSortedByStart(wps), HasNoDuplicates(wps)
  PROVE  /\ setWatchpoint(wps, key) \in Seq(Watchpoint)
         /\ IsSortedByStart(setWatchpoint(wps, key))
         /\ HasNoDuplicates(setWatchpoint(wps, key))
<1> DEFINE i == findMatchingOrHigherWatchpoint(wps, key)
           new == InsertAt(wps, i, key)
           n == Len(wps)
<1>1. /\ n \in Nat /\ DOMAIN wps = 1 .. n
      /\ \A k \in 1 .. n : wps[k] \in Watchpoint /\ wps[k].startAddress \in Int
  BY WatchpointStarts
<1>2. key.startAddress \in Int
  BY AddressLimitAssumption DEF Watchpoint, Address
<1>3. /\ i \in 1 .. n + 1
      /\ \A j \in 1 .. i - 1 : wps[j] # key /\ wps[j].startAddress <= key.startAddress
      /\ i <= n => wps[i] = key \/ key.startAddress < wps[i].startAddress
  BY SearchStops
<1> HIDE DEF i
<1>4. CASE IsFoundAt(wps, key, i)
  <2>1. setWatchpoint(wps, key) = wps
    BY <1>4 DEF setWatchpoint, i
  <2> QED
    BY <2>1
<1>5. CASE ~IsFoundAt(wps, key, i)
  <2>1. setWatchpoint(wps, key) = new
    BY <1>5 DEF setWatchpoint, i
  <2>2. /\ new \in Seq(Watchpoint) /\ Len(new) = n + 1
        /\ \A k \in 1 .. n + 1 :
             new[k] = IF k < i THEN wps[k] ELSE IF k = i THEN key ELSE wps[k - 1]
    BY <1>3, InsertAtElements
  <2>3. DOMAIN new = 1 .. n + 1
    BY <2>2, LenProperties
  <2> HIDE DEF new
  <2>4. \A k \in i .. n : key.startAddress < wps[k].startAddress
    <3>1. SUFFICES ASSUME NEW k \in i .. n
                   PROVE  key.startAddress < wps[k].startAddress
      OBVIOUS
    <3>2. i \in 1 .. n /\ k \in 1 .. n
      BY <1>1, <1>3
    <3>3. wps[i] # key
      BY <1>1, <1>5, <3>2 DEF IsFoundAt
    <3>4. key.startAddress < wps[i].startAddress
      BY <1>3, <3>2, <3>3
    <3>5. wps[i].startAddress <= wps[k].startAddress
      <4>1. CASE k = i
        BY <4>1, <1>1, <3>2
      <4>2. CASE i < k
        BY <4>2, <1>1, <3>2 DEF IsSortedByStart
      <4> QED
        BY <4>1, <4>2, <3>2
    <3> QED
      BY <3>4, <3>5, <3>2, <1>1, <1>2
  <2>5. \A k \in 1 .. n : wps[k] # key
    <3>1. \A k \in i .. n : wps[k] # key
      BY <2>4, <1>1, <1>2, <1>3
    <3> QED
      BY <3>1, <1>3, <1>1
  <2>6. IsSortedByStart(new)
    <3>1. SUFFICES ASSUME NEW j \in 1 .. n + 1, NEW k \in 1 .. n + 1, j < k
                   PROVE  new[j].startAddress <= new[k].startAddress
      BY <2>3 DEF IsSortedByStart
    <3>2. CASE k < i
      <4>1. new[j] = wps[j] /\ new[k] = wps[k] /\ j \in 1 .. n /\ k \in 1 .. n
        BY <3>1, <3>2, <2>2, <1>1, <1>3
      <4> QED
        BY <4>1, <3>1, <1>1 DEF IsSortedByStart
    <3>3. CASE k = i
      <4>1. new[j] = wps[j] /\ new[k] = key /\ j \in 1 .. i - 1
        BY <3>1, <3>3, <2>2, <1>1, <1>3
      <4> QED
        BY <4>1, <1>3
    <3>4. CASE j = i
      <4>1. new[j] = key /\ new[k] = wps[k - 1] /\ k - 1 \in i .. n /\ k - 1 \in 1 .. n
        BY <3>1, <3>4, <2>2, <1>1, <1>3
      <4>2. key.startAddress < wps[k - 1].startAddress
        BY <4>1, <2>4
      <4> QED
        BY <4>1, <4>2, <1>1, <1>2
    <3>5. CASE j < i /\ i < k
      <4>1. /\ new[j] = wps[j] /\ new[k] = wps[k - 1]
            /\ j \in 1 .. i - 1 /\ j \in 1 .. n /\ k - 1 \in i .. n /\ k - 1 \in 1 .. n
        BY <3>1, <3>5, <2>2, <1>1, <1>3
      <4>2. wps[j].startAddress <= key.startAddress
        BY <4>1, <1>3
      <4>3. key.startAddress < wps[k - 1].startAddress
        BY <4>1, <2>4
      <4> QED
        BY <4>1, <4>2, <4>3, <1>1, <1>2
    <3>6. CASE i < j
      <4>1. /\ new[j] = wps[j - 1] /\ new[k] = wps[k - 1]
            /\ j - 1 \in 1 .. n /\ k - 1 \in 1 .. n /\ j - 1 < k - 1
        BY <3>1, <3>6, <2>2, <1>1, <1>3
      <4> QED
        BY <4>1, <1>1 DEF IsSortedByStart
    <3>7. k < i \/ k = i \/ j = i \/ (j < i /\ i < k) \/ i < j
      BY <3>1, <1>1, <1>3
    <3> QED
      BY <3>2, <3>3, <3>4, <3>5, <3>6, <3>7
  <2>7. HasNoDuplicates(new)
    <3>1. SUFFICES ASSUME NEW j \in 1 .. n + 1, NEW k \in 1 .. n + 1, new[j] = new[k]
                   PROVE  j = k
      BY <2>3 DEF HasNoDuplicates
    <3> DEFINE old(m) == IF m < i THEN m ELSE m - 1
    <3>2. \A m \in 1 .. n + 1 : m # i => new[m] = wps[old(m)] /\ old(m) \in 1 .. n
      BY <2>2, <1>1, <1>3
    <3>3. new[i] = key
      BY <2>2, <1>1, <1>3
    <3>4. CASE j = i
      <4>1. k = i
        BY <3>1, <3>2, <3>3, <3>4, <2>5
      <4> QED
        BY <4>1, <3>4
    <3>5. CASE k = i
      <4>1. j = i
        BY <3>1, <3>2, <3>3, <3>5, <2>5
      <4> QED
        BY <4>1, <3>5
    <3>6. CASE j # i /\ k # i
      <4>1. /\ wps[old(j)] = wps[old(k)] /\ old(j) \in 1 .. n /\ old(k) \in 1 .. n
        BY <3>1, <3>2, <3>6
      <4>2. old(j) = old(k)
        BY <4>1, <1>1 DEF HasNoDuplicates
      <4> QED
        BY <4>2, <3>6, <1>1, <1>3
    <3> QED
      BY <3>4, <3>5, <3>6
  <2> QED
    BY <2>1, <2>2, <2>6, <2>7
<1> QED
  BY <1>4, <1>5

\* clearWatchpoint keeps an array sorted and free of duplicates.
THEOREM ClearKeepsOrder ==
  ASSUME NEW wps \in Seq(Watchpoint), NEW key \in Watchpoint,
         IsSortedByStart(wps), HasNoDuplicates(wps)
  PROVE  /\ clearWatchpoint(wps, key) \in Seq(Watchpoint)
         /\ IsSortedByStart(clearWatchpoint(wps, key))
         /\ HasNoDuplicates(clearWatchpoint(wps, key))
<1> DEFINE i == findMatchingOrHigherWatchpoint(wps, key)
           new == RemoveAt(wps, i)
           n == Len(wps)
           old(m) == IF m < i THEN m ELSE m + 1
<1>1. /\ n \in Nat /\ DOMAIN wps = 1 .. n
      /\ \A k \in 1 .. n : wps[k] \in Watchpoint /\ wps[k].startAddress \in Int
  BY WatchpointStarts
<1> HIDE DEF i
<1>2. CASE ~IsFoundAt(wps, key, i)
  <2>1. clearWatchpoint(wps, key) = wps
    BY <1>2 DEF clearWatchpoint, i
  <2> QED
    BY <2>1
<1>3. CASE IsFoundAt(wps, key, i)
  <2>1. clearWatchpoint(wps, key) = new /\ i \in 1 .. n
    BY <1>3, <1>1 DEF clearWatchpoint, IsFoundAt, i
  <2>2. /\ new \in Seq(Watchpoint) /\ Len(new) = n - 1
        /\ \A k \in 1 .. n - 1 : new[k] = IF k < i THEN wps[k] ELSE wps[k + 1]
    BY <2>1, RemoveAtElements
  <2>3. DOMAIN new = 1 .. n - 1
    BY <2>2, LenProperties
  <2> HIDE DEF new
  <2>4. \A k \in 1 .. n - 1 : new[k] = wps[old(k)] /\ old(k) \in 1 .. n
    BY <2>1, <2>2, <1>1
  <2>5. \A j, k \in 1 .. n - 1 : j < k <=> old(j) < old(k)
    BY <2>1, <1>1
  <2> HIDE DEF old
  <2>6. IsSortedByStart(new)
    BY <2>3, <2>4, <2>5, <1>1 DEF IsSortedByStart
  <2>7. HasNoDuplicates(new)
    <3>1. SUFFICES ASSUME NEW j \in 1 .. n - 1, NEW k \in 1 .. n - 1, new[j] = new[k]
                   PROVE  j = k
      BY <2>3 DEF HasNoDuplicates
    <3>2. old(j) = old(k)
      BY <3>1, <2>4, <1>1 DEF HasNoDuplicates
    <3>3. ~(old(j) < old(k)) /\ ~(old(k) < old(j))
      BY <3>2, <2>4, <1>1
    <3> QED
      BY <3>3, <2>5, <1>1
  <2> QED
    BY <2>1, <2>2, <2>6, <2>7
<1> QED
  BY <1>2, <1>3

\* On a sorted array the scan of checkForBreakWatchPoint may end at the first
\* relevant watchpoint that starts above the access: it trips exactly if some
\* breakpoint of the array matches, and otherwise counts every match.
THEOREM ScanLosesNothing ==
  ASSUME NEW wps \in Seq(Watchpoint), IsSortedByStart(wps),
         NEW address \in Int, NEW size, NEW type
  PROVE  LET scan == checkForBreakWatchPoint(wps, address, size, type)
         IN  /\ scan.tripped <=> \E k \in DOMAIN wps : Trips(wps[k], address, size, type)
             /\ ~scan.tripped =>
                  scan.counted = {k \in DOMAIN wps : Counts(wps[k], address, size, type)}
<1> DEFINE n        == Len(wps)
           S        == {k \in DOMAIN wps : StopsScan(wps[k], address, size, type)}
           stop     == ScanStop(wps, address, size, type)
           counts(k) == Counts(wps[k], address, size, type)
           trips(k)  == Trips(wps[k], address, size, type)
           scan     == checkForBreakWatchPoint(wps, address, size, type)
<1>1. /\ n \in Nat /\ DOMAIN wps = 1 .. n
      /\ \A k \in 1 .. n : wps[k] \in Watchpoint /\ wps[k].startAddress \in Int
  BY WatchpointStarts
<1>2. /\ scan.tripped = (stop \in DOMAIN wps /\ trips(stop))
      /\ scan.counted = {k \in 1 .. stop - 1 : counts(k)}
  BY DEF checkForBreakWatchPoint
<1> HIDE DEF scan
<1>3. stop = IF S = {} THEN n + 1 ELSE Min(S)
  BY DEF ScanStop
<1> HIDE DEF stop
<1>4. CASE S = {}
  <2>1. stop = n + 1
    BY <1>3, <1>4
  <2>2. \A k \in 1 .. n : ~trips(k)
    BY <1>1, <1>4 DEF StopsScan
  <2>3. stop \notin DOMAIN wps /\ 1 .. stop - 1 = DOMAIN wps
    BY <2>1, <1>1
  <2> HIDE DEF counts, trips
  <2>4. ~scan.tripped /\ scan.counted = {k \in DOMAIN wps : counts(k)}
    BY <1>2, <2>3
  <2> QED
    BY <2>2, <2>4, <1>1 DEF counts, trips, scan
<1>5. CASE S # {}
  <2>1. S \in SUBSET Nat
    BY <1>1
  <2>2. stop \in S /\ \A k \in S : stop <= k
    BY <2>1, <1>3, <1>5, MinIsLeast
  <2>3. /\ stop \in DOMAIN wps /\ stop \in 1 .. n
        /\ trips(stop) \/ EndsScan(wps[stop], address, size, type)
    BY <2>2, <1>1 DEF StopsScan
  <2>4. CASE trips(stop)
    <3>1. scan.tripped
      BY <2>3, <2>4, <1>2
    <3> QED
      BY <3>1, <2>3, <2>4 DEF scan
  <2>5. CASE ~trips(stop)
    <3>1. ~scan.tripped
      BY <2>5, <1>2
    <3>2. wps[stop].startAddress > address
      BY <2>3, <2>5 DEF EndsScan
    <3>3. ASSUME NEW k \in 1 .. n, k >= stop
          PROVE  ~trips(k) /\ ~counts(k)
      <4>1. wps[stop].startAddress <= wps[k].startAddress
        <5>1. CASE k = stop
          BY <5>1, <1>1, <2>3
        <5>2. CASE stop < k
          BY <5>2, <1>1, <2>3 DEF IsSortedByStart
        <5> QED
          BY <5>1, <5>2, <3>3, <2>3
      <4>2. ~(address >= wps[k].startAddress)
        BY <4>1, <3>2, <1>1, <2>3
      <4> QED
        BY <4>2 DEF Trips, Counts, accessInRange
    <3>4. ASSUME NEW k \in 1 .. n, k < stop
          PROVE  ~trips(k)
      <4>1. k \notin S
        BY <3>4, <2>2, <2>3
      <4> QED
        BY <4>1, <1>1 DEF StopsScan
    <3> HIDE DEF trips, counts
    <3>5. \A k \in 1 .. n : ~trips(k)
      BY <3>3, <3>4, <2>3
    <3>6. \A k : k \in 1 .. stop - 1 /\ counts(k) <=> k \in DOMAIN wps /\ counts(k)
      BY <3>3, <2>3, <1>1
    <3>7. scan.counted = {k \in DOMAIN wps : counts(k)}
      BY <3>6, <1>2
    <3> QED
      BY <3>1, <3>5, <3>7, <1>1 DEF trips, counts, scan
  <2> QED
    BY <2>4, <2>5
<1> QED
  BY <1>4, <1>5
=============================================================================
